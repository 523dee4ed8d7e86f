---------------------------- MODULE MCBmcRegmap ----------------------------
EXTENDS BmcRegmap

CONSTANTS a, b, c, m1, m2, r1, r2

\* Two tasks share register r1 of one cell; the third uses another cell.
Users == {a, b, c}
Maps == {m1, m2}
MapOf3 == [u \in Users |-> IF u = c THEN m2 ELSE m1]
RegOf3 == [u \in Users |-> IF u = c THEN r2 ELSE r1]

=============================================================================
