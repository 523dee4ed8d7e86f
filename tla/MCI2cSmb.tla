------------------------------ MODULE MCI2cSmb ------------------------------
EXTENDS I2cSmb

CONSTANTS u1, u2

Write(n, sel) == [num |-> 1, tx |-> n, rx |-> 0, recv |-> FALSE, sel |-> sel]
WriteRead(p, n, recv, sel) == [num |-> 2, tx |-> p, rx |-> n, recv |-> recv, sel |-> sel]
\* A short write, a long one, a block read that is too long, and one that is not.
SomeMsgs == {Write(1, 0), Write(2, 1), WriteRead(1, 1, TRUE, 0), WriteRead(1, 2, TRUE, 0)}
=============================================================================
