----------------------------- MODULE MCPowerSeq -----------------------------
EXTENDS PowerSeq

\* Named, unnamed and hidden rails in both registers, and no names at all.
SomeNames == {<<"a", "", None, "b">>, <<None, None, None, None>>}
SomeEntries == {None, [active |-> FALSE, override |-> FALSE], [active |-> TRUE, override |-> TRUE]}
=============================================================================
