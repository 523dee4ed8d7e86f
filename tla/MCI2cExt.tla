------------------------------ MODULE MCI2cExt ------------------------------
EXTENDS I2cExt

CONSTANT u1

W(n, last) == [read |-> FALSE, chunks |-> n, last |-> last]
R(n, last) == [read |-> TRUE, chunks |-> n, last |-> last]

\* A long write, a long read, and a register read: write, then read.
MixedTransfers == {<<W(2, 1)>>, <<R(2, 1)>>, <<W(1, 1), R(1, 2)>>}
\* A read of up to 256 bytes, then one of more.
LongRead == {<<R(1, 1), R(1, 2)>>}

=============================================================================
