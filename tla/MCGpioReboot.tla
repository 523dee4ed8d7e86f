---------------------------- MODULE MCGpioReboot ----------------------------
EXTENDS GpioReboot, TLC

CONSTANTS b1, b2

Blocks == {b1, b2}
Symmetry == Permutations(Blocks)

\* No parameter, a forced cold reboot, and one out of range.
SomeParams == {UNSET, COLD_REBOOT, 7}

=============================================================================
