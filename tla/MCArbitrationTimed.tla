-------------------------- MODULE MCArbitrationTimed --------------------------
(* One task on each host, or two on the x86 CPU, and settings in ticks.      *)
EXTENDS ArbitrationTimed

CONSTANTS x1, x2, b1

Tasks3 == {x1, x2, b1}
Tasks2 == {x1, b1}
HostOf3 == [t \in Tasks3 |-> IF t \in {x1, x2} THEN X86 ELSE BMC]
HostOf2 == [t \in Tasks2 |-> IF t = x1 THEN X86 ELSE BMC]

\* Settings with grant above retry and a timeout of at least WaitBound, and
\* settings too small for the bus use, so that waits expire.
Sized == [timeouts |-> {14}, grants |-> {4, 5}, retries |-> {1, 2}]
Undersized == [timeouts |-> {2, 3}, grants |-> {1, 2}, retries |-> {2}]
BothPolicies == {Sized, Undersized}

=============================================================================
