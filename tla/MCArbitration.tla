---------------------------- MODULE MCArbitration ----------------------------
(* Two hosts; tasks x1, x2 on the x86 CPU and b1 on the BMC.  The runs     *)
(* choose the tasks and the budgets.                                       *)
EXTENDS Arbitration

CONSTANTS x1, x2, b1

Tasks3 == {x1, x2, b1}
Tasks2 == {x1, b1}

HostOf3 == [t \in Tasks3 |-> IF t \in {x1, x2} THEN X86 ELSE BMC]
HostOf2 == [t \in Tasks2 |-> IF t = x1 THEN X86 ELSE BMC]
=============================================================================
