---------------------------- MODULE MCBlockFiles ----------------------------
(* The control file's commands reduced to two of a kind with one kept bit;  *)
(* restart is preset, halt is not; the probe sets a bit of its own.         *)
EXTENDS BlockFiles, TLC

CONSTANTS a1, a2, off, cycle, warm, restart, halt

Commands == {off, cycle}
Modes == {restart, halt}

Acts(m, v) == [reg |-> "cfg7", mask |-> m, value |-> v]
Absent == [reg |-> NotPresent, mask |-> Commands \cup Keep, value |-> {}]
Presets == [m \in Modes |-> IF m = restart THEN Acts(Commands, {cycle}) ELSE Absent]
Probed == Acts({off}, {off})

\* For restart: one command in the whole register, one beside the others.
Stored ==
    [m \in Modes |-> IF m = restart THEN {Acts({}, {off}), Acts({off}, {off})} ELSE {}]

Administrators == Permutations(Admin)

\* Flip one half; set the other.
ScratchOps == {[h \in Half |-> IF h = 1 THEN "flip" ELSE "keep"],
               [h \in Half |-> IF h = 1 THEN "keep" ELSE "set"]}
=============================================================================
