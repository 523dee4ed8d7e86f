------------------------------ MODULE MCGpioPin ------------------------------
(* Two tasks: a uses the pin as an output or input, b as an interrupt, and *)
(* either may write the sysfs files.                                       *)
EXTENDS GpioPin

CONSTANTS a, b

SomeTriggers == {{"rising"}}

SomeConfigs ==
    {[dir |-> "input"], [dir |-> "output", outState |-> "high"],
     [intType |-> "positive_edge", intEnb |-> "enable"]}

\* An interrupt left on by the boot before, and "out,enable,high".
Start(dir, drive, enb, state, type) ==
    [f \in Field |->
        IF f = "dir" THEN dir ELSE IF f = "disOutput" THEN drive
        ELSE IF f = "intEnb" THEN enb ELSE IF f = "outState" THEN state ELSE type]

SomeStarts ==
    {Start("input", "tristate", "enable", "low", "positive_edge"),
     Start("output", "enable", "disable", "high", "disabled")}

=============================================================================
