------------------------------ MODULE GpioReboot ------------------------------
(***************************************************************************)
(* Which reboots initialise GPIO pins, cisco-fpga-gpio-main.c.             *)
(*                                                                         *)
(* User space leaves the type of the coming reboot in a scratch register   *)
(* of a GPIO block, which survives the reboot.  The probe of a block takes *)
(* it into the module's m_reboot_type, unless that is set already, clears  *)
(* the scratch, and writes its pins' initial state only if the type is     *)
(* COLD_REBOOT.  m_reboot_type belongs to all blocks and has no lock, and  *)
(* blocks of different parents may be probed at the same time: it is read  *)
(* and written here one access at a time.                                  *)
(***************************************************************************)
EXTENDS Naturals

CONSTANTS
    Block,        \* GPIO blocks with a gpio-descriptors property
    Params,       \* values given to the module parameter m_reboot_type
    MaxLoads,     \* bound on loads of the module in one boot
    FaultBudget   \* bound on failing register accesses

\* enum reboot_type_e
UNSET == 0
COLD_REBOOT == 1
FAST_REBOOT == 2
WARM_REBOOT == 3
MAX_REBOOT_TYPE == 4

Type == UNSET..WARM_REBOOT

ASSUME ParamsAssumption == Params \subseteq 0..255 /\ UNSET \in Params
ASSUME BoundsAssumption == MaxLoads \in Nat /\ FaultBudget \in Nat

VARIABLES
    loaded,         \* is the module in the kernel?
    m_reboot_type,  \* the module's variable, a parameter to begin with
    sw1,            \* reboot type bits of each block's scratch register
    pc,             \* where the probe of each block is
    \* history
    param,          \* the parameter of this load
    asked,          \* sw1 when this boot began
    wanted,         \* requested since the block was probed
    pins,           \* what the block's last probe did to its pins
    overlapped,     \* were two blocks of this load probed at the same time?
    loads, faults

history == <<param, asked, wanted, pins, overlapped>>
vars == <<loaded, m_reboot_type, sw1, pc, history, loads, faults>>

PC == {"absent", "range", "reset", "check", "read", "default", "cold", "clear",
       "announce", "pins", "bound"}

Ok   == UNCHANGED faults
Fail == faults < FaultBudget /\ faults' = faults + 1

Goto(b, from, to) == pc[b] = from /\ pc' = [pc EXCEPT ![b] = to]

Probing == {b \in Block : pc[b] \notin {"absent", "bound"}}
-----------------------------------------------------------------------------
\* Faulty variants of the actions below; no specification uses them.

\* Every block reads its own scratch.
Check_Always(b) ==
    /\ Goto(b, "check", "read")
    /\ UNCHANGED <<loaded, m_reboot_type, sw1, history, loads, faults>>

\* No request is taken for no reboot at all.
Default_None(b) ==
    /\ Goto(b, "default", "clear")
    /\ UNCHANGED <<loaded, m_reboot_type, sw1, history, loads, faults>>

\* The scratch is not cleared.
ClearScratch_None(b) ==
    /\ Goto(b, "clear", "announce")
    /\ UNCHANGED <<loaded, m_reboot_type, sw1, history, loads, faults>>

\* The scratch is cleared before it is read.
ReadType_Cleared(b) ==
    /\ Ok /\ Goto(b, "read", "default")
    /\ m_reboot_type' = UNSET
    /\ sw1' = [sw1 EXCEPT ![b] = UNSET]
    /\ UNCHANGED <<loaded, history, loads>>

-----------------------------------------------------------------------------
Init ==
    /\ loaded = FALSE
    /\ m_reboot_type = UNSET
    /\ sw1 = [b \in Block |-> UNSET]
    /\ pc = [b \in Block |-> "absent"]
    /\ param = UNSET
    /\ asked = [b \in Block |-> UNSET]
    /\ wanted = [b \in Block |-> UNSET]
    /\ pins = [b \in Block |-> {}]
    /\ overlapped = FALSE
    /\ loads = 0 /\ faults = 0

\* The module is loaded, with or without a parameter.
Load ==
    /\ ~loaded /\ loads < MaxLoads
    /\ loaded' = TRUE
    /\ loads' = loads + 1
    /\ param' \in Params
    /\ m_reboot_type' = param'
    /\ overlapped' = FALSE
    /\ pins' = [b \in Block |-> {}]
    /\ UNCHANGED <<sw1, pc, asked, wanted, faults>>

\* It is unloaded: its blocks are unbound.
Unload ==
    /\ loaded /\ Probing = {}
    /\ loaded' = FALSE
    /\ pc' = [b \in Block |-> "absent"]
    /\ UNCHANGED <<m_reboot_type, sw1, history, loads, faults>>

\* Unbind one block.
Unbind(b) ==
    /\ Goto(b, "bound", "absent")
    /\ UNCHANGED <<loaded, m_reboot_type, sw1, history, loads, faults>>

\* scratch_store on a bound block: the type of the next reboot.
Request(b, t) ==
    /\ pc[b] = "bound"
    /\ sw1' = [sw1 EXCEPT ![b] = t]
    /\ wanted' = [wanted EXCEPT ![b] = t]
    /\ UNCHANGED <<loaded, m_reboot_type, pc, param, asked, pins, overlapped, loads,
                   faults>>

\* The host reboots, at any time; only the scratch registers remain.
Reboot ==
    /\ loaded' = FALSE /\ loads' = 0
    /\ m_reboot_type' = UNSET /\ param' = UNSET
    /\ pc' = [b \in Block |-> "absent"]
    /\ asked' = sw1
    /\ pins' = [b \in Block |-> {}]
    /\ overlapped' = FALSE
    /\ UNCHANGED <<sw1, wanted, faults>>

\* _gpio_probe, from its first look at m_reboot_type.
Probe(b) ==
    /\ loaded
    /\ Goto(b, "absent", "range")
    /\ overlapped' = (overlapped \/ Probing # {})
    /\ pins' = [pins EXCEPT ![b] = {}]
    /\ wanted' = [wanted EXCEPT ![b] = UNSET]
    /\ UNCHANGED <<loaded, m_reboot_type, sw1, param, asked, loads, faults>>

\* m_reboot_type >= MAX_REBOOT_TYPE ...
CheckRange(b) ==
    /\ Goto(b, "range", IF m_reboot_type >= MAX_REBOOT_TYPE THEN "reset" ELSE "check")
    /\ UNCHANGED <<loaded, m_reboot_type, sw1, history, loads, faults>>

\* ... is as good as none.
ResetType(b) ==
    /\ Goto(b, "reset", "check")
    /\ m_reboot_type' = UNSET
    /\ UNCHANGED <<loaded, sw1, history, loads, faults>>

Check(b) ==
    /\ Goto(b, "check", IF m_reboot_type = UNSET THEN "read" ELSE "default")
    /\ UNCHANGED <<loaded, m_reboot_type, sw1, history, loads, faults>>

\* get_reboot_type
ReadType(b) ==
    /\ Goto(b, "read", "default")
    /\ \/ Ok /\ m_reboot_type' = sw1[b]
       \/ Fail /\ UNCHANGED m_reboot_type
    /\ UNCHANGED <<loaded, sw1, history, loads>>

\* Still unset: a normal reboot.
Default(b) ==
    /\ Goto(b, "default", IF m_reboot_type = UNSET THEN "cold" ELSE "clear")
    /\ UNCHANGED <<loaded, m_reboot_type, sw1, history, loads, faults>>

SetCold(b) ==
    /\ Goto(b, "cold", "clear")
    /\ m_reboot_type' = COLD_REBOOT
    /\ UNCHANGED <<loaded, sw1, history, loads, faults>>

\* clear_reboot_type_gpio_scratch; an error is only logged.
ClearScratch(b) ==
    /\ Goto(b, "clear", "announce")
    /\ \/ Ok /\ sw1' = [sw1 EXCEPT ![b] = UNSET]
       \/ Fail /\ sw1' \in {sw1, [sw1 EXCEPT ![b] = UNSET]}
    /\ UNCHANGED <<loaded, m_reboot_type, history, loads>>

\* get_reboot_type_str, with its BUG_ON.
Announce(b) ==
    /\ Goto(b, "announce", "pins")
    /\ UNCHANGED <<loaded, m_reboot_type, sw1, history, loads, faults>>

\* _gpio_parse_descriptor: one pin's cfg_stat is written, or is not; an error
\* leaves the pin out.
InitPin(b) ==
    /\ pc[b] = "pins"
    /\ \/ /\ Ok
          /\ pins' = [pins EXCEPT ![b] = @ \cup
                        {IF m_reboot_type = COLD_REBOOT THEN "written" ELSE "kept"}]
       \/ /\ Fail
          /\ pins' = [pins EXCEPT ![b] = @ \cup {"failed"}]
    /\ UNCHANGED <<loaded, m_reboot_type, sw1, pc, param, asked, wanted, overlapped, loads>>

\* The last pin is done; or the table of pins cannot be read, cfg0 not be
\* written, and the probe fails.
EndProbe(b) ==
    /\ \/ Ok /\ pins[b] # {} /\ Goto(b, "pins", "bound")
       \/ Fail /\ Goto(b, "pins", "absent")
    /\ UNCHANGED <<loaded, m_reboot_type, sw1, history, loads>>

ProbeStep(b) ==
    \/ CheckRange(b) \/ ResetType(b) \/ Check(b) \/ ReadType(b) \/ Default(b) \/ SetCold(b)
    \/ ClearScratch(b) \/ Announce(b) \/ InitPin(b) \/ EndProbe(b)

Next ==
    \/ Load \/ Unload \/ Reboot
    \/ \E b \in Block : Probe(b) \/ ProbeStep(b) \/ Unbind(b)
    \/ \E b \in Block, t \in Type : Request(b, t)

Spec == Init /\ [][Next]_vars
-----------------------------------------------------------------------------
TypeOK ==
    /\ loaded \in BOOLEAN /\ overlapped \in BOOLEAN
    /\ m_reboot_type \in Type \cup Params
    /\ param \in Params
    /\ sw1 \in [Block -> Type] /\ asked \in [Block -> Type] /\ wanted \in [Block -> Type]
    /\ pc \in [Block -> PC]
    /\ pins \in [Block -> SUBSET {"written", "kept", "failed"}]
    /\ loads \in 0..MaxLoads /\ faults \in 0..FaultBudget

Bound == {b \in Block : pc[b] = "bound"}

(* All blocks of one load are initialised, or none: the first one's type   *)
(* is the type for all.  Only probes that overlap may disagree.            *)
OneDecision ==
    ~overlapped => ~\E b, c \in Block : "written" \in pins[b] /\ "kept" \in pins[c]

(* A boot with no request in any scratch register initialises the pins of  *)
(* every block, whatever earlier boots were.  Again probes that overlap    *)
(* may fail to: get_reboot_type makes m_reboot_type UNSET for a moment.    *)
ColdBootInitialises ==
    \A b \in Bound : param = UNSET /\ faults = 0 /\ ~overlapped /\ asked = [c \in Block |-> UNSET]
                     /\ loads = 1 => pins[b] = {"written"}

(* If every block's scratch asks for a fast or warm reboot, the first load *)
(* of the module leaves all pins alone, even if probes overlap, unless     *)
(* they also have an illegal parameter to get rid of.                      *)
WarmBootKeeps ==
    \A b \in Bound : /\ param = UNSET \/ (param >= MAX_REBOOT_TYPE /\ ~overlapped)
                     /\ faults = 0 /\ loads = 1
                     /\ \A c \in Block : asked[c] \in {FAST_REBOOT, WARM_REBOOT}
                     => pins[b] = {"kept"}

(* A request holds for one reboot: what a bound block's scratch says was   *)
(* asked for after the block was probed.                                   *)
RequestIsForNextBoot == \A b \in Bound : faults = 0 => sw1[b] = wanted[b]

=============================================================================
