------------------------------ MODULE GpioPin ------------------------------
(***************************************************************************)
(* One pin of a GPIO block: its cfg_stat register, which gpiolib callbacks, *)
(* irq callbacks and the sysfs files read, change and write back without a *)
(* lock, and the interrupt handler.                                        *)
(*                                                                         *)
(* Hardware, as the code relies on it: set and clr change single bits      *)
(* atomically; status bits written back to cfg_stat have no effect; a pin  *)
(* may have a fixed direction; an interrupt message is sent when the latch *)
(* and the enable bit first hold together.                                 *)
(***************************************************************************)
EXTENDS Naturals

CONSTANTS
    Gpiolib,     \* tasks that call the gpio_chip's operations
    Irq,         \* the task that calls the irq_chip's: the core serialises them
    Sysfs,       \* tasks that write the files config, set and clear
    Triggers,    \* what irq_set_type is asked for: sets of edge and level flags
    Configs,     \* what the config file is asked for: fields and values
    Starts,      \* how a descriptor, or the boot before, leaves the pin
    OpBudget,    \* bound on the operations started
    FaultBudget  \* bound on failing register accesses

Task == Gpiolib \cup {Irq} \cup Sysfs

Edge == {"rising", "falling"}
IntType == {"disabled", "level_active_high", "level_active_low",
            "positive_edge", "negative_edge", "any_edge"}

Field == {"dir", "disOutput", "intEnb", "outState", "intType"}
Values ==
    [f \in Field |->
        IF f = "dir" THEN {"input", "output"}
        ELSE IF f = "disOutput" THEN {"enable", "tristate"}
        ELSE IF f = "intEnb" THEN {"disable", "enable"}
        ELSE IF f = "outState" THEN {"low", "high"}
        ELSE IntType]
Value == UNION {Values[f] : f \in Field}
Cfg == {c \in [Field -> Value] : \A f \in Field : c[f] \in Values[f]}

\* What the config file accepts: some fields, each with a value of its table.
Accepted(s) == DOMAIN s \subseteq Field /\ \A f \in DOMAIN s : s[f] \in Values[f]

ASSUME ConfigsAssumption == \A s \in Configs : Accepted(s)
ASSUME StartsAssumption == Starts \subseteq Cfg
ASSUME TriggersAssumption == Triggers \subseteq (SUBSET Edge) \cup SUBSET {"high", "low"}
ASSUME BudgetAssumption == OpBudget \in Nat /\ FaultBudget \in Nat

VARIABLES
    fixed,     \* the pin's direction if it cannot change, or "no"
    cfg,       \* cfg_stat, but for its status bits
    intState,  \* the interrupt latch in cfg_stat
    msi,       \* an interrupt message is on its way
    pc,
    draft,     \* local variable v or cfg_stat: what a task will write
    own,       \* the fields its operation is about, with the values that suit
    isr,       \* where the handler is
    expect,    \* history: the values that suit whoever set a field last
    unseen,    \* history: an edge that was asked for has not been handled
    ops, faults

taskVars == <<pc, draft, own>>
pinVars  == <<fixed, cfg, intState, msi>>
vars == <<pinVars, taskVars, isr, expect, unseen, ops, faults>>

Ok == UNCHANGED faults
Fail == faults < FaultBudget /\ faults' = faults + 1

Goto(t, from, to) == pc[t] = from /\ pc' = [pc EXCEPT ![t] = to]

Blank == [f \in {} |-> {}]

EdgesOf(type) ==
    CASE type = "positive_edge" -> {"rising"}
      [] type = "negative_edge" -> {"falling"}
      [] type = "any_edge"      -> Edge
      [] OTHER                  -> {}

\* A message is sent when the latch and the enable bit first coincide.
Signal == intState /\ cfg["intEnb"] = "enable"
Signalling == msi' = (msi \/ (~Signal /\ Signal'))

\* A value of cfg_stat as the pin takes it.
Stored(c) == IF fixed = "no" THEN c ELSE [c EXCEPT !["dir"] = fixed]

\* One field to set.
Only(f, value) == [g \in {f} |-> value]

\* c with the fields of s replaced.
Replace(c, s) == [f \in Field |-> IF f \in DOMAIN s THEN s[f] ELSE c[f]]
-----------------------------------------------------------------------------
(* What callers may count on.  A field counts from the write that sets it, *)
(* unless another task has read it and is about to write it back, or the   *)
(* write failed.  A direction counts only if the pin can take it.          *)
Holds(u) == pc[u] \in {"clear", "write", "write_confirm"}
Overtaken(t, f) == \E u \in Task \ {t} : Holds(u) /\ f \notin DOMAIN own[u]

Expect(t, suits) ==
    expect' = [f \in Field |->
        IF f \notin DOMAIN suits THEN expect[f]
        ELSE IF Overtaken(t, f) \/ faults' # faults THEN Values[f]
        ELSE suits[f]]

Suits(s) ==
    [f \in DOMAIN s |-> IF f = "dir" /\ fixed # "no" THEN Values["dir"] ELSE {s[f]}]
-----------------------------------------------------------------------------
Init ==
    /\ fixed \in {"no", "input", "output"}
    /\ cfg \in {Stored(c) : c \in Starts}
    /\ intState = FALSE /\ msi = FALSE
    /\ pc = [t \in Task |-> "idle"]
    /\ draft = [t \in Task |-> Blank]
    /\ own = [t \in Task |-> Blank]
    /\ isr = "idle"
    /\ expect = Values
    /\ unseen = FALSE
    /\ ops = 0 /\ faults = 0

\* Every operation starts with a read of cfg_stat; if it fails, so does the
\* operation, without effect.
Update(t, s, suits, next) ==
    /\ Goto(t, "idle", next)
    /\ draft' = [draft EXCEPT ![t] = Replace(cfg, s)]
    /\ own' = [own EXCEPT ![t] = suits]
    /\ UNCHANGED <<pinVars, isr, expect, unseen, faults>>

Return(t, from) ==
    /\ Goto(t, from, "idle")
    /\ draft' = [draft EXCEPT ![t] = Blank]
    /\ own' = [own EXCEPT ![t] = Blank]

\* Faulty variants of the actions below; no specification uses them.

\* The direction is not read back.
Confirm_Blind(t) ==
    /\ Return(t, "confirm")
    /\ UNCHANGED <<pinVars, isr, unseen, faults>>
    /\ Expect(t, Only("dir", {"output"}))

\* The latch is cleared after the handler has run.
Handler_ClearsLast ==
    /\ \/ /\ isr = "idle" /\ msi
          /\ isr' = "clear" /\ msi' = FALSE
          /\ UNCHANGED <<intState, unseen>>
       \/ /\ isr = "clear" /\ isr' = "handle" /\ unseen' = FALSE
          /\ UNCHANGED <<intState, msi>>
       \/ /\ isr = "handle" /\ isr' = "idle" /\ intState' = FALSE
          /\ UNCHANGED <<msi, unseen>>
    /\ UNCHANGED <<fixed, cfg, taskVars, expect, ops, faults>>

_gpio_direction_input(t) ==
    LET s == Only("dir", "input") IN Update(t, s, Suits(s), "write")

_gpio_direction_output(t) ==
    \E value \in Values["outState"] :
        LET s == [f \in {"dir", "outState", "disOutput"} |->
                     IF f = "dir" THEN "output"
                     ELSE IF f = "outState" THEN value ELSE "enable"]
        IN  Update(t, s, Suits(s), "write_confirm")

\* PIN_CONFIG_DRIVE_PUSH_PULL and PIN_CONFIG_DRIVE_OPEN_DRAIN.
_gpio_set_config(t) ==
    \E drive \in Values["disOutput"] :
        LET s == Only("disOutput", drive) IN Update(t, s, Suits(s), "write")

\* set and clear of the output bit are one access.
_gpio_set(t) ==
    \E value \in Values["outState"] :
        /\ pc[t] = "idle"
        /\ \/ Ok /\ cfg' = [cfg EXCEPT !["outState"] = value]
           \/ Fail /\ cfg' \in {cfg, [cfg EXCEPT !["outState"] = value]}
        /\ Expect(t, Only("outState", {value}))
        /\ UNCHANGED <<fixed, intState, msi, taskVars, isr, unseen>>

\* The chain of tests of irq_set_type.
TypeFor(trigger) ==
    IF "high" \in trigger THEN "level_active_high"
    ELSE IF "low" \in trigger THEN "level_active_low"
    ELSE IF trigger \cap Edge # {} THEN "any_edge"
    ELSE "disabled"

\* The types that see every edge asked for.
Serving(trigger) == {type \in IntType : trigger \cap Edge \subseteq EdgesOf(type)}

_gpio_irq_set_type(t) ==
    \E trigger \in Triggers :
        Update(t, Only("intType", TypeFor(trigger)), Only("intType", Serving(trigger)), "write")

_gpio_irq_mask(t) ==
    LET s == Only("intEnb", "disable") IN Update(t, s, Suits(s), "write")

_gpio_irq_unmask(t) ==
    LET s == Only("intEnb", "enable") IN Update(t, s, Suits(s), "write")

(* config: "If input, force tri-state and clear interrupts".               *)
config_store(t) ==
    \E s \in Configs :
        LET input == Replace(cfg, s)["dir"] = "input"
            all   == IF input
                     THEN [f \in DOMAIN s \cup {"disOutput"} |->
                              IF f = "disOutput" THEN "tristate" ELSE s[f]]
                     ELSE s
        IN  Update(t, all, Suits(all), IF input THEN "clear" ELSE "write")

\* The write of clr before that of cfg_stat; with an error the store ends.
ClearInterrupts(t) ==
    /\ LET cleared == [cfg EXCEPT !["intEnb"] = "disable"]
       IN  \/ Ok /\ Goto(t, "clear", "write")
              /\ cfg' = cleared /\ intState' = FALSE /\ unseen' = FALSE
              /\ UNCHANGED <<draft, own>>
           \/ Fail /\ Return(t, "clear")
              /\ \/ UNCHANGED <<cfg, intState, unseen>>
                 \/ cfg' = cleared /\ intState' = FALSE /\ unseen' = FALSE
    /\ expect' = [expect EXCEPT !["intEnb"] = Values["intEnb"]]
    /\ UNCHANGED <<fixed, isr>>
    /\ Signalling

\* The write that ends an update.
WriteCfg(t) ==
    /\ pc[t] \in {"write", "write_confirm"}
    /\ \/ Ok /\ cfg' = Stored(draft[t])
       \/ Fail /\ cfg' \in {cfg, Stored(draft[t])}
    /\ Expect(t, own[t])
    /\ \/ Return(t, "write")
       \/ faults' # faults /\ Return(t, "write_confirm")
       \/ /\ faults' = faults /\ Goto(t, "write_confirm", "confirm")
          /\ draft' = [draft EXCEPT ![t] = Blank]
          /\ own' = [own EXCEPT ![t] = Blank]
    /\ UNCHANGED <<fixed, intState, isr, unseen>>
    /\ Signalling

\* direction_output reads the direction back and succeeds if it is output.
Confirm(t) ==
    /\ Return(t, "confirm")
    /\ \/ Ok /\ cfg["dir"] = "output" /\ Expect(t, Only("dir", {"output"}))
       \/ Ok /\ cfg["dir"] # "output" /\ UNCHANGED expect
       \/ Fail /\ UNCHANGED expect
    /\ UNCHANGED <<pinVars, isr, unseen>>

\* set and clear: look at the direction, ...
set_store(t) ==
    /\ cfg["dir"] = "output"
    /\ \E value \in Values["outState"] : Update(t, Only("outState", value), Blank, "set")

\* ... then write set or clr.
WriteSet(t) ==
    /\ Return(t, "set")
    /\ LET new == [cfg EXCEPT !["outState"] = draft[t]["outState"]]
       IN  \/ Ok /\ cfg' = new
           \/ Fail /\ cfg' \in {cfg, new}
    /\ Expect(t, Only("outState", {draft[t]["outState"]}))
    /\ UNCHANGED <<fixed, intState, msi, isr, unseen>>
-----------------------------------------------------------------------------
\* An edge on the pin.  A masked pin may or may not latch it.
Arrives(edge) ==
    /\ edge \in EdgesOf(cfg["intType"])
    /\ intState' \in (IF cfg["intEnb"] = "enable" THEN {TRUE} ELSE {intState, TRUE})
    /\ UNCHANGED cfg
    /\ Signalling

Ignored(edge) ==
    /\ edge \notin EdgesOf(cfg["intType"])
    /\ UNCHANGED <<cfg, intState, msi>>

\* It has been asked for if the pin was set to see it and is enabled.
PinEdge(edge) ==
    /\ Arrives(edge) \/ Ignored(edge)
    /\ unseen' = (unseen \/ /\ expect["intEnb"] = {"enable"}
                            /\ \A type \in expect["intType"] : edge \in EdgesOf(type))
    /\ UNCHANGED <<fixed, taskVars, isr, expect, ops, faults>>

\* _gpio_irq_handler comes to this pin.
_gpio_irq_handler ==
    /\ isr = "idle" /\ msi
    /\ isr' = "read" /\ msi' = FALSE
    /\ UNCHANGED <<fixed, cfg, intState, taskVars, expect, unseen, faults>>

ReadState ==
    /\ isr = "read"
    /\ \/ Ok /\ isr' = (IF intState THEN "clear" ELSE "idle")
       \/ Fail /\ isr' = "idle"
    /\ UNCHANGED <<pinVars, taskVars, expect, unseen>>

ClearState ==
    /\ isr = "clear"
    /\ \/ Ok /\ isr' = "handle" /\ intState' = FALSE
       \/ Fail /\ isr' = "idle" /\ intState' \in {intState, FALSE}
    /\ UNCHANGED <<fixed, cfg, msi, taskVars, expect, unseen>>

\* generic_handle_irq.
Handle ==
    /\ isr = "handle" /\ isr' = "idle"
    /\ unseen' = FALSE
    /\ UNCHANGED <<pinVars, taskVars, expect, faults>>

Operation(t) ==
    /\ ops < OpBudget /\ ops' = ops + 1
    /\ \/ /\ t \in Gpiolib
          /\ \/ _gpio_direction_input(t) \/ _gpio_direction_output(t)
             \/ _gpio_set_config(t) \/ _gpio_set(t)
       \/ /\ t = Irq
          /\ _gpio_irq_set_type(t) \/ _gpio_irq_mask(t) \/ _gpio_irq_unmask(t)
       \/ t \in Sysfs /\ (config_store(t) \/ set_store(t))

Access(t) ==
    /\ ClearInterrupts(t) \/ WriteCfg(t) \/ Confirm(t) \/ WriteSet(t)
    /\ UNCHANGED ops

Handler ==
    /\ _gpio_irq_handler \/ ReadState \/ ClearState \/ Handle
    /\ UNCHANGED ops

Next ==
    \/ \E t \in Task : Operation(t) \/ Access(t)
    \/ \E edge \in Edge : PinEdge(edge)
    \/ Handler

Spec == Init /\ [][Next]_vars
-----------------------------------------------------------------------------
TypeOK ==
    /\ fixed \in {"no", "input", "output"}
    /\ cfg \in Cfg
    /\ intState \in BOOLEAN /\ msi \in BOOLEAN /\ unseen \in BOOLEAN
    /\ pc \in [Task -> {"idle", "clear", "write", "write_confirm", "confirm", "set"}]
    /\ \A t \in Task : pc[t] \in {"idle", "confirm"} \/ draft[t] \in Cfg
    /\ \A t \in Task : DOMAIN own[t] \subseteq Field
    /\ isr \in {"idle", "read", "clear", "handle"}
    /\ DOMAIN expect = Field /\ \A f \in Field : expect[f] \subseteq Values[f]
    /\ ops \in 0..OpBudget /\ faults \in 0..FaultBudget

(* A field keeps what it was last set to, whatever else is done to the     *)
(* pin, unless another operation was about to write it back at that        *)
(* moment: updates of different fields undo each other only if they        *)
(* overlap.                                                                *)
UpdatesKept == \A f \in Field : cfg[f] \in expect[f]

(* An edge that was asked for reaches the handler, even if it arrives      *)
(* while the handler is at work: the latch keeps it, and either a message  *)
(* is on its way or the handler has yet to look.                           *)
NoEdgeLost ==
    unseen /\ faults = 0 =>
        \/ intState /\ (msi \/ isr \in {"read", "clear"})
        \/ isr = "handle"
=============================================================================
