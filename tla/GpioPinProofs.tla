--------------------------- MODULE GpioPinProofs ---------------------------
(***************************************************************************)
(* GpioPin: updates of a pin undo each other only if they overlap, and no  *)
(* edge of an enabled interrupt is lost, for any tasks, requests,          *)
(* operations and failing accesses.                                        *)
(***************************************************************************)
EXTENDS GpioPin, TLAPS

Directions == {"no", "input", "output"}
Drafting == {"clear", "write", "write_confirm", "set"}

(* What the pin will hold after t's write suits whoever set it last: for   *)
(* t's own fields t itself, for the others those who set them before.      *)
Fit(t) ==
    \A f \in Field :
        Stored(draft[t])[f] \in IF f \in DOMAIN own[t] THEN own[t][f] ELSE expect[f]

Shape ==
    /\ fixed \in Directions
    /\ cfg \in Cfg
    /\ fixed # "no" => cfg["dir"] = fixed
    /\ pc = [t \in Task |-> pc[t]]
    /\ draft = [t \in Task |-> draft[t]]
    /\ own = [t \in Task |-> own[t]]
    /\ expect = [f \in Field |-> expect[f]]
    /\ \A t \in Task : pc[t] \in Drafting => draft[t] \in Cfg
    /\ faults \in Nat

DraftsFit == \A t \in Task : Holds(t) => Fit(t)

IInv == Shape /\ UpdatesKept /\ DraftsFit
-----------------------------------------------------------------------------
\* The values a field can have, one field at a time.
LEMMA ValuesOf ==
    /\ Values["dir"] = {"input", "output"}
    /\ Values["disOutput"] = {"enable", "tristate"}
    /\ Values["intEnb"] = {"disable", "enable"}
    /\ Values["outState"] = {"low", "high"}
    /\ Values["intType"] = IntType
BY DEF Values, Field

\* What the pin takes of a value keeps its fixed direction and is otherwise
\* that value.
LEMMA StoredField ==
    ASSUME fixed \in Directions, NEW c \in Cfg
    PROVE  /\ Stored(c) \in Cfg
           /\ fixed # "no" => Stored(c)["dir"] = fixed
           /\ \A f \in Field : f # "dir" \/ fixed = "no" => Stored(c)[f] = c[f]
<1>1. c \in [Field -> Value] /\ "dir" \in Field
    BY DEF Cfg, Field
<1>2. CASE fixed = "no"
    BY <1>1, <1>2 DEF Stored
<1>3. CASE fixed # "no"
    <2>1. fixed \in Values["dir"]
        BY <1>3, ValuesOf DEF Directions
    <2>2. Stored(c) = [c EXCEPT !["dir"] = fixed]
        BY <1>3 DEF Stored
    <2> QED
        BY <1>1, <1>3, <2>1, <2>2 DEF Cfg, Value
<1> QED
    BY <1>2, <1>3

\* Replacing some fields of cfg_stat leaves the others.
LEMMA ReplaceField ==
    ASSUME NEW c \in Cfg, NEW s, DOMAIN s \subseteq Field,
           \A f \in DOMAIN s : s[f] \in Values[f]
    PROVE  /\ Replace(c, s) \in Cfg
           /\ \A f \in Field : Replace(c, s)[f] = IF f \in DOMAIN s THEN s[f] ELSE c[f]
BY DEF Replace, Cfg, Value

\* An operation that has read the register and will write it back.
LEMMA UpdateStep ==
    ASSUME IInv, NEW t \in Task, NEW s, NEW suits, NEW next \in Drafting,
           Update(t, s, suits, next),
           DOMAIN s \subseteq Field, \A f \in DOMAIN s : s[f] \in Values[f],
           next # "set" =>
               /\ DOMAIN suits = DOMAIN s
               /\ \A f \in DOMAIN s :
                      IF f = "dir" /\ fixed # "no" THEN fixed \in suits[f] ELSE s[f] \in suits[f]
    PROVE  IInv'
<1> DEFINE new == Replace(cfg, s)
<1>1. /\ new \in Cfg
      /\ \A f \in Field : new[f] = IF f \in DOMAIN s THEN s[f] ELSE cfg[f]
    BY ReplaceField DEF IInv, Shape
<1>2. /\ pc' = [pc EXCEPT ![t] = next]
      /\ draft' = [draft EXCEPT ![t] = new]
      /\ own' = [own EXCEPT ![t] = suits]
      /\ UNCHANGED <<fixed, cfg, expect, faults>>
    BY DEF Update, Goto, pinVars
<1>3. Shape'
    BY <1>1, <1>2 DEF IInv, Shape, Drafting
<1>4. UpdatesKept'
    BY <1>2 DEF IInv, UpdatesKept
<1>5. ASSUME NEW u \in Task, Holds(u)' PROVE Fit(u)'
    <2>1. CASE u # t
        BY <2>1, <1>2, <1>5 DEF IInv, Shape, DraftsFit, Holds, Fit, Stored
    <2>2. CASE u = t
        <3>1. next # "set" /\ draft'[t] = new /\ own'[t] = suits
            BY <2>2, <1>2, <1>5 DEF Holds, IInv, Shape
        <3>2. SUFFICES ASSUME NEW f \in Field
                       PROVE  Stored(new)[f] \in
                                 IF f \in DOMAIN suits THEN suits[f] ELSE expect[f]
            BY <2>2, <3>1, <1>2 DEF Fit, Stored
        <3>3. /\ fixed # "no" => Stored(new)["dir"] = fixed
              /\ f # "dir" \/ fixed = "no" => Stored(new)[f] = new[f]
            BY <1>1, StoredField DEF IInv, Shape
        <3>4. cfg[f] \in expect[f]
            BY DEF IInv, UpdatesKept
        <3> QED
            BY <1>1, <3>1, <3>3, <3>4 DEF IInv, Shape
    <2> QED
        BY <2>1, <2>2
<1> QED
    BY <1>3, <1>4, <1>5 DEF IInv, DraftsFit

\* t sets fields, by a write of cfg_stat or of set and clr, and is done.  The
\* others' drafts keep suiting: a field that t sets and a draft would put
\* back is one that nobody may count on.
LEMMA AssignStep ==
    ASSUME IInv, NEW t \in Task, NEW suits, Expect(t, suits), UNCHANGED fixed, faults' \in Nat,
           cfg' \in Cfg, fixed # "no" => cfg'["dir"] = fixed,
           \A f \in Field :
               IF f \in DOMAIN suits THEN cfg'[f] \in suits[f] \/ faults' # faults
               ELSE cfg'[f] \in expect[f],
           pc' = [u \in Task |-> pc'[u]], draft' = [u \in Task |-> draft'[u]],
           own' = [u \in Task |-> own'[u]],
           pc'[t] \notin Drafting,
           \A u \in Task \ {t} : pc'[u] = pc[u] /\ draft'[u] = draft[u] /\ own'[u] = own[u]
    PROVE  IInv'
<1>1. \A f \in Field :
          expect'[f] = IF f \notin DOMAIN suits THEN expect[f]
                       ELSE IF Overtaken(t, f) \/ faults' # faults THEN Values[f]
                       ELSE suits[f]
    BY DEF Expect
<1>2. Shape'
    BY DEF IInv, Shape, Expect
<1>3. UpdatesKept'
    BY <1>1 DEF UpdatesKept, Cfg
<1>4. ASSUME NEW u \in Task, Holds(u)' PROVE Fit(u)'
    <2>1. u # t /\ Holds(u) /\ draft'[u] = draft[u] /\ own'[u] = own[u]
        BY <1>4 DEF Holds, Drafting
    <2>2. SUFFICES ASSUME NEW f \in Field
                   PROVE  Stored(draft[u])[f] \in
                             IF f \in DOMAIN own[u] THEN own[u][f] ELSE expect'[f]
        BY <2>1 DEF Fit, Stored
    <2>3. Fit(u) /\ draft[u] \in Cfg
        BY <2>1 DEF IInv, DraftsFit, Shape, Holds, Drafting
    <2>4. CASE f \in DOMAIN own[u] \/ f \notin DOMAIN suits
        BY <2>3, <2>4, <1>1 DEF Fit
    <2>5. CASE f \notin DOMAIN own[u] /\ f \in DOMAIN suits
        <3>1. Overtaken(t, f)
            BY <2>1, <2>5 DEF Overtaken
        <3>2. Stored(draft[u]) \in Cfg
            BY <2>3, StoredField DEF IInv, Shape
        <3> QED
            BY <3>1, <3>2, <2>5, <1>1 DEF Cfg
    <2> QED
        BY <2>4, <2>5
<1> QED
    BY <1>2, <1>3, <1>4 DEF IInv, DraftsFit
-----------------------------------------------------------------------------
\* Before the first operation nothing is counted on and nothing drafted.
LEMMA InitIInv == Init => IInv
<1> SUFFICES ASSUME Init PROVE IInv
    OBVIOUS
<1>1. cfg \in Cfg /\ (fixed # "no" => cfg["dir"] = fixed) /\ fixed \in Directions
    <2>1. PICK c \in Starts : cfg = Stored(c)
        BY DEF Init
    <2>2. c \in Cfg /\ fixed \in Directions
        BY StartsAssumption DEF Init, Directions
    <2> QED
        BY <2>1, <2>2, StoredField
<1> QED
    BY <1>1 DEF Init, IInv, Shape, UpdatesKept, DraftsFit, Holds, Drafting, Cfg, Values

\* The operations, up to their write.
LEMMA OperationStep ==
    ASSUME IInv, NEW t \in Task, Operation(t)
    PROVE  IInv'
<1>1. ASSUME NEW s, NEW next \in Drafting \ {"set"}, Update(t, s, Suits(s), next),
             DOMAIN s \subseteq Field, \A f \in DOMAIN s : s[f] \in Values[f]
      PROVE  IInv'
    <2>1. /\ DOMAIN Suits(s) = DOMAIN s
          /\ \A f \in DOMAIN s :
                 IF f = "dir" /\ fixed # "no" THEN fixed \in Suits(s)[f]
                 ELSE s[f] \in Suits(s)[f]
        BY ValuesOf DEF Suits, IInv, Shape, Directions
    <2> QED
        BY <1>1, <2>1, UpdateStep DEF Drafting
<1>2. CASE _gpio_direction_input(t)
    BY <1>1, <1>2, ValuesOf DEF _gpio_direction_input, Only, Field, Drafting
<1>3. CASE _gpio_direction_output(t)
    <2>1. PICK value \in Values["outState"] :
             LET s == [f \in {"dir", "outState", "disOutput"} |->
                          IF f = "dir" THEN "output"
                          ELSE IF f = "outState" THEN value ELSE "enable"]
             IN  Update(t, s, Suits(s), "write_confirm")
        BY <1>3 DEF _gpio_direction_output
    <2> DEFINE s == [f \in {"dir", "outState", "disOutput"} |->
                        IF f = "dir" THEN "output"
                        ELSE IF f = "outState" THEN value ELSE "enable"]
    <2>2. DOMAIN s \subseteq Field /\ \A f \in DOMAIN s : s[f] \in Values[f]
        BY ValuesOf DEF Field
    <2>3. Update(t, s, Suits(s), "write_confirm")
        BY <2>1
    <2> HIDE DEF s
    <2> QED
        BY <1>1, <2>2, <2>3 DEF Drafting
<1>4. CASE _gpio_set_config(t)
    BY <1>1, <1>4 DEF _gpio_set_config, Only, Field, Drafting
<1>5. CASE _gpio_set(t)
    <2>1. PICK value \in Values["outState"] :
             /\ pc[t] = "idle"
             /\ \/ Ok /\ cfg' = [cfg EXCEPT !["outState"] = value]
                \/ Fail /\ cfg' \in {cfg, [cfg EXCEPT !["outState"] = value]}
             /\ Expect(t, Only("outState", {value}))
             /\ UNCHANGED <<fixed, intState, msi, taskVars, isr, unseen>>
        BY <1>5, Zenon DEF _gpio_set
    <2> DEFINE suits == Only("outState", {value})
    <2>2. DOMAIN suits = {"outState"} /\ suits["outState"] = {value}
        BY DEF Only
    <2> HIDE DEF suits
    <2>3. /\ cfg' \in Cfg /\ faults' \in Nat
          /\ \A f \in Field : f # "outState" => cfg'[f] = cfg[f]
          /\ cfg'["outState"] = value \/ faults' # faults
        BY <2>1 DEF IInv, Shape, Cfg, Value, Field, Ok, Fail
    <2>4. \A f \in Field :
             IF f \in DOMAIN suits THEN cfg'[f] \in suits[f] \/ faults' # faults
             ELSE cfg'[f] \in expect[f]
        BY <2>2, <2>3 DEF IInv, UpdatesKept
    <2>5. fixed # "no" => cfg'["dir"] = fixed
        BY <2>3 DEF IInv, Shape, Field
    <2>6. Expect(t, suits) /\ UNCHANGED fixed
        BY <2>1 DEF suits
    <2>7. /\ pc' = [u \in Task |-> pc'[u]]
          /\ draft' = [u \in Task |-> draft'[u]]
          /\ own' = [u \in Task |-> own'[u]]
          /\ pc'[t] \notin Drafting
          /\ \A u \in Task \ {t} : pc'[u] = pc[u] /\ draft'[u] = draft[u] /\ own'[u] = own[u]
        BY <2>1 DEF taskVars, IInv, Shape, Drafting
    <2> QED
        BY <2>1, <2>3, <2>4, <2>5, <2>6, <2>7, AssignStep
<1>6. CASE _gpio_irq_set_type(t)
    <2>1. PICK trigger \in Triggers :
             Update(t, Only("intType", TypeFor(trigger)),
                    Only("intType", Serving(trigger)), "write")
        BY <1>6 DEF _gpio_irq_set_type
    <2>2. TypeFor(trigger) \in IntType /\ TypeFor(trigger) \in Serving(trigger)
        BY TriggersAssumption DEF TypeFor, Serving, IntType, EdgesOf, Edge
    <2> QED
        BY <2>1, <2>2, ValuesOf, UpdateStep DEF Only, Field, Drafting
<1>7. CASE _gpio_irq_mask(t)
    BY <1>1, <1>7, ValuesOf DEF _gpio_irq_mask, Only, Field, Drafting
<1>8. CASE _gpio_irq_unmask(t)
    BY <1>1, <1>8, ValuesOf DEF _gpio_irq_unmask, Only, Field, Drafting
<1>9. CASE config_store(t)
    <2>1. PICK s \in Configs :
             LET input == Replace(cfg, s)["dir"] = "input"
                 all   == IF input
                          THEN [f \in DOMAIN s \cup {"disOutput"} |->
                                   IF f = "disOutput" THEN "tristate" ELSE s[f]]
                          ELSE s
             IN  Update(t, all, Suits(all), IF input THEN "clear" ELSE "write")
        BY <1>9 DEF config_store
    <2> DEFINE input == Replace(cfg, s)["dir"] = "input"
               all == IF input
                      THEN [f \in DOMAIN s \cup {"disOutput"} |->
                               IF f = "disOutput" THEN "tristate" ELSE s[f]]
                      ELSE s
               next == IF input THEN "clear" ELSE "write"
    <2>2. Update(t, all, Suits(all), next)
        BY <2>1
    <2>3. DOMAIN s \subseteq Field /\ \A f \in DOMAIN s : s[f] \in Values[f]
        BY ConfigsAssumption DEF Accepted
    <2> HIDE DEF input
    <2>4. DOMAIN all \subseteq Field /\ \A f \in DOMAIN all : all[f] \in Values[f]
        BY <2>3, ValuesOf DEF Field
    <2>5. next \in Drafting \ {"set"}
        BY DEF Drafting
    <2> HIDE DEF all, next
    <2> QED
        BY <1>1, <2>2, <2>4, <2>5
<1>10. CASE set_store(t)
    <2>1. PICK value \in Values["outState"] : Update(t, Only("outState", value), Blank, "set")
        BY <1>10 DEF set_store
    <2> QED
        BY <2>1, UpdateStep DEF Only, Field, Drafting
<1> QED
    BY <1>2, <1>3, <1>4, <1>5, <1>6, <1>7, <1>8, <1>9, <1>10 DEF Operation

\* clr: the latch is cleared and the interrupt disabled.  The draft, which
\* may say otherwise, is t's own.
LEMMA ClearStep ==
    ASSUME IInv, NEW t \in Task, ClearInterrupts(t)
    PROVE  IInv'
<1> DEFINE cleared == [cfg EXCEPT !["intEnb"] = "disable"]
<1>1. /\ cleared \in Cfg
      /\ \A f \in Field : f # "intEnb" => cleared[f] = cfg[f]
    BY ValuesOf DEF IInv, Shape, Cfg, Value, Field
<1>2. /\ cfg' \in {cfg, cleared}
      /\ faults' \in Nat
      /\ expect' = [expect EXCEPT !["intEnb"] = Values["intEnb"]]
      /\ UNCHANGED fixed
      /\ \A u \in Task : pc'[u] # pc[u] => u = t /\ pc[u] = "clear"
      /\ pc' = [u \in Task |-> pc'[u]]
    BY DEF ClearInterrupts, Ok, Fail, Goto, Return, IInv, Shape
<1>3. /\ draft' = [u \in Task |-> draft'[u]]
      /\ own' = [u \in Task |-> own'[u]]
      /\ \A u \in Task : pc'[u] \in Drafting =>
             pc[u] \in Drafting /\ (Holds(u)' => Holds(u)) /\ draft'[u] = draft[u] /\ own'[u] = own[u]
    BY DEF ClearInterrupts, Goto, Return, IInv, Shape, Drafting, Holds
<1> HIDE DEF cleared
<1>4. /\ \A f \in Field : f # "intEnb" => expect'[f] = expect[f]
      /\ expect'["intEnb"] = Values["intEnb"]
      /\ expect' = [f \in Field |-> expect'[f]]
    BY <1>2 DEF IInv, Shape, Field
<1>5. Shape'
    BY <1>1, <1>2, <1>3, <1>4 DEF IInv, Shape, Field
<1>6. UpdatesKept'
    BY <1>1, <1>2, <1>4 DEF IInv, UpdatesKept, Shape, Cfg
<1>7. ASSUME NEW u \in Task, Holds(u)' PROVE Fit(u)'
    <2>1. Holds(u) /\ draft'[u] = draft[u] /\ own'[u] = own[u] /\ draft[u] \in Cfg
        BY <1>3, <1>7 DEF Holds, Drafting, IInv, Shape
    <2>2. Fit(u) /\ Stored(draft[u]) \in Cfg
        BY <2>1, StoredField DEF IInv, DraftsFit, Shape
    <2>3. ASSUME NEW f \in Field
          PROVE  Stored(draft[u])[f] \in IF f \in DOMAIN own[u] THEN own[u][f] ELSE expect'[f]
        BY <1>4, <2>2 DEF Fit, Cfg
    <2> QED
        BY <1>2, <2>1, <2>3 DEF Fit, Stored
<1> QED
    BY <1>5, <1>6, <1>7 DEF IInv, DraftsFit

\* The write of cfg_stat: the draft suits, so the register does.
LEMMA WriteStep ==
    ASSUME IInv, NEW t \in Task, WriteCfg(t)
    PROVE  IInv'
<1>1. Holds(t) /\ draft[t] \in Cfg
    BY DEF WriteCfg, Holds, IInv, Shape, Drafting
<1>2. /\ Stored(draft[t]) \in Cfg
      /\ fixed # "no" => Stored(draft[t])["dir"] = fixed
    BY <1>1, StoredField DEF IInv, Shape
<1>3. \A f \in Field :
          Stored(draft[t])[f] \in IF f \in DOMAIN own[t] THEN own[t][f] ELSE expect[f]
    BY <1>1 DEF IInv, DraftsFit, Fit
<1>4. /\ cfg' = Stored(draft[t]) \/ (cfg' = cfg /\ faults' # faults)
      /\ faults' \in Nat
      /\ Expect(t, own[t])
      /\ UNCHANGED fixed
    BY DEF WriteCfg, Ok, Fail, IInv, Shape
<1>5. /\ pc' = [u \in Task |-> pc'[u]]
      /\ draft' = [u \in Task |-> draft'[u]]
      /\ own' = [u \in Task |-> own'[u]]
      /\ pc'[t] \notin Drafting
      /\ \A u \in Task \ {t} : pc'[u] = pc[u] /\ draft'[u] = draft[u] /\ own'[u] = own[u]
    BY DEF WriteCfg, Return, Goto, IInv, Shape, Drafting
<1>6. cfg' \in Cfg /\ (fixed # "no" => cfg'["dir"] = fixed)
    BY <1>2, <1>4 DEF IInv, Shape
<1>7. \A f \in Field :
          IF f \in DOMAIN own[t] THEN cfg'[f] \in own[t][f] \/ faults' # faults
          ELSE cfg'[f] \in expect[f]
    BY <1>3, <1>4 DEF IInv, UpdatesKept
<1> QED
    BY <1>4, <1>5, <1>6, <1>7, AssignStep

\* direction_output counts on the direction it has read back.
LEMMA ConfirmStep ==
    ASSUME IInv, NEW t \in Task, Confirm(t)
    PROVE  IInv'
<1>1. UNCHANGED <<fixed, cfg>>
    BY DEF Confirm, pinVars
<1>2. faults' \in Nat
    <2>1. Ok \/ Fail
        BY Zenon DEF Confirm
    <2> QED
        BY <2>1 DEF Ok, Fail, IInv, Shape
<1>3. /\ pc' = [u \in Task |-> pc'[u]]
      /\ draft' = [u \in Task |-> draft'[u]]
      /\ own' = [u \in Task |-> own'[u]]
      /\ pc'[t] \notin Drafting
      /\ \A u \in Task \ {t} : pc'[u] = pc[u] /\ draft'[u] = draft[u] /\ own'[u] = own[u]
    BY DEF Confirm, Return, Goto, IInv, Shape, Drafting
<1>4. CASE cfg["dir"] = "output" /\ Expect(t, Only("dir", {"output"}))
    <2> DEFINE suits == Only("dir", {"output"})
    <2>1. Expect(t, suits)
        BY <1>4
    <2>2. DOMAIN suits = {"dir"} /\ suits["dir"] = {"output"}
        BY DEF Only
    <2> HIDE DEF suits
    <2>3. \A f \in Field :
             IF f \in DOMAIN suits THEN cfg'[f] \in suits[f] \/ faults' # faults
             ELSE cfg'[f] \in expect[f]
        BY <1>1, <1>2, <1>3, <1>4, <2>2 DEF IInv, UpdatesKept
    <2>4. cfg' \in Cfg /\ faults' \in Nat /\ (fixed # "no" => cfg'["dir"] = fixed)
        BY <1>1, <1>2, <1>3 DEF IInv, Shape
    <2> QED
        BY <1>1, <1>2, <1>3, <2>1, <2>3, <2>4, AssignStep
<1>5. CASE UNCHANGED expect
    <2>1. Shape' /\ UpdatesKept'
        BY <1>1, <1>2, <1>3, <1>5 DEF IInv, Shape, UpdatesKept
    <2>2. \A u \in Task : Holds(u)' =>
             u # t /\ Holds(u) /\ draft'[u] = draft[u] /\ own'[u] = own[u]
        BY <1>1, <1>2, <1>3 DEF Holds, Drafting
    <2> QED
        BY <1>1, <1>2, <1>3, <1>5, <2>1, <2>2 DEF IInv, DraftsFit, Fit, Stored
<1> QED
    BY <1>4, <1>5 DEF Confirm

\* The sysfs files set and clear: one bit, from a value chosen before.
LEMMA WriteSetStep ==
    ASSUME IInv, NEW t \in Task, WriteSet(t)
    PROVE  IInv'
<1> DEFINE value == draft[t]["outState"]
           new == [cfg EXCEPT !["outState"] = value]
           suits == Only("outState", {value})
<1>1. value \in Values["outState"]
    BY DEF WriteSet, Return, Goto, IInv, Shape, Drafting, Cfg, Field
<1>2. /\ cfg' = new \/ (cfg' = cfg /\ faults' # faults)
      /\ faults' \in Nat
      /\ Expect(t, suits)
      /\ UNCHANGED fixed
    BY DEF WriteSet, Ok, Fail, IInv, Shape
<1>3. /\ pc' = [u \in Task |-> pc'[u]]
      /\ draft' = [u \in Task |-> draft'[u]]
      /\ own' = [u \in Task |-> own'[u]]
      /\ pc'[t] \notin Drafting
      /\ \A u \in Task \ {t} : pc'[u] = pc[u] /\ draft'[u] = draft[u] /\ own'[u] = own[u]
    BY DEF WriteSet, Return, Goto, IInv, Shape, Drafting
<1>4. DOMAIN suits = {"outState"} /\ suits["outState"] = {value}
    BY DEF Only
<1> HIDE DEF value, suits
<1>5. /\ cfg' \in Cfg
      /\ \A f \in Field : f # "outState" => cfg'[f] = cfg[f]
      /\ cfg'["outState"] = value \/ faults' # faults
    BY <1>1, <1>2 DEF IInv, Shape, Cfg, Value, Field
<1>6. \A f \in Field :
         IF f \in DOMAIN suits THEN cfg'[f] \in suits[f] \/ faults' # faults
         ELSE cfg'[f] \in expect[f]
    BY <1>4, <1>5 DEF IInv, UpdatesKept
<1>7. fixed # "no" => cfg'["dir"] = fixed
    BY <1>2, <1>5 DEF IInv, Shape, Field
<1> QED
    BY <1>2, <1>3, <1>5, <1>6, <1>7, AssignStep

\* The interrupt's steps leave the register, the drafts and what callers may
\* count on alone.
LEMMA RestStep ==
    ASSUME IInv, UNCHANGED <<fixed, cfg, taskVars, expect>>, faults' \in Nat
    PROVE  IInv'
BY DEF taskVars, IInv, Shape, UpdatesKept, DraftsFit, Holds, Fit, Stored
-----------------------------------------------------------------------------
\* Every step of Next keeps the invariant.
THEOREM Inductive == IInv /\ [Next]_vars => IInv'
<1> SUFFICES ASSUME IInv, [Next]_vars PROVE IInv'
    OBVIOUS
<1>1. ASSUME NEW t \in Task, Operation(t) \/ Access(t) PROVE IInv'
    BY <1>1, OperationStep, ClearStep, WriteStep, ConfirmStep, WriteSetStep DEF Access
<1>2. ASSUME NEW edge \in Edge, PinEdge(edge) PROVE IInv'
    <2>1. UNCHANGED <<fixed, cfg, taskVars, expect, faults>>
        BY <1>2 DEF PinEdge, Arrives, Ignored
    <2> QED
        BY <2>1, RestStep DEF IInv, Shape
<1>3. CASE Handler
    <2>1. UNCHANGED <<fixed, cfg, taskVars, expect>>
        BY <1>3 DEF Handler, _gpio_irq_handler, ReadState, ClearState, Handle, pinVars
    <2>2. Ok \/ Fail
        BY <1>3, Zenon DEF Handler, _gpio_irq_handler, ReadState, ClearState, Handle, Ok
    <2>3. faults' \in Nat
        BY <2>2 DEF Ok, Fail, IInv, Shape
    <2> QED
        BY <2>1, <2>3, RestStep
<1>4. CASE UNCHANGED vars
    BY <1>4, RestStep DEF vars, pinVars, IInv, Shape
<1> QED
    BY <1>1, <1>2, <1>3, <1>4 DEF Next

LEMMA Invariance == Spec => []IInv
BY InitIInv, Inductive, PTL DEF Spec

\* A field keeps what was last set, unless updates of the pin overlap.
THEOREM OverlapOnly == Spec => []UpdatesKept
<1>1. IInv => UpdatesKept
    BY DEF IInv
<1> QED
    BY <1>1, Invariance, PTL
-----------------------------------------------------------------------------
(* As long as no access has failed, a latched interrupt that is enabled    *)
(* has a message on its way or a handler that has yet to look.             *)
Coming == msi = TRUE \/ isr \in {"read", "clear"}

Latched == faults = 0 /\ intState = TRUE /\ cfg["intEnb"] = "enable" => Coming

Waiting == faults = 0 /\ unseen = TRUE => (intState = TRUE /\ Coming) \/ isr = "handle"

EdgeInv ==
    /\ intState \in BOOLEAN /\ msi \in BOOLEAN /\ unseen \in BOOLEAN
    /\ Latched /\ Waiting

\* What Signalling does, with Booleans compared.
LEMMA SignallingStep ==
    ASSUME intState \in BOOLEAN, msi \in BOOLEAN, intState' \in BOOLEAN, Signalling
    PROVE  /\ msi' \in BOOLEAN
           /\ msi = TRUE => msi' = TRUE
           /\ intState' = TRUE /\ cfg'["intEnb"] = "enable" =>
                 msi' = TRUE \/ (intState = TRUE /\ cfg["intEnb"] = "enable")
BY Zenon DEF Signalling, Signal

\* An update of cfg_stat may enable the interrupt; the latch is as it was.
LEMMA UpdateEdge ==
    ASSUME EdgeInv, UNCHANGED <<intState, isr, unseen>>, faults' = 0 => faults = 0,
           Signalling \/ (UNCHANGED msi /\ cfg'["intEnb"] = cfg["intEnb"])
    PROVE  EdgeInv'
BY SignallingStep DEF EdgeInv, Latched, Waiting, Coming

LEMMA OperationEdge ==
    ASSUME IInv, EdgeInv, NEW t \in Task, Operation(t)
    PROVE  EdgeInv'
<1>1. CASE UNCHANGED <<pinVars, isr, expect, unseen, faults>>
    BY <1>1, UpdateEdge DEF pinVars
<1>2. CASE _gpio_set(t)
    <2>1. /\ UNCHANGED <<intState, msi, isr, unseen>>
          /\ faults' = 0 => faults = 0
        BY <1>2 DEF _gpio_set, Ok, Fail, IInv, Shape
    <2>2. cfg'["intEnb"] = cfg["intEnb"]
        BY <1>2 DEF _gpio_set, IInv, Shape, Cfg, Field
    <2> QED
        BY <2>1, <2>2, UpdateEdge
<1> QED
    BY <1>1, <1>2
    DEF Operation, _gpio_direction_input, _gpio_direction_output, _gpio_set_config,
        _gpio_irq_set_type, _gpio_irq_mask, _gpio_irq_unmask, config_store, set_store, Update

LEMMA AccessEdge ==
    ASSUME IInv, EdgeInv, NEW t \in Task, Access(t)
    PROVE  EdgeInv'
<1>1. CASE ClearInterrupts(t)
    <2>1. /\ UNCHANGED isr /\ (faults' = 0 => faults = 0)
          /\ \/ UNCHANGED <<cfg, intState, unseen>>
             \/ intState' = FALSE /\ unseen' = FALSE
        BY <1>1 DEF ClearInterrupts, Ok, Fail, IInv, Shape
    <2>2. Signalling
        BY <1>1 DEF ClearInterrupts
    <2>3. CASE UNCHANGED <<cfg, intState, unseen>>
        BY <2>1, <2>2, <2>3, UpdateEdge
    <2>4. CASE intState' = FALSE /\ unseen' = FALSE
        BY <2>2, <2>4, SignallingStep DEF EdgeInv, Latched, Waiting
    <2> QED
        BY <2>1, <2>3, <2>4
<1>2. CASE WriteCfg(t)
    BY <1>2, UpdateEdge DEF WriteCfg, Ok, Fail, IInv, Shape
<1>3. CASE Confirm(t)
    BY <1>3, UpdateEdge DEF Confirm, pinVars, Ok, Fail, IInv, Shape
<1>4. CASE WriteSet(t)
    <2>1. /\ UNCHANGED <<intState, msi, isr, unseen>>
          /\ faults' = 0 => faults = 0
        BY <1>4 DEF WriteSet, Ok, Fail, IInv, Shape
    <2>2. cfg'["intEnb"] = cfg["intEnb"]
        BY <1>4 DEF WriteSet, IInv, Shape, Cfg, Field
    <2> QED
        BY <2>1, <2>2, UpdateEdge
<1> QED
    BY <1>1, <1>2, <1>3, <1>4 DEF Access

\* An edge that was asked for finds the pin as it was set (UpdatesKept), and
\* so is latched.
LEMMA PinEdgeStep ==
    ASSUME IInv, EdgeInv, NEW edge \in Edge, PinEdge(edge)
    PROVE  EdgeInv'
<1> DEFINE asked == /\ expect["intEnb"] = {"enable"}
                    /\ \A type \in expect["intType"] : edge \in EdgesOf(type)
<1>1. UNCHANGED <<cfg, isr, faults>> /\ unseen' = (unseen \/ asked)
    BY DEF PinEdge, Arrives, Ignored
<1>2. asked => cfg["intEnb"] = "enable" /\ edge \in EdgesOf(cfg["intType"])
    <2>1. "intEnb" \in Field /\ "intType" \in Field
        BY DEF Field
    <2> QED
        BY <2>1 DEF IInv, UpdatesKept
<1> HIDE DEF asked
<1>3. unseen' \in BOOLEAN /\ (unseen' = TRUE => unseen = TRUE \/ asked)
    BY <1>1, Zenon DEF EdgeInv
<1>4. CASE Ignored(edge)
    BY <1>1, <1>2, <1>3, <1>4 DEF Ignored, EdgeInv, Latched, Waiting, Coming
<1>5. CASE Arrives(edge)
    <2>1. /\ intState' \in BOOLEAN
          /\ intState = TRUE => intState' = TRUE
          /\ asked => intState' = TRUE
        BY <1>2, <1>5 DEF Arrives, EdgeInv
    <2>2. Signalling
        BY <1>5 DEF Arrives
    <2>3. /\ msi' \in BOOLEAN /\ (msi = TRUE => msi' = TRUE)
          /\ intState' = TRUE /\ cfg["intEnb"] = "enable" =>
                msi' = TRUE \/ (intState = TRUE /\ cfg["intEnb"] = "enable")
        BY <1>1, <2>1, <2>2, SignallingStep DEF EdgeInv
    <2> QED
        BY <1>1, <1>2, <1>3, <2>1, <2>3 DEF EdgeInv, Latched, Waiting, Coming
<1> QED
    BY <1>4, <1>5 DEF PinEdge

LEMMA HandlerEdge ==
    ASSUME IInv, EdgeInv, Handler
    PROVE  EdgeInv'
<1>1. CASE _gpio_irq_handler
    BY <1>1 DEF _gpio_irq_handler, EdgeInv, Latched, Waiting, Coming
<1>2. CASE ReadState
    <2>1. /\ UNCHANGED <<cfg, intState, msi, unseen>> /\ isr = "read"
          /\ faults' = 0 => faults = 0 /\ isr' = IF intState THEN "clear" ELSE "idle"
        BY <1>2 DEF ReadState, pinVars, Ok, Fail, IInv, Shape
    <2>2. faults' = 0 => isr' = IF intState = TRUE THEN "clear" ELSE "idle"
        BY <2>1 DEF EdgeInv
    <2> QED
        BY <2>1, <2>2 DEF EdgeInv, Latched, Waiting, Coming
<1>3. CASE ClearState
    <2>1. UNCHANGED <<cfg, msi, unseen>> /\ isr = "clear"
        BY <1>3 DEF ClearState
    <2>2. CASE isr' = "handle" /\ intState' = FALSE /\ Ok
        BY <2>1, <2>2 DEF Ok, EdgeInv, Latched, Waiting, Coming
    <2>3. CASE intState' \in {intState, FALSE} /\ Fail
        <3>1. faults' # 0
            BY <2>3 DEF Fail, IInv, Shape
        <3>2. intState' \in BOOLEAN
            BY <2>3, Zenon DEF EdgeInv
        <3> QED
            BY <2>1, <3>1, <3>2 DEF EdgeInv, Latched, Waiting
    <2> QED
        BY <1>3, <2>2, <2>3, Zenon DEF ClearState
<1>4. CASE Handle
    BY <1>4 DEF Handle, pinVars, EdgeInv, Latched, Waiting, Coming
<1> QED
    BY <1>1, <1>2, <1>3, <1>4 DEF Handler

\* Without failing accesses no edge of an enabled interrupt is lost, also if it
\* arrives while the handler runs or while other fields are being updated.
THEOREM EdgesSeen == Spec => []NoEdgeLost
<1>1. Init => EdgeInv
    BY DEF Init, EdgeInv, Latched, Waiting
<1>2. IInv /\ EdgeInv /\ [Next]_vars => EdgeInv'
    <2> SUFFICES ASSUME IInv, EdgeInv, [Next]_vars PROVE EdgeInv'
        OBVIOUS
    <2>1. CASE UNCHANGED vars
        BY <2>1 DEF vars, pinVars, EdgeInv, Latched, Waiting, Coming
    <2> QED
        BY <2>1, OperationEdge, AccessEdge, PinEdgeStep, HandlerEdge DEF Next
<1>3. EdgeInv => NoEdgeLost
    BY DEF EdgeInv, Waiting, Coming, NoEdgeLost
<1> QED
    BY <1>1, <1>2, <1>3, Invariance, PTL DEF Spec
=============================================================================
