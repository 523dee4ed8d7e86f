-------------------------- MODULE BlockFilesProofs --------------------------
(***************************************************************************)
(* BlockFiles: one command at a time, no accepted command lost, only whole *)
(* triples used and the values of several words whole, for any number of   *)
(* tasks, modes, commands, stored triples and values, and failing accesses.*)
(***************************************************************************)
EXTENDS BlockFiles, TLAPS

Controls == [op: {"control"}, bit: Command, fresh: BOOLEAN]
TripleCalls ==
    {c \in [op: {"triple"}, mode: Mode, new: Triple, left: SUBSET Field, alone: BOOLEAN] :
        c.new \in Triples[c.mode]}
CommandCalls == {Idle} \cup Controls \cup TripleCalls

(* The triples that somebody gave as a whole, at any time.                 *)
Given == {p \in Triple : \E m \in Mode : p \in Triples[m] \cup {Preset[m]}}

Typed == attr \in [Mode -> Triple] /\ reboot \in Calling

(* While the notifier loads a triple, nobody stores it, or it is excused.  *)
Loaded ==
    reboot.at = "load" /\ reboot.excused = FALSE =>
        /\ Storing(reboot.mode) = {} /\ reboot.mode \notin torn
        /\ reboot.use = attr[reboot.mode]

(* A control store that nothing has overtaken finds no command to replace. *)
FreshIsFirst ==
    \A t \in Admin : call[t].op = "control" /\ call[t].fresh = TRUE => owed = {}

(* The fields a store has written so far are those it was given.           *)
Written(p, c) ==
    /\ "reg" \in c.left \/ p.reg = c.new.reg
    /\ "mask" \in c.left \/ p.mask = c.new.mask
    /\ "value" \in c.left \/ p.value = c.new.value

\* u, too, is storing the triple of t's mode.
Together(t, u) == call[u].op = "triple" /\ call[u].mode = call[t].mode

(* A mode's triple is one that was given, or is being stored, or is known  *)
(* to be a mixture; a store that met another one is known to mix.          *)
Whole ==
    /\ \A m \in Mode : attr[m] \in Given \/ m \in torn \/ Storing(m) # {}
    /\ \A t \in Admin : call[t].op = "triple" =>
          /\ probe = "done"
          /\ call[t].alone = TRUE => /\ \A u \in Admin : Together(t, u) => u = t
                                     /\ Written(attr[call[t].mode], call[t])
          /\ call[t].alone = FALSE => call[t].mode \in torn

CommandInv ==
    /\ call \in [Admin -> CommandCalls]
    /\ Typed
    /\ Loaded
    /\ FreshIsFirst
    /\ Whole

IInv ==
    /\ OneCommand /\ PendingKept /\ WholeTriple
    /\ family = "command" => CommandInv
    /\ family # "command" => reboot.at = "idle"

-----------------------------------------------------------------------------
\* Every triple that is stored for a mode, or preset, is one that was given.
LEMMA GivenTriples ==
    ASSUME NEW m \in Mode
    PROVE  Triples[m] \subseteq Given /\ Preset[m] \in Given
BY BlockAssumption DEF Given

\* A triple put together from triples has their type.
LEMMA PutTyped ==
    ASSUME NEW p \in Triple, NEW new \in Triple, NEW f \in Field
    PROVE  Put(p, f, new) \in Triple
BY DEF Put, Triple, Field

\* Marking the control calls as overtaken changes no other call.
LEMMA StaleCalls ==
    ASSUME call \in [Admin -> CommandCalls]
    PROVE  /\ Stale \in [Admin -> CommandCalls]
           /\ \A u \in Admin : /\ Stale[u].op = call[u].op
                               /\ call[u].op # "control" => Stale[u] = call[u]
                               /\ call[u].op = "control" => Stale[u].fresh = FALSE
<1> SUFFICES ASSUME NEW u \in Admin
             PROVE  /\ Stale[u] \in CommandCalls /\ Stale[u].op = call[u].op
                    /\ call[u].op # "control" => Stale[u] = call[u]
                    /\ call[u].op = "control" => Stale[u].fresh = FALSE
    BY DEF Stale
<1>1. CASE call[u].op = "control"
    <2>1. call[u] \in Controls
        BY <1>1 DEF CommandCalls, Idle, TripleCalls
    <2>2. Stale[u] = [call[u] EXCEPT !.fresh = FALSE]
        BY <1>1 DEF Stale
    <2> QED
        BY <1>1, <2>1, <2>2 DEF Controls, CommandCalls
<1>2. CASE call[u].op # "control"
    BY <1>2 DEF Stale
<1> QED
    BY <1>1, <1>2

\* A call that is a store of a triple has its fields.
LEMMA TripleShape ==
    ASSUME call \in [Admin -> CommandCalls], NEW t \in Admin, call[t].op = "triple"
    PROVE  /\ call[t] \in TripleCalls
           /\ call[t].mode \in Mode /\ call[t].new \in Triples[call[t].mode]
           /\ call[t].left \subseteq Field /\ call[t].alone \in BOOLEAN
BY DEF CommandCalls, Idle, Controls, TripleCalls

LEMMA ControlShape ==
    ASSUME call \in [Admin -> CommandCalls], NEW t \in Admin, call[t].op = "control"
    PROVE  call[t] \in Controls /\ call[t].bit \in Command /\ call[t].fresh \in BOOLEAN
BY DEF CommandCalls, Idle, Controls, TripleCalls

\* An update of a register, until it is over.
Acting == [at: {"read", "cleared", "over"}, use: Triple, excused: BOOLEAN]

LEMMA RebootShape ==
    ASSUME Typed
    PROVE  /\ reboot.at \in {"read", "cleared", "over"} => reboot \in Acting
           /\ reboot.at = "load" =>
                 reboot \in [at: {"load"}, mode: Mode, use: Triple,
                            left: (SUBSET Field) \ {{}}, excused: BOOLEAN]
BY DEF Typed, Calling, Acting

-----------------------------------------------------------------------------
LEMMA InitIInv == Init => IInv
<1> SUFFICES ASSUME Init PROVE IInv
    OBVIOUS
<1>1. cfg7 = {} /\ owed = {} /\ attr = Preset /\ torn = {} /\ reboot = [at |-> "idle"]
      /\ call = [t \in Admin |-> Idle]
    BY DEF Init
<1>2. Typed
    BY <1>1, BlockAssumption DEF Typed, Calling
<1>3. Loaded
    BY <1>1 DEF Loaded
<1>4. call \in [Admin -> CommandCalls] /\ \A t \in Admin : call[t].op = "idle"
    BY <1>1 DEF CommandCalls, Idle
<1>5. FreshIsFirst
    BY <1>1 DEF FreshIsFirst
<1>6. Whole
    <2>1. \A m \in Mode : attr[m] \in Given
        BY <1>1, GivenTriples
    <2> QED
        BY <2>1, <1>4 DEF Whole
<1> QED
    BY <1>1, <1>2, <1>3, <1>4, <1>5, <1>6
       DEF IInv, CommandInv, OneCommand, PendingKept, WholeTriple, Several

\* A notifier's write keeps the commands that are owed in the register, and
\* leaves several there only if it is to ask for them.
LEMMA UpdateOwed ==
    ASSUME NEW a, NEW b, a \subseteq b, NEW mask, NEW value
    PROVE  Update(a, mask, value) \cap Command \subseteq Update(b, mask, value)
BY DEF Update

LEMMA UpdateAll ==
    ASSUME NEW b, NEW mask, NEW value, Command \subseteq mask
    PROVE  Several(Update(b, mask, value)) <=> Several(value)
BY DEF Update, Several

LEMMA UpdateSome ==
    ASSUME NEW b, NEW mask, NEW value, mask \cap value \cap Command = {},
           Several(Update(b, mask, value))
    PROVE  Several(b)
BY DEF Update, Several

\* What has been stored of the triples is not disturbed by other calls.
LEMMA WholeKept ==
    ASSUME CommandInv, UNCHANGED <<attr, torn, probe>>,
           \A u \in Admin :
              (call[u].op = "triple" \/ call'[u].op = "triple") => call'[u] = call[u]
    PROVE  Whole' /\ (UNCHANGED reboot => Loaded')
<1>1. \A m : Storing(m)' = Storing(m)
    BY DEF Storing
<1>2. \A m \in Mode : attr'[m] \in Given \/ m \in torn' \/ Storing(m)' # {}
    BY <1>1 DEF CommandInv, Whole
<1>3. ASSUME NEW u \in Admin, call'[u].op = "triple"
      PROVE  /\ probe' = "done"
             /\ call'[u].alone = TRUE =>
                   /\ \A v \in Admin : Together(u, v)' => v = u
                   /\ Written(attr'[call'[u].mode], call'[u])
             /\ call'[u].alone = FALSE => call'[u].mode \in torn'
    <2>1. call'[u] = call[u] /\ call[u].op = "triple"
        BY <1>3
    <2>2. \A v \in Admin : Together(u, v)' => Together(u, v)
        BY <2>1 DEF Together
    <2> QED
        BY <2>1, <2>2 DEF CommandInv, Whole
<1>4. UNCHANGED reboot => Loaded'
    BY <1>1 DEF CommandInv, Loaded
<1> QED
    BY <1>2, <1>3, <1>4 DEF Whole

LEMMA ControlReadStep ==
    ASSUME IInv, CommandInv, NEW t \in Admin, ControlRead(t)
    PROVE  CommandInv'
<1>1. PICK c \in Command :
        call' = [call EXCEPT ![t] = [op |-> "control", bit |-> c, fresh |-> TRUE]]
    BY DEF ControlRead
<1>2. call' \in [Admin -> CommandCalls]
    BY <1>1 DEF CommandInv, CommandCalls, Controls
<1>3. FreshIsFirst'
    <2>1. owed' = {}
        BY DEF ControlRead, ghosts, IInv, PendingKept
    <2> QED
        BY <2>1 DEF FreshIsFirst
<1>4. call[t].op = "idle" /\ call'[t].op = "control"
    BY <1>1 DEF ControlRead, Idle, CommandInv
<1>5. \A u \in Admin : u # t => call'[u] = call[u]
    BY <1>1 DEF CommandInv
<1>6. UNCHANGED <<attr, probe, torn, reboot>>
    BY DEF ControlRead, ghosts
<1>7. Whole' /\ Loaded'
    BY <1>4, <1>5, <1>6, WholeKept
<1> QED
    BY <1>2, <1>3, <1>6, <1>7 DEF CommandInv, Typed

LEMMA ControlWriteStep ==
    ASSUME IInv, CommandInv, NEW t \in Admin, ControlWrite(t)
    PROVE  CommandInv' /\ OneCommand' /\ PendingKept'
<1>1. /\ call[t].op = "control" /\ call[t].bit \in Command /\ call[t].fresh \in BOOLEAN
      /\ call[t].fresh = TRUE => owed = {}
    BY ControlShape DEF ControlWrite, CommandInv, FreshIsFirst
<1>2. UNCHANGED <<attr, probe, torn, reboot>>
    BY DEF ControlWrite
<1>3. Typed'
    BY <1>2 DEF CommandInv, Typed
<1>4. CASE Fine /\ cfg7' = {call[t].bit}
           /\ owed' = (IF call[t].fresh THEN owed ELSE {}) \cup {call[t].bit}
           /\ loose' = FALSE /\ call' = [Stale EXCEPT ![t] = Idle]
    <2>1. owed' = {call[t].bit}
        BY <1>1, <1>4
    <2>2. OneCommand' /\ PendingKept'
        BY <1>4, <2>1 DEF OneCommand, PendingKept, Several
    <2>3. call' \in [Admin -> CommandCalls] /\ call'[t] = Idle
          /\ \A u \in Admin : u # t => call'[u] = Stale[u]
        BY <1>4, StaleCalls DEF CommandInv, CommandCalls
    <2>4. \A u \in Admin :
             /\ call'[u].op = "control" => call'[u].fresh = FALSE
             /\ (call[u].op = "triple" \/ call'[u].op = "triple") => call'[u] = call[u]
        <3> SUFFICES ASSUME NEW u \in Admin
                     PROVE  /\ call'[u].op = "control" => call'[u].fresh = FALSE
                            /\ (call[u].op = "triple" \/ call'[u].op = "triple")
                                  => call'[u] = call[u]
            OBVIOUS
        <3>1. CASE u = t
            BY <1>1, <2>3, <3>1 DEF Idle
        <3>2. CASE u # t
            <4>1. call'[u] = Stale[u]
                BY <2>3, <3>2
            <4>2. /\ Stale[u].op = call[u].op
                  /\ call[u].op # "control" => Stale[u] = call[u]
                  /\ call[u].op = "control" => Stale[u].fresh = FALSE
                BY StaleCalls DEF CommandInv
            <4> QED
                BY <4>1, <4>2
        <3> QED
            BY <3>1, <3>2
    <2>5. FreshIsFirst'
        BY <2>4 DEF FreshIsFirst
    <2>6. Whole' /\ Loaded'
        BY <1>2, <2>4, WholeKept
    <2> QED
        BY <1>3, <2>2, <2>3, <2>5, <2>6 DEF CommandInv
<1>5. CASE Fault /\ call' = [call EXCEPT ![t] = Idle] /\ UNCHANGED <<cfg7, owed, loose>>
    <2>1. call' \in [Admin -> CommandCalls] /\ call'[t] = Idle
          /\ \A u \in Admin : u # t => call'[u] = call[u]
        BY <1>5 DEF CommandInv, CommandCalls
    <2>2. FreshIsFirst'
        BY <1>5, <2>1 DEF FreshIsFirst, CommandInv, Idle
    <2>3. Whole' /\ Loaded'
        BY <1>1, <1>2, <2>1, WholeKept DEF Idle
    <2> QED
        BY <1>3, <1>5, <2>1, <2>2, <2>3 DEF CommandInv, IInv, OneCommand, PendingKept
<1> QED
    BY <1>4, <1>5 DEF ControlWrite

\* A step that overtakes the control stores leaves the triples alone.
LEMMA Overtaken ==
    ASSUME CommandInv, UNCHANGED <<attr, torn, probe>>, call' = Stale
    PROVE  call' \in [Admin -> CommandCalls] /\ FreshIsFirst' /\ Whole' /\ (UNCHANGED reboot => Loaded')
<1>1. call' \in [Admin -> CommandCalls]
    BY StaleCalls DEF CommandInv
<1>2. \A u \in Admin : /\ call'[u].op = call[u].op
                       /\ call[u].op # "control" => call'[u] = call[u]
                       /\ call[u].op = "control" => call'[u].fresh = FALSE
    BY StaleCalls DEF CommandInv
<1>3. FreshIsFirst'
    BY <1>2 DEF FreshIsFirst
<1>4. Whole' /\ (UNCHANGED reboot => Loaded')
    BY <1>2, WholeKept
<1> QED
    BY <1>1, <1>3, <1>4

LEMMA Cfg7StoreStep ==
    ASSUME IInv, CommandInv, NEW t \in Admin, Cfg7Store(t)
    PROVE  CommandInv' /\ OneCommand' /\ PendingKept'
<1>1. PICK v \in SUBSET (Command \cup Keep) :
        cfg7' = Update(cfg7, Command \cup Keep, v) /\ owed' = v \cap Command
        /\ loose' = Several(v)
    BY DEF Cfg7Store
<1>2. cfg7' \cap Command = v \cap Command
    BY <1>1 DEF Update
<1>3. OneCommand' /\ PendingKept'
    BY <1>1, <1>2 DEF OneCommand, PendingKept, Several
<1>4. call[t].op = "idle"
    BY DEF Cfg7Store, Idle
<1>5. call' = Stale
    <2>1. Stale[t] = Idle
        BY <1>4 DEF Stale, Cfg7Store
    <2> QED
        BY <2>1, StaleCalls DEF Cfg7Store, CommandInv
<1>6. UNCHANGED <<attr, torn, probe, reboot>>
    BY DEF Cfg7Store
<1>7. Typed'
    BY <1>6 DEF CommandInv, Typed
<1> QED
    BY <1>3, <1>5, <1>6, <1>7, Overtaken DEF CommandInv

LEMMA PowerControllerStep ==
    ASSUME IInv, CommandInv, PowerController
    PROVE  CommandInv' /\ OneCommand' /\ PendingKept'
<1>1. OneCommand' /\ PendingKept'
    BY DEF PowerController, OneCommand, PendingKept, Several
<1>2. UNCHANGED <<attr, torn, probe, reboot, call>>
    BY DEF PowerController
<1>3. FreshIsFirst'
    BY DEF PowerController, FreshIsFirst
<1>4. Whole' /\ Loaded'
    BY <1>2, WholeKept
<1> QED
    BY <1>1, <1>2, <1>3, <1>4 DEF CommandInv, Typed

\* What an update of the notifier starts with.
LEMMA UpdatingShape ==
    ASSUME NEW p \in Triple, NEW excused \in BOOLEAN, reboot' = Updating(p, excused)
    PROVE  /\ reboot' \in Acting /\ reboot' \in Calling
           /\ reboot'.at # "load" /\ reboot'.use = p /\ reboot'.excused = excused
BY DEF Updating, Acting, Calling

LEMMA NotifyStep ==
    ASSUME IInv, CommandInv, Notify
    PROVE  CommandInv' /\ WholeTriple'
<1>1. UNCHANGED <<attr, torn, probe, call, owed>>
    BY DEF Notify, ghosts
<1>2. FreshIsFirst' /\ Whole' /\ \A m : Storing(m)' = Storing(m)
    BY <1>1, WholeKept DEF CommandInv, FreshIsFirst, Storing
<1>3. PICK m \in Mode :
        reboot' = IF m \in notifierMode
                  THEN [at |-> "load", mode |-> m, use |-> attr[m], left |-> Field,
                        excused |-> m \in torn \/ Storing(m) # {}]
                  ELSE [at |-> "over", use |-> attr[m], excused |-> TRUE]
    BY DEF Notify
<1>4. attr[m] \in Triple
    BY DEF CommandInv, Typed
<1>5. CASE m \in notifierMode
    <2>1. /\ reboot'.at = "load" /\ reboot'.mode = m /\ reboot'.use = attr[m]
          /\ reboot'.excused = (m \in torn \/ Storing(m) # {})
        BY <1>3, <1>5
    <2>2. Typed'
        <3>1. Field \in (SUBSET Field) \ {{}}
            BY DEF Field
        <3> QED
            BY <1>1, <1>3, <1>4, <1>5, <3>1 DEF CommandInv, Typed, Calling
    <2>3. Loaded'
        BY <1>1, <1>2, <2>1 DEF Loaded
    <2> QED
        BY <1>1, <1>2, <2>1, <2>2, <2>3 DEF CommandInv, WholeTriple
<1>6. CASE m \notin notifierMode
    <2>1. reboot' = [at |-> "over", use |-> attr[m], excused |-> TRUE]
        BY <1>3, <1>6
    <2>2. Typed' /\ Loaded' /\ WholeTriple'
        BY <1>1, <1>4, <2>1 DEF CommandInv, Typed, Calling, Loaded, WholeTriple
    <2> QED
        BY <1>1, <1>2, <2>2 DEF CommandInv
<1> QED
    BY <1>5, <1>6

\* Loading a field of a triple that nobody stores finds what was there before.
LEMMA NotifyLoadStep ==
    ASSUME IInv, CommandInv, NotifyLoad
    PROVE  CommandInv' /\ WholeTriple'
<1> DEFINE m == reboot.mode
<1>1. UNCHANGED <<attr, torn, probe, call, owed>>
    BY DEF NotifyLoad, ghosts
<1>2. FreshIsFirst' /\ Whole' /\ \A n : Storing(n)' = Storing(n)
    BY <1>1, WholeKept DEF CommandInv, FreshIsFirst, Storing
<1>3. /\ reboot.at = "load" /\ m \in Mode /\ reboot.use \in Triple
      /\ reboot.excused \in BOOLEAN /\ reboot.left \subseteq Field
      /\ reboot \in [at: {"load"}, mode: Mode, use: Triple,
                     left: (SUBSET Field) \ {{}}, excused: BOOLEAN]
    BY RebootShape DEF NotifyLoad, CommandInv
<1>4. PICK f \in reboot.left :
        LET use == Put(reboot.use, f, attr[m])
            left == reboot.left \ {f}
        IN reboot' = IF left = {} THEN Updating(use, reboot.excused)
                     ELSE [reboot EXCEPT !.use = use, !.left = left]
    BY DEF NotifyLoad
<1> DEFINE use == Put(reboot.use, f, attr[m])
           left == reboot.left \ {f}
<1>5. attr[m] \in Triple /\ use \in Triple
    BY <1>3, PutTyped DEF CommandInv, Typed
<1>6. reboot.excused = FALSE =>
          use = attr[m] /\ Storing(m) = {} /\ m \notin torn /\ attr[m] \in Given
    <2> SUFFICES ASSUME reboot.excused = FALSE
                 PROVE  use = attr[m] /\ Storing(m) = {} /\ m \notin torn /\ attr[m] \in Given
        OBVIOUS
    <2>1. reboot.use = attr[m] /\ Storing(m) = {} /\ m \notin torn
        BY <1>3 DEF CommandInv, Loaded
    <2>2. use = attr[m]
        BY <1>5, <2>1 DEF Put, Triple
    <2>3. attr[m] \in Given
        BY <1>3, <2>1 DEF CommandInv, Whole
    <2> QED
        BY <2>1, <2>2, <2>3
<1>7. CASE left = {}
    <2>1. /\ reboot' \in Calling /\ reboot'.at # "load" /\ reboot'.use = use
          /\ reboot'.excused = reboot.excused
        BY <1>3, <1>4, <1>5, <1>7, UpdatingShape
    <2>2. Typed' /\ Loaded'
        BY <1>1, <2>1 DEF CommandInv, Typed, Loaded
    <2>3. WholeTriple'
        BY <1>3, <1>6, <2>1 DEF WholeTriple, Given
    <2> QED
        BY <1>1, <1>2, <2>2, <2>3 DEF CommandInv
<1>8. CASE left # {}
    <2>1. /\ reboot' \in [at: {"load"}, mode: Mode, use: Triple,
                          left: (SUBSET Field) \ {{}}, excused: BOOLEAN]
          /\ reboot'.at = "load" /\ reboot'.mode = m /\ reboot'.use = use
          /\ reboot'.excused = reboot.excused
        BY <1>3, <1>4, <1>5, <1>8
    <2>2. Typed'
        BY <1>1, <2>1 DEF CommandInv, Typed, Calling
    <2>3. Loaded'
        BY <1>1, <1>2, <1>6, <2>1 DEF Loaded
    <2> QED
        BY <1>1, <1>2, <2>1, <2>2, <2>3 DEF CommandInv, WholeTriple
<1> QED
    BY <1>7, <1>8

\* A write of the notifier keeps what is owed, and leaves several commands in
\* the register only if it asks for them.
LEMMA RequestKeeps ==
    ASSUME IInv, CommandInv, UNCHANGED <<attr, torn, probe>>, Typed', Loaded',
           NEW mask, NEW value, NEW asks, Request(mask, value, asks),
           asks = FALSE => ~Several(Update(cfg7, mask, value)), asks \in BOOLEAN
    PROVE  CommandInv' /\ OneCommand' /\ PendingKept'
<1>1. CASE reboot.use.reg = "cfg7"
    <2>1. /\ cfg7' = Update(cfg7, mask, value) /\ loose' = asks /\ call' = Stale
          /\ owed' = Update(owed, mask, value) \cap Command
        BY <1>1 DEF Request
    <2>2. call' \in [Admin -> CommandCalls] /\ FreshIsFirst' /\ Whole'
        BY <2>1, Overtaken
    <2>3. OneCommand'
        BY <2>1 DEF OneCommand, Several
    <2>4. PendingKept'
        BY <2>1, UpdateOwed DEF IInv, PendingKept
    <2> QED
        BY <2>2, <2>3, <2>4 DEF CommandInv
<1>2. CASE reboot.use.reg # "cfg7"
    <2>1. UNCHANGED <<cfg7, owed, loose, call>>
        BY <1>2 DEF Request
    <2>2. Whole'
        BY <2>1, WholeKept
    <2> QED
        BY <2>1, <2>2 DEF IInv, CommandInv, FreshIsFirst, OneCommand, PendingKept, Several
<1> QED
    BY <1>1, <1>2

LEMMA FaultKeeps ==
    ASSUME IInv, CommandInv, UNCHANGED <<attr, torn, probe>>, Typed', Loaded',
           UNCHANGED <<cfg7, owed, loose, call>>
    PROVE  CommandInv' /\ OneCommand' /\ PendingKept'
<1>1. Whole'
    BY WholeKept
<1> QED
    BY <1>1 DEF IInv, CommandInv, FreshIsFirst, OneCommand, PendingKept, Several

\* An update that goes on, or ends, uses the same triple.
LEMMA ActingStep ==
    ASSUME CommandInv, WholeTriple, reboot.at \in {"read", "cleared"}, UNCHANGED attr,
           NEW at \in {"read", "cleared", "over"}, reboot' = [reboot EXCEPT !.at = at]
    PROVE  Typed' /\ Loaded' /\ WholeTriple'
<1>1. reboot \in Acting
    BY RebootShape DEF CommandInv
<1>2. /\ reboot' \in Acting /\ reboot'.at = at /\ reboot'.use = reboot.use
      /\ reboot'.excused = reboot.excused
    BY <1>1 DEF Acting
<1>3. Typed'
    BY <1>2 DEF CommandInv, Typed, Calling, Acting
<1>4. Loaded'
    BY <1>2 DEF Loaded
<1>5. WholeTriple'
    BY <1>2 DEF WholeTriple
<1> QED
    BY <1>3, <1>4, <1>5

LEMMA RebootClearStep ==
    ASSUME IInv, CommandInv, RebootClear
    PROVE  CommandInv' /\ OneCommand' /\ PendingKept' /\ WholeTriple'
<1> DEFINE use == reboot.use
<1>1. reboot.at = "read" /\ WholeTriple /\ UNCHANGED <<attr, torn, probe>>
    BY DEF RebootClear, IInv
<1>2. ASSUME NEW at \in {"read", "cleared", "over"}, reboot' = [reboot EXCEPT !.at = at]
      PROVE  Typed' /\ Loaded' /\ WholeTriple'
    BY <1>1, <1>2, ActingStep
<1>3. CASE Request(Command \cup Keep, use.value, Several(use.value))
           /\ reboot' = [reboot EXCEPT !.at = "over"]
    <2>1. Several(use.value) \in BOOLEAN
        BY DEF Several
    <2>2. Several(Update(cfg7, Command \cup Keep, use.value)) <=> Several(use.value)
        BY UpdateAll
    <2> QED
        BY <1>1, <1>2, <1>3, <2>1, <2>2, RequestKeeps
<1>4. CASE Request(use.mask, {}, loose /\ ~(Command \subseteq use.mask))
           /\ reboot' = [reboot EXCEPT !.at = "cleared"]
    <2>1. (loose /\ ~(Command \subseteq use.mask)) \in BOOLEAN
        OBVIOUS
    <2>2. ASSUME (loose /\ ~(Command \subseteq use.mask)) = FALSE
          PROVE  ~Several(Update(cfg7, use.mask, {}))
        <3>1. CASE Command \subseteq use.mask
            BY <3>1, UpdateAll DEF Several
        <3>2. CASE ~loose
            BY <3>2, UpdateSome DEF IInv, OneCommand
        <3> QED
            BY <2>2, <3>1, <3>2
    <2> QED
        BY <1>1, <1>2, <1>4, <2>1, <2>2, RequestKeeps
<1>5. CASE reboot' = [reboot EXCEPT !.at = "over"] /\ UNCHANGED <<cfg7, owed, loose, call>>
    BY <1>1, <1>2, <1>5, FaultKeeps
<1> QED
    BY <1>3, <1>4, <1>5 DEF RebootClear

LEMMA RebootSetStep ==
    ASSUME IInv, CommandInv, RebootSet
    PROVE  CommandInv' /\ OneCommand' /\ PendingKept' /\ WholeTriple'
<1> DEFINE mask == reboot.use.mask
           value == reboot.use.value
<1>1. reboot.at = "cleared" /\ WholeTriple /\ UNCHANGED <<attr, torn, probe>>
      /\ reboot' = [reboot EXCEPT !.at = "over"]
    BY DEF RebootSet, IInv
<1>2. Typed' /\ Loaded' /\ WholeTriple'
    BY <1>1, ActingStep
<1>3. CASE Request(mask, value, Leaves(mask, value))
    <2>1. CASE Command \subseteq mask
        <3>1. Leaves(mask, value) = Several(value) /\ Several(value) \in BOOLEAN
            BY <2>1 DEF Leaves, Several
        <3>2. Several(Update(cfg7, mask, value)) <=> Several(value)
            BY <2>1, UpdateAll
        <3> QED
            BY <1>1, <1>2, <1>3, <3>1, <3>2, RequestKeeps
    <2>2. CASE ~(Command \subseteq mask)
        <3> DEFINE asks == loose \/ mask \cap value \cap Command # {}
        <3>1. Leaves(mask, value) = asks /\ asks \in BOOLEAN
            BY <2>2 DEF Leaves
        <3>2. asks = FALSE => ~Several(Update(cfg7, mask, value))
            BY UpdateSome DEF IInv, OneCommand
        <3> HIDE DEF asks
        <3> QED
            BY <1>1, <1>2, <1>3, <3>1, <3>2, RequestKeeps
    <2> QED
        BY <2>1, <2>2
<1>4. CASE UNCHANGED <<cfg7, owed, loose, call>>
    BY <1>1, <1>2, <1>4, FaultKeeps
<1> QED
    BY <1>2, <1>3, <1>4 DEF RebootSet

LEMMA TripleBeginStep ==
    ASSUME IInv, CommandInv, NEW t \in Admin, TripleBegin(t)
    PROVE  CommandInv' /\ WholeTriple'
<1> PICK m \in Mode : \E new \in Triples[m] :
        /\ call' = [u \in Admin |->
              IF u = t THEN [op |-> "triple", mode |-> m, new |-> new,
                             left |-> Field, alone |-> Storing(m) = {}]
              ELSE IF u \in Storing(m) THEN [call[u] EXCEPT !.alone = FALSE]
              ELSE call[u]]
        /\ torn' = IF Storing(m) = {} THEN torn ELSE torn \cup {m}
        /\ reboot' = IF Loading(m) THEN [reboot EXCEPT !.excused = TRUE] ELSE reboot
    BY DEF TripleBegin
<1>1. PICK new \in Triples[m] :
        /\ call' = [u \in Admin |->
              IF u = t THEN [op |-> "triple", mode |-> m, new |-> new,
                             left |-> Field, alone |-> Storing(m) = {}]
              ELSE IF u \in Storing(m) THEN [call[u] EXCEPT !.alone = FALSE]
              ELSE call[u]]
        /\ torn' = IF Storing(m) = {} THEN torn ELSE torn \cup {m}
        /\ reboot' = IF Loading(m) THEN [reboot EXCEPT !.excused = TRUE] ELSE reboot
    OBVIOUS
<1>2. UNCHANGED <<attr, probe, owed>> /\ probe = "done" /\ call[t].op = "idle"
    BY DEF TripleBegin, Idle
<1>3. /\ call'[t] = [op |-> "triple", mode |-> m, new |-> new, left |-> Field,
                     alone |-> Storing(m) = {}]
      /\ call'[t] \in TripleCalls
    BY <1>1, BlockAssumption DEF TripleCalls
<1>4. ASSUME NEW u \in Storing(m)
      PROVE  /\ u # t /\ call[u] \in TripleCalls /\ call'[u] = [call[u] EXCEPT !.alone = FALSE]
             /\ call'[u] \in TripleCalls
             /\ call'[u].op = "triple" /\ call'[u].mode = m /\ call'[u].alone = FALSE
    <2>1. u \in Admin /\ call[u].op = "triple" /\ call[u].mode = m
        BY DEF Storing
    <2>2. u # t /\ call[u] \in TripleCalls
        BY <1>2, <2>1, TripleShape DEF CommandInv
    <2>3. call'[u] = [call[u] EXCEPT !.alone = FALSE]
        BY <1>1, <2>1, <2>2
    <2> QED
        BY <2>1, <2>2, <2>3 DEF TripleCalls
<1>5. \A u \in Admin : u # t /\ u \notin Storing(m) => call'[u] = call[u]
    BY <1>1
<1>6. call' \in [Admin -> CommandCalls]
    <2>1. \A u \in Admin : call'[u] \in CommandCalls
        BY <1>3, <1>4, <1>5 DEF CommandInv, CommandCalls
    <2> QED
        BY <1>1, <2>1
<1>7. Typed' /\ Loaded' /\ WholeTriple'
    <2>1. CASE Loading(m)
        <3>1. reboot \in [at: {"load"}, mode: Mode, use: Triple,
                         left: (SUBSET Field) \ {{}}, excused: BOOLEAN]
            BY <2>1, RebootShape DEF CommandInv, Loading
        <3>2. /\ reboot' \in [at: {"load"}, mode: Mode, use: Triple,
                              left: (SUBSET Field) \ {{}}, excused: BOOLEAN]
              /\ reboot'.at = "load" /\ reboot'.excused = TRUE
            BY <1>1, <2>1, <3>1
        <3> QED
            BY <1>2, <3>2 DEF CommandInv, Typed, Calling, Loaded, WholeTriple
    <2>2. CASE ~Loading(m)
        <3>1. reboot' = reboot
            BY <1>1, <2>2
        <3>2. ASSUME reboot.at = "load"
              PROVE  Storing(reboot.mode)' = Storing(reboot.mode)
                     /\ (reboot.mode \in torn' => reboot.mode \in torn)
            BY <1>1, <1>2, <1>3, <1>4, <1>5, <2>2, <3>2 DEF Storing, Loading
        <3>3. Loaded'
            BY <1>2, <3>1, <3>2 DEF CommandInv, Loaded
        <3> QED
            BY <1>2, <3>1, <3>3 DEF CommandInv, Typed, IInv, WholeTriple
    <2> QED
        BY <2>1, <2>2
<1>8. FreshIsFirst'
    <2>1. \A u \in Admin : call'[u].op = "control" => call'[u] = call[u]
        <3> SUFFICES ASSUME NEW u \in Admin, call'[u].op = "control"
                     PROVE  call'[u] = call[u]
            OBVIOUS
        <3>1. u # t
            BY <1>3
        <3>2. u \notin Storing(m)
            BY <1>4
        <3> QED
            BY <1>5, <3>1, <3>2
    <2> QED
        BY <1>2, <2>1 DEF CommandInv, FreshIsFirst
<1>9. \A n \in Mode : attr'[n] \in Given \/ n \in torn' \/ Storing(n)' # {}
    <2>1. \A u \in Admin : call[u].op = "triple" =>
              call'[u].op = "triple" /\ call'[u].mode = call[u].mode
        BY <1>2, <1>4, <1>5 DEF Storing
    <2>2. \A n : Storing(n) \subseteq Storing(n)'
        BY <2>1 DEF Storing
    <2>3. torn \subseteq torn'
        BY <1>1
    <2> QED
        BY <1>2, <2>2, <2>3 DEF CommandInv, Whole
<1>10. ASSUME NEW u \in Admin, call'[u].op = "triple"
       PROVE  /\ probe' = "done"
              /\ call'[u].alone = TRUE =>
                    /\ \A v \in Admin : Together(u, v)' => v = u
                    /\ Written(attr'[call'[u].mode], call'[u])
              /\ call'[u].alone = FALSE => call'[u].mode \in torn'
    <2>1. CASE u = t
        <3>1. ASSUME Storing(m) = {}, NEW v \in Admin, Together(u, v)' PROVE v = u
            BY <1>3, <1>5, <2>1, <3>1 DEF Together, Storing
        <3>2. Written(attr'[call'[u].mode], call'[u])
            BY <1>3, <2>1 DEF Written, Field
        <3>6. call'[u].alone = (Storing(m) = {})
            BY <1>3, <2>1
        <3>3. call'[u].alone = TRUE => Storing(m) = {}
            BY <3>6, Zenon
        <3>4. call'[u].alone = FALSE => Storing(m) # {}
            BY <3>6, Zenon
        <3>5. call'[u].alone = FALSE => call'[u].mode \in torn'
            BY <1>1, <1>3, <2>1, <3>4
        <3> QED
            BY <1>2, <3>1, <3>2, <3>3, <3>5
    <2>2. CASE u \in Storing(m)
        <3>1. call'[u].mode = m /\ call'[u].alone = FALSE
            BY <1>4, <2>2
        <3>2. m \in torn'
            BY <1>1, <2>2
        <3>3. call'[u].alone # TRUE
            BY <3>1
        <3> QED
            BY <1>2, <3>1, <3>2, <3>3
    <2>3. CASE u # t /\ u \notin Storing(m)
        <3>1. call'[u] = call[u] /\ call[u].mode # m
            BY <1>5, <1>10, <2>3 DEF Storing
        <3>2. \A v \in Admin : Together(u, v)' => Together(u, v)
            <4> SUFFICES ASSUME NEW v \in Admin, Together(u, v)' PROVE Together(u, v)
                OBVIOUS
            <4>1. call'[v].op = "triple" /\ call'[v].mode = call[u].mode
                BY <3>1 DEF Together
            <4>2. v # t
                BY <1>3, <3>1, <4>1
            <4>3. v \notin Storing(m)
                BY <1>4, <3>1, <4>1
            <4> QED
                BY <1>5, <4>1, <4>2, <4>3 DEF Together
        <3>3. /\ call[u].alone = TRUE =>
                    /\ \A v \in Admin : Together(u, v) => v = u
                    /\ Written(attr[call[u].mode], call[u])
              /\ call[u].alone = FALSE => call[u].mode \in torn
            BY <1>10, <3>1 DEF CommandInv, Whole
        <3>4. torn \subseteq torn'
            BY <1>1
        <3> QED
            BY <1>2, <3>1, <3>2, <3>3, <3>4
    <2> QED
        BY <2>1, <2>2, <2>3
<1>11. Whole'
    BY <1>9, <1>10 DEF Whole
<1> QED
    BY <1>6, <1>7, <1>8, <1>11 DEF CommandInv

\* Putting a field of a triple that is being stored leaves the fields that are
\* written written, and with the last of them the triple is the given one.
LEMMA PutWritten ==
    ASSUME NEW p \in Triple, NEW c \in TripleCalls, NEW f \in c.left, NEW d,
           d.new = c.new, d.left = c.left \ {f}, Written(p, c)
    PROVE  /\ Written(Put(p, f, c.new), d)
           /\ d.left = {} => Put(p, f, c.new) = c.new
<1>1. c.left \subseteq Field /\ c.new \in Triple
    BY DEF TripleCalls
<1>2. /\ Put(p, f, c.new).reg = IF f = "reg" THEN c.new.reg ELSE p.reg
      /\ Put(p, f, c.new).mask = IF f = "mask" THEN c.new.mask ELSE p.mask
      /\ Put(p, f, c.new).value = IF f = "value" THEN c.new.value ELSE p.value
    BY DEF Put
<1>3. Written(Put(p, f, c.new), d)
    BY <1>2 DEF Written
<1>4. ASSUME d.left = {} PROVE Put(p, f, c.new) = c.new
    <2>1. /\ Put(p, f, c.new).reg = c.new.reg /\ Put(p, f, c.new).mask = c.new.mask
          /\ Put(p, f, c.new).value = c.new.value
        BY <1>3, <1>4 DEF Written
    <2>2. Put(p, f, c.new) = [reg |-> c.new.reg, mask |-> c.new.mask, value |-> c.new.value]
        BY <1>2, <2>1 DEF Put
    <2> QED
        BY <1>1, <2>2 DEF Triple
<1> QED
    BY <1>3, <1>4

LEMMA TripleStoreStep ==
    ASSUME IInv, CommandInv, NEW t \in Admin, TripleStore(t)
    PROVE  CommandInv'
<1> DEFINE c == call[t]
           m == call[t].mode
<1>1. /\ c \in TripleCalls /\ c.op = "triple" /\ m \in Mode /\ c.new \in Triples[m]
      /\ c.left \subseteq Field /\ c.alone \in BOOLEAN
    BY TripleShape DEF TripleStore, CommandInv
<1>2. PICK f \in c.left :
        LET left == c.left \ {f}
        IN /\ attr' = [attr EXCEPT ![m] = Put(@, f, c.new)]
           /\ call' = [call EXCEPT ![t] = IF left = {} THEN Idle ELSE [c EXCEPT !.left = left]]
           /\ torn' = IF left = {} /\ c.alone THEN torn \ {m} ELSE torn
    BY DEF TripleStore
<1> DEFINE left == c.left \ {f}
           d == [c EXCEPT !.left = left]
<1>3. UNCHANGED <<probe, reboot, owed>>
    BY DEF TripleStore
<1>4. d \in TripleCalls /\ d.new = c.new /\ d.left = left /\ d.mode = m /\ d.op = "triple"
      /\ d.alone = c.alone
    BY <1>1, <1>2 DEF TripleCalls
<1>5. call' \in [Admin -> CommandCalls] /\ call'[t] = (IF left = {} THEN Idle ELSE d)
      /\ \A u \in Admin : u # t => call'[u] = call[u]
    <2>1. d \in CommandCalls /\ Idle \in CommandCalls
        BY <1>4 DEF CommandCalls
    <2> QED
        BY <1>2, <2>1 DEF CommandInv
<1>5a. \A v \in Admin : call'[v].op = "triple" =>
          call[v].op = "triple" /\ call'[v].mode = call[v].mode
    <2> SUFFICES ASSUME NEW v \in Admin, call'[v].op = "triple"
                 PROVE  call[v].op = "triple" /\ call'[v].mode = call[v].mode
        OBVIOUS
    <2>1. CASE v = t
        <3>1. call'[v] = d
            BY <1>5, <2>1 DEF Idle
        <3> QED
            BY <1>1, <1>4, <2>1, <3>1
    <2>2. CASE v # t
        BY <1>5, <2>2
    <2> QED
        BY <2>1, <2>2
<1>6. attr'[m] = Put(attr[m], f, c.new) /\ \A n \in Mode : n # m => attr'[n] = attr[n]
    BY <1>1, <1>2 DEF CommandInv, Typed
<1>7. c.new \in Triple /\ f \in Field
    BY <1>1, <1>2 DEF TripleCalls
<1>8. Typed'
    <2>1. Put(attr[m], f, c.new) \in Triple
        BY <1>1, <1>7, PutTyped DEF CommandInv, Typed
    <2> QED
        BY <1>1, <1>2, <1>3, <1>6, <2>1 DEF CommandInv, Typed
<1>9. Loaded'
    <2> SUFFICES ASSUME reboot.at = "load", reboot.excused = FALSE
                 PROVE  /\ Storing(reboot.mode)' = {} /\ reboot.mode \notin torn'
                        /\ reboot.use = attr'[reboot.mode]
        BY <1>3 DEF Loaded
    <2>1. /\ Storing(reboot.mode) = {} /\ reboot.mode \notin torn
          /\ reboot.use = attr[reboot.mode] /\ reboot.mode \in Mode
        BY RebootShape DEF CommandInv, Loaded
    <2>2. m # reboot.mode
        BY <1>1, <2>1 DEF Storing
    <2>3. Storing(reboot.mode)' = {}
        BY <1>3, <1>5a, <2>1 DEF Storing
    <2> QED
        BY <1>2, <1>6, <2>1, <2>2, <2>3
<1>10. FreshIsFirst'
    <2>1. call'[t].op # "control"
        BY <1>4, <1>5 DEF Idle
    <2> QED
        BY <1>3, <1>5, <2>1 DEF CommandInv, FreshIsFirst
<1>11. /\ c.alone = TRUE => (\A u \in Admin : Together(t, u) => u = t) /\ Written(attr[m], c)
       /\ c.alone = FALSE => m \in torn
       /\ probe = "done"
    BY <1>1 DEF CommandInv, Whole
<1>12. c.alone = TRUE => /\ Written(attr'[m], d)
                         /\ left = {} => attr'[m] = c.new
    <2>1. attr[m] \in Triple
        BY <1>1 DEF CommandInv, Typed
    <2> SUFFICES ASSUME c.alone = TRUE
                 PROVE  Written(attr'[m], d) /\ (left = {} => attr'[m] = c.new)
        OBVIOUS
    <2>2. Written(attr[m], c)
        BY <1>11
    <2> HIDE DEF c, d, m, left
    <2>3. d.new = c.new /\ d.left = c.left \ {f}
        BY <1>4 DEF left
    <2>4. /\ Written(Put(attr[m], f, c.new), d)
          /\ d.left = {} => Put(attr[m], f, c.new) = c.new
        BY <1>1, <2>1, <2>2, <2>3, PutWritten
    <2> QED
        BY <1>4, <1>6, <2>4
<1>13. \A n \in Mode : attr'[n] \in Given \/ n \in torn' \/ Storing(n)' # {}
    <2> SUFFICES ASSUME NEW n \in Mode
                 PROVE  attr'[n] \in Given \/ n \in torn' \/ Storing(n)' # {}
        OBVIOUS
    <2>1. CASE n # m
        <3>1. Storing(n) \subseteq Storing(n)'
            BY <1>5, <2>1 DEF Storing
        <3>2. n \in torn => n \in torn'
            BY <1>2, <2>1
        <3> QED
            BY <1>6, <2>1, <3>1, <3>2 DEF CommandInv, Whole
    <2>2. CASE n = m /\ left # {}
        <3>1. t \in Storing(n)'
            BY <1>4, <1>5, <2>2 DEF Storing
        <3> QED
            BY <3>1
    <2>3. CASE n = m /\ c.alone = TRUE /\ left = {}
        BY <1>1, <1>12, <2>3, GivenTriples
    <2>4. CASE n = m /\ c.alone = FALSE
        BY <1>2, <1>11, <2>4
    <2> QED
        BY <1>1, <2>1, <2>2, <2>3, <2>4
<1>14. ASSUME NEW u \in Admin, call'[u].op = "triple"
       PROVE  /\ probe' = "done"
              /\ call'[u].alone = TRUE =>
                    /\ \A v \in Admin : Together(u, v)' => v = u
                    /\ Written(attr'[call'[u].mode], call'[u])
              /\ call'[u].alone = FALSE => call'[u].mode \in torn'
    <2>2. \A v \in Admin : Together(u, v)' => Together(u, v)
        BY <1>14, <1>5a DEF Together
    <2>3. CASE u = t
        <3>1. call'[u] = d /\ left # {}
            BY <1>5, <1>14, <2>3 DEF Idle
        <3> QED
            BY <1>2, <1>3, <1>4, <1>11, <1>12, <2>2, <2>3, <3>1
    <2>4. CASE u # t
        <3>1. call'[u] = call[u] /\ call[u].mode \in Mode
            BY <1>5, <1>14, <1>5a, <2>4, TripleShape DEF CommandInv
        <3>2. /\ call[u].alone = TRUE =>
                    /\ \A v \in Admin : Together(u, v) => v = u
                    /\ Written(attr[call[u].mode], call[u])
              /\ call[u].alone = FALSE => call[u].mode \in torn
            BY <1>14, <1>5a DEF CommandInv, Whole
        <3>3. ASSUME call[u].alone = TRUE PROVE attr'[call[u].mode] = attr[call[u].mode]
            <4>1. call[u].mode # m
                BY <1>1, <2>4, <3>2, <3>3 DEF Together
            <4> QED
                BY <1>6, <3>1, <4>1
        <3>4. ASSUME call[u].alone = FALSE PROVE call[u].mode \in torn'
            <4>1. c.alone = TRUE => call[u].mode # m
                BY <1>11, <1>14, <1>5a, <2>4 DEF Together
            <4> QED
                BY <1>1, <1>2, <3>2, <3>4, <4>1
        <3> QED
            BY <1>3, <1>11, <2>2, <3>1, <3>2, <3>3, <3>4
    <2> QED
        BY <2>3, <2>4
<1>15. Whole'
    BY <1>13, <1>14 DEF Whole
<1> QED
    BY <1>5, <1>8, <1>9, <1>10, <1>15 DEF CommandInv

LEMMA ProbeUpdateStep ==
    ASSUME IInv, CommandInv, ProbeUpdate
    PROVE  CommandInv' /\ WholeTriple'
<1>1. UNCHANGED <<attr, torn, call, owed>> /\ probe = "update"
    BY DEF ProbeUpdate, ghosts
<1>2. \A t \in Admin : call[t].op # "triple"
    BY <1>1 DEF CommandInv, Whole
<1>3. Whole' /\ FreshIsFirst'
    BY <1>1, <1>2 DEF CommandInv, Whole, Storing, FreshIsFirst
<1>4. AtProbe \in Triple /\ reboot' = Updating(AtProbe, TRUE)
    BY BlockAssumption DEF ProbeUpdate
<1>5. reboot' \in Calling /\ reboot'.at # "load" /\ reboot'.excused = TRUE
    BY <1>4, UpdatingShape
<1> QED
    BY <1>1, <1>3, <1>5 DEF CommandInv, Typed, Loaded, WholeTriple

LEMMA RegisterNotifierStep ==
    ASSUME IInv, CommandInv, RegisterNotifier
    PROVE  CommandInv' /\ WholeTriple'
<1>1. UNCHANGED <<torn, call, owed>> /\ reboot' = [at |-> "idle"] /\ probe = "notify"
    BY DEF RegisterNotifier, ghosts
<1>2. FreshIsFirst' /\ Loaded' /\ WholeTriple'
    BY <1>1 DEF CommandInv, FreshIsFirst, Loaded, WholeTriple
<1>3. attr' = Preset \/ attr' = attr
    BY DEF RegisterNotifier
<1>4. Typed'
    BY <1>1, <1>3, BlockAssumption DEF CommandInv, Typed, Calling
<1>5. \A t \in Admin : call[t].op # "triple"
    BY <1>1 DEF CommandInv, Whole
<1>6. Whole'
    BY <1>1, <1>3, <1>5, GivenTriples DEF CommandInv, Whole, Storing
<1> QED
    BY <1>1, <1>2, <1>4, <1>6 DEF CommandInv

\* A step on cfg7 or on a triple, one action at a time.
LEMMA CommandStepInv ==
    ASSUME IInv, family = "command", CommandStep, UNCHANGED family
    PROVE  IInv'
<1>1. CommandInv
    BY DEF IInv
<1> SUFFICES CommandInv' /\ OneCommand' /\ PendingKept' /\ WholeTriple'
    BY DEF IInv
<1>2. ASSUME UNCHANGED <<cfg7, owed, loose>> PROVE OneCommand' /\ PendingKept'
    BY <1>2 DEF IInv, OneCommand, PendingKept, Several
<1>3. ASSUME UNCHANGED reboot PROVE WholeTriple'
    BY <1>3 DEF IInv, WholeTriple
<1>4. CASE PowerController
    BY <1>1, <1>3, <1>4, PowerControllerStep DEF PowerController
<1>5. CASE Notify
    BY <1>1, <1>2, <1>5, NotifyStep DEF Notify, regs, ghosts
<1>6. CASE RebootClear
    BY <1>1, <1>6, RebootClearStep
<1>7. CASE RebootSet
    BY <1>1, <1>7, RebootSetStep
<1>8. ASSUME NEW t \in Admin, ControlRead(t)
      PROVE  CommandInv' /\ OneCommand' /\ PendingKept' /\ WholeTriple'
    BY <1>1, <1>2, <1>3, <1>8, ControlReadStep DEF ControlRead, regs, ghosts
<1>9. ASSUME NEW t \in Admin, ControlWrite(t)
      PROVE  CommandInv' /\ OneCommand' /\ PendingKept' /\ WholeTriple'
    BY <1>1, <1>3, <1>9, ControlWriteStep DEF ControlWrite
<1>10. ASSUME NEW t \in Admin, Cfg7Store(t)
       PROVE  CommandInv' /\ OneCommand' /\ PendingKept' /\ WholeTriple'
    BY <1>1, <1>3, <1>10, Cfg7StoreStep DEF Cfg7Store
<1>11. ASSUME NEW t \in Admin, TripleBegin(t)
       PROVE  CommandInv' /\ OneCommand' /\ PendingKept' /\ WholeTriple'
    BY <1>1, <1>2, <1>11, TripleBeginStep DEF TripleBegin, regs
<1>12. ASSUME NEW t \in Admin, TripleStore(t)
       PROVE  CommandInv' /\ OneCommand' /\ PendingKept' /\ WholeTriple'
    BY <1>1, <1>2, <1>3, <1>12, TripleStoreStep DEF TripleStore, regs
<1>13. CASE NotifyLoad
    BY <1>1, <1>2, <1>13, NotifyLoadStep DEF NotifyLoad, regs, ghosts
<1>14. CASE ProbeUpdate
    BY <1>1, <1>2, <1>14, ProbeUpdateStep DEF ProbeUpdate, regs, ghosts
<1>15. CASE RegisterNotifier
    BY <1>1, <1>2, <1>15, RegisterNotifierStep DEF RegisterNotifier, regs, ghosts
<1> QED
    BY <1>4, <1>5, <1>6, <1>7, <1>8, <1>9, <1>10, <1>11, <1>12,
       <1>13, <1>14, <1>15 DEF CommandStep

\* The files of several words do not touch the commands.
LEMMA OtherStepInv ==
    ASSUME IInv, family # "command", UNCHANGED <<family, cfg7, owed, loose, reboot>>
    PROVE  IInv'
BY DEF IInv, OneCommand, PendingKept, WholeTriple, Several

\* The invariant behind the properties of the commands is inductive.
THEOREM Inductive == IInv /\ [Next]_vars => IInv'
<1> SUFFICES ASSUME IInv, [Next]_vars PROVE IInv'
    OBVIOUS
<1>1. CASE UNCHANGED vars
    <2>1. UNCHANGED <<family, cfg7, owed, loose, reboot, call, attr, torn, probe>>
        BY <1>1 DEF vars, regs, ghosts
    <2>2. \A m : Storing(m)' = Storing(m)
        BY <2>1 DEF Storing
    <2>3. CommandInv => CommandInv'
        BY <2>1, WholeKept DEF CommandInv, Typed, FreshIsFirst
    <2> QED
        BY <2>1, <2>3 DEF IInv, OneCommand, PendingKept, WholeTriple, Several
<1>2. CASE UNCHANGED family /\ family = "command" /\ CommandStep
    BY <1>2, CommandStepInv
<1>3. CASE UNCHANGED family /\ family = "words" /\ WordStep
    <2>1. UNCHANGED <<cfg7, owed, loose, reboot>>
        BY <1>3 DEF WordStep, StoreBegin, StoreRead, StoreWrite, ShowBegin, ShowRead,
                    regs, ghosts
    <2> QED
        BY <1>3, <2>1, OtherStepInv
<1> QED
    BY <1>1, <1>2, <1>3 DEF Next

\* So every reachable state satisfies it.
THEOREM Invariance == Spec => []IInv
BY InitIInv, Inductive, PTL DEF Spec

\* The power controller finds several commands in cfg7 only if a request asked
\* for them, whatever is stored as cfg7, as a triple or in the control file,
\* reboots begun and accesses failed: no interleaving adds one command to
\* another.
THEOREM SingleCommand == Spec => []OneCommand
<1>1. IInv => OneCommand
    BY DEF IInv
<1> QED
    BY <1>1, Invariance, PTL

\* An accepted command stays in cfg7 until it is taken or outranked.
THEOREM CommandNotLost == Spec => []PendingKept
<1>1. IInv => PendingKept
    BY DEF IInv
<1> QED
    BY <1>1, Invariance, PTL

\* The notifier uses a triple that was given as a whole, unless stores of it
\* overlapped each other or the reboot.
THEOREM TripleWhole == Spec => []WholeTriple
<1>1. IInv => WholeTriple
    BY DEF IInv
<1> QED
    BY <1>1, Invariance, PTL

-----------------------------------------------------------------------------
(* Files of several words.  A store that has met no other one on its file  *)
(* is alone; on a clean file it has the words that all earlier stores,     *)
(* taken whole, have left.                                                 *)

Stores == [op: {"store"}, file: Wide, ops: StoreOps \cup Plain, at: 1..4,
           buf: [Half -> Bit], alone: BOOLEAN]
Shows == [op: {"show"}, file: Wide, at: 1..3, buf: [Half -> Bit], alone: BOOLEAN]

WordShape ==
    /\ wide \in [Wide -> [Half -> Bit]]
    /\ ideal \in [Wide -> [Half -> Bit]]
    /\ clean \subseteq Wide
    /\ call \in [Admin -> {Idle} \cup Stores \cup Shows]

\* A store that is alone is the only one, and its second write finds the first.
StoreAlone(t) ==
    call[t].alone = TRUE =>
        /\ \A u \in Writers(call[t].file) : u = t
        /\ call[t].at = 4 =>
              wide[call[t].file][1] = Apply(call[t].ops[1], call[t].buf[1])

\* A store of a clean file is alone, and works on what the file should hold.
StoreClean(t) ==
    call[t].file \in clean =>
        /\ call[t].alone = TRUE
        /\ call[t].buf = ideal[call[t].file]
        /\ wide[call[t].file][2] = ideal[call[t].file][2]
        /\ call[t].at # 4 => wide[call[t].file] = ideal[call[t].file]

\* A show that no store has met has read words of the file as it should be.
ShowAlone(t) ==
    call[t].alone = TRUE =>
        /\ Writers(call[t].file) = {}
        /\ call[t].file \in clean =>
              \A h \in Half : h < call[t].at => call[t].buf[h] = ideal[call[t].file][h]

CallFits(t) ==
    /\ call[t].op = "store" => StoreAlone(t) /\ StoreClean(t)
    /\ call[t].op = "show" => ShowAlone(t)

Resting(f) == f \in clean /\ Writers(f) = {} => wide[f] = ideal[f]

WordInv ==
    /\ WordShape
    /\ \A t \in Admin : CallFits(t)
    /\ \A f \in Wide : Resting(f)

\* Until the words are opened they hold what they should, and nobody uses them.
WideInv ==
    /\ family \in Family
    /\ family = "words" => WordInv
    /\ family # "words" => wide = ideal

-----------------------------------------------------------------------------
LEMMA ApplyBit ==
    ASSUME NEW op \in {"keep", "set", "clear", "flip"}, NEW b \in Bit
    PROVE  Apply(op, b) \in Bit
BY DEF Apply, Bit

\* A store of a whole value does not care what was there.
LEMMA ApplyPlain ==
    ASSUME NEW op \in {"set", "clear"}, NEW b, NEW c
    PROVE  Apply(op, b) = Apply(op, c)
BY DEF Apply

LEMMA OpsShape ==
    ASSUME NEW ops \in StoreOps \cup Plain, NEW h \in Half
    PROVE  /\ ops[h] \in {"keep", "set", "clear", "flip"}
           /\ ops \in Plain => ops[h] \in {"set", "clear"}
BY BlockAssumption DEF Plain

LEMMA StoreShape ==
    ASSUME WordShape, NEW t \in Admin, call[t].op = "store"
    PROVE  call[t] \in Stores
BY DEF WordShape, Idle, Shows

LEMMA ShowShape ==
    ASSUME WordShape, NEW t \in Admin, call[t].op = "show"
    PROVE  call[t] \in Shows
BY DEF WordShape, Idle, Stores

\* A step of t's store of f: what it changes of the file and of other calls.
Touches(t, f) ==
    /\ \A u \in Admin : u # t => call'[u] = call[u]
    /\ \A g \in Wide : g # f => wide'[g] = wide[g] /\ ideal'[g] = ideal[g]
    /\ \A g \in Wide : g # f => (g \in clean' <=> g \in clean)
    /\ f \in clean' => f \in clean \/ call[t].alone = TRUE

\* The store ends, or goes on alone if it was.
LEMMA StoreMoves ==
    ASSUME WordInv, WordShape', NEW t \in Admin, NEW f \in Wide,
           call[t].op = "store", call[t].file = f, Touches(t, f),
           \/ /\ call'[t] = Idle
              /\ f \in clean' => wide'[f] = ideal'[f]
           \/ /\ call'[t].op = "store" /\ call'[t].file = f
              /\ call'[t].alone = call[t].alone
              /\ call'[t].at = 4 => wide'[f][1] = Apply(call'[t].ops[1], call'[t].buf[1])
                                    \/ call[t].alone # TRUE
              /\ StoreClean(t)'
    PROVE  WordInv'
<1>1. call[t] \in Stores /\ CallFits(t)
    BY StoreShape DEF WordInv
<1>0. call'[t] = Idle \/ (call'[t].op = "store" /\ call'[t].file = f)
    OBVIOUS
<1>a. Idle.op = "idle"
    BY DEF Idle
<1>b. \A u \in Admin : u # t => call'[u] = call[u]
    BY DEF Touches
<1>2. ASSUME NEW g \in Wide PROVE Writers(g)' \subseteq Writers(g)
    <2> SUFFICES ASSUME NEW u \in Admin, call'[u].op = "store", call'[u].file = g
                 PROVE  call[u].op = "store" /\ call[u].file = g
        BY DEF Writers
    <2>1. CASE u = t
        BY <1>0, <1>a, <2>1
    <2>2. CASE u # t
        BY <1>b, <2>2
    <2> QED
        BY <2>1, <2>2
<1>3. ASSUME NEW g \in Wide, g # f PROVE Writers(g)' = Writers(g)
    <2> SUFFICES ASSUME NEW u \in Admin, call[u].op = "store", call[u].file = g
                 PROVE  call'[u].op = "store" /\ call'[u].file = g
        BY <1>2 DEF Writers
    <2>1. u # t
        BY <1>3
    <2> QED
        BY <1>b, <2>1
<1>4. t \in Writers(f) /\ (call[t].alone = TRUE => \A u \in Writers(f) : u = t)
    BY <1>1 DEF Writers, CallFits, StoreAlone
<1>5. ASSUME NEW u \in Admin, u # t PROVE CallFits(u)'
    <2>1. call'[u] = call[u] /\ CallFits(u)
        BY <1>5 DEF Touches, WordInv
    <2>2. CASE call[u].op = "store" /\ call[u].file # f
        <3>1. call[u].file \in Wide
            BY <2>2, StoreShape DEF WordInv, Stores
        <3> QED
            BY <1>2, <2>1, <2>2, <3>1 DEF CallFits, StoreAlone, StoreClean, Touches
    <2>3. CASE call[u].op = "store" /\ call[u].file = f
        <3>1. u \in Writers(f)
            BY <2>3 DEF Writers
        <3>2. call[u].alone # TRUE /\ call[t].alone # TRUE
            BY <1>4, <1>5, <2>1, <2>3, <3>1 DEF CallFits, StoreAlone
        <3>3. f \notin clean'
            BY <2>1, <2>3, <3>2 DEF CallFits, StoreClean, Touches
        <3> QED
            BY <2>1, <2>3, <3>2, <3>3 DEF CallFits, StoreAlone, StoreClean
    <2>4. CASE call[u].op = "show"
        <3>1. call[u].file \in Wide
            BY <2>4, ShowShape DEF WordInv, Shows
        <3>2. call[u].alone = TRUE => call[u].file # f
            BY <1>4, <2>1, <2>4 DEF CallFits, ShowAlone
        <3> QED
            BY <1>3, <2>1, <2>4, <3>1, <3>2 DEF CallFits, ShowAlone, Touches
    <2> QED
        BY <2>1, <2>2, <2>3, <2>4 DEF CallFits
<1>6. CallFits(t)'
    <2>1. CASE call'[t] = Idle
        BY <2>1 DEF CallFits, Idle
    <2>2. CASE call'[t].op = "store"
        <3>1. /\ call'[t].file = f /\ call'[t].alone = call[t].alone
              /\ call'[t].at = 4 => wide'[f][1] = Apply(call'[t].ops[1], call'[t].buf[1])
                                    \/ call[t].alone # TRUE
              /\ StoreClean(t)'
            BY <1>a, <2>2
        <3>0. Writers(f)' \subseteq Writers(f)
            BY <1>1, <1>2
        <3>2. \A u \in Writers(f)' : call[t].alone = TRUE => u = t
            BY <1>4, <3>0
        <3>3. StoreAlone(t)'
            BY <3>1, <3>2 DEF StoreAlone
        <3> QED
            BY <2>2, <3>1, <3>3 DEF CallFits
    <2> QED
        BY <2>1, <2>2
<1>7. ASSUME NEW g \in Wide PROVE Resting(g)'
    <2>1. CASE g # f
        BY <1>3, <2>1 DEF Resting, Touches, WordInv
    <2>2. CASE g = f /\ call'[t] = Idle
        <3>1. f \in clean' => wide'[f] = ideal'[f]
            BY <1>a, <2>2
        <3> QED
            BY <2>2, <3>1 DEF Resting
    <2>3. CASE g = f /\ call'[t].op = "store" /\ call'[t].file = f
        BY <2>3 DEF Resting, Writers
    <2> QED
        BY <1>0, <2>1, <2>2, <2>3
<1> QED
    BY <1>5, <1>6, <1>7 DEF WordInv

\* A step of t's show, or its first or last: nothing but its call changes.
LEMMA ShowMoves ==
    ASSUME WordInv, WordShape', NEW t \in Admin, UNCHANGED <<wide, ideal, clean>>,
           \A u \in Admin : u # t => call'[u] = call[u],
           call[t].op # "store", call'[t].op # "store",
           call'[t].op = "show" => ShowAlone(t)'
    PROVE  WordInv'
<1>1. \A g : Writers(g)' = Writers(g)
    BY DEF Writers
<1>2. ASSUME NEW u \in Admin PROVE CallFits(u)'
    <2>1. CASE u = t
        BY <2>1 DEF CallFits
    <2>2. CASE u # t
        <3>1. call'[u] = call[u] /\ CallFits(u)
            BY <2>2 DEF WordInv
        <3> QED
            BY <1>1, <3>1 DEF CallFits, StoreAlone, StoreClean, ShowAlone
    <2> QED
        BY <2>1, <2>2
<1>3. ASSUME NEW g \in Wide PROVE Resting(g)'
    BY <1>1 DEF WordInv, Resting
<1> QED
    BY <1>2, <1>3 DEF WordInv

\* Marking the calls that work on f changes no other call and no file.
LEMMA CrowdedCalls ==
    ASSUME WordShape, NEW f \in Wide, NEW u \in Admin
    PROVE  /\ Crowded(f)[u] \in {Idle} \cup Stores \cup Shows
           /\ Crowded(f)[u].op = call[u].op
           /\ call[u].op \in {"store", "show"} => Crowded(f)[u].file = call[u].file
           /\ call[u].op \in {"store", "show"} /\ call[u].file = f => Crowded(f)[u].alone = FALSE
           /\ ~(call[u].op \in {"store", "show"} /\ call[u].file = f) => Crowded(f)[u] = call[u]
<1>1. call[u] \in {Idle} \cup Stores \cup Shows
    BY DEF WordShape
<1>2. CASE call[u].op \in {"store", "show"} /\ call[u].file = f
    <2>1. Crowded(f)[u] = [call[u] EXCEPT !.alone = FALSE]
        BY <1>2 DEF Crowded
    <2>2. CASE call[u] \in Stores
        BY <1>2, <2>1, <2>2 DEF Stores
    <2>3. CASE call[u] \in Shows
        BY <1>2, <2>1, <2>3 DEF Shows
    <2> QED
        <3>1. call[u] # Idle
            BY <1>2 DEF Idle
        <3> QED
            BY <1>1, <2>2, <2>3, <3>1
<1>3. CASE ~(call[u].op \in {"store", "show"} /\ call[u].file = f)
    <2>1. Crowded(f)[u] = call[u]
        BY <1>3 DEF Crowded
    <2> QED
        BY <1>1, <1>3, <2>1
<1> QED
    BY <1>2, <1>3

LEMMA StoreBeginKeeps ==
    ASSUME WordInv, NEW t \in Admin, StoreBegin(t)
    PROVE  WordInv'
<1>1. PICK f \in Wide, ops \in StoreOps \cup Plain :
          /\ call' = [Crowded(f) EXCEPT ![t] =
                [op |-> "store", file |-> f, ops |-> ops,
                 at |-> IF f = "string" THEN 3 ELSE 1,
                 buf |-> wide[f], alone |-> Writers(f) = {}]]
          /\ clean' = IF Writers(f) = {} THEN clean ELSE clean \ {f}
    BY DEF StoreBegin
<1>2. UNCHANGED <<wide, ideal>> /\ call[t] = Idle /\ Idle.op = "idle"
    BY DEF StoreBegin, regs, Idle
<1>3. /\ call'[t].op = "store" /\ call'[t].file = f /\ call'[t].at # 4
      /\ call'[t].buf = wide[f] /\ (call'[t].alone = TRUE <=> Writers(f) = {})
      /\ call'[t] \in Stores
    <2>1. wide[f] \in [Half -> Bit]
        BY DEF WordInv, WordShape
    <2>2. t \in DOMAIN Crowded(f)
        BY DEF Crowded
    <2> DEFINE at == IF f = "string" THEN 3 ELSE 1
               alone == Writers(f) = {}
    <2>3. call'[t] = [op |-> "store", file |-> f, ops |-> ops, at |-> at, buf |-> wide[f],
                      alone |-> alone]
        BY <1>1, <2>2
    <2>4. at \in 1..4 /\ at # 4
        OBVIOUS
    <2>5. alone \in BOOLEAN
        OBVIOUS
    <2>6. call'[t] \in Stores
        <3> HIDE DEF at, alone
        <3> QED
            BY <2>1, <2>3, <2>4, <2>5 DEF Stores
    <2>7. /\ call'[t].op = "store" /\ call'[t].file = f /\ call'[t].at = at
          /\ call'[t].buf = wide[f] /\ call'[t].alone = alone
        <3> HIDE DEF at, alone
        <3> QED
            BY <2>3
    <2>8. alone = TRUE <=> Writers(f) = {}
        OBVIOUS
    <2> QED
        <3> HIDE DEF at, alone
        <3> QED
            BY <2>4, <2>6, <2>7, <2>8
<1>4. ASSUME NEW u \in Admin, u # t
      PROVE  /\ call'[u] \in {Idle} \cup Stores \cup Shows
             /\ call'[u].op = call[u].op
             /\ call[u].op \in {"store", "show"} => call'[u].file = call[u].file
             /\ call[u].op \in {"store", "show"} /\ call[u].file = f => call'[u].alone = FALSE
             /\ ~(call[u].op \in {"store", "show"} /\ call[u].file = f) => call'[u] = call[u]
    <2>1. call'[u] = Crowded(f)[u]
        BY <1>1, <1>4 DEF Crowded
    <2> QED
        BY <2>1, CrowdedCalls DEF WordInv
<1>5. WordShape'
    <2>1. call' \in [Admin -> {Idle} \cup Stores \cup Shows]
        <3>1. DOMAIN call' = Admin /\ call' = [u \in Admin |-> call'[u]]
            BY <1>1 DEF Crowded
        <3> QED
            BY <1>3, <1>4, <3>1
    <2>2. clean' \subseteq Wide
        BY <1>1 DEF WordInv, WordShape
    <2> QED
        BY <1>2, <2>1, <2>2 DEF WordInv, WordShape
<1>6. Writers(f)' = Writers(f) \cup {t}
    BY <1>2, <1>3, <1>4 DEF Writers
<1>7. ASSUME NEW g \in Wide, g # f PROVE Writers(g)' = Writers(g)
    BY <1>2, <1>3, <1>4, <1>7 DEF Writers
<1>8. CallFits(t)'
    <2>1. f \in clean' => Writers(f) = {} /\ f \in clean
        BY <1>1
    <2>2. f \in clean' => wide[f] = ideal[f]
        BY <2>1 DEF WordInv, Resting
    <2>3. StoreAlone(t)'
        BY <1>3, <1>6 DEF StoreAlone
    <2>4. StoreClean(t)'
        BY <1>2, <1>3, <2>1, <2>2 DEF StoreClean
    <2> QED
        BY <1>3, <2>3, <2>4 DEF CallFits
<1>9. ASSUME NEW u \in Admin, u # t PROVE CallFits(u)'
    <2>1. CallFits(u)
        BY DEF WordInv
    <2>2. CASE call[u].op = "store" /\ call[u].file = f
        <3>1. Writers(f) # {}
            BY <2>2 DEF Writers
        <3>2. f \notin clean'
            BY <1>1, <3>1
        <3>3. call'[u].op = "store" /\ call'[u].file = f /\ call'[u].alone = FALSE
            BY <1>4, <1>9, <2>2
        <3> QED
            BY <3>2, <3>3 DEF CallFits, StoreAlone, StoreClean
    <2>3. CASE call[u].op = "show" /\ call[u].file = f
        <3>1. call'[u].op = "show" /\ call'[u].alone = FALSE
            BY <1>4, <1>9, <2>3
        <3> QED
            BY <3>1 DEF CallFits, ShowAlone
    <2>4. CASE call[u].op = "store" /\ call[u].file # f
        <3>1. call[u].file \in Wide
            BY <2>4, StoreShape DEF WordInv, Stores
        <3>2. call'[u] = call[u]
            BY <1>4, <1>9, <2>4
        <3>3. call[u].file \in clean' => call[u].file \in clean
            BY <1>1
        <3> QED
            BY <1>2, <1>7, <2>1, <2>4, <3>1, <3>2, <3>3 DEF CallFits, StoreAlone, StoreClean
    <2>5. CASE call[u].op = "show" /\ call[u].file # f
        <3>1. call[u].file \in Wide
            BY <2>5, ShowShape DEF WordInv, Shows
        <3>2. call'[u] = call[u]
            BY <1>4, <1>9, <2>5
        <3>3. call[u].file \in clean' => call[u].file \in clean
            BY <1>1
        <3> QED
            BY <1>2, <1>7, <2>1, <2>5, <3>1, <3>2, <3>3 DEF CallFits, ShowAlone
    <2>6. CASE call[u].op \notin {"store", "show"}
        BY <1>4, <1>9, <2>6 DEF CallFits
    <2> QED
        BY <2>2, <2>3, <2>4, <2>5, <2>6
<1>10. ASSUME NEW g \in Wide PROVE Resting(g)'
    <2>1. CASE g = f
        BY <1>6, <2>1 DEF Resting
    <2>2. CASE g # f
        <3>1. g \in clean' => g \in clean
            BY <1>1
        <3> QED
            BY <1>2, <1>7, <2>2, <3>1 DEF Resting, WordInv
    <2> QED
        BY <2>1, <2>2
<1> QED
    BY <1>5, <1>8, <1>9, <1>10 DEF WordInv

LEMMA ShowBeginKeeps ==
    ASSUME WordInv, NEW t \in Admin, ShowBegin(t)
    PROVE  WordInv'
<1>1. PICK f \in Wide :
          call' = [call EXCEPT ![t] = [op |-> "show", file |-> f, at |-> 1,
                                       buf |-> [h \in Half |-> 0],
                                       alone |-> Writers(f) = {}]]
    BY DEF ShowBegin
<1>2. UNCHANGED <<wide, ideal, clean>> /\ call[t] = Idle /\ Idle.op = "idle"
    BY DEF ShowBegin, regs, ghosts, Idle
<1> DEFINE alone == Writers(f) = {}
           zero == [h \in Half |-> 0]
           new == [op |-> "show", file |-> f, at |-> 1, buf |-> zero, alone |-> alone]
<1>3. call' = [call EXCEPT ![t] = new]
    BY <1>1
<1>4. alone \in BOOLEAN /\ zero \in [Half -> Bit]
    BY DEF Bit
<1>5. new \in Shows
    <2> HIDE DEF alone, zero
    <2> QED
        BY <1>4 DEF Shows
<1>6. new.op = "show" /\ new.file = f /\ new.at = 1 /\ new.alone = alone
    <2> HIDE DEF alone, zero
    <2> QED
        OBVIOUS
<1>7. WordShape' /\ call'[t] = new /\ \A u \in Admin : u # t => call'[u] = call[u]
    <2> HIDE DEF new
    <2> QED
        BY <1>2, <1>3, <1>5 DEF WordInv, WordShape
<1>8. Writers(f)' = Writers(f)
    <2> HIDE DEF new
    <2> QED
        BY <1>2, <1>6, <1>7 DEF Writers
<1>9. ShowAlone(t)'
    <2>1. alone = TRUE <=> Writers(f) = {}
        OBVIOUS
    <2>2. \A h \in Half : ~(h < 1)
        BY DEF Half
    <2> HIDE DEF new, alone
    <2> QED
        BY <1>6, <1>7, <1>8, <2>1, <2>2 DEF ShowAlone
<1> HIDE DEF new
<1> QED
    BY <1>2, <1>6, <1>7, <1>9, ShowMoves

LEMMA ShowReadKeeps ==
    ASSUME WordInv, NEW t \in Admin, ShowRead(t)
    PROVE  WordInv'
<1> DEFINE f == call[t].file
           h == call[t].at
<1>1. call[t] \in Shows /\ call[t].op = "show" /\ f \in Wide /\ h \in 1..3
      /\ call[t].buf \in [Half -> Bit] /\ ShowAlone(t)
    BY ShowShape DEF ShowRead, WordInv, Shows, CallFits
<1>2. UNCHANGED <<wide, ideal, clean>> /\ Idle.op = "idle"
    BY DEF ShowRead, regs, ghosts, Idle
<1>3. wide[f] \in [Half -> Bit]
    BY <1>1 DEF WordInv, WordShape
<1>4. CASE h \in Half
    <2> DEFINE new == [op |-> "show", file |-> f, at |-> h + 1,
                       buf |-> [call[t].buf EXCEPT ![h] = wide[f][h]],
                       alone |-> call[t].alone]
    <2>1. call' = [call EXCEPT ![t] = new]
        BY <1>1, <1>4 DEF ShowRead, Shows, WordInv, WordShape
    <2>2. h + 1 \in 1..3 /\ [call[t].buf EXCEPT ![h] = wide[f][h]] \in [Half -> Bit]
        BY <1>1, <1>3, <1>4 DEF Half
    <2>3. new \in Shows
        BY <1>1, <2>2 DEF Shows
    <2>4. WordShape' /\ call'[t] = new /\ \A u \in Admin : u # t => call'[u] = call[u]
        <3> HIDE DEF new
        <3> QED
            BY <1>2, <2>1, <2>3 DEF WordInv, WordShape
    <2>5. Writers(f) = {} => \A u \in Admin : ~(call'[u].op = "store" /\ call'[u].file = f)
        <3>1. call'[t].op = "show"
            BY <2>4
        <3> QED
            BY <2>4, <3>1 DEF Writers
    <2>6. call[t].alone = TRUE =>
              /\ Writers(f) = {}
              /\ f \in clean =>
                   /\ wide[f] = ideal[f]
                   /\ \A k \in Half : k < h => call[t].buf[k] = ideal[f][k]
        BY <1>1 DEF WordInv, Resting, ShowAlone
    <2>7. \A k \in Half : k < h + 1 => k < h \/ k = h
        BY <1>1 DEF Half
    <2>8. call[t].alone = TRUE /\ f \in clean =>
              \A k \in Half : k < h + 1 => new.buf[k] = ideal[f][k]
        BY <1>1, <1>4, <2>6, <2>7 DEF Half
    <2>9. /\ call'[t].op = "show" /\ call'[t].file = f /\ call'[t].at = h + 1
          /\ call'[t].alone = call[t].alone /\ call'[t].buf = new.buf
        BY <2>4
    <2>10. ShowAlone(t)'
        <3> HIDE DEF new, h
        <3>1. call'[t].alone = TRUE =>
                  \A u \in Admin : ~(call'[u].op = "store" /\ call'[u].file = call'[t].file)
            BY <2>5, <2>6, <2>9
        <3>2. call'[t].alone = TRUE /\ call'[t].file \in clean' =>
                  \A k \in Half : k < call'[t].at => call'[t].buf[k] = ideal'[call'[t].file][k]
            BY <1>2, <2>8, <2>9
        <3> QED
            BY <3>1, <3>2 DEF ShowAlone, Writers
    <2> HIDE DEF new
    <2> QED
        BY <1>1, <1>2, <2>4, <2>9, <2>10, ShowMoves
<1>5. CASE h \notin Half
    <2>1. call' = [call EXCEPT ![t] = Idle]
        BY <1>5 DEF ShowRead
    <2>2. WordShape' /\ call'[t] = Idle /\ \A u \in Admin : u # t => call'[u] = call[u]
        BY <1>2, <2>1 DEF WordInv, WordShape
    <2> QED
        BY <1>1, <1>2, <2>2, ShowMoves
<1> QED
    BY <1>4, <1>5

LEMMA StoreReadKeeps ==
    ASSUME WordInv, NEW t \in Admin, StoreRead(t)
    PROVE  WordInv'
<1>0. PICK f \in Wide : call[t].file = f
    BY StoreShape DEF StoreRead, WordInv, Stores
<1> DEFINE h == call[t].at
<1>1. call[t] \in Stores /\ call[t].op = "store" /\ h \in Half
      /\ call[t].buf \in [Half -> Bit] /\ StoreClean(t)
    BY StoreShape DEF StoreRead, WordInv, Stores, CallFits
<1>2. UNCHANGED <<wide, ideal, clean>> /\ Idle.op = "idle"
    BY DEF StoreRead, regs, ghosts, Idle
<1>3. wide[f] \in [Half -> Bit] /\ h # 4
    BY <1>1 DEF WordInv, WordShape, Half
<1>4. f \in clean => wide[f] = ideal[f] /\ call[t].buf = ideal[f] /\ call[t].alone = TRUE
    BY <1>0, <1>1, <1>3 DEF StoreClean
<1> DEFINE new == [op |-> "store", file |-> f, ops |-> call[t].ops, at |-> h + 1,
                   buf |-> [call[t].buf EXCEPT ![h] = wide[f][h]],
                   alone |-> call[t].alone]
<1>5. CASE call' = [call EXCEPT ![t].buf[h] = wide[call[t].file][h], ![t].at = @ + 1]
    <2>1. call' = [call EXCEPT ![t] = new]
        BY <1>0, <1>1, <1>5 DEF Stores, WordInv, WordShape
    <2>2. /\ h + 1 \in 1..4 /\ h + 1 # 4
          /\ [call[t].buf EXCEPT ![h] = wide[f][h]] \in [Half -> Bit]
        BY <1>1, <1>3 DEF Half
    <2>3. new \in Stores
        BY <1>0, <1>1, <2>2 DEF Stores
    <2>4. WordShape' /\ call'[t] = new /\ \A u \in Admin : u # t => call'[u] = call[u]
        <3> HIDE DEF new
        <3> QED
            BY <1>2, <2>1, <2>3 DEF WordInv, WordShape
    <2>5. f \in clean => new.buf = ideal[f]
        BY <1>1, <1>3, <1>4 DEF Half
    <2>6. /\ call'[t].op = "store" /\ call'[t].file = f /\ call'[t].at # 4
          /\ call'[t].alone = call[t].alone /\ call'[t].buf = new.buf
        BY <2>2, <2>4
    <2> HIDE DEF new, h
    <2>7. StoreClean(t)'
        BY <1>2, <1>4, <2>5, <2>6 DEF StoreClean
    <2>8. Touches(t, f)
        BY <1>2, <2>4 DEF Touches
    <2> QED
        BY <1>0, <1>1, <2>4, <2>6, <2>7, <2>8, StoreMoves
<1>6. CASE call' = [call EXCEPT ![t] = Idle]
    <2>1. WordShape' /\ call'[t] = Idle /\ \A u \in Admin : u # t => call'[u] = call[u]
        BY <1>2, <1>6 DEF WordInv, WordShape
    <2>2. Touches(t, f)
        BY <1>2, <2>1 DEF Touches
    <2>3. f \in clean' => wide'[f] = ideal'[f]
        BY <1>2, <1>4
    <2> QED
        BY <1>0, <1>1, <2>1, <2>2, <2>3, StoreMoves
<1> QED
    BY <1>5, <1>6 DEF StoreRead

LEMMA StoreWriteKeeps ==
    ASSUME WordInv, NEW t \in Admin, StoreWrite(t)
    PROVE  WordInv'
<1>0. PICK f \in Wide : call[t].file = f
    BY StoreShape DEF StoreWrite, WordInv, Stores
<1> DEFINE h == call[t].at - 2
           word == Apply(call[t].ops[h], call[t].buf[h])
<1>1. call[t] \in Stores /\ call[t].op = "store" /\ call[t].at \in {3, 4} /\ h \in Half
      /\ call[t].buf \in [Half -> Bit] /\ call[t].ops \in StoreOps \cup Plain
      /\ CallFits(t) /\ StoreAlone(t) /\ StoreClean(t)
    BY StoreShape DEF StoreWrite, WordInv, Stores, CallFits, Half
<1>2. wide[f] \in [Half -> Bit] /\ ideal[f] \in [Half -> Bit] /\ Idle.op = "idle"
    BY DEF WordInv, WordShape, Idle
<1>3. word \in Bit
    <2>1. call[t].ops[h] \in {"keep", "set", "clear", "flip"} /\ call[t].buf[h] \in Bit
        BY <1>1, OpsShape
    <2> QED
        BY <2>1, ApplyBit
<1>4. CASE /\ wide' = [wide EXCEPT ![call[t].file][h] = word]
           /\ h = 1
           /\ call' = [call EXCEPT ![t].at = 4]
           /\ UNCHANGED <<ideal, clean>>
    <2> DEFINE new == [op |-> "store", file |-> f, ops |-> call[t].ops, at |-> 4,
                       buf |-> call[t].buf, alone |-> call[t].alone]
    <2>0. [call[t] EXCEPT !.at = 4] = new
        <3>1. call[t] \in Stores /\ call[t].file = f
            BY <1>0, <1>1
        <3> QED
            BY <3>1 DEF Stores
    <2>1. call' = [call EXCEPT ![t] = new]
        <3> HIDE DEF new, word, h
        <3> QED
            BY <1>4, <2>0
    <2>2. new \in Stores
        BY <1>0, <1>1 DEF Stores
    <2>3. /\ wide' \in [Wide -> [Half -> Bit]]
          /\ wide'[f][1] = word /\ wide'[f][2] = wide[f][2]
          /\ \A g \in Wide : g # f => wide'[g] = wide[g]
        <3> HIDE DEF word
        <3> QED
            BY <1>0, <1>2, <1>3, <1>4 DEF WordInv, WordShape, Half
    <2>4. WordShape' /\ call'[t] = new /\ \A u \in Admin : u # t => call'[u] = call[u]
        <3> HIDE DEF new, word, h
        <3>1. call \in [Admin -> {Idle} \cup Stores \cup Shows] /\ UNCHANGED <<ideal, clean>>
            BY <1>4 DEF WordInv, WordShape
        <3>2. call' \in [Admin -> {Idle} \cup Stores \cup Shows]
            BY <2>1, <2>2, <3>1
        <3>3. WordShape'
            BY <2>3, <3>1, <3>2 DEF WordInv, WordShape
        <3> QED
            BY <2>1, <3>1, <3>3
    <2>5. Touches(t, f)
        BY <1>4, <2>3, <2>4 DEF Touches
    <2>6. /\ call'[t].op = "store" /\ call'[t].file = f /\ call'[t].at = 4
          /\ call'[t].alone = call[t].alone /\ call'[t].buf = call[t].buf
          /\ call'[t].ops = call[t].ops
        BY <2>4
    <2>7. wide'[f][1] = Apply(call'[t].ops[1], call'[t].buf[1])
        BY <1>4, <2>3, <2>6
    <2>8. StoreClean(t)'
        <3>1. f \in clean => /\ call[t].alone = TRUE /\ call[t].buf = ideal[f]
                             /\ wide[f][2] = ideal[f][2]
            BY <1>0, <1>1 DEF StoreClean
        <3> HIDE DEF new
        <3> QED
            BY <1>4, <2>3, <2>6, <3>1 DEF StoreClean
    <2> HIDE DEF new
    <2> QED
        BY <1>0, <1>1, <2>4, <2>5, <2>6, <2>7, <2>8, StoreMoves
<1>5. CASE /\ wide' = [wide EXCEPT ![call[t].file][h] = word]
           /\ h # 1
           /\ call' = [call EXCEPT ![t] = Idle]
           /\ ideal' = [ideal EXCEPT ![call[t].file] = ApplyAll(call[t].ops, @)]
           /\ clean' = IF call[t].alone /\ call[t].ops \in Plain
                       THEN clean \cup {call[t].file} ELSE clean
    <2>1. h = 2 /\ call[t].at = 4
        BY <1>1, <1>5 DEF Half
    <2>2. /\ wide' \in [Wide -> [Half -> Bit]]
          /\ wide'[f][1] = wide[f][1] /\ wide'[f][2] = word
          /\ \A g \in Wide : g # f => wide'[g] = wide[g]
        <3> HIDE DEF word
        <3> QED
            BY <1>0, <1>2, <1>3, <1>5, <2>1 DEF WordInv, WordShape, Half
    <2>3. /\ ideal'[f] = ApplyAll(call[t].ops, ideal[f])
          /\ \A g \in Wide : g # f => ideal'[g] = ideal[g]
          /\ ideal' = [ideal EXCEPT ![f] = ApplyAll(call[t].ops, ideal[f])]
        BY <1>0, <1>5 DEF WordInv, WordShape
    <2>4. ApplyAll(call[t].ops, ideal[f]) \in [Half -> Bit]
        <3>1. ASSUME NEW k \in Half PROVE Apply(call[t].ops[k], ideal[f][k]) \in Bit
            BY <1>1, <1>2, OpsShape, ApplyBit
        <3> QED
            BY <3>1 DEF ApplyAll
    <2>5. ideal' \in [Wide -> [Half -> Bit]]
        BY <2>3, <2>4 DEF WordInv, WordShape
    <2>6. call[t].alone \in BOOLEAN
        BY <1>1 DEF Stores
    <2>7. /\ f \in clean' => f \in clean \/ (call[t].alone = TRUE /\ call[t].ops \in Plain)
          /\ clean' \subseteq Wide
          /\ \A g \in Wide : g # f => (g \in clean' <=> g \in clean)
        BY <1>0, <1>5, <2>6 DEF WordInv, WordShape
    <2>8. WordShape' /\ call'[t] = Idle /\ \A u \in Admin : u # t => call'[u] = call[u]
        BY <1>5, <2>2, <2>5, <2>7 DEF WordInv, WordShape
    <2>9. Touches(t, f)
        BY <2>2, <2>3, <2>7, <2>8 DEF Touches
    <2>10. ASSUME f \in clean' PROVE wide'[f] = ideal'[f]
        <3>1. call[t].alone = TRUE
            BY <1>0, <1>1, <2>7, <2>10 DEF StoreClean
        <3>2. wide[f][1] = Apply(call[t].ops[1], call[t].buf[1])
            BY <1>0, <1>1, <2>1, <3>1 DEF StoreAlone
        <3>3. ASSUME NEW k \in Half PROVE wide'[f][k] = Apply(call[t].ops[k], call[t].buf[k])
            BY <2>1, <2>2, <3>2 DEF Half
        <3>4. ASSUME NEW k \in Half
              PROVE  Apply(call[t].ops[k], call[t].buf[k]) = Apply(call[t].ops[k], ideal[f][k])
            <4>1. CASE f \in clean
                BY <1>0, <1>1, <4>1 DEF StoreClean
            <4>2. CASE call[t].ops \in Plain
                BY <1>1, <4>2, OpsShape, ApplyPlain
            <4> QED
                BY <2>7, <2>10, <4>1, <4>2
        <3>5. \A k \in Half : wide'[f][k] = ideal'[f][k]
            BY <2>3, <3>3, <3>4 DEF ApplyAll
        <3> QED
            BY <2>2, <2>5, <3>5
    <2> QED
        BY <1>0, <1>1, <2>8, <2>9, <2>10, StoreMoves
<1>6. CASE /\ call' = [call EXCEPT ![t] = Idle]
           /\ clean' = clean \ {call[t].file}
           /\ UNCHANGED <<wide, ideal>>
    <2>1. WordShape' /\ call'[t] = Idle /\ \A u \in Admin : u # t => call'[u] = call[u]
        BY <1>6 DEF WordInv, WordShape
    <2>2. Touches(t, f)
        BY <1>0, <1>6, <2>1 DEF Touches
    <2>3. f \notin clean'
        BY <1>0, <1>6
    <2> QED
        BY <1>0, <1>1, <2>1, <2>2, <2>3, StoreMoves
<1> QED
    BY <1>4, <1>5, <1>6 DEF StoreWrite

-----------------------------------------------------------------------------
LEMMA InitWideInv == Init => WideInv
<1> SUFFICES ASSUME Init PROVE WideInv
    OBVIOUS
<1>1. /\ wide = [f \in Wide |-> [h \in Half |-> 0]] /\ ideal = wide /\ clean = Wide
      /\ family \in Family
      /\ call = [t \in Admin |-> Idle] /\ Idle.op = "idle"
    BY DEF Init, Idle
<1>2. WordShape
    BY <1>1 DEF WordShape, Bit
<1>3. (\A t \in Admin : CallFits(t)) /\ \A f \in Wide : Resting(f)
    BY <1>1 DEF CallFits, Resting
<1> QED
    BY <1>1, <1>2, <1>3 DEF WideInv, WordInv

LEMMA NextWideInv == WideInv /\ [Next]_vars => WideInv'
<1> SUFFICES ASSUME WideInv, [Next]_vars PROVE WideInv'
    OBVIOUS
<1>1. CASE UNCHANGED vars
    BY <1>1 DEF vars, regs, ghosts, WideInv, WordInv, WordShape, CallFits, StoreAlone,
        StoreClean, ShowAlone, Resting, Writers
<1>2. CASE Next /\ family = "words"
    <2>1. WordInv /\ family' = "words" /\ WordStep
        BY <1>2 DEF WideInv, Next
    <2>2. WordInv'
        BY <2>1, StoreBeginKeeps, StoreReadKeeps, StoreWriteKeeps, ShowBeginKeeps, ShowReadKeeps
            DEF WordStep
    <2> QED
        BY <2>1, <2>2 DEF WideInv, Family
<1>3. CASE Next /\ family # "words"
    <2>1. UNCHANGED <<family, wide, ideal>>
        BY <1>3 DEF Next, CommandStep, ProbeUpdate, RegisterNotifier,
            PowerController, Notify, NotifyLoad, RebootClear, RebootSet, ControlRead,
            ControlWrite, Cfg7Store, TripleBegin, TripleStore, regs, ghosts
    <2> QED
        BY <1>3, <2>1 DEF WideInv
<1> QED
    BY <1>1, <1>2, <1>3

LEMMA WholeFromInv ==
    ASSUME IInv, WideInv
    PROVE  WideWhole
<1>1. CASE family = "words"
    <2>1. WordInv
        BY <1>1 DEF WideInv
    <2>2. ASSUME NEW f \in clean, Writers(f) = {} PROVE wide[f] = ideal[f]
        BY <2>1, <2>2 DEF WordInv, WordShape, Resting
    <2>3. ASSUME NEW t \in Admin, call[t].op = "show", call[t].at = 3, call[t].alone,
                 call[t].file \in clean
          PROVE  call[t].buf = ideal[call[t].file]
        <3>1. call[t].file \in Wide /\ call[t].buf \in [Half -> Bit] /\ call[t].alone \in BOOLEAN
            BY <2>1, <2>3, ShowShape DEF WordInv, Shows
        <3>2. \A h \in Half : call[t].buf[h] = ideal[call[t].file][h]
            BY <2>1, <2>3, <3>1 DEF WordInv, CallFits, ShowAlone, Half
        <3>3. ideal[call[t].file] \in [Half -> Bit]
            BY <2>1, <3>1 DEF WordInv, WordShape
        <3> QED
            BY <3>1, <3>2, <3>3
    <2> QED
        BY <2>2, <2>3 DEF WideWhole
<1>2. CASE family # "words"
    <2>1. \A t \in Admin : call[t].op # "show"
        <3>1. family = "command"
            BY <1>2 DEF WideInv, Family
        <3>2. \A t \in Admin : call[t] \in CommandCalls
            BY <3>1 DEF IInv, CommandInv
        <3> QED
            BY <3>2 DEF CommandCalls, Controls, TripleCalls, Idle
    <2>2. wide = ideal
        BY <1>2 DEF WideInv
    <2> QED
        BY <2>1, <2>2 DEF WideWhole
<1> QED
    BY <1>1, <1>2

\* A value of several registers reads as its stores, each taken whole, have
\* made it, unless stores of it met, one failed, or one ran during the show.
THEOREM WideStays == Spec => []WideWhole
<1>1. Spec => []WideInv
    BY InitWideInv, NextWideInv, PTL DEF Spec
<1> QED
    BY <1>1, Invariance, WholeFromInv, PTL

=============================================================================
