----------------------------- MODULE BlockFiles -----------------------------
(***************************************************************************)
(* The sysfs files and the reboot notifier of one MSD or XIL block.        *)
(*                                                                         *)
(* Every access to a register is atomic (the regmap holds its lock for one *)
(* read, write or update_bits) and nothing holds a lock across accesses,   *)
(* so two opened files, the probe and the notifier interleave between      *)
(* accesses.  The groups of files are added before the probe has set the   *)
(* block up.                                                               *)
(*                                                                         *)
(* The register cfg7 is the set of its bits.  The two kinds of file that   *)
(* span several registers (a string of the scratch RAM, the header's       *)
(* scratch) have one significant bit in each of two words.  The commands   *)
(* and these words share no register and no data, so a behaviour opens     *)
(* files of one family: the other would only be interleaved with it.  A    *)
(* call that returns before it writes anything is not a step.              *)
(***************************************************************************)
EXTENDS Naturals, FiniteSets

CONSTANTS
    Admin,       \* tasks that read and write the files
    Command,     \* the bits of cfg7 that ask the power controller to act
    Keep,        \* the bits of cfg7 outside the notifier's mask (MSD: bit 11)
    Mode,        \* the ways to go down: restart, halt, power-off
    Preset,      \* register, mask and value of each mode, from r_info or ACPI
    AtProbe,     \* the same of reboot-notifier-probe
    Triples,     \* what administrators store for each mode
    NotPresent,  \* CISCO_SYSFS_REG_NOT_PRESENT
    StoreOps,    \* what stores do to the words of the scratch file
    Enabled,     \* priv->active and, on MSD, a version of at least 5
    Notifies,    \* reboot-notifier-enable, or r_info->enable
    FaultBudget  \* register accesses that may fail

Field == {"reg", "mask", "value"}
Triple == [reg: {"cfg7", "other", NotPresent}, mask: SUBSET (Command \cup Keep),
           value: SUBSET (Command \cup Keep)]

Family == {"command", "words"}
Wide == {"string", "scratch"}
Half == {1, 2}
Bit == {0, 1}

ASSUME BlockAssumption ==
    /\ Preset \in [Mode -> Triple]
    /\ AtProbe \in Triple
    /\ Triples \in [Mode -> SUBSET Triple]
    /\ Command \cap Keep = {}
    /\ StoreOps \subseteq [Half -> {"keep", "set", "clear", "flip"}]
    /\ FaultBudget \in Nat
    /\ Enabled \in BOOLEAN /\ Notifies \in BOOLEAN

VARIABLES
    family,   \* the files opened: of cfg7, or of several words
    cfg7,     \* the power controller's command register
    wide,     \* the words of the multi-register files
    attr,     \* priv->restart, ->halt, ->power_off: reg, mask, value
    notifierMode, \* priv->notifier_mode: the modes present at the probe
    probe,    \* where the probe is
    call,     \* the file operation each task is in
    reboot,   \* the call of _reboot_notifier or _regmap_update
    faults,   \* failures left
    owed,     \* ghost: commands accepted and neither taken nor outranked
    loose,    \* ghost: was the last request for several commands, or for one
              \* that was to leave the others alone?
    torn,     \* ghost: modes whose triple two overlapping stores have left
    ideal,    \* ghost: the wide values if every store were one step
    clean     \* ghost: wide files untouched by overlaps and failures

regs == <<cfg7, wide>>
ghosts == <<owed, loose, torn, ideal, clean>>
vars == <<family, regs, attr, notifierMode, probe, call, reboot, faults, ghosts>>

Idle == [op |-> "idle"]
Fine == UNCHANGED faults
Fault == faults > 0 /\ faults' = faults - 1

\* regmap_update_bits
Update(bits, mask, value) == (bits \ mask) \cup (value \cap mask)

\* One bit of ((data & and_val) ^ xor_val) | or_val.
Apply(op, bit) == CASE op = "keep"  -> bit
                    [] op = "set"   -> 1
                    [] op = "clear" -> 0
                    [] op = "flip"  -> 1 - bit
ApplyAll(ops, word) == [h \in Half |-> Apply(ops[h], word[h])]
Plain == [Half -> {"set", "clear"}]

\* Do these bits ask for several commands?
Several(bits) == \E c, d \in bits \cap Command : c # d

-----------------------------------------------------------------------------
(* The probe, from the point where the files are there.                    *)

\* _regmap_update(dev, reg, mask, value) begins; it does nothing for a
\* register that is not present.
Updating(p, excused) ==
    [at |-> IF p.reg = NotPresent THEN "over" ELSE "read", use |-> p,
     excused |-> excused]

\* cisco_register_reboot_notifier makes the update of reboot-notifier-probe.
ProbeUpdate ==
    /\ probe = "update"
    /\ reboot' = Updating(AtProbe, TRUE)
    /\ probe' = "notify"
    /\ UNCHANGED <<regs, attr, notifierMode, call, faults, ghosts>>

\* It then enables a mode when its register is present now, if it is to
\* enable any.
RegisterNotifier ==
    /\ probe = "notify"
    /\ reboot.at = "over"
    /\ reboot' = [at |-> "idle"]
    /\ IF Notifies
       THEN /\ attr' = Preset
            /\ notifierMode' = {m \in Mode : Preset[m].reg # NotPresent}
            /\ probe' = "done"
       ELSE /\ probe' = "passive"
            /\ UNCHANGED <<attr, notifierMode>>
    /\ UNCHANGED <<regs, call, faults, ghosts>>

-----------------------------------------------------------------------------
(* The control file and cfg7 as a file.                                    *)

\* The calls once cfg7 is written: a task that has seen it empty and has yet
\* to write holds a value that is out of date.
Stale ==
    [u \in Admin |-> IF call[u].op = "control" THEN [call[u] EXCEPT !.fresh = FALSE]
                     ELSE call[u]]

\* _scratch_store_bit reads the register and refuses while it is not zero.
ControlRead_Slip(t) ==
    /\ call[t] = Idle
    /\ \E c \in Command :
          call' = [call EXCEPT ![t] = [op |-> "control", bit |-> c, fresh |-> TRUE]]
    /\ UNCHANGED <<regs, attr, notifierMode, probe, reboot, faults, ghosts>>

ControlRead(t) ==
    /\ call[t] = Idle
    /\ cfg7 = {}
    /\ \E c \in Command :
          call' = [call EXCEPT ![t] = [op |-> "control", bit |-> c, fresh |-> TRUE]]
    /\ UNCHANGED <<regs, attr, notifierMode, probe, reboot, faults, ghosts>>

\* It then writes its one bit over the whole register.
ControlWrite(t) ==
    /\ call[t].op = "control"
    /\ \/ /\ Fine
          /\ cfg7' = {call[t].bit}
          /\ owed' = (IF call[t].fresh THEN owed ELSE {}) \cup {call[t].bit}
          /\ loose' = FALSE
          /\ call' = [Stale EXCEPT ![t] = Idle]
       \/ /\ Fault
          /\ call' = [call EXCEPT ![t] = Idle]
          /\ UNCHANGED <<cfg7, owed, loose>>
    /\ UNCHANGED <<wide, attr, notifierMode, probe, reboot, torn, ideal, clean>>

\* cfg7 as a file: update_bits with a full mask, whatever was there.
Cfg7Store(t) ==
    /\ call[t] = Idle
    /\ \E v \in SUBSET (Command \cup Keep) :
          /\ cfg7' = Update(cfg7, Command \cup Keep, v)
          /\ owed' = v \cap Command
          /\ loose' = Several(v)
    /\ call' = [Stale EXCEPT ![t] = Idle]
    /\ UNCHANGED <<wide, attr, notifierMode, probe, reboot, faults, torn, ideal, clean>>

\* The power controller acts on the commands it finds and clears them.
PowerController ==
    /\ cfg7 \cap Command # {}
    /\ cfg7' = cfg7 \ Command
    /\ owed' = {}
    /\ loose' = FALSE
    /\ UNCHANGED <<wide, attr, notifierMode, probe, call, reboot, faults, torn,
                   ideal, clean>>

-----------------------------------------------------------------------------
(* The files of the notifier and the notifier.                             *)

\* The notifier is still loading the triple of m.
Loading(m) == reboot.at = "load" /\ reboot.mode = m

Storing(m) == {u \in Admin : call[u].op = "triple" /\ call[u].mode = m}

\* _sysfs_store has parsed r, m and v and is about to store them.
TripleBegin(t) ==
    /\ call[t] = Idle
    /\ probe = "done"
    /\ \E m \in Mode : \E new \in Triples[m] :
          /\ call' = [u \in Admin |->
                IF u = t THEN [op |-> "triple", mode |-> m, new |-> new,
                               left |-> Field,
                               alone |-> Storing(m) = {}]
                ELSE IF u \in Storing(m) THEN [call[u] EXCEPT !.alone = FALSE]
                ELSE call[u]]
          /\ torn' = IF Storing(m) = {} THEN torn ELSE torn \cup {m}
          /\ reboot' = IF Loading(m) THEN [reboot EXCEPT !.excused = TRUE] ELSE reboot
    /\ UNCHANGED <<regs, attr, notifierMode, probe, faults, owed, loose, ideal, clean>>

\* p once field f of it is that of new.
Put(p, f, new) == [reg   |-> IF f = "reg" THEN new.reg ELSE p.reg,
                   mask  |-> IF f = "mask" THEN new.mask ELSE p.mask,
                   value |-> IF f = "value" THEN new.value ELSE p.value]

\* It stores them one by one, in an order the compiler chooses.
TripleStore_Slip(t) ==
    /\ call[t].op = "triple"
    /\ \E f \in call[t].left :
          LET c == call[t]
              left == IF c.new.mask = {} THEN {} ELSE c.left \ {f}
          IN /\ attr' = [attr EXCEPT ![c.mode] = Put(@, f, c.new)]
             /\ call' = [call EXCEPT ![t] =
                            IF left = {} THEN Idle ELSE [c EXCEPT !.left = left]]
             /\ torn' = IF left = {} /\ c.alone THEN torn \ {c.mode} ELSE torn
    /\ UNCHANGED <<regs, notifierMode, probe, reboot, faults, owed, loose, ideal,
                   clean>>

TripleStore(t) ==
    /\ call[t].op = "triple"
    /\ \E f \in call[t].left :
          LET c == call[t]
              left == c.left \ {f}
          IN /\ attr' = [attr EXCEPT ![c.mode] = Put(@, f, c.new)]
             /\ call' = [call EXCEPT ![t] =
                            IF left = {} THEN Idle ELSE [c EXCEPT !.left = left]]
             /\ torn' = IF left = {} /\ c.alone THEN torn \ {c.mode} ELSE torn
    /\ UNCHANGED <<regs, notifierMode, probe, reboot, faults, owed, loose, ideal,
                   clean>>

\* _reboot_notifier picks the action of the mode.  The excuse is a ghost.
Notify ==
    /\ probe = "done"
    /\ notifierMode # {}
    /\ reboot.at = "idle"
    /\ \E m \in Mode :
          reboot' = IF m \in notifierMode
                    THEN [at |-> "load", mode |-> m, use |-> attr[m], left |-> Field,
                          excused |-> m \in torn \/ Storing(m) # {}]
                    ELSE [at |-> "over", use |-> attr[m], excused |-> TRUE]
    /\ UNCHANGED <<regs, attr, notifierMode, probe, call, faults, ghosts>>

\* The arguments of _regmap_update are loaded one by one, in any order.
NotifyLoad ==
    /\ reboot.at = "load"
    /\ \E f \in reboot.left :
          LET use == Put(reboot.use, f, attr[reboot.mode])
              left == reboot.left \ {f}
          IN reboot' = IF left = {} THEN Updating(use, reboot.excused)
                       ELSE [reboot EXCEPT !.use = use, !.left = left]
    /\ UNCHANGED <<regs, attr, notifierMode, probe, call, faults, ghosts>>

\* The notifier writes bits of cfg7, or of a register with no commands.
Request(mask, value, asks) ==
    IF reboot.use.reg = "cfg7"
    THEN /\ cfg7' = Update(cfg7, mask, value)
         /\ owed' = Update(owed, mask, value) \cap Command
         /\ loose' = asks
         /\ call' = Stale
    ELSE UNCHANGED <<cfg7, owed, loose, call>>

\* The register is read, to no use, then its field is cleared; a mask of zero
\* asks for one write of the whole register.  Any failure ends the call.
RebootClear ==
    /\ reboot.at = "read"
    /\ \/ /\ Fine
          /\ LET mask == reboot.use.mask  value == reboot.use.value IN
             IF mask = {}
             THEN /\ Request(Command \cup Keep, value, Several(value))
                  /\ reboot' = [reboot EXCEPT !.at = "over"]
             ELSE /\ Request(mask, {}, loose /\ ~(Command \subseteq mask))
                  /\ reboot' = [reboot EXCEPT !.at = "cleared"]
       \/ /\ Fault
          /\ reboot' = [reboot EXCEPT !.at = "over"]
          /\ UNCHANGED <<cfg7, owed, loose, call>>
    /\ UNCHANGED <<wide, attr, notifierMode, probe, torn, ideal, clean>>

\* What a request that leaves the bits outside its mask alone asks for.
Leaves(mask, value) ==
    IF Command \subseteq mask THEN Several(value) ELSE loose \/ mask \cap value \cap Command # {}

\* Then the value is set in the field.
RebootSet_Slip ==
    /\ reboot.at = "cleared"
    /\ Fine
    /\ Request(reboot.use.value, reboot.use.value, Leaves(reboot.use.mask, reboot.use.value))
    /\ reboot' = [reboot EXCEPT !.at = "over"]
    /\ UNCHANGED <<wide, attr, notifierMode, probe, torn, ideal, clean>>

RebootSet ==
    /\ reboot.at = "cleared"
    /\ \/ /\ Fine
          /\ LET mask == reboot.use.mask  value == reboot.use.value IN
             Request(mask, value, Leaves(mask, value))
       \/ Fault /\ UNCHANGED <<cfg7, owed, loose, call>>
    /\ reboot' = [reboot EXCEPT !.at = "over"]
    /\ UNCHANGED <<wide, attr, notifierMode, probe, torn, ideal, clean>>

-----------------------------------------------------------------------------
(* Files of several registers.                                             *)

Writers(f) == {u \in Admin : call[u].op = "store" /\ call[u].file = f}

\* The calls once a store of f has begun.
Crowded(f) ==
    [u \in Admin |-> IF call[u].op \in {"store", "show"} /\ call[u].file = f
                     THEN [call[u] EXCEPT !.alone = FALSE] ELSE call[u]]

\* scratch_store reads both words first; _scratch_store_str has the new value
\* of every word.
StoreBegin(t) ==
    /\ call[t] = Idle
    /\ \E f \in Wide : \E ops \in IF f = "string" THEN Plain ELSE StoreOps :
          /\ call' = [Crowded(f) EXCEPT ![t] =
                [op |-> "store", file |-> f, ops |-> ops,
                 at |-> IF f = "string" THEN 3 ELSE 1,
                 buf |-> wide[f], alone |-> Writers(f) = {}]]
          /\ clean' = IF Writers(f) = {} THEN clean ELSE clean \ {f}
    /\ UNCHANGED <<regs, attr, notifierMode, probe, reboot, faults, owed, loose,
                   torn, ideal>>

\* _regmap_read_u64 reads the high word, then the low one.
StoreRead(t) ==
    /\ call[t].op = "store"
    /\ call[t].at \in Half
    /\ \/ /\ Fine
          /\ call' = [call EXCEPT ![t].buf[call[t].at] = wide[call[t].file][call[t].at],
                                  ![t].at = @ + 1]
       \/ Fault /\ call' = [call EXCEPT ![t] = Idle]
    /\ UNCHANGED <<regs, attr, notifierMode, probe, reboot, ghosts>>

\* The words are written in the same order.  A store of a whole value that met
\* no other leaves the file clean again.
StoreWrite_Slip(t) ==
    /\ call[t].op = "store"
    /\ call[t].at \in {3, 4}
    /\ LET c == call[t]
           h == c.at - 2
       IN /\ wide' = [wide EXCEPT ![c.file][h] =
                          Apply(c.ops[IF c.file = "string" THEN 1 ELSE h], c.buf[h])]
          /\ ideal' = IF h = 2 THEN [ideal EXCEPT ![c.file] = ApplyAll(c.ops, @)]
                      ELSE ideal
          /\ call' = [call EXCEPT ![t] = IF h = 2 THEN Idle ELSE [c EXCEPT !.at = 4]]
    /\ UNCHANGED <<faults, clean, cfg7, attr, notifierMode, probe, reboot, owed,
                   loose, torn>>

StoreWrite(t) ==
    /\ call[t].op = "store"
    /\ call[t].at \in {3, 4}
    /\ LET c == call[t]
           h == c.at - 2
       IN \/ /\ Fine
             /\ wide' = [wide EXCEPT ![c.file][h] = Apply(c.ops[h], c.buf[h])]
             /\ IF h = 1
                THEN /\ call' = [call EXCEPT ![t].at = 4]
                     /\ UNCHANGED <<ideal, clean>>
                ELSE /\ call' = [call EXCEPT ![t] = Idle]
                     /\ ideal' = [ideal EXCEPT ![c.file] = ApplyAll(c.ops, @)]
                     /\ clean' = IF c.alone /\ c.ops \in Plain
                                 THEN clean \cup {c.file} ELSE clean
          \/ /\ Fault
             /\ call' = [call EXCEPT ![t] = Idle]
             /\ clean' = clean \ {c.file}
             /\ UNCHANGED <<wide, ideal>>
    /\ UNCHANGED <<cfg7, attr, notifierMode, probe, reboot, owed, loose, torn>>

ShowBegin(t) ==
    /\ call[t] = Idle
    /\ \E f \in Wide :
          call' = [call EXCEPT ![t] = [op |-> "show", file |-> f, at |-> 1,
                                       buf |-> [h \in Half |-> 0],
                                       alone |-> Writers(f) = {}]]
    /\ UNCHANGED <<regs, attr, notifierMode, probe, reboot, faults, ghosts>>

\* _scratch_show_str and scratch_show read the words in order, then return.
ShowRead(t) ==
    /\ call[t].op = "show"
    /\ call' = IF call[t].at \in Half
               THEN [call EXCEPT ![t].buf[call[t].at] = wide[call[t].file][call[t].at],
                                 ![t].at = @ + 1]
               ELSE [call EXCEPT ![t] = Idle]
    /\ UNCHANGED <<regs, attr, notifierMode, probe, reboot, faults, ghosts>>

-----------------------------------------------------------------------------
Init ==
    /\ family \in Family
    /\ cfg7 = {}
    /\ wide = [f \in Wide |-> [h \in Half |-> 0]]
    /\ attr = Preset
    /\ notifierMode = {}
    /\ probe = IF Enabled THEN "update" ELSE "passive"
    /\ call = [t \in Admin |-> Idle]
    /\ reboot = [at |-> "idle"]
    /\ faults = FaultBudget
    /\ owed = {}
    /\ loose = FALSE
    /\ torn = {}
    /\ ideal = wide
    /\ clean = Wide

CommandStep ==
    \/ ProbeUpdate
    \/ RegisterNotifier
    \/ PowerController
    \/ Notify
    \/ NotifyLoad
    \/ RebootClear
    \/ RebootSet
    \/ \E t \in Admin :
          \/ ControlRead(t)
          \/ ControlWrite(t)
          \/ Cfg7Store(t)
          \/ TripleBegin(t)
          \/ TripleStore(t)

WordStep ==
    \E t \in Admin :
       \/ StoreBegin(t)
       \/ StoreRead(t)
       \/ StoreWrite(t)
       \/ ShowBegin(t)
       \/ ShowRead(t)

Next ==
    /\ UNCHANGED family
    /\ \/ family = "command" /\ CommandStep
       \/ family = "words" /\ WordStep

Spec == Init /\ [][Next]_vars

-----------------------------------------------------------------------------
\* Calls and the notifier are in one of their states.
Calls ==
    {Idle}
    \cup [op: {"control"}, bit: Command, fresh: BOOLEAN]
    \cup [op: {"triple"}, mode: Mode, new: Triple,
          left: (SUBSET Field) \ {{}}, alone: BOOLEAN]
    \cup [op: {"store"}, file: Wide, ops: StoreOps \cup Plain, at: 1..4,
          buf: [Half -> Bit], alone: BOOLEAN]
    \cup [op: {"show"}, file: Wide, at: 1..3, buf: [Half -> Bit], alone: BOOLEAN]

Calling ==
    [at: {"idle"}]
    \cup [at: {"load"}, mode: Mode, use: Triple, left: (SUBSET Field) \ {{}},
          excused: BOOLEAN]
    \cup [at: {"read", "cleared", "over"}, use: Triple, excused: BOOLEAN]

\* Every variable has the type the code gives it; an interleaving never takes
\* a call past its last word.
TypeOK ==
    /\ family \in Family
    /\ cfg7 \subseteq Command \cup Keep
    /\ wide \in [Wide -> [Half -> Bit]]
    /\ attr \in [Mode -> Triple]
    /\ notifierMode \subseteq Mode
    /\ probe \in {"update", "notify", "done", "passive"}
    /\ call \in [Admin -> Calls]
    /\ reboot \in Calling
    /\ faults \in 0..FaultBudget
    /\ owed \subseteq Command
    /\ loose \in BOOLEAN
    /\ torn \subseteq Mode
    /\ ideal \in [Wide -> [Half -> Bit]]
    /\ clean \subseteq Wide

\* The power controller finds two commands at once only if a request asked for
\* them so: a store of cfg7, or a triple, with several, or a triple whose mask
\* leaves other commands as they are.  Whichever way the control file's test and
\* write, the file cfg7 and the two updates of the notifier interleave, and
\* whatever they fail at, no two requests for one command each become two.
OneCommand == loose \/ ~Several(cfg7)

\* An accepted command stays in cfg7 until the controller takes it, unless a
\* reboot or a raw store of cfg7 outranks it, or a control store that had
\* tested the register before the command was there writes after it.
PendingKept == owed \subseteq cfg7

\* The notifier acts on a register, mask and value that were given together,
\* unless a store was under way while it loaded them or two stores of the same
\* file have left a mixture behind.
WholeTriple ==
    reboot.at \in {"read", "cleared", "over"} =>
        reboot.excused \/ \E m \in Mode : reboot.use \in Triples[m] \cup {Preset[m]}

\* A value of several registers is what its stores, each taken whole, make of
\* it, and a show returns such a value, as long as no two stores met, none
\* failed half-way, and none ran during the show; a whole store that meets no
\* other repairs the file.
WideWhole ==
    /\ \A f \in clean : Writers(f) = {} => wide[f] = ideal[f]
    /\ \A t \in Admin :
          call[t].op = "show" /\ call[t].at = 3 /\ call[t].alone /\ call[t].file \in clean
             => call[t].buf = ideal[call[t].file]

=============================================================================
