----------------------------- MODULE Arbitration -----------------------------
(***************************************************************************)
(* Multi-master arbitration of an I2C segment, i2c-arbitrate.c.            *)
(*                                                                         *)
(* Two hosts, the x86 CPU and the BMC, run the same driver against the     *)
(* same FPGA.  On each host the tasks that call lock_bus/trylock_bus first *)
(* take the rt_mutex hw->bus_lock, then negotiate with the other host      *)
(* through three registers: a request flag per host (sw0 and sw1 of the    *)
(* I2C block header) and one hardware semaphore, arbi[index] of the msd or *)
(* xil block.  Reading the semaphore as zero takes it; writing it frees    *)
(* it, whoever holds it.                                                   *)
(*                                                                         *)
(* One action is one register access with the computation that follows it. *)
(* A register access may fail; the driver sees an error and the access may *)
(* or may not have reached the hardware (the BMC reaches the registers     *)
(* over an I2C link of its own).  A host may restart at any point.         *)
(* Time is left out: a wait may expire at any failed poll.                 *)
(***************************************************************************)
EXTENDS Naturals

CONSTANTS
    X86, BMC,        \* the two hosts
    Task,            \* the tasks of both hosts that use the segment
    HostOf,          \* the host a task runs on
    NoTask,          \* an unlocked bus_lock
    Free,            \* a semaphore nobody holds
    ExpiryPossible,  \* may a wait last longer than hw->arb.timeout_jiffies?
    FaultBudget,     \* bound on the number of failing register accesses
    CrashBudget      \* bound on the number of host restarts

Host == {X86, BMC}

ASSUME HostsDiffer     == X86 # BMC
ASSUME FreeAssumption  == Free \notin Host
ASSUME NoTaskAssumption == NoTask \notin Task
ASSUME HostOfAssumption == HostOf \in [Task -> Host]
ASSUME BudgetAssumption ==
    /\ ExpiryPossible \in BOOLEAN
    /\ FaultBudget \in Nat
    /\ CrashBudget \in Nat

Peer(h) == IF h = X86 THEN BMC ELSE X86

VARIABLES
    bus_lock,   \* [Host -> Task or NoTask]: the rt_mutex of a host's adapters
    pc,         \* where each task is
    peer,       \* local variable peer of obtain_arbitration
    arb,        \* local variable arb of obtain_arbitration
    outcome,    \* which statistics counter the session bumped last
    local,      \* the request flag register each host writes
    sem,        \* the semaphore register: Free, or the host that took it
    faults,     \* register accesses that failed so far
    crashes,    \* host restarts so far
    tainted     \* history: a failure or expiry in the current busy period

taskVars == <<pc, peer, arb, outcome>>
regVars  == <<local, sem>>
vars == <<bus_lock, taskVars, regVars, faults, crashes, tainted>>

-----------------------------------------------------------------------------
(* obtain_arbitration keeps arb in a u32.  Zero means the semaphore was    *)
(* free and is now ours; a negative error code becomes a large non-zero    *)
(* value, so that only "zero" satisfies arb <= 0 or !arb.                  *)
ArbVal == {"zero", "held", "err"}

Outcome == {"none", "undisputed", "granted", "expired", "write_local_err"}

PC == {"idle", "lock", "read_peer", "read_arb", "write_local", "clear_arb",
       "wait", "bus", "release_arb", "unlock"}

\* The states of a task that holds bus_lock.
Locked == PC \ {"idle", "lock"}

InBus(t) == pc[t] = "bus"

\* The task took the semaphore and has not yet written it back.
Owns(t) ==
    \/ pc[t] \in {"clear_arb", "bus", "release_arb"}
    \/ pc[t] = "write_local" /\ arb[t] = "zero"

-----------------------------------------------------------------------------
(* Register accesses.  A failed access counts against the budget, voids    *)
(* the promise of the current busy period, and may have taken effect.      *)

Ok   == UNCHANGED faults
Fail == faults < FaultBudget /\ faults' = faults + 1

Tainting(expiry) == tainted' = (tainted \/ faults' # faults \/ expiry)

\* The semaphore: a read that finds it free takes it for the reader's host.
read_arb(h, v) ==
    \/ v = "zero" /\ sem = Free /\ sem' = h /\ Ok
    \/ v = "held" /\ sem # Free /\ sem' = sem /\ Ok
    \/ v = "err"  /\ Fail /\ sem' \in {sem, IF sem = Free THEN h ELSE sem}

write_arb ==
    \/ sem' = Free /\ Ok
    \/ sem' \in {sem, Free} /\ Fail

\* A host's own request flag.
write_local(h, b, ok) ==
    \/ ok  /\ Ok   /\ local' = [local EXCEPT ![h] = b]
    \/ ~ok /\ Fail /\ local' \in {local, [local EXCEPT ![h] = b]}

Goto(t, from, to) ==
    /\ pc[t] = from
    /\ pc' = [pc EXCEPT ![t] = to]

-----------------------------------------------------------------------------
(* Faulty variants of the actions below, each a plausible slip in the code. *)
(* No specification uses them; a property is known to have teeth because it *)
(* fails when a variant takes the place of the action it is named after.    *)

\* Undisputed if the semaphore was free or nobody asked, not both.
ReadArb_Either(t) ==
    /\ \E v \in ArbVal :
        /\ read_arb(HostOf[t], v)
        /\ arb' = [arb EXCEPT ![t] = v]
        /\ IF v = "zero" \/ ~peer[t]
           THEN /\ Goto(t, "read_arb", "bus")
                /\ outcome' = [outcome EXCEPT ![t] = "undisputed"]
           ELSE /\ Goto(t, "read_arb", "write_local")
                /\ UNCHANGED outcome
    /\ Tainting(FALSE)
    /\ UNCHANGED <<bus_lock, peer, local, crashes>>

\* The semaphore is not handed over before waiting for it.
WriteLocal_NoYield(t) ==
    /\ \E ok \in BOOLEAN :
        /\ write_local(HostOf[t], TRUE, ok)
        /\ IF ok
           THEN Goto(t, "write_local", "wait") /\ UNCHANGED outcome
           ELSE /\ Goto(t, "write_local", "bus")
                /\ outcome' = [outcome EXCEPT ![t] = "write_local_err"]
    /\ Tainting(FALSE)
    /\ UNCHANGED <<bus_lock, peer, arb, sem, crashes>>

\* The result of a successful write_arb, 0, is taken for ownership.
ClearArb_Returns(t) ==
    /\ Goto(t, "clear_arb", "bus")
    /\ write_arb
    /\ outcome' = [outcome EXCEPT ![t] = "granted"]
    /\ Tainting(FALSE)
    /\ UNCHANGED <<bus_lock, peer, arb, local, crashes>>

\* The loop has no deadline.
Expire_Never(t) == FALSE /\ pc' = [pc EXCEPT ![t] = "bus"]

\* The semaphore is freed first, and again after the flag is withdrawn.
ClearLocal_ArbFirst(t) ==
    /\ Goto(t, "bus", "release_arb")
    /\ write_arb
    /\ local' = [local EXCEPT ![HostOf[t]] = FALSE]
    /\ Tainting(FALSE)
    /\ UNCHANGED <<bus_lock, peer, arb, outcome, crashes>>

\* The request is not withdrawn.
ClearLocal_Forgotten(t) ==
    /\ Goto(t, "bus", "release_arb")
    /\ UNCHANGED <<bus_lock, peer, arb, outcome, regVars, faults, crashes, tainted>>

\* The semaphore is freed only by a session that was granted it ...
ReleaseArb_IfGranted(t) ==
    /\ Goto(t, "release_arb", "unlock")
    /\ IF outcome[t] = "expired" THEN UNCHANGED <<sem, faults>> ELSE write_arb
    /\ Tainting(FALSE)
    /\ UNCHANGED <<bus_lock, peer, arb, outcome, local, crashes>>

\* ... or only by one that found it free at once.
ReleaseArb_IfUndisputed(t) ==
    /\ Goto(t, "release_arb", "unlock")
    /\ IF outcome[t] = "undisputed" THEN write_arb ELSE UNCHANGED <<sem, faults>>
    /\ Tainting(FALSE)
    /\ UNCHANGED <<bus_lock, peer, arb, outcome, local, crashes>>

-----------------------------------------------------------------------------
Init ==
    /\ bus_lock = [h \in Host |-> NoTask]
    /\ pc = [t \in Task |-> "idle"]
    /\ peer = [t \in Task |-> FALSE]
    /\ arb = [t \in Task |-> "held"]
    /\ outcome = [t \in Task |-> "none"]
    /\ local = [h \in Host |-> FALSE]
    /\ sem = Free
    /\ faults = 0
    /\ crashes = 0
    /\ tainted = FALSE

(* arb_lock_bus: queue on the rt_mutex ...                                 *)
Lock(t) ==
    /\ Goto(t, "idle", "lock")
    /\ UNCHANGED <<bus_lock, peer, arb, outcome, regVars, faults, crashes, tainted>>

TakeMutex(t, from) ==
    /\ bus_lock[HostOf[t]] = NoTask
    /\ bus_lock' = [bus_lock EXCEPT ![HostOf[t]] = t]
    /\ Goto(t, from, "read_peer")
    /\ UNCHANGED <<peer, arb, outcome, regVars, faults, crashes, tainted>>

(* ... and get it.                                                         *)
LockBus(t) == TakeMutex(t, "lock")

(* arb_trylock_bus: the mutex only if it is free; false changes nothing.   *)
TrylockBus(t) == TakeMutex(t, "idle")

(* obtain_arbitration: read the other host's request; an error counts as   *)
(* no request.                                                             *)
ReadPeer(t) ==
    /\ Goto(t, "read_peer", "read_arb")
    /\ \/ Ok   /\ peer' = [peer EXCEPT ![t] = local[Peer(HostOf[t])]]
       \/ Fail /\ peer' = [peer EXCEPT ![t] = FALSE]
    /\ Tainting(FALSE)
    /\ UNCHANGED <<bus_lock, arb, outcome, regVars, crashes>>

(* First read of the semaphore: undisputed, or go on to negotiate.         *)
ReadArb(t) ==
    /\ \E v \in ArbVal :
        /\ read_arb(HostOf[t], v)
        /\ arb' = [arb EXCEPT ![t] = v]
        /\ IF v = "zero" /\ ~peer[t]
           THEN /\ Goto(t, "read_arb", "bus")
                /\ outcome' = [outcome EXCEPT ![t] = "undisputed"]
           ELSE /\ Goto(t, "read_arb", "write_local")
                /\ UNCHANGED outcome
    /\ Tainting(FALSE)
    /\ UNCHANGED <<bus_lock, peer, local, crashes>>

(* Disputed: raise our request.  If that fails, obtain_arbitration returns *)
(* and the caller uses the bus.                                            *)
WriteLocal(t) ==
    /\ \E ok \in BOOLEAN :
        /\ write_local(HostOf[t], TRUE, ok)
        /\ IF ok
           THEN /\ Goto(t, "write_local", IF arb[t] = "zero" THEN "clear_arb" ELSE "wait")
                /\ UNCHANGED outcome
           ELSE /\ Goto(t, "write_local", "bus")
                /\ outcome' = [outcome EXCEPT ![t] = "write_local_err"]
    /\ Tainting(FALSE)
    /\ UNCHANGED <<bus_lock, peer, arb, sem, crashes>>

(* We hold the semaphore and the other host wants it: hand it over.  The   *)
(* test for a failure, arb < 0 on a u32, is never true: wait either way.   *)
ClearArb(t) ==
    /\ Goto(t, "clear_arb", "wait")
    /\ write_arb
    /\ Tainting(FALSE)
    /\ UNCHANGED <<bus_lock, peer, arb, outcome, local, crashes>>

(* One round of the polling loop that does not end it by expiry.           *)
Poll(t) ==
    /\ pc[t] = "wait"
    /\ \E v \in ArbVal :
        /\ read_arb(HostOf[t], v)
        /\ arb' = [arb EXCEPT ![t] = v]
        /\ IF v = "zero"
           THEN /\ Goto(t, "wait", "bus")
                /\ outcome' = [outcome EXCEPT ![t] = "granted"]
           ELSE UNCHANGED <<pc, outcome>>
    /\ Tainting(FALSE)
    /\ UNCHANGED <<bus_lock, peer, local, crashes>>

(* The last round: still not granted and jiffies is past expires.  The     *)
(* driver counts it and returns to a caller that uses the bus.             *)
Expire(t) ==
    /\ ExpiryPossible
    /\ Goto(t, "wait", "bus")
    /\ \E v \in ArbVal \ {"zero"} :
        /\ read_arb(HostOf[t], v)
        /\ arb' = [arb EXCEPT ![t] = v]
    /\ outcome' = [outcome EXCEPT ![t] = "expired"]
    /\ Tainting(TRUE)
    /\ UNCHANGED <<bus_lock, peer, local, crashes>>

(* arb_unlock_bus after the transfer: withdraw the request ...             *)
ClearLocal(t) ==
    /\ Goto(t, "bus", "release_arb")
    /\ \E ok \in BOOLEAN : write_local(HostOf[t], FALSE, ok)
    /\ Tainting(FALSE)
    /\ UNCHANGED <<bus_lock, peer, arb, outcome, sem, crashes>>

(* ... free the semaphore, whoever holds it ...                            *)
ReleaseArb(t) ==
    /\ Goto(t, "release_arb", "unlock")
    /\ write_arb
    /\ Tainting(FALSE)
    /\ UNCHANGED <<bus_lock, peer, arb, outcome, local, crashes>>

(* ... and unlock.  When no task of either host is left in a session the   *)
(* busy period is over.                                                    *)
Unlock(t) ==
    /\ Goto(t, "unlock", "idle")
    /\ bus_lock' = [bus_lock EXCEPT ![HostOf[t]] = NoTask]
    /\ peer' = [peer EXCEPT ![t] = FALSE]
    /\ arb' = [arb EXCEPT ![t] = "held"]
    /\ outcome' = [outcome EXCEPT ![t] = "none"]
    /\ tainted' = (tainted /\ \E h \in Host : bus_lock'[h] # NoTask)
    /\ UNCHANGED <<regVars, faults, crashes>>

(* A host restarts.  Its tasks and its mutex are gone; the FPGA keeps the  *)
(* request flag and the semaphore as they were.  The next probe resets the *)
(* I2C engine inside a lock_bus/unlock_bus session like any other.         *)
Restart(h) ==
    /\ crashes < CrashBudget
    /\ crashes' = crashes + 1
    /\ bus_lock' = [bus_lock EXCEPT ![h] = NoTask]
    /\ pc' = [t \in Task |-> IF HostOf[t] = h THEN "idle" ELSE pc[t]]
    /\ peer' = [t \in Task |-> IF HostOf[t] = h THEN FALSE ELSE peer[t]]
    /\ arb' = [t \in Task |-> IF HostOf[t] = h THEN "held" ELSE arb[t]]
    /\ outcome' = [t \in Task |-> IF HostOf[t] = h THEN "none" ELSE outcome[t]]
    /\ tainted' = (tainted /\ bus_lock[Peer(h)] # NoTask)
    /\ UNCHANGED <<regVars, faults>>

Next ==
    \/ \E t \in Task :
        \/ Lock(t)
        \/ LockBus(t)
        \/ TrylockBus(t)
        \/ ReadPeer(t)
        \/ ReadArb(t)
        \/ WriteLocal(t)
        \/ ClearArb(t)
        \/ Poll(t)
        \/ Expire(t)
        \/ ClearLocal(t)
        \/ ReleaseArb(t)
        \/ Unlock(t)
    \/ \E h \in Host : Restart(h)

Spec == Init /\ [][Next]_vars

(* A wait always ends: either the semaphore is read free or time runs out. *)
(* Transfers end because the engines poll with a limit.  The rt_mutex is   *)
(* handed to its waiters in turn.  Nothing makes a task ask for the bus.   *)
Fairness ==
    \A t \in Task :
        /\ SF_vars(LockBus(t))
        /\ WF_vars(ReadPeer(t) \/ ReadArb(t) \/ WriteLocal(t) \/ ClearArb(t))
        /\ WF_vars((Poll(t) /\ pc'[t] = "bus") \/ Expire(t))
        /\ WF_vars(ClearLocal(t) \/ ReleaseArb(t) \/ Unlock(t))

FairSpec == Spec /\ Fairness

-----------------------------------------------------------------------------
TypeOK ==
    /\ bus_lock \in [Host -> Task \cup {NoTask}]
    /\ pc \in [Task -> PC]
    /\ peer \in [Task -> BOOLEAN]
    /\ arb \in [Task -> ArbVal]
    /\ outcome \in [Task -> Outcome]
    /\ local \in [Host -> BOOLEAN]
    /\ sem \in Host \cup {Free}
    /\ faults \in 0..FaultBudget
    /\ crashes \in 0..CrashBudget
    /\ tainted \in BOOLEAN

\* A task past lock_bus holds its host's mutex, and only the holder is past.
LockHeld ==
    \A t \in Task : pc[t] \in Locked <=> bus_lock[HostOf[t]] = t

(* Two tasks use the segment at once only in a busy period in which a      *)
(* register access failed or a wait expired: an expired session's final    *)
(* write frees a semaphore it does not hold, but the damage cannot outlive *)
(* the moment at which both hosts have unlocked.                           *)
Exclusive ==
    ~tainted => \A s, t \in Task : InBus(s) /\ InBus(t) => s = t

\* What makes Exclusive inductive: an owner's semaphore names its host.
OwnerHoldsSem ==
    ~tainted => \A t \in Task : Owns(t) => sem = HostOf[t]

(* The semaphore does not leak: without register failures and restarts it  *)
(* is held only on behalf of a running session of that host that will      *)
(* write it back, even when sessions expire and free each other's.         *)
SemaphoreNotLeaked ==
    faults = 0 /\ crashes = 0 =>
        (sem # Free => \E t \in Task : HostOf[t] = sem /\ Owns(t))

(* obtain_arbitration never polls a semaphore that its own host holds,     *)
(* which no other host would free before the wait expires.                 *)
NoSelfWait ==
    faults = 0 /\ crashes = 0 =>
        \A t \in Task : pc[t] = "wait" => sem # HostOf[t]

(* A raised request flag belongs to a session that disputes the segment.   *)
(* A stale one would make the other host yield to nobody on every access.  *)
NoStaleRequest ==
    faults = 0 /\ crashes = 0 =>
        \A h \in Host : local[h] =>
            \E t \in Task :
                /\ HostOf[t] = h
                /\ \/ pc[t] \in {"clear_arb", "wait"}
                   \/ pc[t] = "bus" /\ outcome[t] \in {"granted", "expired"}

(* The semaphore is taken but no session of its holder owns it, because a  *)
(* restart, a failed clearing write or a lost read left it behind.         *)
Orphaned ==
    sem # Free /\ ~\E t \in Task : HostOf[t] = sem /\ Owns(t)

(* Every request for the bus is served: lock_bus returns, unless the       *)
(* caller's own host restarts ("idle").                                    *)
RequestServed ==
    \A t \in Task : pc[t] = "lock" ~> pc[t] \in {"bus", "idle"}

(* If the segment stays in use, an orphaned semaphore is always reclaimed: *)
(* some session times out on it and its release frees it.                  *)
OrphanReclaimed ==
    ([]<>\E t \in Task : InBus(t)) => []<>~Orphaned

(* The segment as its users see it.                                        *)
Segment == INSTANCE BusMutex WITH
    User <- Task, users <- {t \in Task : InBus(t)}, tainted <- tainted

\* The driver implements the abstract segment.
ImplementsSegment == Segment!Spec

-----------------------------------------------------------------------------
(* i2c-arbitrate.c:71 calls obtain_arbitration "Obtain exclusive access    *)
(* for multi-master".  After an expiry it returns without it.              *)
ExclusiveAccess ==
    \A s, t \in Task : InBus(s) /\ InBus(t) => s = t

(* i2c-arbitrate.c:94: "on error, pretend ownership taken".  Taken at its  *)
(* word, a session whose first read of the semaphore failed and that saw   *)
(* no request from the other host does not go on to negotiate.             *)
ErrorPretendsOwnership ==
    \A t \in Task :
        ~(pc[t] = "write_local" /\ arb[t] = "err" /\ ~peer[t])

=============================================================================
