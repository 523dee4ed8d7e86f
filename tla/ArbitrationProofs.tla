-------------------------- MODULE ArbitrationProofs --------------------------
(***************************************************************************)
(* Proofs about Arbitration for any number of tasks on the two hosts, any  *)
(* budget of register failures and restarts, with or without expiries, and *)
(* about ArbitrationTimed for any settings.                                *)
(*                                                                         *)
(* The inductive invariant is TypeOK /\ LockHeld /\ OwnerHoldsSem.         *)
(* LockHeld reduces two tasks of one host to one; OwnerHoldsSem does the   *)
(* same across hosts while the busy period is untainted.  Held and Asked   *)
(* are what also holds while nothing fails; the refinement of BusMutex and *)
(* the bounds on time follow, the latter with TimerInv and TurnInv.        *)
(***************************************************************************)
EXTENDS ArbitrationTimed, TLAPS

USE DEF Host, Peer

\* The steps of one task.
Step(t) ==
    \/ Lock(t) \/ LockBus(t) \/ TrylockBus(t) \/ ReadPeer(t) \/ ReadArb(t)
    \/ WriteLocal(t) \/ ClearArb(t) \/ Poll(t) \/ Expire(t) \/ ClearLocal(t)
    \/ ReleaseArb(t) \/ Unlock(t)

\* Next is a step of some task or a restart of some host.
LEMMA NextCases ==
    ASSUME [Next]_vars
    PROVE  \/ \E t \in Task : Step(t)
           \/ \E h \in Host : Restart(h)
           \/ UNCHANGED vars
BY DEF Next, Step

\* Reads and writes of the registers keep them and the fault count typed.
LEMMA ReadArbType ==
    ASSUME TypeOK, NEW h \in Host, NEW v, read_arb(h, v)
    PROVE  sem' \in Host \cup {Free} /\ faults' \in 0..FaultBudget
BY BudgetAssumption DEF TypeOK, read_arb, Ok, Fail

LEMMA WriteArbType ==
    ASSUME TypeOK, write_arb
    PROVE  sem' \in Host \cup {Free} /\ faults' \in 0..FaultBudget
BY BudgetAssumption DEF TypeOK, write_arb, Ok, Fail

LEMMA WriteLocalType ==
    ASSUME TypeOK, NEW h \in Host, NEW b \in BOOLEAN, NEW ok, write_local(h, b, ok)
    PROVE  local' \in [Host -> BOOLEAN] /\ faults' \in 0..FaultBudget
BY BudgetAssumption DEF TypeOK, write_local, Ok, Fail

-----------------------------------------------------------------------------
LEMMA TypeInit == Init => TypeOK
<1> SUFFICES ASSUME Init PROVE TypeOK
  OBVIOUS
<1>1. peer \in [Task -> BOOLEAN] /\ local \in [Host -> BOOLEAN] /\ tainted \in BOOLEAN
  BY Zenon DEF Init
<1>2. faults \in 0..FaultBudget /\ crashes \in 0..CrashBudget
  BY BudgetAssumption DEF Init
<1>3. bus_lock \in [Host -> Task \cup {NoTask}]
  BY DEF Init
<1> QED
  BY <1>1, <1>2, <1>3 DEF Init, TypeOK, PC, ArbVal, Outcome

LEMMA TypeStep == TypeOK /\ [Next]_vars => TypeOK'
<1> SUFFICES ASSUME TypeOK, [Next]_vars PROVE TypeOK'
  OBVIOUS
<1>1. ASSUME NEW t \in Task, Step(t) PROVE TypeOK'
  <2> USE HostOfAssumption DEF Goto, PC, ArbVal, Outcome, regVars
  <2> HostOf[t] \in Host
    OBVIOUS
  <2>1. CASE Lock(t)
    BY <2>1 DEF Lock, TypeOK
  <2>2. CASE LockBus(t) \/ TrylockBus(t)
    BY <2>2 DEF LockBus, TrylockBus, TakeMutex, TypeOK
  <2>3. CASE ReadPeer(t)
    <3>1. faults' \in 0..FaultBudget /\ tainted' \in BOOLEAN
      BY <2>3, BudgetAssumption DEF ReadPeer, Ok, Fail, Tainting, TypeOK
    <3>2. peer' \in [Task -> BOOLEAN]
      BY <2>3 DEF ReadPeer, TypeOK
    <3> QED
      BY <2>3, <3>1, <3>2 DEF ReadPeer, TypeOK
  <2>4. CASE ReadArb(t)
    BY <2>4, ReadArbType DEF ReadArb, Tainting, TypeOK
  <2>5. CASE WriteLocal(t)
    BY <2>5, WriteLocalType DEF WriteLocal, Tainting, TypeOK
  <2>6. CASE ClearArb(t)
    BY <2>6, WriteArbType DEF ClearArb, Tainting, TypeOK
  <2>7. CASE Poll(t)
    BY <2>7, ReadArbType DEF Poll, Tainting, TypeOK
  <2>8. CASE Expire(t)
    BY <2>8, ReadArbType DEF Expire, Tainting, TypeOK
  <2>9. CASE ClearLocal(t)
    BY <2>9, WriteLocalType DEF ClearLocal, Tainting, TypeOK
  <2>10. CASE ReleaseArb(t)
    BY <2>10, WriteArbType DEF ReleaseArb, Tainting, TypeOK
  <2>11. CASE Unlock(t)
    BY <2>11 DEF Unlock, TypeOK
  <2> QED
    BY <1>1, <2>1, <2>2, <2>3, <2>4, <2>5, <2>6, <2>7, <2>8, <2>9, <2>10, <2>11 DEF Step
<1>2. ASSUME NEW h \in Host, Restart(h) PROVE TypeOK'
  <2>1. peer' \in [Task -> BOOLEAN] /\ tainted' \in BOOLEAN
    BY <1>2, Zenon DEF Restart, TypeOK
  <2>2. crashes' \in 0..CrashBudget
    BY <1>2, BudgetAssumption DEF Restart, TypeOK
  <2>3. bus_lock' \in [Host -> Task \cup {NoTask}]
    BY <1>2 DEF Restart, TypeOK
  <2>4. pc' \in [Task -> PC] /\ arb' \in [Task -> ArbVal] /\ outcome' \in [Task -> Outcome]
    BY <1>2 DEF Restart, TypeOK, PC, ArbVal, Outcome
  <2> QED
    BY <1>2, <2>1, <2>2, <2>3, <2>4 DEF Restart, TypeOK, regVars
<1>3. CASE UNCHANGED vars
  BY <1>3 DEF vars, taskVars, regVars, TypeOK
<1> QED
  BY <1>1, <1>2, <1>3, NextCases

\* Every variable of the arbitration keeps its type.
THEOREM TypeCorrect == Spec => []TypeOK
BY TypeInit, TypeStep, PTL DEF Spec

-----------------------------------------------------------------------------
IInv == TypeOK /\ LockHeld /\ OwnerHoldsSem

\* A register access is counted as failed exactly when it is.
LEMMA FaultTaints ==
    ASSUME TypeOK, NEW e \in BOOLEAN, Tainting(e), ~tainted'
    PROVE  ~tainted /\ ~Fail /\ ~e
<1>1. ~tainted /\ faults' = faults /\ ~e
  BY Zenon DEF Tainting
<1>2. faults # faults + 1
  BY BudgetAssumption DEF TypeOK
<1> QED
  BY <1>1, <1>2 DEF Fail

\* Two tasks of one host past lock_bus are the same task.
LEMMA OneSessionPerHost ==
    ASSUME TypeOK, LockHeld, NEW s \in Task, NEW t \in Task,
           HostOf[s] = HostOf[t], pc[s] \in Locked, pc[t] \in Locked
    PROVE  s = t
BY DEF LockHeld

\* An owner is past lock_bus.
LEMMA OwnerIsLocked ==
    ASSUME NEW t \in Task, Owns(t)
    PROVE  pc[t] \in Locked
BY DEF Owns, Locked, PC

LEMMA LockHeldStep == TypeOK /\ LockHeld /\ [Next]_vars => LockHeld'
<1> SUFFICES ASSUME TypeOK, LockHeld, [Next]_vars PROVE LockHeld'
  OBVIOUS
<1> USE HostOfAssumption, NoTaskAssumption DEF Locked, PC
<1>1. ASSUME NEW t \in Task, Step(t) PROVE LockHeld'
  <2>1. CASE Lock(t)
    BY <2>1 DEF Lock, Goto, LockHeld, TypeOK
  <2>2. CASE LockBus(t) \/ TrylockBus(t)
    BY <2>2 DEF LockBus, TrylockBus, TakeMutex, Goto, LockHeld, TypeOK
  <2>3. CASE Unlock(t)
    BY <2>3 DEF Unlock, Goto, LockHeld, TypeOK
  <2>4. CASE ~(Lock(t) \/ LockBus(t) \/ TrylockBus(t) \/ Unlock(t))
    <3>1. bus_lock' = bus_lock /\ pc[t] \in Locked
      BY <1>1, <2>4 DEF Step, ReadPeer, ReadArb, WriteLocal, ClearArb, Poll,
                        Expire, ClearLocal, ReleaseArb, Goto
    <3>2. \E p \in Locked : pc' = [pc EXCEPT ![t] = p]
      <4>1. CASE Poll(t)
        <5>1. pc' = [pc EXCEPT ![t] = "bus"] \/ pc' = pc
          BY <4>1 DEF Poll, Goto
        <5>2. pc = [pc EXCEPT ![t] = pc[t]]
          BY DEF TypeOK
        <5> QED
          BY <3>1, <5>1, <5>2
      <4>2. CASE ~Poll(t)
        BY <1>1, <2>4, <4>2 DEF Step, ReadPeer, ReadArb, WriteLocal, ClearArb,
                                Expire, ClearLocal, ReleaseArb, Goto
      <4> QED
        BY <4>1, <4>2
    <3> QED
      BY <3>1, <3>2 DEF LockHeld, TypeOK
  <2> QED
    BY <2>1, <2>2, <2>3, <2>4
<1>2. ASSUME NEW h \in Host, Restart(h) PROVE LockHeld'
  BY <1>2 DEF Restart, LockHeld, TypeOK
<1>3. CASE UNCHANGED vars
  BY <1>3 DEF vars, taskVars, LockHeld
<1> QED
  BY <1>1, <1>2, <1>3, NextCases
\* An untainted step keeps the semaphore with its owner.
LEMMA OwnerHoldsSemStep == IInv /\ [Next]_vars => OwnerHoldsSem'
<1> SUFFICES ASSUME TypeOK, LockHeld, OwnerHoldsSem, [Next]_vars, ~tainted',
                    NEW u \in Task, Owns(u)'
             PROVE  sem' = HostOf[u]
  BY DEF IInv, OwnerHoldsSem
<1> USE HostOfAssumption, FreeAssumption
<1>1. ASSUME NEW t \in Task, Step(t) PROVE sem' = HostOf[u]
  <2> USE DEF Goto
  \* Steps after which the segment was already untainted.
  <2>1. ASSUME ~tainted, Owns(u), UNCHANGED sem PROVE sem' = HostOf[u]
    BY <2>1 DEF OwnerHoldsSem
  \* The semaphore is free before the step only if nobody owns it.
  <2>2. ASSUME ~tainted, Owns(u) PROVE sem # Free
    BY <2>2 DEF OwnerHoldsSem
  <2>3. CASE Lock(t)
    BY <1>1, <2>1, <2>3 DEF Lock, Owns, TypeOK, regVars
  <2>4. CASE LockBus(t) \/ TrylockBus(t)
    BY <2>1, <2>4 DEF LockBus, TrylockBus, TakeMutex, Owns, TypeOK, regVars
  <2>5. CASE ReadPeer(t)
    <3>1. ~tainted
      BY <2>5, FaultTaints DEF ReadPeer
    <3> QED
      BY <2>1, <2>5, <3>1 DEF ReadPeer, Owns, TypeOK, regVars
  <2>6. CASE ReadArb(t)
    <3>1. ~tainted /\ ~Fail
      BY <2>6, FaultTaints DEF ReadArb
    <3>2. PICK v \in ArbVal : read_arb(HostOf[t], v) /\ arb' = [arb EXCEPT ![t] = v]
      BY <2>6 DEF ReadArb
    <3>3. CASE u = t
      <4>1. v = "zero"
        BY <2>6, <3>2, <3>3 DEF ReadArb, Owns, TypeOK
      <4> QED
        BY <3>1, <3>2, <3>3, <4>1 DEF read_arb
    <3>4. CASE u # t
      <4>1. Owns(u)
        BY <2>6, <3>4 DEF ReadArb, Owns, TypeOK
      <4> QED
        BY <2>1, <2>2, <3>1, <3>2, <4>1 DEF read_arb
    <3> QED
      BY <3>3, <3>4
  <2>7. CASE WriteLocal(t)
    <3>1. ~tainted /\ ~Fail
      BY <2>7, FaultTaints DEF WriteLocal
    <3>2. Owns(u)
      BY <2>7, <3>1 DEF WriteLocal, write_local, Owns, TypeOK
    <3> QED
      BY <2>1, <2>7, <3>1, <3>2 DEF WriteLocal
  <2>8. CASE ClearArb(t)
    <3>1. ~tainted /\ ~Fail
      BY <2>8, FaultTaints DEF ClearArb
    <3>2. u # t /\ Owns(u)
      BY <2>8 DEF ClearArb, Owns, TypeOK
    <3>3. HostOf[u] = HostOf[t]
      BY <2>8, <3>1, <3>2 DEF ClearArb, Owns, OwnerHoldsSem
    <3> QED
      BY <2>8, <3>2, <3>3, OneSessionPerHost, OwnerIsLocked DEF ClearArb, Owns
  <2>9. CASE Poll(t)
    <3>1. ~tainted /\ ~Fail
      BY <2>9, FaultTaints DEF Poll
    <3>2. PICK v \in ArbVal : read_arb(HostOf[t], v)
      BY <2>9 DEF Poll
    <3>3. CASE u = t
      <4>1. v = "zero"
        BY <2>9, <3>1, <3>2, <3>3 DEF Poll, read_arb, Owns, TypeOK
      <4> QED
        BY <3>1, <3>2, <3>3, <4>1 DEF read_arb
    <3>4. CASE u # t
      <4>1. Owns(u)
        BY <2>9, <3>4 DEF Poll, Owns, TypeOK
      <4> QED
        BY <2>1, <2>2, <3>1, <3>2, <4>1 DEF read_arb
    <3> QED
      BY <3>3, <3>4
  <2>10. CASE Expire(t)
    BY <2>10, FaultTaints DEF Expire
  <2>11. CASE ClearLocal(t)
    <3>1. ~tainted
      BY <2>11, FaultTaints DEF ClearLocal
    <3>2. Owns(u)
      BY <2>11 DEF ClearLocal, Owns, TypeOK
    <3> QED
      BY <2>1, <2>11, <3>1, <3>2 DEF ClearLocal
  <2>12. CASE ReleaseArb(t)
    <3>1. ~tainted /\ ~Fail
      BY <2>12, FaultTaints DEF ReleaseArb
    <3>2. u # t /\ Owns(u)
      BY <2>12 DEF ReleaseArb, Owns, TypeOK
    <3>3. HostOf[u] = HostOf[t]
      BY <2>12, <3>1, <3>2 DEF ReleaseArb, Owns, OwnerHoldsSem
    <3> QED
      BY <2>12, <3>2, <3>3, OneSessionPerHost, OwnerIsLocked DEF ReleaseArb, Owns
  <2>13. CASE Unlock(t)
    <3>1. u # t /\ Owns(u)
      BY <2>13 DEF Unlock, Owns, TypeOK
    <3>2. bus_lock[HostOf[u]] = u /\ bus_lock[HostOf[t]] = t
      BY <2>13, <3>1, OwnerIsLocked DEF Unlock, LockHeld, Locked, PC
    <3>3. bus_lock'[HostOf[u]] = u
      BY <2>13, <3>1, <3>2 DEF Unlock, TypeOK
    <3>4. ~tainted
      BY <2>13, <3>3, NoTaskAssumption DEF Unlock
    <3> QED
      BY <2>1, <2>13, <3>1, <3>4 DEF Unlock, regVars
  <2> QED
    BY <1>1, <2>3, <2>4, <2>5, <2>6, <2>7, <2>8, <2>9, <2>10, <2>11, <2>12, <2>13 DEF Step
<1>2. ASSUME NEW h \in Host, Restart(h) PROVE sem' = HostOf[u]
  <2>1. HostOf[u] # h /\ Owns(u)
    BY <1>2 DEF Restart, Owns, TypeOK
  <2>2. bus_lock[Peer(h)] # NoTask
    BY <2>1, OwnerIsLocked, NoTaskAssumption DEF LockHeld
  <2>3. ~tainted
    BY <1>2, <2>2 DEF Restart
  <2> QED
    BY <1>2, <2>1, <2>3 DEF Restart, OwnerHoldsSem, regVars
<1>3. CASE UNCHANGED vars
  BY <1>3 DEF vars, taskVars, regVars, OwnerHoldsSem, Owns
<1> QED
  BY <1>1, <1>2, <1>3, NextCases

THEOREM Invariance == Spec => []IInv
<1>1. Init => IInv
  <2> SUFFICES ASSUME Init PROVE LockHeld /\ OwnerHoldsSem /\ TypeOK
    BY DEF IInv
  <2>1. LockHeld /\ OwnerHoldsSem
    BY HostOfAssumption, NoTaskAssumption DEF Init, LockHeld, OwnerHoldsSem, Locked, Owns
  <2> QED
    BY <2>1, TypeInit
<1>2. IInv /\ [Next]_vars => IInv'
  BY TypeStep, LockHeldStep, OwnerHoldsSemStep DEF IInv
<1> QED
  BY <1>1, <1>2, PTL DEF Spec

\* Untainted, at most one task uses the segment.
LEMMA IInvExclusive == IInv => Exclusive
<1> SUFFICES ASSUME IInv, ~tainted, NEW s \in Task, NEW t \in Task, InBus(s), InBus(t)
             PROVE  s = t
  BY DEF Exclusive
<1>1. HostOf[s] = HostOf[t]
  BY DEF IInv, OwnerHoldsSem, Owns, InBus
<1> QED
  BY <1>1, OneSessionPerHost DEF IInv, InBus, Locked, PC

\* Mutual exclusion on the segment, for any number of tasks on either host,
\* outside busy periods that saw a failed register access or an expiry.
THEOREM MutualExclusion == Spec => []Exclusive
BY Invariance, IInvExclusive, PTL

\* A task past lock_bus, and only such a task, holds its host's rt_mutex.
THEOREM MutexHeld == Spec => []LockHeld
<1>1. IInv => LockHeld
  BY DEF IInv
<1> QED
  BY <1>1, Invariance, PTL

\* Untainted, a task that took the semaphore finds its host's name in it.
THEOREM OwnerHoldsSemaphore == Spec => []OwnerHoldsSem
<1>1. IInv => OwnerHoldsSem
  BY DEF IInv
<1> QED
  BY <1>1, Invariance, PTL

-----------------------------------------------------------------------------
(* As long as no register access has failed and no host has restarted,     *)
(* with or without expired waits: the semaphore does not leak, no host     *)
(* waits for itself, and no request flag is left behind.                   *)

\* The semaphore is held on behalf of a session that will write it back.
Held == sem # Free => \E s \in Task : HostOf[s] = sem /\ Owns(s)

\* The session disputes the segment, and so its host's flag is raised.
Disputes(t) ==
    \/ pc[t] \in {"clear_arb", "wait"}
    \/ pc[t] = "bus" /\ outcome[t] \in {"granted", "expired"}

Asked == \A h \in Host : local[h] = TRUE => \E s \in Task : HostOf[s] = h /\ Disputes(s)

FaultFree == faults = 0 /\ crashes = 0

FInv == TypeOK /\ LockHeld /\ (FaultFree => Held /\ Asked)

-----------------------------------------------------------------------------
\* A history without a failure was without one before, and the step is one of
\* a task, in which no access fails.
LEMMA FaultFreeStep ==
    ASSUME TypeOK, [Next]_vars, FaultFree'
    PROVE  FaultFree /\ ~Fail /\ \A h \in Host : ~Restart(h)
<1>1. faults \in Nat /\ crashes \in Nat
  BY BudgetAssumption DEF TypeOK
<1>2. ~Fail /\ \A h \in Host : ~Restart(h)
  <2>1. faults' # faults + 1 /\ crashes' # crashes + 1
    BY <1>1 DEF FaultFree
  <2> QED
    BY <2>1 DEF Fail, Restart
<1>3. ASSUME NEW t \in Task, Step(t) PROVE crashes' = crashes /\ (Ok \/ Fail)
  <2>1. CASE Lock(t) \/ LockBus(t) \/ TrylockBus(t) \/ Unlock(t)
    BY <2>1 DEF Lock, LockBus, TrylockBus, TakeMutex, Unlock, Ok
  <2>2. CASE ReadPeer(t)
    BY <2>2 DEF ReadPeer
  <2>3. CASE ReadArb(t) \/ Poll(t) \/ Expire(t)
    BY <2>3 DEF ReadArb, Poll, Expire, read_arb
  <2>4. CASE WriteLocal(t) \/ ClearLocal(t)
    BY <2>4 DEF WriteLocal, ClearLocal, write_local
  <2>5. CASE ClearArb(t) \/ ReleaseArb(t)
    BY <2>5 DEF ClearArb, ReleaseArb, write_arb
  <2> QED
    BY <1>3, <2>1, <2>2, <2>3, <2>4, <2>5 DEF Step
<1>4. CASE UNCHANGED vars
  BY <1>2, <1>4 DEF FaultFree, vars
<1> QED
  BY <1>2, <1>3, <1>4, NextCases DEF FaultFree, Ok

\* A step of one task leaves the other tasks where they are.
LEMMA OthersStay ==
    ASSUME TypeOK, NEW t \in Task, Step(t), NEW s \in Task, s # t
    PROVE  pc'[s] = pc[s] /\ arb'[s] = arb[s] /\ outcome'[s] = outcome[s]
<1>1. pc'[s] = pc[s]
  BY DEF Step, Lock, LockBus, TrylockBus, TakeMutex, ReadPeer, ReadArb, WriteLocal,
         ClearArb, Poll, Expire, ClearLocal, ReleaseArb, Unlock, Goto, TypeOK
<1>2. arb'[s] = arb[s]
  BY DEF Step, Lock, LockBus, TrylockBus, TakeMutex, ReadPeer, ReadArb, WriteLocal,
         ClearArb, Poll, Expire, ClearLocal, ReleaseArb, Unlock, TypeOK
<1>3. outcome'[s] = outcome[s]
  BY DEF Step, Lock, LockBus, TrylockBus, TakeMutex, ReadPeer, ReadArb, WriteLocal,
         ClearArb, Poll, Expire, ClearLocal, ReleaseArb, Unlock, TypeOK
<1> QED
  BY <1>1, <1>2, <1>3

-----------------------------------------------------------------------------
\* A task takes the semaphore and owns it, or frees it, or leaves it alone and
\* goes on owning it if it did.
LEMMA SemaphoreMoves ==
    ASSUME TypeOK, NEW t \in Task, Step(t), ~Fail
    PROVE  \/ sem' = Free
           \/ sem' = HostOf[t] /\ Owns(t)'
           \/ sem' = sem /\ (Owns(t) => Owns(t)')
<1>1. CASE Lock(t) \/ LockBus(t) \/ TrylockBus(t) \/ Unlock(t) \/ ReadPeer(t)
  <2>1. ~Owns(t) /\ sem' = sem
    BY <1>1 DEF Lock, LockBus, TrylockBus, TakeMutex, Unlock, ReadPeer, Goto, Owns, regVars
  <2> QED
    BY <2>1
<1>2. CASE ReadArb(t)
  <2>1. PICK v \in ArbVal :
          /\ read_arb(HostOf[t], v)
          /\ arb' = [arb EXCEPT ![t] = v]
          /\ pc[t] = "read_arb"
          /\ pc' = [pc EXCEPT ![t] = "bus"] \/ pc' = [pc EXCEPT ![t] = "write_local"]
    BY <1>2 DEF ReadArb, Goto
  <2>2. pc'[t] \in {"bus", "write_local"} /\ arb'[t] = v
    BY <2>1 DEF TypeOK
  <2>3. ~Owns(t)
    BY <2>1 DEF Owns
  <2>4. CASE v = "zero"
    BY <2>1, <2>2, <2>4 DEF read_arb, Owns
  <2>5. CASE v # "zero"
    BY <2>1, <2>3, <2>5 DEF read_arb
  <2> QED
    BY <2>4, <2>5
<1>3. CASE WriteLocal(t)
  <2>1. /\ sem' = sem /\ arb' = arb /\ pc[t] = "write_local"
        /\ pc' = [pc EXCEPT ![t] = IF arb[t] = "zero" THEN "clear_arb" ELSE "wait"]
    BY <1>3 DEF WriteLocal, write_local, Goto
  <2>2. arb[t] = "zero" => pc'[t] = "clear_arb"
    BY <2>1 DEF TypeOK
  <2> QED
    BY <2>1, <2>2 DEF Owns
<1>4. CASE ClearArb(t) \/ ReleaseArb(t)
  BY <1>4 DEF ClearArb, ReleaseArb, write_arb
<1>5. CASE Poll(t)
  <2>1. PICK v \in ArbVal :
          /\ read_arb(HostOf[t], v) /\ pc[t] = "wait"
          /\ v = "zero" => pc' = [pc EXCEPT ![t] = "bus"]
    BY <1>5 DEF Poll, Goto
  <2>2. CASE v = "zero"
    <3>1. pc'[t] = "bus"
      BY <2>1, <2>2 DEF TypeOK
    <3> QED
      BY <2>1, <2>2, <3>1 DEF read_arb, Owns
  <2>3. CASE v # "zero"
    BY <2>1, <2>3 DEF read_arb, Owns
  <2> QED
    BY <2>2, <2>3
<1>6. CASE Expire(t)
  <2>1. sem' = sem /\ pc[t] = "wait"
    BY <1>6 DEF Expire, read_arb, Goto
  <2> QED
    BY <2>1 DEF Owns
<1>7. CASE ClearLocal(t)
  <2>1. sem' = sem /\ pc'[t] = "release_arb"
    BY <1>7 DEF ClearLocal, Goto, TypeOK
  <2> QED
    BY <2>1 DEF Owns
<1> QED
  BY <1>1, <1>2, <1>3, <1>4, <1>5, <1>6, <1>7 DEF Step

LEMMA HeldStep ==
    ASSUME TypeOK, Held, NEW t \in Task, Step(t), ~Fail
    PROVE  Held'
<1> SUFFICES ASSUME sem' # Free PROVE \E s \in Task : HostOf[s] = sem' /\ Owns(s)'
  BY DEF Held
<1>1. CASE sem' = HostOf[t] /\ Owns(t)'
  BY <1>1
<1>2. CASE sem' = sem /\ (Owns(t) => Owns(t)')
  <2>1. PICK s \in Task : HostOf[s] = sem /\ Owns(s)
    BY <1>2 DEF Held
  <2>2. s # t => Owns(s)'
    BY <2>1, OthersStay DEF Owns
  <2> QED
    BY <1>2, <2>1, <2>2
<1> QED
  BY <1>1, <1>2, SemaphoreMoves

-----------------------------------------------------------------------------
\* A task raises its host's flag and disputes the segment, or lowers it, or
\* leaves it alone and goes on disputing if it did.
LEMMA FlagMoves ==
    ASSUME TypeOK, NEW t \in Task, Step(t), ~Fail
    PROVE  \/ local' = [local EXCEPT ![HostOf[t]] = TRUE] /\ Disputes(t)'
           \/ local' = [local EXCEPT ![HostOf[t]] = FALSE]
           \/ local' = local /\ (Disputes(t) => Disputes(t)')
<1>1. CASE Lock(t) \/ LockBus(t) \/ TrylockBus(t) \/ Unlock(t) \/ ReadPeer(t)
           \/ ReadArb(t) \/ ReleaseArb(t)
  <2>1. ~Disputes(t) /\ local' = local
    BY <1>1 DEF Lock, LockBus, TrylockBus, TakeMutex, Unlock, ReadPeer, ReadArb,
                ReleaseArb, Goto, Disputes, regVars
  <2> QED
    BY <2>1
<1>2. CASE WriteLocal(t)
  <2>1. /\ local' = [local EXCEPT ![HostOf[t]] = TRUE]
        /\ pc' = [pc EXCEPT ![t] = IF arb[t] = "zero" THEN "clear_arb" ELSE "wait"]
    BY <1>2 DEF WriteLocal, write_local, Goto
  <2>2. pc'[t] \in {"clear_arb", "wait"}
    BY <2>1 DEF TypeOK
  <2> QED
    BY <2>1, <2>2 DEF Disputes
<1>3. CASE ClearArb(t)
  <2>1. local' = local /\ pc'[t] = "wait"
    BY <1>3 DEF ClearArb, Goto, TypeOK
  <2> QED
    BY <2>1 DEF Disputes
<1>4. CASE Poll(t)
  <2>1. local' = local
    BY <1>4 DEF Poll
  <2>2. pc'[t] = "wait" \/ (pc'[t] = "bus" /\ outcome'[t] = "granted")
    BY <1>4 DEF Poll, Goto, TypeOK
  <2> QED
    BY <2>1, <2>2 DEF Disputes
<1>5. CASE Expire(t)
  <2>1. local' = local /\ pc'[t] = "bus" /\ outcome'[t] = "expired"
    BY <1>5 DEF Expire, Goto, TypeOK
  <2> QED
    BY <2>1 DEF Disputes
<1>6. CASE ClearLocal(t)
  BY <1>6 DEF ClearLocal, write_local
<1> QED
  BY <1>1, <1>2, <1>3, <1>4, <1>5, <1>6 DEF Step

LEMMA AskedStep ==
    ASSUME TypeOK, Asked, NEW t \in Task, Step(t), ~Fail
    PROVE  Asked'
<1> SUFFICES ASSUME NEW h \in Host, local'[h] = TRUE
             PROVE  \E s \in Task : HostOf[s] = h /\ Disputes(s)'
  BY DEF Asked
<1>1. HostOf[t] \in Host /\ local \in [Host -> BOOLEAN]
  BY HostOfAssumption DEF TypeOK
<1>2. CASE h = HostOf[t] /\ Disputes(t)'
  BY <1>2
<1>3. CASE ~(h = HostOf[t] /\ Disputes(t)')
  <2>1. local[h] = TRUE /\ (h = HostOf[t] => (Disputes(t) => Disputes(t)'))
    BY <1>1, <1>3, FlagMoves
  <2>2. PICK s \in Task : HostOf[s] = h /\ Disputes(s)
    BY <2>1 DEF Asked
  <2>3. s # t => Disputes(s)'
    BY <2>2, OthersStay DEF Disputes
  <2> QED
    BY <2>1, <2>2, <2>3
<1> QED
  BY <1>2, <1>3

-----------------------------------------------------------------------------
LEMMA FaultFreeInvariance == Spec => []FInv
<1>1. Init => FInv
  <2> SUFFICES ASSUME Init PROVE FInv
    OBVIOUS
  <2>1. LockHeld
    BY HostOfAssumption, NoTaskAssumption DEF Init, LockHeld, Locked
  <2>2. Held /\ Asked
    BY DEF Init, Held, Asked
  <2> QED
    BY <2>1, <2>2, TypeInit DEF FInv
<1>2. FInv /\ [Next]_vars => FInv'
  <2> SUFFICES ASSUME FInv, [Next]_vars PROVE FInv'
    OBVIOUS
  <2>1. TypeOK' /\ LockHeld'
    BY TypeStep, LockHeldStep DEF FInv
  <2>2. ASSUME FaultFree' PROVE Held' /\ Asked'
    <3>1. FaultFree /\ ~Fail /\ \A h \in Host : ~Restart(h)
      BY <2>2, FaultFreeStep DEF FInv
    <3>2. ASSUME NEW t \in Task, Step(t) PROVE Held' /\ Asked'
      BY <3>1, <3>2, HeldStep, AskedStep DEF FInv
    <3>3. CASE UNCHANGED vars
      <4>1. UNCHANGED <<pc, arb, outcome, local, sem>>
        BY <3>3 DEF vars, taskVars, regVars
      <4>2. \A s \in Task : (Owns(s) => Owns(s)') /\ (Disputes(s) => Disputes(s)')
        BY <4>1 DEF Owns, Disputes
      <4> QED
        BY <3>1, <4>1, <4>2 DEF FInv, Held, Asked
    <3> QED
      BY <3>1, <3>2, <3>3, NextCases
  <2> QED
    BY <2>1, <2>2 DEF FInv
<1> QED
  BY <1>1, <1>2, PTL DEF Spec

\* Without failures and restarts the semaphore is held only on behalf of a
\* running session that will write it back, though sessions that expire free
\* semaphores of others.
THEOREM NoLeak == Spec => []SemaphoreNotLeaked
<1>1. FInv => SemaphoreNotLeaked
  BY DEF FInv, FaultFree, Held, SemaphoreNotLeaked
<1> QED
  BY <1>1, FaultFreeInvariance, PTL

\* obtain_arbitration never polls a semaphore that its own host holds: the
\* session that holds it would be a second one past the host's rt_mutex.
THEOREM NeverSelfWait == Spec => []NoSelfWait
<1>1. ASSUME FInv, FaultFree, NEW t \in Task, pc[t] = "wait", sem = HostOf[t] PROVE FALSE
  <2>1. sem # Free
    BY <1>1, FreeAssumption, HostOfAssumption
  <2>2. PICK s \in Task : HostOf[s] = HostOf[t] /\ Owns(s)
    BY <1>1, <2>1 DEF FInv, Held
  <2>3. s = t
    BY <1>1, <2>2, OneSessionPerHost, OwnerIsLocked DEF FInv, Locked, PC
  <2> QED
    BY <1>1, <2>2, <2>3 DEF Owns
<1>2. FInv => NoSelfWait
  BY <1>1 DEF FaultFree, NoSelfWait
<1> QED
  BY <1>2, FaultFreeInvariance, PTL

\* Without failures and restarts a raised request flag belongs to a session of
\* that host that disputes the segment.
THEOREM RequestsWithdrawn == Spec => []NoStaleRequest
<1>1. ASSUME FInv PROVE NoStaleRequest
  <2> SUFFICES ASSUME FaultFree, NEW h \in Host, local[h]
               PROVE  \E s \in Task : HostOf[s] = h /\ Disputes(s)
    BY DEF FaultFree, NoStaleRequest, Disputes
  <2>1. local[h] = TRUE
    <3>1. local[h] \in BOOLEAN
      BY <1>1 DEF FInv, TypeOK
    <3> QED
      BY <3>1
  <2> QED
    BY <1>1, <2>1 DEF FInv, Asked
<1> QED
  BY <1>1, FaultFreeInvariance, PTL

-----------------------------------------------------------------------------
(* The driver's arbitration implements the abstract segment BusMutex:      *)
(* every step of Arbitration is an abstract step or leaves the abstract    *)
(* state unchanged, given the inductive invariant.                         *)

\* The abstract users: tasks between the return of lock_bus and unlock_bus.
Users == {t \in Task : InBus(t)}

AbsVars == <<Users, tainted>>

AbsStep == [Segment!Next]_Segment!vars

\* A step that moves nobody in or out of the bus and can only taint.
LEMMA QuietStep ==
    ASSUME TypeOK, NEW e \in BOOLEAN, Tainting(e), Users' = Users
    PROVE  AbsStep
<1>1. tainted' = TRUE \/ tainted' = tainted
  BY Zenon DEF TypeOK, Tainting
<1> QED
  BY <1>1 DEF Users, AbsStep, Segment!Next, Segment!Taint, Segment!vars

\* The semaphore is read free, so no owner is in the bus: a regular entry.
LEMMA EntryStep ==
    ASSUME TypeOK, OwnerHoldsSem, NEW t \in Task, read_arb(HostOf[t], "zero"),
           Tainting(FALSE), pc[t] # "bus", Users' = Users \cup {t}
    PROVE  AbsStep
<1>1. sem = Free /\ faults' = faults
  BY DEF read_arb, Ok
<1>2. tainted' = tainted
  BY <1>1, Zenon DEF Tainting, TypeOK
<1>3. Users = {} \/ tainted
  BY <1>1, HostOfAssumption, FreeAssumption DEF OwnerHoldsSem, Users, InBus, Owns
<1>4. Segment!Enter(t)
  BY <1>2, <1>3 DEF Segment!Enter, Users, InBus
<1> QED
  BY <1>4 DEF AbsStep, Segment!Next

LEMMA StepRefines ==
    ASSUME IInv, NEW t \in Task, Step(t)
    PROVE  AbsStep
<1> USE DEF IInv, Goto
<1> DEFINE moved == [pc EXCEPT ![t] = "bus"]
\* What a change of one program counter does to Users.
<1>1. ASSUME NEW p \in PC, pc' = [pc EXCEPT ![t] = p], p # "bus", pc[t] # "bus"
      PROVE  Users' = Users
  BY <1>1 DEF Users, InBus, TypeOK
<1>2. ASSUME pc' = moved PROVE Users' = Users \cup {t}
  BY <1>2 DEF Users, InBus, TypeOK
<1>3. CASE Lock(t)
  <2>1. Users' = Users
    BY <1>1, <1>3 DEF Lock, PC
  <2> QED
    BY <1>3, <2>1 DEF Lock, AbsStep, Segment!vars, Users
<1>4. CASE LockBus(t) \/ TrylockBus(t)
  <2>1. Users' = Users
    BY <1>1, <1>4 DEF LockBus, TrylockBus, TakeMutex, PC
  <2> QED
    BY <1>4, <2>1 DEF LockBus, TrylockBus, TakeMutex, AbsStep, Segment!vars, Users
<1>5. CASE ReadPeer(t)
  BY <1>1, <1>5, QuietStep DEF ReadPeer, PC
<1>6. CASE ReadArb(t)
  <2>1. PICK v \in ArbVal :
           /\ read_arb(HostOf[t], v)
           /\ IF v = "zero" /\ ~peer[t]
              THEN Goto(t, "read_arb", "bus")
              ELSE Goto(t, "read_arb", "write_local")
    BY <1>6 DEF ReadArb
  <2>2. Tainting(FALSE)
    BY <1>6 DEF ReadArb
  <2>3. CASE v = "zero" /\ ~peer[t]
    BY <1>2, <2>1, <2>2, <2>3, EntryStep
  <2>4. CASE ~(v = "zero" /\ ~peer[t])
    BY <1>1, <2>1, <2>2, <2>4, QuietStep DEF PC
  <2> QED
    BY <2>3, <2>4
<1>7. CASE WriteLocal(t)
  <2>1. PICK ok \in BOOLEAN :
           /\ write_local(HostOf[t], TRUE, ok)
           /\ IF ok
              THEN Goto(t, "write_local", IF arb[t] = "zero" THEN "clear_arb" ELSE "wait")
              ELSE Goto(t, "write_local", "bus")
    BY <1>7 DEF WriteLocal
  <2>2. Tainting(FALSE)
    BY <1>7 DEF WriteLocal
  <2>3. CASE ok
    BY <1>1, <2>1, <2>2, <2>3, QuietStep DEF PC
  <2>4. CASE ~ok
    <3>1. faults' # faults
      BY <2>1, <2>4, BudgetAssumption DEF write_local, Fail, TypeOK
    <3>2. tainted' = TRUE
      BY <2>2, <3>1, Zenon DEF Tainting
    <3> QED
      BY <1>2, <2>1, <2>4, <3>2 DEF AbsStep, Segment!Next, Segment!Intrude, Users
  <2> QED
    BY <2>3, <2>4
<1>8. CASE ClearArb(t)
  BY <1>1, <1>8, QuietStep DEF ClearArb, PC
<1>9. CASE Poll(t)
  <2>1. PICK v \in ArbVal :
           /\ read_arb(HostOf[t], v)
           /\ IF v = "zero" THEN Goto(t, "wait", "bus") ELSE UNCHANGED pc
    BY <1>9 DEF Poll
  <2>2. Tainting(FALSE) /\ pc[t] = "wait"
    BY <1>9 DEF Poll
  <2>3. CASE v = "zero"
    BY <1>2, <2>1, <2>2, <2>3, EntryStep
  <2>4. CASE v # "zero"
    <3>1. Users' = Users
      BY <2>1, <2>4 DEF Users, InBus
    <3> QED
      BY <2>2, <3>1, QuietStep
  <2> QED
    BY <2>3, <2>4
<1>10. CASE Expire(t)
  <2>1. tainted' = TRUE
    BY <1>10, Zenon DEF Expire, Tainting
  <2> QED
    BY <1>2, <1>10, <2>1 DEF Expire, AbsStep, Segment!Next, Segment!Intrude, Users
<1>11. CASE ClearLocal(t)
  <2>1. Users' = Users \ {t} /\ t \in Users
    BY <1>11 DEF ClearLocal, Users, InBus, TypeOK
  <2>2. tainted' = TRUE \/ tainted' = tainted
    BY <1>11, Zenon DEF ClearLocal, Tainting, TypeOK
  <2>3. Segment!Leave({t})
    BY <2>1, <2>2 DEF Segment!Leave, Users, TypeOK
  <2> QED
    BY <2>3 DEF AbsStep, Segment!Next
<1>12. CASE ReleaseArb(t)
  BY <1>1, <1>12, QuietStep DEF ReleaseArb, PC
<1>13. CASE Unlock(t)
  <2>1. Users' = Users
    BY <1>1, <1>13 DEF Unlock, PC
  <2> DEFINE busy == \E h \in Host : bus_lock'[h] # NoTask
  <2>2. tainted' = (tainted /\ busy)
    BY <1>13 DEF Unlock
  <2>3. CASE busy
    <3>1. tainted' = tainted
      <4> HIDE DEF busy
      <4> QED
        BY <2>2, <2>3, Zenon DEF TypeOK
    <3> QED
      BY <2>1, <3>1 DEF AbsStep, Segment!vars, Users
  <2>4. CASE ~busy
    <3>1. tainted' = FALSE
      <4> HIDE DEF busy
      <4> QED
        BY <2>2, <2>4, Zenon DEF TypeOK
    <3>2. \A u \in Task : u # t => ~InBus(u)
      <4> SUFFICES ASSUME NEW u \in Task, u # t, InBus(u) PROVE FALSE
        OBVIOUS
      <4>1. bus_lock[HostOf[u]] = u /\ bus_lock[HostOf[t]] = t
        BY <1>13 DEF Unlock, LockHeld, InBus, Locked, PC
      <4>2. bus_lock'[HostOf[u]] = u
        BY <1>13, <4>1 DEF Unlock, TypeOK
      <4> QED
        BY <2>4, <4>2, HostOfAssumption, NoTaskAssumption
    <3>3. Users = {}
      BY <1>13, <3>2 DEF Unlock, Users, InBus
    <3>4. Segment!Heal
      BY <2>1, <3>1, <3>3 DEF Segment!Heal, Users
    <3> QED
      BY <3>4 DEF AbsStep, Segment!Next
  <2> QED
    BY <2>3, <2>4
<1> QED
  BY <1>3, <1>4, <1>5, <1>6, <1>7, <1>8, <1>9, <1>10, <1>11, <1>12, <1>13 DEF Step

LEMMA RestartRefines ==
    ASSUME IInv, NEW h \in Host, Restart(h)
    PROVE  AbsStep
<1> USE HostOfAssumption, NoTaskAssumption DEF IInv
<1> DEFINE us == {t \in Users : HostOf[t] = h}
           other == bus_lock[Peer(h)] # NoTask
<1>1. us \subseteq Users /\ Users \subseteq Task /\ Users' = Users \ us
  BY DEF Restart, Users, InBus, TypeOK
<1>2. tainted' = (tainted /\ other)
  BY DEF Restart
<1>3. ~other => Users' = {}
  <2> SUFFICES ASSUME ~other, NEW t \in Users' PROVE FALSE
    OBVIOUS
  <2>1. t \in Users /\ HostOf[t] # h
    BY <1>1
  <2>2. HostOf[t] = Peer(h)
    BY <2>1 DEF Users, Host, Peer
  <2>3. bus_lock[Peer(h)] = t
    BY <2>1, <2>2 DEF Users, InBus, LockHeld, Locked, PC
  <2> QED
    BY <2>1, <2>3 DEF Users
<1>4. CASE other
  <2>1. tainted' = tainted
    <3> HIDE DEF other
    <3> QED
      BY <1>2, <1>4, Zenon DEF TypeOK
  <2>2. CASE us = {}
    BY <1>1, <2>1, <2>2 DEF AbsStep, Segment!vars, Users
  <2>3. CASE us # {}
    <3>1. Segment!Leave(us)
      BY <1>1, <2>1, <2>3 DEF Segment!Leave, Users, TypeOK
    <3> QED
      BY <1>1, <3>1 DEF AbsStep, Segment!Next
  <2> QED
    BY <2>2, <2>3
<1>5. CASE ~other
  <2>1. tainted' = FALSE
    <3> HIDE DEF other
    <3> QED
      BY <1>2, <1>5, Zenon DEF TypeOK
  <2>2. CASE us = {}
    <3>1. Segment!Heal
      BY <1>1, <1>3, <1>5, <2>1, <2>2 DEF Segment!Heal, Users
    <3> QED
      BY <3>1 DEF AbsStep, Segment!Next
  <2>3. CASE us # {}
    <3>1. Segment!Leave(us)
      BY <1>1, <1>3, <1>5, <2>1, <2>3 DEF Segment!Leave, Users
    <3> QED
      BY <1>1, <3>1 DEF AbsStep, Segment!Next
  <2> QED
    BY <2>2, <2>3
<1> QED
  BY <1>4, <1>5

\* The driver implements the abstract segment, whatever fails or expires.
THEOREM Refinement == Spec => ImplementsSegment
<1>1. Init => Segment!Init
  BY DEF Init, InBus, Segment!Init
<1>2. IInv /\ [Next]_vars => AbsStep
  <2> SUFFICES ASSUME IInv, [Next]_vars PROVE AbsStep
    OBVIOUS
  <2>1. CASE UNCHANGED vars
    BY <2>1 DEF vars, taskVars, AbsStep, Segment!vars, InBus
  <2> QED
    BY <2>1, NextCases, StepRefines, RestartRefines
<1> QED
  BY <1>1, <1>2, Invariance, PTL DEF Spec, ImplementsSegment, Segment!Spec, AbsStep

-----------------------------------------------------------------------------
(* Time.  A task that does not wait has waited for nothing; one that does  *)
(* is never later than LateBound, and its next poll is due by its deadline *)
(* and one more sleep.                                                     *)
TimedShape ==
    /\ policy \in Policies
    /\ timeout \in [Host -> policy.timeouts]
    /\ grant \in [Host -> policy.grants]
    /\ retry \in [Host -> policy.retries]
    /\ timer \in [Task -> Int]
    /\ waited \in [Task -> Nat] /\ limit \in [Task -> Nat] /\ overtaken \in [Task -> Nat]

LongestSleep == Largest(policy.grants \cup policy.retries)

Rested(t) == pc[t] # "wait" => waited[t] = 0 /\ overtaken[t] = 0

Sleeping(t) ==
    pc[t] = "wait" =>
        /\ timer[t] >= -LateBound
        /\ limit[t] \in policy.timeouts
        /\ waited[t] + timer[t] <= limit[t] + LongestSleep

TimerInv == TimedShape /\ \A t \in Task : Rested(t) /\ Sleeping(t)


LEMMA LargestIs ==
    ASSUME NEW S \in Ticks
    PROVE  Largest(S) \in S /\ \A k \in S : k <= Largest(S)
BY DEF Ticks, Largest

LEMMA SmallestIs ==
    ASSUME NEW S \in Ticks
    PROVE  Smallest(S) \in S /\ \A k \in S : Smallest(S) <= k
BY DEF Ticks, Smallest

\* What the settings in force are between.
LEMMA SettingsFit ==
    ASSUME TimedShape, NEW h \in Host
    PROVE  /\ timeout[h] \in policy.timeouts
           /\ grant[h] \in Nat /\ 0 < grant[h] /\ grant[h] <= LongestSleep
           /\ retry[h] \in Nat /\ 0 < retry[h] /\ retry[h] <= LongestSleep
           /\ LongestSleep \in Nat /\ LateBound \in Nat /\ HoldBound \in Nat
           /\ policy.timeouts \subseteq Nat
           /\ \A m \in policy.timeouts : Smallest(policy.timeouts) <= m
           /\ Smallest(policy.timeouts) \in Nat
           /\ Largest(policy.grants) \in Nat /\ grant[h] <= Largest(policy.grants)
           /\ Smallest(policy.grants) \in Nat /\ Smallest(policy.grants) <= grant[h]
           /\ 0 < Smallest(policy.grants)
           /\ Largest(policy.retries) \in Nat /\ retry[h] <= Largest(policy.retries)
<1>1. /\ policy.timeouts \in Ticks /\ policy.grants \in Ticks /\ policy.retries \in Ticks
      /\ LateBound \in Nat /\ HoldBound \in Nat
    BY SettingsAssumption DEF TimedShape
<1>2. timeout[h] \in policy.timeouts /\ grant[h] \in policy.grants /\ retry[h] \in policy.retries
    BY DEF TimedShape
<1>3. \A S \in Ticks : S \subseteq Nat \ {0}
    BY DEF Ticks
<1> DEFINE both == policy.grants \cup policy.retries
<1>4. both \in Ticks
    <2>1. PICK m1 \in policy.grants, n1 \in policy.grants :
              \A k \in policy.grants : m1 <= k /\ k <= n1
        BY <1>1 DEF Ticks
    <2>2. PICK m2 \in policy.retries, n2 \in policy.retries :
              \A k \in policy.retries : m2 <= k /\ k <= n2
        BY <1>1 DEF Ticks
    <2>3. both \in SUBSET (Nat \ {0})
        BY <1>1, <1>3
    <2>4. m1 \in Nat /\ n1 \in Nat /\ m2 \in Nat /\ n2 \in Nat
        BY <1>1, <1>3
    <2>5. \E m \in both : \A k \in both : m <= k
        <3>1. CASE m1 <= m2
            BY <1>1, <1>3, <2>1, <2>2, <2>3, <2>4, <3>1
        <3>2. CASE m2 <= m1
            BY <1>1, <1>3, <2>1, <2>2, <2>3, <2>4, <3>2
        <3> QED
            BY <2>4, <3>1, <3>2
    <2>6. \E n \in both : \A k \in both : k <= n
        <3>1. CASE n2 <= n1
            BY <1>1, <1>3, <2>1, <2>2, <2>3, <2>4, <3>1
        <3>2. CASE n1 <= n2
            BY <1>1, <1>3, <2>1, <2>2, <2>3, <2>4, <3>2
        <3> QED
            BY <2>4, <3>1, <3>2
    <2> HIDE DEF both
    <2> QED
        BY <2>3, <2>5, <2>6 DEF Ticks
<1>5. /\ LongestSleep \in Nat /\ grant[h] <= LongestSleep /\ retry[h] <= LongestSleep
    BY <1>2, <1>3, <1>4, LargestIs DEF LongestSleep
<1>6. /\ Largest(policy.grants) \in Nat /\ grant[h] <= Largest(policy.grants)
      /\ Smallest(policy.grants) \in Nat \ {0} /\ Smallest(policy.grants) <= grant[h]
      /\ Largest(policy.retries) \in Nat /\ retry[h] <= Largest(policy.retries)
      /\ Smallest(policy.timeouts) \in Nat
      /\ \A m \in policy.timeouts : Smallest(policy.timeouts) <= m
    BY <1>1, <1>2, <1>3, LargestIs, SmallestIs
<1> QED
    BY <1>1, <1>2, <1>3, <1>5, <1>6

-----------------------------------------------------------------------------
\* The timed steps of one task, each a step of Arbitration.
TimedStep(t) ==
    \/ Instant(t) \/ TimedClearLocal(t) \/ TimedReadArb(t) \/ StartWait(t)
    \/ TimedPoll(t) \/ TimedExpire(t)

LEMMA TimedCases ==
    ASSUME [TimedNext]_timedVars
    PROVE  \/ \E t \in Task : TimedStep(t)
           \/ \E h \in Host : Store(h)
           \/ Tick
           \/ UNCHANGED timedVars
BY DEF TimedNext, TimedStep

LEMMA TimedTaskStep ==
    ASSUME NEW t \in Task, TimedStep(t)
    PROVE  Step(t)
BY DEF TimedStep, Instant, TimedClearLocal, TimedReadArb, StartWait, TimedPoll, TimedExpire, Step

LEMMA TimedNextIsNext ==
    ASSUME [TimedNext]_timedVars
    PROVE  [Next]_vars
<1>1. ASSUME NEW t \in Task, TimedStep(t) PROVE Next
    BY <1>1, TimedTaskStep DEF Step, Next
<1>2. (\E h \in Host : Store(h)) \/ Tick \/ UNCHANGED timedVars => UNCHANGED vars
    BY DEF Store, Tick, timedVars
<1> QED
    BY <1>1, <1>2, TimedCases

LEMMA Untimed == TimedSpec => Spec
<1>1. TimedInit => Init
    BY DEF TimedInit
<1>2. [TimedNext]_timedVars => [Next]_vars
    BY TimedNextIsNext
<1> QED
    BY <1>1, <1>2, PTL DEF TimedSpec, Spec

\* No step changes the policy, and so the bounds taken from it.
LEMMA PolicyStays ==
    ASSUME [TimedNext]_timedVars
    PROVE  policy' = policy
<1>1. ASSUME NEW t \in Task, TimedStep(t) PROVE policy' = policy
    BY <1>1 DEF TimedStep, Instant, TimedClearLocal, TimedReadArb, StartWait, TimedPoll,
                TimedExpire, settings
<1>2. (\E h \in Host : Store(h)) \/ Tick \/ UNCHANGED timedVars => policy' = policy
    BY DEF Store, Tick, timedVars, settings
<1> QED
    BY <1>1, <1>2, TimedCases

\* What a step of t does to the clocks: nothing, or t enters the bus, or it
\* goes to sleep, or it leaves the bus.  Only a failed write of the flag lets it
\* use the bus without entering it.
LEMMA ClocksMove ==
    ASSUME TypeOK, TimedShape, NEW t \in Task, TimedStep(t)
    PROVE  /\ UNCHANGED settings
           /\ \/ UNCHANGED clocks /\ (pc'[t] = "wait" <=> pc[t] = "wait")
                 /\ (pc'[t] = "bus" => pc[t] = "bus" \/ Fail)
              \/ pc'[t] = "bus" /\ EnterBus(t) /\ pc[t] # "bus"
              \/ /\ pc[t] \in {"write_local", "clear_arb"} /\ pc'[t] = "wait"
                 /\ timer' = [timer EXCEPT ![t] = grant[HostOf[t]]]
                 /\ limit' = [limit EXCEPT ![t] = timeout[HostOf[t]]]
                 /\ UNCHANGED <<waited, overtaken>>
              \/ /\ pc[t] = "wait" /\ pc'[t] = "wait"
                 /\ Awake(t) /\ waited[t] <= limit[t]
                 /\ timer' = [timer EXCEPT ![t] = retry[HostOf[t]]]
                 /\ UNCHANGED <<waited, limit, overtaken>>
              \/ /\ pc[t] = "bus" /\ pc'[t] = "release_arb"
                 /\ timer' = [timer EXCEPT ![t] = 0]
                 /\ UNCHANGED <<waited, limit, overtaken>>
<1>1. CASE Instant(t)
    BY <1>1 DEF Instant, Lock, LockBus, TrylockBus, TakeMutex, ReadPeer, ReleaseArb, Unlock,
                Goto, TypeOK
<1>2. CASE TimedClearLocal(t)
    BY <1>2 DEF TimedClearLocal, ClearLocal, Goto, TypeOK
<1>3. CASE TimedReadArb(t)
    <2>1. pc[t] = "read_arb" /\ pc'[t] \in {"bus", "write_local"}
        BY <1>3 DEF TimedReadArb, ReadArb, Goto, TypeOK
    <2> QED
        BY <1>3, <2>1 DEF TimedReadArb
<1>4. CASE StartWait(t)
    <2>1. pc[t] \in {"write_local", "clear_arb"}
        BY <1>4 DEF StartWait, WriteLocal, ClearArb, Goto
    <2>2. CASE pc'[t] = "wait"
        BY <1>4, <2>1, <2>2 DEF StartWait
    <2>3. CASE pc'[t] # "wait"
        <3>1. pc'[t] = "bus" => Fail
            BY <1>4, <2>1 DEF StartWait, WriteLocal, ClearArb, write_local, Goto, TypeOK
        <3> QED
            BY <1>4, <2>1, <2>3, <3>1 DEF StartWait
    <2> QED
        BY <2>2, <2>3
<1>5. CASE TimedPoll(t)
    <2>1. pc[t] = "wait"
        BY <1>5 DEF TimedPoll, Poll
    <2> QED
        BY <1>5, <2>1 DEF TimedPoll
<1>6. CASE TimedExpire(t)
    <2>1. pc[t] = "wait" /\ pc'[t] = "bus"
        BY <1>6 DEF TimedExpire, Expire, Goto, TypeOK
    <2> QED
        BY <1>6, <2>1 DEF TimedExpire
<1> QED
    BY <1>1, <1>2, <1>3, <1>4, <1>5, <1>6 DEF TimedStep

LEMMA TimedInitInv == TimedInit => TimerInv
<1> SUFFICES ASSUME TimedInit PROVE TimerInv
    OBVIOUS
<1>1. TimedShape
    <2>1. /\ timer = [t \in Task |-> 0] /\ waited = [t \in Task |-> 0]
          /\ limit = [t \in Task |-> 0] /\ overtaken = [t \in Task |-> 0]
        BY DEF TimedInit
    <2>2. /\ timer \in [Task -> Int] /\ waited \in [Task -> Nat]
          /\ limit \in [Task -> Nat] /\ overtaken \in [Task -> Nat]
        BY <2>1
    <2> QED
        BY <2>2 DEF TimedInit, TimedShape
<1>2. ASSUME NEW t \in Task PROVE Rested(t) /\ Sleeping(t)
    BY DEF TimedInit, Init, Rested, Sleeping
<1> QED
    BY <1>1, <1>2 DEF TimerInv

\* What entering the bus leaves of the clocks.
LEMMA EnterBusIs ==
    ASSUME TimedShape, NEW s \in Task, EnterBus(s)
    PROVE  /\ timer' \in [Task -> Int] /\ waited' \in [Task -> Nat]
           /\ limit' \in [Task -> Nat] /\ overtaken' \in [Task -> Nat]
           /\ timer'[s] = HoldBound /\ waited'[s] = 0 /\ overtaken'[s] = 0
           /\ \A t \in Task \ {s} :
                 /\ timer'[t] = timer[t] /\ waited'[t] = waited[t] /\ limit'[t] = limit[t]
                 /\ overtaken'[t] = IF pc[t] = "wait" /\ HostOf[t] # HostOf[s]
                                    THEN overtaken[t] + 1 ELSE overtaken[t]
<1>1. HoldBound \in Nat
    BY SettingsAssumption
<1>2. overtaken' \in [Task -> Nat] /\ overtaken'[s] = 0
    BY DEF EnterBus, TimedShape
<1>3. \A t \in Task \ {s} :
          overtaken'[t] = IF pc[t] = "wait" /\ HostOf[t] # HostOf[s]
                          THEN overtaken[t] + 1 ELSE overtaken[t]
    BY DEF EnterBus, TimedShape
<1>4. /\ timer' \in [Task -> Int] /\ waited' \in [Task -> Nat] /\ limit' \in [Task -> Nat]
      /\ timer'[s] = HoldBound /\ waited'[s] = 0
      /\ \A t \in Task \ {s} :
            timer'[t] = timer[t] /\ waited'[t] = waited[t] /\ limit'[t] = limit[t]
    BY <1>1 DEF EnterBus, TimedShape
<1> QED
    BY <1>2, <1>3, <1>4

LEMMA TimerStep ==
    ASSUME TypeOK, TimerInv, [TimedNext]_timedVars
    PROVE  TimerInv'
<1> USE DEF TimerInv
<1>1. policy' = policy /\ LateBound \in Nat
    BY PolicyStays, SettingsAssumption
<1>2. LongestSleep' = LongestSleep
    BY <1>1 DEF LongestSleep
<1>3. ASSUME NEW s \in Task, TimedStep(s) PROVE TimerInv'
    <2> DEFINE h == HostOf[s]
    <2>1. h \in Host /\ Step(s)
        BY <1>3, HostOfAssumption, TimedTaskStep
    <2>2. /\ timeout[h] \in policy.timeouts /\ policy.timeouts \subseteq Nat
          /\ grant[h] \in Nat /\ 0 < grant[h] /\ grant[h] <= LongestSleep
          /\ retry[h] \in Nat /\ 0 < retry[h] /\ retry[h] <= LongestSleep
          /\ LongestSleep \in Nat
        BY <2>1, SettingsFit
    <2> HIDE DEF h
    <2>3. UNCHANGED settings
        BY <1>3, ClocksMove
    <2>4. \A t \in Task \ {s} : pc'[t] = pc[t]
        BY <2>1, OthersStay
    <2>5. ASSUME /\ timer' \in [Task -> Int] /\ waited' \in [Task -> Nat]
                 /\ limit' \in [Task -> Nat] /\ overtaken' \in [Task -> Nat],
                 \A t \in Task \ {s} :
                    /\ timer'[t] = timer[t] /\ waited'[t] = waited[t] /\ limit'[t] = limit[t]
                    /\ pc[t] # "wait" => overtaken'[t] = overtaken[t],
                 Rested(s)', Sleeping(s)'
          PROVE  TimerInv'
        <3>1. TimedShape'
            BY <2>3, <2>5 DEF TimedShape, settings
        <3>2. ASSUME NEW t \in Task PROVE Rested(t)' /\ Sleeping(t)'
            <4>1. CASE t = s
                BY <2>5, <4>1
            <4>2. CASE t # s
                BY <1>1, <1>2, <2>4, <2>5, <4>2 DEF Rested, Sleeping
            <4> QED
                BY <4>1, <4>2
        <3> QED
            BY <3>1, <3>2
    <2>6. CASE UNCHANGED clocks /\ (pc'[s] = "wait" <=> pc[s] = "wait")
        BY <1>1, <1>2, <2>5, <2>6 DEF clocks, TimedShape, Rested, Sleeping
    <2>7. CASE pc'[s] = "bus" /\ EnterBus(s)
        <3>1. Rested(s)' /\ Sleeping(s)'
            BY <2>7, EnterBusIs DEF Rested, Sleeping
        <3> QED
            BY <2>5, <2>7, <3>1, EnterBusIs
    <2>8. CASE /\ pc[s] \in {"write_local", "clear_arb"} /\ pc'[s] = "wait"
               /\ timer' = [timer EXCEPT ![s] = grant[h]]
               /\ limit' = [limit EXCEPT ![s] = timeout[h]]
               /\ UNCHANGED <<waited, overtaken>>
        <3>1. timer'[s] = grant[h] /\ limit'[s] = timeout[h] /\ limit'[s] \in Nat
              /\ waited'[s] = 0 /\ overtaken'[s] = 0
            BY <2>2, <2>8 DEF TimedShape, Rested
        <3>2. Rested(s)' /\ Sleeping(s)'
            BY <1>1, <1>2, <2>2, <2>8, <3>1 DEF Rested, Sleeping
        <3> QED
            BY <2>2, <2>5, <2>8, <3>2 DEF TimedShape
    <2>9. CASE /\ pc[s] = "wait" /\ pc'[s] = "wait"
               /\ Awake(s) /\ waited[s] <= limit[s]
               /\ timer' = [timer EXCEPT ![s] = retry[h]]
               /\ UNCHANGED <<waited, limit, overtaken>>
        <3>1. timer'[s] = retry[h] /\ waited'[s] = waited[s] /\ limit'[s] = limit[s]
              /\ waited[s] \in Nat /\ limit[s] \in Nat
            BY <2>9 DEF TimedShape
        <3>2. Rested(s)' /\ Sleeping(s)'
            BY <1>1, <1>2, <2>2, <2>9, <3>1 DEF Rested, Sleeping
        <3> QED
            BY <2>2, <2>5, <2>9, <3>2 DEF TimedShape
    <2>10. CASE /\ pc[s] = "bus" /\ pc'[s] = "release_arb"
                /\ timer' = [timer EXCEPT ![s] = 0]
                /\ UNCHANGED <<waited, limit, overtaken>>
        <3>1. Rested(s)' /\ Sleeping(s)'
            BY <2>10 DEF Rested, Sleeping
        <3> QED
            BY <2>5, <2>10, <3>1 DEF TimedShape
    <2> QED
        BY <1>3, <2>6, <2>7, <2>8, <2>9, <2>10, ClocksMove DEF h
<1>4. ASSUME NEW h \in Host, Store(h) PROVE TimerInv'
    <2>1. TimedShape'
        BY <1>4 DEF Store, clocks, TimedShape
    <2>2. \A t \in Task : Rested(t)' /\ Sleeping(t)'
        BY <1>2, <1>4 DEF Store, clocks, vars, taskVars, Rested, Sleeping
    <2> QED
        BY <2>1, <2>2
<1>5. CASE Tick
    <2>1. TimedShape'
        BY <1>5 DEF Tick, settings, TimedShape
    <2>2. ASSUME NEW t \in Task PROVE Rested(t)' /\ Sleeping(t)'
        <3>1. /\ pc' = pc /\ overtaken' = overtaken /\ limit' = limit
              /\ timer'[t] = IF pc[t] \in {"wait", "bus"} THEN timer[t] - 1 ELSE timer[t]
              /\ waited'[t] = IF pc[t] = "wait" THEN waited[t] + 1 ELSE waited[t]
              /\ pc[t] = "wait" => timer[t] > -LateBound
              /\ timer[t] \in Int /\ waited[t] \in Nat
            BY <1>5 DEF Tick, Patient, vars, taskVars, TimedShape
        <3> QED
            BY <1>1, <1>2, <3>1 DEF Rested, Sleeping
    <2> QED
        BY <2>1, <2>2
<1>6. CASE UNCHANGED timedVars
    BY <1>2, <1>6 DEF timedVars, settings, clocks, vars, taskVars, TimedShape, Rested, Sleeping
<1> QED
    BY <1>3, <1>4, <1>5, <1>6, TimedCases

LEMMA TimerInvariance == TimedSpec => []TimerInv
<1>1. TypeOK /\ TimerInv /\ [TimedNext]_timedVars => TimerInv'
    BY TimerStep
<1> QED
    BY <1>1, TimedInitInv, Untimed, TypeCorrect, PTL DEF TimedSpec

\* obtain_arbitration always returns in time: whatever sysfs stores and the
\* other host does, and also when accesses fail, a wait is over one more sleep
\* after its deadline.
THEOREM ReturnsInTime == TimedSpec => []LockReturnsInTime
<1>1. TimerInv => LockReturnsInTime
    <2> SUFFICES ASSUME TimerInv, NEW t \in Task, pc[t] = "wait"
                 PROVE  waited[t] <= limit[t] + LongestSleep + LateBound
        BY DEF LockReturnsInTime, LongestSleep
    <2>1. /\ timer[t] \in Int /\ waited[t] \in Nat /\ limit[t] \in Nat
          /\ LongestSleep \in Nat /\ LateBound \in Nat
        BY HostOfAssumption, SettingsFit DEF TimerInv, TimedShape
    <2> QED
        BY <2>1 DEF TimerInv, Sleeping
<1> QED
    BY <1>1, TimerInvariance, PTL

-----------------------------------------------------------------------------
(* Turns.  While t waits the flag of its host is raised, so sessions of    *)
(* the other host that begin meanwhile sleep a grant before they enter.    *)
Rivals(t) == {u \in Task : HostOf[u] # HostOf[t]}

Raised(t) == pc[t] \in {"clear_arb", "wait"} => local[HostOf[t]] = TRUE

Bounded(t) == pc[t] = "bus" => timer[t] \in 0..HoldBound

LongestGrant  == Largest(policy.grants)
ShortestGrant == Smallest(policy.grants)
LongestRetry  == Largest(policy.retries)

\* When the n-th session may have overtaken a waiting task: but for the first,
\* each costs a grant.
Due(n) == (n - 1) * ShortestGrant

\* t is in its first sleep.
FirstSleep(t) ==
    /\ waited[t] + timer[t] <= LongestGrant
    /\ overtaken[t] = 0 \/
          /\ Due(overtaken[t]) <= waited[t]
          /\ \A u \in Rivals(t) :
                /\ pc[u] = "read_arb" => peer[u] = TRUE
                /\ pc[u] = "wait" => Due(overtaken[t] + 1) <= waited[t] + timer[u]

\* When a session that was on the bus at the end of the first sleep has left.
Vacated == LongestGrant + LateBound + HoldBound

\* t found the semaphore taken at the end of its first sleep.  Whoever waits
\* now wakes after t; t polls at once when the bus is vacated, or once more if
\* it met a session handing the semaphore over.
Retrying(t) ==
    /\ timer[t] <= LongestRetry
    /\ Due(overtaken[t]) <= LongestGrant + LateBound
    /\ \A u \in Rivals(t) :
          /\ pc[u] = "read_arb" => peer[u] = TRUE
          /\ pc[u] = "wait" => timer[u] > timer[t] + LateBound
          /\ pc[u] = "bus" => waited[t] + timer[u] <= Vacated
          /\ pc[u] = "release_arb" => waited[t] <= Vacated
    /\ \/ waited[t] + timer[t] <= Vacated + LongestRetry
       \/ /\ waited[t] + timer[t] <= Vacated + 2 * LongestRetry + LateBound
          /\ \E u \in Rivals(t) :
                pc[u] = "wait" \/ (pc[u] \in {"write_local", "clear_arb"} /\ timer[t] > 0)

TurnInv ==
    /\ \A t \in Task : Raised(t) /\ Bounded(t)
    /\ GrantExceedsRetry =>
          \A t \in Task : pc[t] = "wait" => FirstSleep(t) \/ Retrying(t)

\* What can be said of the session of the other host while t waits.
LEMMA RivalAlone ==
    ASSUME TypeOK, LockHeld, NEW t \in Task,
           NEW u \in Rivals(t), NEW s \in Rivals(t), pc[u] \in Locked, pc[s] \in Locked
    PROVE  u = s
<1>1. HostOf[u] = HostOf[s]
    BY HostOfAssumption DEF Rivals
<1> QED
    BY <1>1, OneSessionPerHost DEF Rivals

\* While t waits a semaphore that is taken is a rival's who is not waiting.
LEMMA TakenByRival ==
    ASSUME FInv, FaultFree, NEW t \in Task, pc[t] = "wait", sem # Free
    PROVE  \E u \in Rivals(t) : Owns(u)
<1>1. PICK u \in Task : HostOf[u] = sem /\ Owns(u)
    BY DEF FInv, Held
<1>2. HostOf[u] # HostOf[t]
    <2>1. pc[u] \in Locked /\ pc[t] \in Locked /\ u # t
        BY <1>1, OwnerIsLocked DEF Owns, Locked, PC
    <2> QED
        BY <2>1, OneSessionPerHost DEF FInv
<1> QED
    BY <1>1, <1>2 DEF Rivals

LEMMA NothingFails ==
    ASSUME TypeOK, FaultBudget = 0
    PROVE  ~Fail /\ faults = 0
BY DEF TypeOK, Fail

\* The flag of a host is up while its session waits.
LEMMA RaisedStep ==
    ASSUME TypeOK, LockHeld, ~Fail, NEW s \in Task, Step(s), \A t \in Task : Raised(t)
    PROVE  \A t \in Task : Raised(t)'
<1> SUFFICES ASSUME NEW t \in Task PROVE Raised(t)'
    OBVIOUS
<1>0. HostOf[s] \in Host /\ HostOf[t] \in Host
    BY HostOfAssumption
<1>1. CASE WriteLocal(s)
    <2>1. local' = [local EXCEPT ![HostOf[s]] = TRUE]
        BY <1>1 DEF WriteLocal, write_local
    <2>2. CASE t = s
        BY <1>0, <2>1, <2>2 DEF Raised, TypeOK
    <2>3. CASE t # s
        BY <1>0, <2>1, <2>3, OthersStay DEF Raised, TypeOK
    <2> QED
        BY <2>2, <2>3
<1>2. CASE ClearLocal(s)
    <2>1. local' = [local EXCEPT ![HostOf[s]] = FALSE] /\ pc[s] = "bus" /\ pc'[s] = "release_arb"
        BY <1>2 DEF ClearLocal, write_local, Goto, TypeOK
    <2>2. CASE t = s
        BY <2>1, <2>2 DEF Raised
    <2>3. CASE t # s
        <3>1. pc'[t] \in {"clear_arb", "wait"} => HostOf[t] # HostOf[s]
            BY <2>1, <2>3, OthersStay, OneSessionPerHost DEF Locked, PC
        <3> QED
            BY <1>0, <2>1, <2>3, <3>1, OthersStay DEF Raised, TypeOK
    <2> QED
        BY <2>2, <2>3
<1>3. CASE ~WriteLocal(s) /\ ~ClearLocal(s)
    <2>1. local' = local
        BY <1>3 DEF Step, Lock, LockBus, TrylockBus, TakeMutex, ReadPeer, ReadArb, ClearArb, Poll,
                    Expire, ReleaseArb, Unlock, regVars
    <2>2. pc'[s] \in {"clear_arb", "wait"} => pc[s] \in {"clear_arb", "wait"}
        BY <1>3 DEF Step, Lock, LockBus, TrylockBus, TakeMutex, ReadPeer, ReadArb, ClearArb, Poll,
                    Expire, ReleaseArb, Unlock, Goto, TypeOK
    <2> QED
        BY <2>1, <2>2, OthersStay DEF Raised
<1> QED
    BY <1>1, <1>2, <1>3

-----------------------------------------------------------------------------
LEMMA DueGrows ==
    ASSUME TimedShape, NEW t \in Task, NEW n \in Nat
    PROVE  /\ Due(n) \in Int /\ Due(n + 1) = Due(n) + ShortestGrant
           /\ Due(0) = -ShortestGrant /\ Due(1) = 0 /\ ShortestGrant \in Nat
<1>1. ShortestGrant \in Nat
    BY HostOfAssumption, SettingsFit DEF ShortestGrant
<1> QED
    BY <1>1 DEF Due

\* The bounds, and that no step changes them.
LEMMA Bounds ==
    ASSUME TimedShape, NEW t \in Task
    PROVE  /\ LongestGrant \in Nat /\ ShortestGrant \in Nat /\ LongestRetry \in Nat
           /\ LateBound \in Nat /\ HoldBound \in Nat
           /\ Vacated = LongestGrant + LateBound + HoldBound
           /\ 0 < grant[HostOf[t]] /\ grant[HostOf[t]] <= LongestGrant
           /\ ShortestGrant <= grant[HostOf[t]] /\ grant[HostOf[t]] \in Nat
           /\ 0 < retry[HostOf[t]] /\ retry[HostOf[t]] <= LongestRetry
           /\ retry[HostOf[t]] \in Nat
           /\ GrantExceedsRetry => ShortestGrant > LongestRetry + LateBound
<1>1. HostOf[t] \in Host
    BY HostOfAssumption
<1> QED
    BY <1>1, SettingsFit
       DEF LongestGrant, ShortestGrant, LongestRetry, Vacated, GrantExceedsRetry

LEMMA FirstSleepNext ==
    ASSUME policy' = policy, NEW t \in Task,
           waited'[t] + timer'[t] <= LongestGrant,
           overtaken'[t] = 0 \/
              /\ Due(overtaken'[t]) <= waited'[t]
              /\ \A u \in Rivals(t) :
                    /\ pc'[u] = "read_arb" => peer'[u] = TRUE
                    /\ pc'[u] = "wait" => Due(overtaken'[t] + 1) <= waited'[t] + timer'[u]
    PROVE  FirstSleep(t)'
<1>1. LongestGrant' = LongestGrant /\ ShortestGrant' = ShortestGrant
    BY DEF LongestGrant, ShortestGrant
<1> QED
    BY <1>1 DEF FirstSleep, Due, Rivals

LEMMA RetryingNext ==
    ASSUME policy' = policy, NEW t \in Task,
           timer'[t] <= LongestRetry,
           Due(overtaken'[t]) <= LongestGrant + LateBound,
           \A u \in Rivals(t) :
              /\ pc'[u] = "read_arb" => peer'[u] = TRUE
              /\ pc'[u] = "wait" => timer'[u] > timer'[t] + LateBound
              /\ pc'[u] = "bus" => waited'[t] + timer'[u] <= Vacated
              /\ pc'[u] = "release_arb" => waited'[t] <= Vacated,
           \/ waited'[t] + timer'[t] <= Vacated + LongestRetry
           \/ /\ waited'[t] + timer'[t] <= Vacated + 2 * LongestRetry + LateBound
              /\ \E u \in Rivals(t) :
                    pc'[u] = "wait" \/ (pc'[u] \in {"write_local", "clear_arb"} /\ timer'[t] > 0)
    PROVE  Retrying(t)'
<1>1. /\ LongestGrant' = LongestGrant /\ ShortestGrant' = ShortestGrant
      /\ LongestRetry' = LongestRetry /\ Vacated' = Vacated
    BY DEF LongestGrant, ShortestGrant, LongestRetry, Vacated
<1> QED
    BY <1>1 DEF Retrying, Due, Rivals

\* At the end of its sleep t finds the semaphore taken.
LEMMA PollFails ==
    ASSUME FInv, FaultFree, TimerInv, TurnInv, GrantExceedsRetry, policy' = policy,
           NEW t \in Task, pc[t] = "wait", sem # Free, Awake(t),
           pc' = pc, peer' = peer,
           timer' = [timer EXCEPT ![t] = retry[HostOf[t]]],
           UNCHANGED <<waited, overtaken>>
    PROVE  Retrying(t)'
<1>0. /\ TimedShape /\ TypeOK /\ LockHeld
      /\ timer[t] \in Int /\ waited[t] \in Nat /\ overtaken[t] \in Nat
      /\ timer[t] <= 0 /\ timer[t] >= -LateBound
    BY DEF TimerInv, TimedShape, FInv, Awake, Sleeping
<1>1. /\ LongestGrant \in Nat /\ ShortestGrant \in Nat /\ LongestRetry \in Nat
      /\ LateBound \in Nat /\ HoldBound \in Nat
      /\ Vacated = LongestGrant + LateBound + HoldBound
      /\ 0 < retry[HostOf[t]] /\ retry[HostOf[t]] <= LongestRetry
      /\ retry[HostOf[t]] \in Nat
    BY <1>0, Bounds
<1>2. timer'[t] = retry[HostOf[t]] /\ waited'[t] = waited[t] /\ overtaken'[t] = overtaken[t]
    BY <1>0 DEF TimedShape
<1>3. PICK u \in Rivals(t) : Owns(u)
    BY TakenByRival
<1>4. pc[u] \in Locked /\ pc[u] # "wait" /\ pc[u] # "read_arb" /\ u \in Task /\ u # t
    BY <1>3, OwnerIsLocked DEF Owns, Rivals
<1>5. ASSUME NEW s \in Rivals(t), s # u
      PROVE  pc[s] \notin Locked
    BY <1>0, <1>3, <1>4, <1>5, RivalAlone
<1>6. /\ timer'[u] = timer[u] /\ timer[u] \in Int
      /\ pc[u] = "bus" => timer[u] >= 0 /\ timer[u] <= HoldBound
    BY <1>0, <1>1, <1>4 DEF TimedShape, TurnInv, Bounded
<1>7. Due(overtaken[t]) \in Int /\ Due(0) = -ShortestGrant
    BY <1>0, DueGrows
<1>8. CASE FirstSleep(t)
    <2>1. waited[t] <= LongestGrant + LateBound
        BY <1>0, <1>1, <1>8 DEF FirstSleep
    <2>2. Due(overtaken[t]) <= LongestGrant + LateBound
        BY <1>0, <1>1, <1>7, <1>8, <2>1 DEF FirstSleep
    <2>3. ASSUME NEW s \in Rivals(t)
          PROVE  /\ pc'[s] # "read_arb" /\ pc'[s] # "wait"
                 /\ pc'[s] = "bus" => waited'[t] + timer'[s] <= Vacated
                 /\ pc'[s] = "release_arb" => waited'[t] <= Vacated
        <3>1. CASE s = u
            BY <1>1, <1>0, <1>2, <1>4, <1>6, <2>1, <3>1
        <3>2. CASE s # u
            BY <1>5, <3>2 DEF Locked, PC
        <3> QED
            BY <3>1, <3>2
    <2>4. waited'[t] + timer'[t] <= Vacated + LongestRetry
        BY <1>0, <1>1, <1>2, <2>1
    <2> QED
        BY <1>1, <1>2, <2>2, <2>3, <2>4, RetryingNext
<1>9. CASE Retrying(t)
    <2>1. waited[t] + timer[t] <= Vacated + LongestRetry
        <3>1. ASSUME NEW s \in Rivals(t) PROVE pc[s] # "wait"
            BY <1>4, <1>5 DEF Locked, PC
        <3> QED
            BY <1>0, <1>9, <3>1 DEF Retrying
    <2>2. waited[t] <= Vacated + LongestRetry + LateBound
        BY <1>0, <1>1, <2>1
    <2>3. pc[u] \in {"bus", "release_arb"} => waited[t] <= Vacated
        BY <1>0, <1>1, <1>3, <1>6, <1>9 DEF Retrying
    <2>4. ASSUME NEW s \in Rivals(t)
          PROVE  /\ pc'[s] # "read_arb" /\ pc'[s] # "wait"
                 /\ pc'[s] = "bus" => waited'[t] + timer'[s] <= Vacated
                 /\ pc'[s] = "release_arb" => waited'[t] <= Vacated
        <3>1. CASE s = u
            BY <1>2, <1>3, <1>4, <1>6, <1>9, <3>1 DEF Retrying
        <3>2. CASE s # u
            BY <1>5, <3>2 DEF Locked, PC
        <3> QED
            BY <3>1, <3>2
    <2>5. pc[u] \in {"bus", "release_arb", "write_local", "clear_arb"}
        BY <1>3 DEF Owns
    <2>6. \/ waited'[t] + timer'[t] <= Vacated + LongestRetry
          \/ /\ waited'[t] + timer'[t] <= Vacated + 2 * LongestRetry + LateBound
             /\ pc'[u] \in {"write_local", "clear_arb"} /\ timer'[t] > 0
        <3>1. CASE pc[u] \in {"bus", "release_arb"}
            BY <1>0, <1>1, <1>2, <2>3, <3>1
        <3>2. CASE pc[u] \in {"write_local", "clear_arb"}
            BY <1>0, <1>1, <1>2, <2>2, <3>2
        <3> QED
            BY <2>5, <3>1, <3>2
    <2>7. Due(overtaken'[t]) <= LongestGrant + LateBound
        BY <1>2, <1>9 DEF Retrying
    <2> QED
        BY <1>1, <1>2, <1>3, <2>4, <2>6, <2>7, RetryingNext
<1> QED
    BY <1>8, <1>9 DEF TurnInv

\* While t sleeps, its rivals move without entering the bus.
LEMMA TurnKept ==
    ASSUME TimerInv, TurnInv, GrantExceedsRetry, policy' = policy,
           NEW t \in Task, pc[t] = "wait",
           timer'[t] = timer[t], waited'[t] = waited[t], overtaken'[t] = overtaken[t],
           \A u \in Rivals(t) :
              /\ pc'[u] = "read_arb" => peer'[u] = TRUE \/ (pc[u] = "read_arb" /\ peer'[u] = peer[u])
              /\ pc'[u] = "wait" => (pc[u] = "wait" /\ timer'[u] = timer[u])
                                    \/ (timer'[u] \in Nat /\ timer'[u] >= ShortestGrant)
              /\ pc'[u] = "bus" => pc[u] = "bus" /\ timer'[u] = timer[u]
              /\ pc'[u] = "release_arb" => pc[u] \in {"bus", "release_arb"}
              /\ pc[u] = "wait" => pc'[u] = "wait"
              /\ pc[u] \in {"write_local", "clear_arb"} =>
                    pc'[u] \in {"write_local", "clear_arb", "wait"}
    PROVE  FirstSleep(t)' \/ Retrying(t)'
<1>0. /\ TimedShape
      /\ timer[t] \in Int /\ waited[t] \in Nat /\ overtaken[t] \in Nat
      /\ \A u \in Rivals(t) : timer[u] \in Int /\ Bounded(u)
    BY DEF TimerInv, TimedShape, TurnInv, Rivals
<1>1. /\ LongestGrant \in Nat /\ ShortestGrant \in Nat /\ LongestRetry \in Nat
      /\ LateBound \in Nat /\ HoldBound \in Nat
      /\ Vacated = LongestGrant + LateBound + HoldBound
      /\ ShortestGrant > LongestRetry + LateBound
    BY <1>0, Bounds
<1>2. CASE FirstSleep(t)
    <2>1. waited'[t] + timer'[t] <= LongestGrant
        BY <1>2 DEF FirstSleep
    <2>2. CASE overtaken[t] = 0
        BY <2>1, <2>2, FirstSleepNext
    <2>3. CASE overtaken[t] # 0
        <3>1. Due(overtaken'[t]) <= waited'[t]
            BY <1>2, <2>3 DEF FirstSleep
        <3>2. /\ Due(overtaken[t]) \in Int
              /\ Due(overtaken[t] + 1) = Due(overtaken[t]) + ShortestGrant
            BY <1>0, DueGrows
        <3>3. ASSUME NEW u \in Rivals(t)
              PROVE  /\ pc'[u] = "read_arb" => peer'[u] = TRUE
                     /\ pc'[u] = "wait" => Due(overtaken'[t] + 1) <= waited'[t] + timer'[u]
            <4>1. pc'[u] = "read_arb" => peer'[u] = TRUE
                BY <1>2, <2>3 DEF FirstSleep
            <4>2. CASE pc[u] = "wait" /\ timer'[u] = timer[u]
                BY <1>2, <2>3, <4>1, <4>2 DEF FirstSleep
            <4>3. CASE timer'[u] \in Nat /\ timer'[u] >= ShortestGrant
                BY <1>0, <1>1, <3>1, <3>2, <4>1, <4>3
            <4> QED
                BY <4>1, <4>2, <4>3
        <3> QED
            BY <2>1, <3>1, <3>3, FirstSleepNext
    <2> QED
        BY <2>2, <2>3
<1>3. CASE Retrying(t)
    <2>1. timer'[t] <= LongestRetry /\ Due(overtaken'[t]) <= LongestGrant + LateBound
        BY <1>3 DEF Retrying
    <2>2. ASSUME NEW u \in Rivals(t)
          PROVE  /\ pc'[u] = "read_arb" => peer'[u] = TRUE
                 /\ pc'[u] = "wait" => timer'[u] > timer'[t] + LateBound
                 /\ pc'[u] = "bus" => waited'[t] + timer'[u] <= Vacated
                 /\ pc'[u] = "release_arb" => waited'[t] <= Vacated
        <3>1. pc'[u] = "read_arb" => peer'[u] = TRUE
            BY <1>3 DEF Retrying
        <3>2. pc'[u] = "wait" => timer'[u] > timer'[t] + LateBound
            <4>1. CASE pc[u] = "wait" /\ timer'[u] = timer[u]
                BY <1>3, <4>1 DEF Retrying
            <4>2. CASE timer'[u] \in Nat /\ timer'[u] >= ShortestGrant
                BY <1>0, <1>1, <2>1, <4>2
            <4> QED
                BY <4>1, <4>2
        <3>3. pc'[u] = "bus" => waited'[t] + timer'[u] <= Vacated
            BY <1>3 DEF Retrying
        <3>4. pc'[u] = "release_arb" => waited'[t] <= Vacated
            <4>1. pc[u] = "bus" => timer[u] >= 0 /\ waited[t] + timer[u] <= Vacated
                BY <1>0, <1>1, <1>3 DEF Retrying, Bounded
            <4> QED
                BY <1>0, <1>1, <1>3, <4>1 DEF Retrying
        <3> QED
            BY <3>1, <3>2, <3>3, <3>4
    <2>3. CASE waited[t] + timer[t] <= Vacated + LongestRetry
        BY <2>1, <2>2, <2>3, RetryingNext
    <2>4. CASE /\ waited[t] + timer[t] <= Vacated + 2 * LongestRetry + LateBound
               /\ \E u \in Rivals(t) :
                     pc[u] = "wait" \/ (pc[u] \in {"write_local", "clear_arb"} /\ timer[t] > 0)
        <3>1. \E u \in Rivals(t) :
                  pc'[u] = "wait" \/ (pc'[u] \in {"write_local", "clear_arb"} /\ timer'[t] > 0)
            BY <2>4
        <3> QED
            BY <2>1, <2>2, <2>4, <3>1, RetryingNext
    <2> QED
        BY <1>3, <2>3, <2>4 DEF Retrying
<1> QED
    BY <1>2, <1>3 DEF TurnInv

\* A rival enters the bus while t is in its first sleep, and cannot later.
LEMMA RivalEnters ==
    ASSUME TimerInv, TurnInv, GrantExceedsRetry, policy' = policy,
           TypeOK', LockHeld',
           NEW t \in Task, pc[t] = "wait", pc'[t] = "wait", NEW s \in Rivals(t),
           EnterBus(s), pc'[s] = "bus",
           \/ pc[s] = "read_arb" /\ peer[s] # TRUE
           \/ pc[s] = "wait" /\ Awake(s)
    PROVE  FirstSleep(t)'
<1>0. /\ TimedShape
      /\ timer[t] \in Int /\ waited[t] \in Nat /\ overtaken[t] \in Nat
      /\ s \in Task /\ s # t /\ timer[s] \in Int /\ HostOf[t] # HostOf[s]
    BY DEF TimerInv, TimedShape, Rivals
<1>1. /\ LongestGrant \in Nat /\ ShortestGrant \in Nat /\ LateBound \in Nat
    BY <1>0, Bounds
<1>2. timer'[t] = timer[t] /\ waited'[t] = waited[t] /\ overtaken'[t] = overtaken[t] + 1
    BY <1>0, EnterBusIs
<1>3. FirstSleep(t)
    <2>1. ~Retrying(t)
        <3>1. timer[t] >= -LateBound
            BY DEF TimerInv, Sleeping
        <3>2. pc[s] = "wait" /\ timer[s] > timer[t] + LateBound => ~Awake(s)
            BY <1>0, <1>1, <3>1 DEF Awake
        <3> QED
            BY <3>2 DEF Retrying
    <2> QED
        BY <2>1 DEF TurnInv
<1>4. Due(overtaken[t] + 1) <= waited[t]
    <2>1. CASE overtaken[t] = 0
        <3>1. Due(1) = 0
            BY <1>0, DueGrows
        <3>2. Due(overtaken[t] + 1) = 0
            BY <2>1, <3>1
        <3> QED
            BY <1>0, <3>2
    <2>2. CASE overtaken[t] # 0
        <3>1. pc[s] = "wait" /\ Awake(s)
            BY <1>3, <2>2 DEF FirstSleep
        <3>2. Due(overtaken[t] + 1) <= waited[t] + timer[s]
            BY <1>3, <2>2, <3>1 DEF FirstSleep
        <3>3. Due(overtaken[t] + 1) \in Int
            <4>1. overtaken[t] + 1 \in Nat
                BY <1>0
            <4> QED
                BY <1>0, <4>1, DueGrows
        <3> QED
            BY <1>0, <3>1, <3>2, <3>3 DEF Awake
    <2> QED
        BY <2>1, <2>2
<1>5. \A u \in Rivals(t) : pc'[u] # "read_arb" /\ pc'[u] # "wait"
    <2> SUFFICES ASSUME NEW u \in Rivals(t), pc'[u] \in {"read_arb", "wait"} PROVE FALSE
        OBVIOUS
    <2>1. HostOf[u] = HostOf[s] /\ u \in Task
        BY HostOfAssumption DEF Rivals
    <2>2. bus_lock'[HostOf[u]] = u /\ bus_lock'[HostOf[s]] = s
        BY <1>0, <2>1 DEF LockHeld, Locked, PC
    <2> QED
        BY <2>1, <2>2
<1>6. waited'[t] + timer'[t] <= LongestGrant
    BY <1>2, <1>3 DEF FirstSleep
<1> QED
    BY <1>2, <1>4, <1>5, <1>6, FirstSleepNext

\* Where a step that does not fail takes its task from and to.
LEMMA WhereTo ==
    ASSUME TypeOK, ~Fail, NEW s \in Task, TimedStep(s)
    PROVE  /\ pc'[s] = "read_arb" => peer'[s] = local[Peer(HostOf[s])]
           /\ pc'[s] = "release_arb" => pc[s] = "bus"
           /\ pc[s] \in {"write_local", "clear_arb"} => pc'[s] \in {"clear_arb", "wait"}
           /\ pc'[s] = "bus" => \/ pc[s] = "read_arb" /\ peer[s] # TRUE
                                \/ pc[s] = "wait" /\ Awake(s)
           /\ pc[s] = "wait" /\ pc'[s] = "wait" => sem # Free /\ pc' = pc /\ peer' = peer
           /\ \A u \in Task \ {s} : peer'[u] = peer[u]
<1>1. \A u \in Task \ {s} : peer'[u] = peer[u]
    BY TimedTaskStep DEF Step, Lock, LockBus, TrylockBus, TakeMutex, ReadPeer, ReadArb, WriteLocal,
         ClearArb, Poll, Expire, ClearLocal, ReleaseArb, Unlock, TypeOK
<1>2. /\ pc'[s] = "read_arb" => peer'[s] = local[Peer(HostOf[s])]
      /\ pc'[s] = "release_arb" => pc[s] = "bus"
      /\ pc[s] \in {"write_local", "clear_arb"} => pc'[s] \in {"clear_arb", "wait"}
    <2>1. CASE ReadPeer(s)
        BY <2>1 DEF ReadPeer, Goto, TypeOK
    <2>2. CASE ~ReadPeer(s)
        BY <2>2, TimedTaskStep DEF Step, Lock, LockBus, TrylockBus, TakeMutex, ReadArb, WriteLocal,
            write_local, ClearArb, Poll, Expire, ClearLocal, ReleaseArb, Unlock, Goto, TypeOK
    <2> QED
        BY <2>1, <2>2
<1>3. pc'[s] = "bus" => \/ pc[s] = "read_arb" /\ peer[s] # TRUE
                        \/ pc[s] = "wait" /\ Awake(s)
    <2>1. CASE Instant(s) \/ TimedClearLocal(s) \/ StartWait(s)
        BY <2>1 DEF Instant, TimedClearLocal, StartWait, Lock, LockBus, TrylockBus, TakeMutex,
            ReadPeer, WriteLocal, write_local, ClearArb, ClearLocal, ReleaseArb, Unlock, Goto, TypeOK
    <2>2. CASE TimedReadArb(s)
        <3>1. PICK v \in ArbVal :
                  IF v = "zero" /\ ~peer[s] THEN Goto(s, "read_arb", "bus")
                                            ELSE Goto(s, "read_arb", "write_local")
            BY <2>2 DEF TimedReadArb, ReadArb
        <3> QED
            BY <3>1 DEF Goto, TypeOK
    <2>3. CASE TimedPoll(s) \/ TimedExpire(s)
        BY <2>3 DEF TimedPoll, TimedExpire, Poll, Expire, Goto
    <2> QED
        BY <2>1, <2>2, <2>3 DEF TimedStep
<1>4. pc[s] = "wait" /\ pc'[s] = "wait" => sem # Free /\ pc' = pc /\ peer' = peer
    <2> SUFFICES ASSUME pc[s] = "wait", pc'[s] = "wait"
                 PROVE  sem # Free /\ pc' = pc /\ peer' = peer
        OBVIOUS
    <2>1. Poll(s)
        BY DEF TimedStep, Instant, TimedClearLocal, TimedReadArb, StartWait, TimedPoll,
            TimedExpire, Lock, LockBus, TrylockBus, TakeMutex, ReadPeer, ReadArb, WriteLocal,
            ClearArb, Expire, ClearLocal, ReleaseArb, Unlock, Goto, TypeOK
    <2>2. PICK v \in ArbVal :
              /\ read_arb(HostOf[s], v)
              /\ IF v = "zero" THEN Goto(s, "wait", "bus") ELSE UNCHANGED <<pc, outcome>>
        BY <2>1 DEF Poll
    <2>3. v # "zero"
        BY <2>2 DEF Goto, TypeOK
    <2> QED
        BY <2>1, <2>2, <2>3 DEF Poll, read_arb
<1> QED
    BY <1>1, <1>2, <1>3, <1>4

\* A step of another task while t waits.
LEMMA OtherMoves ==
    ASSUME FInv, FInv', FaultFree, ~Fail, TimerInv, TurnInv, GrantExceedsRetry, policy' = policy,
           NEW t \in Task, pc[t] = "wait", NEW s \in Task, s # t, TimedStep(s)
    PROVE  FirstSleep(t)' \/ Retrying(t)'
<1>0. TypeOK /\ TypeOK' /\ LockHeld /\ LockHeld' /\ TimedShape /\ Step(s)
    BY TimedTaskStep DEF FInv, TimerInv
<1>1. \A u \in Task \ {s} : pc'[u] = pc[u] /\ peer'[u] = peer[u]
    BY <1>0, OthersStay, WhereTo
<1>2. pc'[t] = "wait"
    BY <1>1
<1>3. CASE s \notin Rivals(t)
    <2>1. pc'[s] \notin Locked /\ pc[s] \notin Locked
        <3>1. bus_lock[HostOf[t]] = t /\ bus_lock'[HostOf[t]] = t
            BY <1>0, <1>2 DEF LockHeld, Locked, PC
        <3>2. HostOf[s] = HostOf[t]
            BY <1>3 DEF Rivals
        <3> QED
            BY <1>0, <3>1, <3>2 DEF LockHeld
    <2>2. UNCHANGED clocks
        BY <1>0, <2>1, ClocksMove DEF Locked, PC
    <2>3. \A u \in Rivals(t) : u \in Task \ {s}
        BY <1>3 DEF Rivals
    <2> QED
        BY <1>1, <2>2, <2>3, TurnKept DEF clocks
<1>4. CASE s \in Rivals(t)
    <2>1. HostOf[t] = Peer(HostOf[s]) /\ s \in Task
        BY <1>4, HostOfAssumption DEF Rivals
    <2>2. local[HostOf[t]] = TRUE
        BY DEF TurnInv, Raised
    <2>3. pc'[s] = "read_arb" => peer'[s] = TRUE
        BY <1>0, <2>1, <2>2, WhereTo
    <2>4. ASSUME timer'[t] = timer[t], waited'[t] = waited[t], overtaken'[t] = overtaken[t],
                 \A u \in Rivals(t) \ {s} : timer'[u] = timer[u],
                 pc'[s] = "bus" => pc[s] = "bus" /\ timer'[s] = timer[s],
                 pc'[s] = "wait" => (pc[s] = "wait" /\ timer'[s] = timer[s])
                                    \/ (timer'[s] \in Nat /\ timer'[s] >= ShortestGrant),
                 pc[s] = "wait" => pc'[s] = "wait"
          PROVE  FirstSleep(t)' \/ Retrying(t)'
        <3>1. ASSUME NEW u \in Rivals(t)
              PROVE
              /\ pc'[u] = "read_arb" => peer'[u] = TRUE \/ (pc[u] = "read_arb" /\ peer'[u] = peer[u])
              /\ pc'[u] = "wait" => (pc[u] = "wait" /\ timer'[u] = timer[u])
                                    \/ (timer'[u] \in Nat /\ timer'[u] >= ShortestGrant)
              /\ pc'[u] = "bus" => pc[u] = "bus" /\ timer'[u] = timer[u]
              /\ pc'[u] = "release_arb" => pc[u] \in {"bus", "release_arb"}
              /\ pc[u] = "wait" => pc'[u] = "wait"
              /\ pc[u] \in {"write_local", "clear_arb"} =>
                    pc'[u] \in {"write_local", "clear_arb", "wait"}
            <4>1. CASE u = s
                BY <1>0, <2>3, <2>4, <4>1, WhereTo
            <4>2. CASE u # s
                BY <1>1, <2>4, <4>2 DEF Rivals
            <4> QED
                BY <4>1, <4>2
        <3> QED
            BY <2>4, <3>1, TurnKept
    <2>5. CASE UNCHANGED clocks /\ (pc'[s] = "wait" <=> pc[s] = "wait")
               /\ (pc'[s] = "bus" => pc[s] = "bus" \/ Fail)
        BY <2>4, <2>5 DEF clocks
    <2>6. CASE pc'[s] = "bus" /\ EnterBus(s)
        BY <1>0, <1>2, <1>4, <2>6, RivalEnters, WhereTo
    <2>7. CASE /\ pc[s] \in {"write_local", "clear_arb"} /\ pc'[s] = "wait"
               /\ timer' = [timer EXCEPT ![s] = grant[HostOf[s]]]
               /\ UNCHANGED <<waited, overtaken>>
        <3>1. grant[HostOf[s]] \in Nat /\ grant[HostOf[s]] >= ShortestGrant
            BY <1>0, Bounds
        <3>2. timer'[s] = grant[HostOf[s]] /\ \A u \in Task \ {s} : timer'[u] = timer[u]
            BY <1>0, <2>7 DEF TimedShape
        <3> QED
            BY <2>4, <2>7, <3>1, <3>2 DEF Rivals
    <2>8. CASE pc[s] = "wait" /\ pc'[s] = "wait"
        <3>1. sem # Free
            BY <1>0, <2>8, WhereTo
        <3>2. PICK u \in Rivals(t) : Owns(u)
            BY <3>1, TakenByRival
        <3>3. u = s
            BY <1>0, <1>4, <2>8, <3>2, OwnerIsLocked, RivalAlone DEF Locked, PC, Rivals
        <3> QED
            BY <2>8, <3>2, <3>3 DEF Owns
    <2>9. CASE /\ pc[s] = "bus" /\ pc'[s] = "release_arb"
               /\ timer' = [timer EXCEPT ![s] = 0]
               /\ UNCHANGED <<waited, overtaken>>
        <3>1. \A u \in Task \ {s} : timer'[u] = timer[u]
            BY <1>0, <2>9 DEF TimedShape
        <3> QED
            BY <2>4, <2>9, <3>1 DEF Rivals
    <2> QED
        BY <1>0, <2>5, <2>6, <2>7, <2>8, <2>9, ClocksMove
<1> QED
    BY <1>3, <1>4

\* A step of a task that waits after it.
LEMMA OwnMoves ==
    ASSUME FInv, FaultFree, ~Fail, TimerInv, TurnInv, GrantExceedsRetry, policy' = policy,
           NEW t \in Task, TimedStep(t), pc'[t] = "wait"
    PROVE  FirstSleep(t)' \/ Retrying(t)'
<1>0. TypeOK /\ TimedShape
    BY DEF FInv, TimerInv
<1>1. CASE pc[t] = "wait"
    <2>1. sem # Free /\ pc' = pc /\ peer' = peer
        BY <1>0, <1>1, WhereTo
    <2>2. CASE /\ Awake(t)
               /\ timer' = [timer EXCEPT ![t] = retry[HostOf[t]]]
               /\ UNCHANGED <<waited, overtaken>>
        BY <1>1, <2>1, <2>2, PollFails
    <2>3. TimedPoll(t)
        <3>1. Poll(t)
            BY <1>1 DEF TimedStep, Instant, TimedClearLocal, TimedReadArb, StartWait, TimedPoll,
                TimedExpire, Lock, LockBus, TrylockBus, TakeMutex, ReadPeer, ReadArb, WriteLocal,
                ClearArb, Expire, ClearLocal, ReleaseArb, Unlock, Goto, TypeOK, FInv
        <3>2. ~Instant(t) /\ ~TimedClearLocal(t) /\ ~TimedReadArb(t) /\ ~StartWait(t) /\ ~TimedExpire(t)
            BY <1>0, <1>1 DEF Instant, TimedClearLocal, TimedReadArb, StartWait,
                TimedExpire, Lock, LockBus, TrylockBus, TakeMutex, ReadPeer, ReadArb, WriteLocal,
                ClearArb, Expire, ClearLocal, ReleaseArb, Unlock, Goto, TypeOK
        <3> QED
            BY <3>2 DEF TimedStep
    <2> QED
        BY <1>1, <2>2, <2>3 DEF TimedPoll
<1>2. CASE pc[t] # "wait"
    <2>1. /\ timer' = [timer EXCEPT ![t] = grant[HostOf[t]]]
          /\ UNCHANGED <<waited, overtaken>>
        BY <1>0, <1>2, ClocksMove
    <2>2. timer'[t] = grant[HostOf[t]] /\ waited'[t] = 0 /\ overtaken'[t] = 0
        BY <1>0, <1>2, <2>1 DEF TimedShape, TimerInv, Rested
    <2>3. grant[HostOf[t]] \in Nat /\ grant[HostOf[t]] <= LongestGrant
        BY <1>0, Bounds
    <2>4. waited'[t] + timer'[t] <= LongestGrant
        BY <2>2, <2>3
    <2> QED
        BY <2>2, <2>4, FirstSleepNext
<1> QED
    BY <1>1, <1>2

\* Time passes for t and for whoever waits or uses the bus, and nobody is in
\* between.
LEMMA TurnTick ==
    ASSUME TimerInv, TurnInv, GrantExceedsRetry, Tick, NEW t \in Task, pc[t] = "wait"
    PROVE  FirstSleep(t)' \/ Retrying(t)'
<1>0. /\ TimedShape /\ pc' = pc /\ peer' = peer /\ overtaken' = overtaken /\ policy' = policy
      /\ overtaken[t] \in Nat /\ waited[t] \in Nat /\ timer[t] \in Int
      /\ timer'[t] = timer[t] - 1 /\ waited'[t] = waited[t] + 1
    BY DEF TimerInv, Tick, vars, taskVars, settings, TimedShape
<1>1. ASSUME NEW u \in Rivals(t)
      PROVE  /\ timer[u] \in Int
             /\ pc[u] \in {"wait", "bus"} => timer'[u] = timer[u] - 1
             /\ pc[u] \notin {"read_arb", "write_local", "clear_arb", "release_arb"}
    BY <1>0 DEF Tick, Patient, TimedShape, Rivals
<1>2. /\ LongestGrant \in Nat /\ ShortestGrant \in Nat /\ LongestRetry \in Nat
      /\ LateBound \in Nat /\ Vacated \in Nat
    BY <1>0, Bounds
<1>3. CASE FirstSleep(t)
    <2>1. waited'[t] + timer'[t] <= LongestGrant
        BY <1>0, <1>2, <1>3 DEF FirstSleep
    <2>2. CASE overtaken[t] = 0
        BY <1>0, <2>1, <2>2, FirstSleepNext
    <2>3. CASE overtaken[t] # 0
        <3>1. Due(overtaken[t]) \in Int /\ Due(overtaken[t] + 1) \in Int
            <4>1. overtaken[t] + 1 \in Nat
                BY <1>0
            <4> QED
                BY <1>0, <4>1, DueGrows
        <3>2. Due(overtaken'[t]) <= waited'[t]
            BY <1>0, <1>3, <2>3, <3>1 DEF FirstSleep
        <3>3. ASSUME NEW u \in Rivals(t)
              PROVE  /\ pc'[u] = "read_arb" => peer'[u] = TRUE
                     /\ pc'[u] = "wait" => Due(overtaken'[t] + 1) <= waited'[t] + timer'[u]
            BY <1>0, <1>1, <1>3, <2>3, <3>1 DEF FirstSleep
        <3> QED
            BY <1>0, <2>1, <3>2, <3>3, FirstSleepNext
    <2> QED
        BY <2>2, <2>3
<1>4. CASE Retrying(t)
    <2>1. timer'[t] <= LongestRetry /\ Due(overtaken'[t]) <= LongestGrant + LateBound
        BY <1>0, <1>2, <1>4 DEF Retrying
    <2>2. ASSUME NEW u \in Rivals(t)
          PROVE  /\ pc'[u] = "read_arb" => peer'[u] = TRUE
                 /\ pc'[u] = "wait" => timer'[u] > timer'[t] + LateBound
                 /\ pc'[u] = "bus" => waited'[t] + timer'[u] <= Vacated
                 /\ pc'[u] = "release_arb" => waited'[t] <= Vacated
        BY <1>0, <1>1, <1>2, <1>4 DEF Retrying
    <2>3. waited'[t] + timer'[t] = waited[t] + timer[t]
        BY <1>0
    <2>4. \A u \in Rivals(t) : ~(pc[u] \in {"write_local", "clear_arb"} /\ timer[t] > 0)
        BY <1>1
    <2>5. \/ waited'[t] + timer'[t] <= Vacated + LongestRetry
          \/ /\ waited'[t] + timer'[t] <= Vacated + 2 * LongestRetry + LateBound
             /\ \E u \in Rivals(t) :
                   pc'[u] = "wait" \/ (pc'[u] \in {"write_local", "clear_arb"} /\ timer'[t] > 0)
        BY <1>0, <1>4, <2>3, <2>4 DEF Retrying
    <2> QED
        BY <1>0, <2>1, <2>2, <2>5, RetryingNext
<1> QED
    BY <1>3, <1>4 DEF TurnInv

-----------------------------------------------------------------------------
\* TimedSpec has no restarts.
NoRestart == crashes = 0

LEMMA TurnInit == TimedInit => TurnInv /\ NoRestart
<1> SUFFICES ASSUME TimedInit PROVE TurnInv /\ NoRestart
    OBVIOUS
<1>1. \A t \in Task : pc[t] = "idle"
    BY DEF TimedInit, Init
<1> QED
    BY <1>1 DEF TimedInit, Init, TurnInv, Raised, Bounded, NoRestart

LEMMA BoundedStep ==
    ASSUME FInv, ~Fail, TimerInv, TurnInv, [TimedNext]_timedVars, NEW t \in Task
    PROVE  Bounded(t)'
<1>0. /\ TypeOK /\ TimedShape /\ HoldBound \in Nat /\ timer[t] \in Int /\ Bounded(t)
    BY SettingsAssumption DEF FInv, TimerInv, TimedShape, TurnInv
<1>1. ASSUME NEW s \in Task, TimedStep(s) PROVE Bounded(t)'
    <2>1. CASE s = t
        BY <1>0, <1>1, <2>1, ClocksMove, EnterBusIs DEF clocks, Bounded
    <2>2. CASE s # t
        <3>1. pc'[t] = pc[t]
            BY <1>0, <1>1, <2>2, OthersStay, TimedTaskStep
        <3>2. timer'[t] = timer[t]
            BY <1>0, <1>1, <2>2, ClocksMove, EnterBusIs DEF clocks, TimedShape
        <3> QED
            BY <1>0, <3>1, <3>2 DEF Bounded
    <2> QED
        BY <2>1, <2>2
<1>2. CASE Tick
    <2>1. pc' = pc /\ (pc[t] = "bus" => timer[t] > 0 /\ timer'[t] = timer[t] - 1)
        BY <1>2 DEF Tick, Patient, vars, taskVars
    <2> QED
        BY <1>0, <2>1 DEF Bounded
<1>3. (\E h \in Host : Store(h)) \/ UNCHANGED timedVars => pc' = pc /\ timer' = timer
    BY DEF Store, timedVars, vars, taskVars, clocks
<1> QED
    BY <1>0, <1>1, <1>2, <1>3, TimedCases DEF Bounded

LEMMA TurnStep ==
    ASSUME FaultBudget = 0, FInv, FInv', TimerInv, TurnInv, NoRestart, [TimedNext]_timedVars
    PROVE  TurnInv' /\ NoRestart'
<1>0. /\ TypeOK /\ LockHeld /\ ~Fail /\ FaultFree /\ TimedShape /\ policy' = policy
    BY NothingFails, PolicyStays DEF FInv, FaultFree, NoRestart, TimerInv
<1>1. GrantExceedsRetry' = GrantExceedsRetry
    BY <1>0 DEF GrantExceedsRetry
<1>2. NoRestart'
    <2>1. ASSUME NEW s \in Task, TimedStep(s) PROVE crashes' = crashes
        BY <2>1, TimedTaskStep DEF Step, Lock, LockBus, TrylockBus, TakeMutex, ReadPeer, ReadArb,
            WriteLocal, ClearArb, Poll, Expire, ClearLocal, ReleaseArb, Unlock
    <2> QED
        BY <2>1, TimedCases DEF Store, Tick, timedVars, vars, NoRestart
<1>3. \A t \in Task : Bounded(t)'
    BY <1>0, BoundedStep
<1>4. \A t \in Task : Raised(t)'
    <2>1. ASSUME NEW s \in Task, TimedStep(s) PROVE \A t \in Task : Raised(t)'
        BY <1>0, <2>1, RaisedStep, TimedTaskStep DEF TurnInv
    <2>2. CASE UNCHANGED vars
        BY <2>2 DEF vars, taskVars, regVars, TurnInv, Raised
    <2> QED
        BY <2>1, <2>2, TimedCases DEF Store, Tick, timedVars
<1>5. ASSUME GrantExceedsRetry, NEW t \in Task, pc'[t] = "wait"
      PROVE  FirstSleep(t)' \/ Retrying(t)'
    <2>1. ASSUME NEW s \in Task, TimedStep(s) PROVE FirstSleep(t)' \/ Retrying(t)'
        <3>1. CASE s = t
            BY <1>0, <1>5, <2>1, <3>1, OwnMoves
        <3>2. CASE s # t
            <4>1. pc[t] = "wait"
                BY <1>0, <1>5, <2>1, <3>2, OthersStay, TimedTaskStep
            <4> QED
                BY <1>0, <1>5, <2>1, <3>2, <4>1, OtherMoves
        <3> QED
            BY <3>1, <3>2
    <2>2. CASE Tick
        <3>1. pc[t] = "wait"
            BY <1>5, <2>2 DEF Tick, vars, taskVars
        <3> QED
            BY <1>5, <2>2, <3>1, TurnTick
    <2>3. CASE (\E h \in Host : Store(h)) \/ UNCHANGED timedVars
        <3>1. pc' = pc /\ peer' = peer /\ UNCHANGED clocks
            BY <2>3 DEF Store, timedVars, vars, taskVars
        <3> QED
            BY <1>0, <1>5, <3>1, TurnKept DEF clocks
    <2> QED
        BY <2>1, <2>2, <2>3, TimedCases
<1> QED
    BY <1>1, <1>2, <1>3, <1>4, <1>5 DEF TurnInv

LEMMA TurnInvariance ==
    ASSUME FaultBudget = 0
    PROVE  TimedSpec => [](FInv /\ TimerInv /\ TurnInv)
<1>1. TimedInit => TurnInv /\ NoRestart
    BY TurnInit
<1>2. FInv /\ FInv' /\ TimerInv /\ TurnInv /\ NoRestart /\ [TimedNext]_timedVars
          => TurnInv' /\ NoRestart'
    BY TurnStep
<1>3. TimedSpec => []FInv
    BY Untimed, FaultFreeInvariance, PTL
<1> QED
    BY <1>1, <1>2, <1>3, TimerInvariance, PTL DEF TimedSpec

\* If no access fails and grants exceed retries, the sessions that overtake a
\* waiting host start within its first sleep, a grant apart.
THEOREM OvertakingBounded ==
    ASSUME FaultBudget = 0
    PROVE  TimedSpec => []BoundedOvertaking
<1>1. TimerInv /\ TurnInv => BoundedOvertaking
    <2> SUFFICES ASSUME TimerInv, TurnInv, GrantExceedsRetry, NEW t \in Task, pc[t] = "wait"
                 PROVE  Due(overtaken[t]) <= LongestGrant + LateBound
        BY DEF BoundedOvertaking, Due, LongestGrant, ShortestGrant
    <2>1. /\ TimedShape /\ timer[t] \in Int /\ waited[t] \in Nat /\ overtaken[t] \in Nat
          /\ timer[t] >= -LateBound
        BY DEF TimerInv, TimedShape, Sleeping
    <2>2. /\ LongestGrant \in Nat /\ ShortestGrant \in Nat /\ LateBound \in Nat
          /\ Due(overtaken[t]) \in Int /\ Due(0) = -ShortestGrant
        BY <2>1, Bounds, DueGrows
    <2>3. CASE FirstSleep(t)
        <3>1. CASE overtaken[t] = 0
            <4>1. Due(overtaken[t]) = -ShortestGrant
                BY <2>2, <3>1
            <4> QED
                BY <2>2, <4>1
        <3>2. CASE overtaken[t] # 0
            BY <2>1, <2>2, <2>3, <3>2 DEF FirstSleep
        <3> QED
            BY <3>1, <3>2
    <2> QED
        BY <2>3 DEF TurnInv, Retrying
<1> QED
    BY <1>1, TurnInvariance, PTL

LEMMA WaitFits ==
    ASSUME TimerInv, TurnInv
    PROVE  WaitBounded
<1> SUFFICES ASSUME GrantExceedsRetry, NEW t \in Task, pc[t] = "wait"
             PROVE  waited[t] <= WaitBound
    BY DEF WaitBounded
<1>1. /\ TimedShape /\ timer[t] \in Int /\ waited[t] \in Nat /\ timer[t] >= -LateBound
    BY DEF TimerInv, TimedShape, Sleeping
<1>2. /\ LongestGrant \in Nat /\ LongestRetry \in Nat /\ LateBound \in Nat /\ HoldBound \in Nat
      /\ Vacated = LongestGrant + LateBound + HoldBound
    BY <1>1, Bounds
<1>3. WaitBound = LongestGrant + LateBound + HoldBound + 2 * (LongestRetry + LateBound)
    BY DEF WaitBound, LongestGrant, LongestRetry
<1>4. waited[t] + timer[t] <= Vacated + 2 * LongestRetry + LateBound
    BY <1>1, <1>2 DEF TurnInv, FirstSleep, Retrying
<1> QED
    BY <1>1, <1>2, <1>3, <1>4

\* ... and it waits no longer than WaitBound.
THEOREM WaitsBounded ==
    ASSUME FaultBudget = 0
    PROVE  TimedSpec => []WaitBounded
<1>1. TimerInv /\ TurnInv => WaitBounded
    BY WaitFits
<1> QED
    BY <1>1, TurnInvariance, PTL

-----------------------------------------------------------------------------
(* With timeouts of at least WaitBound nothing taints the segment.         *)
SizedInv == GrantExceedsRetry /\ Smallest(policy.timeouts) >= WaitBound => ~tainted

LEMMA SizedStep ==
    ASSUME FaultBudget = 0, FInv, TimerInv, TurnInv, SizedInv, [TimedNext]_timedVars
    PROVE  SizedInv'
<1>0. TypeOK /\ TimedShape /\ ~Fail /\ policy' = policy
    BY NothingFails, PolicyStays DEF FInv, TimerInv
<1>1. GrantExceedsRetry' = GrantExceedsRetry /\ WaitBound' = WaitBound
    BY <1>0 DEF GrantExceedsRetry, WaitBound
<1> SUFFICES ASSUME GrantExceedsRetry, Smallest(policy.timeouts) >= WaitBound, ~tainted
             PROVE  ~tainted'
    BY <1>0, <1>1 DEF SizedInv
<1>2. ASSUME NEW s \in Task, TimedStep(s) PROVE ~tainted'
    <2>1. ~TimedExpire(s)
        <3> SUFFICES ASSUME TimedExpire(s) PROVE FALSE
            OBVIOUS
        <3>1. pc[s] = "wait" /\ waited[s] > limit[s]
            BY DEF TimedExpire, Expire, Goto
        <3>2. waited[s] <= WaitBound
            BY <3>1, WaitFits DEF WaitBounded
        <3>3. limit[s] \in policy.timeouts
            BY <3>1 DEF TimerInv, Sleeping
        <3>4. HostOf[s] \in Host
            BY HostOfAssumption
        <3>5. limit[s] \in Nat /\ Smallest(policy.timeouts) \in Nat
              /\ Smallest(policy.timeouts) <= limit[s]
            BY <1>0, <3>3, <3>4, SettingsFit
        <3>6. waited[s] \in Nat /\ WaitBound \in Int
            <4>1. /\ LongestGrant \in Nat /\ LongestRetry \in Nat
                  /\ LateBound \in Nat /\ HoldBound \in Nat
                BY <1>0, Bounds
            <4>2. WaitBound = LongestGrant + LateBound + HoldBound + 2 * (LongestRetry + LateBound)
                BY DEF WaitBound, LongestGrant, LongestRetry
            <4> QED
                BY <1>0, <4>1, <4>2 DEF TimedShape
        <3> QED
            BY <3>1, <3>2, <3>5, <3>6
    <2>2. faults' = faults
        <3>1. Ok \/ Fail
            BY <1>2, <2>1, TimedTaskStep DEF TimedStep, Instant, TimedClearLocal, TimedReadArb,
                StartWait, TimedPoll, Lock, LockBus, TrylockBus, TakeMutex, ReadPeer, ReadArb,
                WriteLocal, ClearArb, Poll, ClearLocal, ReleaseArb, Unlock, read_arb, write_arb,
                write_local, Ok
        <3> QED
            BY <1>0, <3>1 DEF Ok
    <2>3. Tainting(FALSE) \/ tainted' = tainted \/ Unlock(s)
        BY <1>2, <2>1 DEF TimedStep, Instant, TimedClearLocal, TimedReadArb, StartWait, TimedPoll,
            Lock, LockBus, TrylockBus, TakeMutex, ReadPeer, ReadArb, WriteLocal, ClearArb, Poll,
            ClearLocal, ReleaseArb
    <2>4. CASE Tainting(FALSE)
        BY <2>2, <2>4, Zenon DEF Tainting
    <2>5. CASE Unlock(s)
        BY <2>5, Zenon DEF Unlock
    <2> QED
        BY <2>3, <2>4, <2>5
<1>3. (\E h \in Host : Store(h)) \/ Tick \/ UNCHANGED timedVars => tainted' = tainted
    BY DEF Store, Tick, timedVars, vars
<1> QED
    BY <1>2, <1>3, TimedCases

\* With grants above the retries and timeouts of at least WaitBound, the
\* segment is exclusive without reservation as long as no access fails,
\* although the code lets a wait expire.
THEOREM SizedIsExclusive ==
    ASSUME FaultBudget = 0
    PROVE  TimedSpec => []ExclusiveWhenSized
<1>1. TimedInit => SizedInv
    BY DEF TimedInit, Init, SizedInv
<1>2. FInv /\ TimerInv /\ TurnInv /\ SizedInv /\ [TimedNext]_timedVars => SizedInv'
    BY SizedStep
<1>3. TimedSpec => []Exclusive
    BY Untimed, MutualExclusion, PTL
<1>4. Exclusive /\ SizedInv => ExclusiveWhenSized
    BY DEF Exclusive, SizedInv, ExclusiveWhenSized, ExclusiveAccess
<1> QED
    BY <1>1, <1>2, <1>3, <1>4, TurnInvariance, PTL DEF TimedSpec

=============================================================================
