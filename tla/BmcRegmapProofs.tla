--------------------------- MODULE BmcRegmapProofs ---------------------------
(***************************************************************************)
(* BmcRegmap: while the arbitration of the bus keeps its promise no update *)
(* is lost and no access leaves its register, for any number of tasks,     *)
(* regmaps and failing transfers.                                          *)
(***************************************************************************)
EXTENDS BmcRegmap, TLAPS

OnBus == {"address", "data", "unlock", "failed"}

(* Who is on the bus, and what its promise gives: one user, and so an      *)
(* address that stays latched until its data has been transferred.         *)
BusInv ==
    /\ \A u \in User : u \in users <=> pc[u] \in OnBus
    /\ ~tainted => \A u, v \in users : u = v
    /\ ~tainted => \A u \in User : pc[u] = "data" => latch = RegOf[u]
    /\ taints = 0 => ~tainted

(* A task in regmap_update_bits holds its regmap's lock.                   *)
LockInv == \A u \in User : pc[u] # "idle" => map_lock[MapOf[u]] = u

(* What the task has to do with its register: its bit is as it left it; it *)
(* has just read the register; it is about to change its own bit only; or  *)
(* it has.                                                                 *)
Settled(u) == settled[u] = TRUE => pc[u] = "idle" /\ (want[u] = TRUE <=> u \in mem[RegOf[u]])
HasRead(u) == pc[u] = "unlock" /\ writing[u] = FALSE => val[u] = mem[RegOf[u]]
OwnBit(u) ==
    pc[u] \in {"lock", "address", "data"} /\ writing[u] = TRUE =>
        /\ val[u] \ {u} = mem[RegOf[u]] \ {u}
        /\ want[u] = TRUE <=> u \in val[u]
HasWritten(u) ==
    pc[u] = "unlock" /\ writing[u] = TRUE => (want[u] = TRUE <=> u \in mem[RegOf[u]])
Rested(u) == pc[u] = "idle" => writing[u] = FALSE

Fits(u) == Settled(u) /\ HasRead(u) /\ OwnBit(u) /\ HasWritten(u)

IInv ==
    /\ TypeOK
    /\ BusInv
    /\ LockInv
    /\ \A u \in User : Rested(u)
    /\ taints = 0 => \A u \in User : Fits(u)

-----------------------------------------------------------------------------
LEMMA InitIInv == Init => IInv
<1> SUFFICES ASSUME Init PROVE IInv
    OBVIOUS
<1>1. TypeOK
    <2>1. /\ Segment!TypeOK
          /\ map_lock \in [Map -> User \cup {NoTask}]
          /\ pc \in [User -> {"idle", "lock", "address", "data", "unlock", "failed"}]
          /\ latch \in Reg
        BY DEF Init, Segment!TypeOK
    <2>2. /\ want \in [User -> BOOLEAN] /\ writing \in [User -> BOOLEAN]
          /\ settled \in [User -> BOOLEAN]
        BY DEF Init
    <2>3. val \in [User -> Value] /\ mem \in [Reg -> Value]
        BY DEF Init, Value
    <2>4. faults \in 0..FaultBudget /\ taints \in 0..TaintBudget
        BY BudgetAssumption DEF Init
    <2> QED
        BY <2>1, <2>2, <2>3, <2>4 DEF TypeOK
<1>2. \A u \in User : RegOf[u] \in Reg /\ mem[RegOf[u]] = {}
    BY DEF Init, Reg
<1>3. BusInv /\ LockInv
    BY DEF Init, BusInv, LockInv, OnBus
<1>4. \A u \in User : Rested(u) /\ Fits(u)
    BY <1>2 DEF Init, Rested, Fits, Settled, HasRead, OwnBit, HasWritten
<1> QED
    BY <1>1, <1>3, <1>4 DEF IInv

\* A task that steps leaves those alone that it does not touch, unless it
\* writes the register.
LEMMA OthersFit ==
    ASSUME TypeOK, NEW u \in User, NEW v \in User, Fits(v), UNCHANGED mem,
           pc'[v] = pc[v], want'[v] = want[v], writing'[v] = writing[v],
           val'[v] = val[v], settled'[v] = settled[v]
    PROVE  Fits(v)'
BY DEF Fits, Settled, HasRead, OwnBit, HasWritten

LEMMA RegInReg == \A u \in User : RegOf[u] \in Reg
BY DEF Reg

LEMMA UpdateBitsStep ==
    ASSUME IInv, NEW u \in User, UpdateBits(u)
    PROVE  IInv'
<1>1. PICK b \in BOOLEAN : want' = [want EXCEPT ![u] = b]
    BY DEF UpdateBits
<1>2. /\ pc[u] = "idle" /\ map_lock[MapOf[u]] = NoTask
      /\ pc' = [pc EXCEPT ![u] = "lock"]
      /\ map_lock' = [map_lock EXCEPT ![MapOf[u]] = u]
      /\ settled' = [settled EXCEPT ![u] = FALSE]
      /\ UNCHANGED <<users, tainted, writing, val, latch, mem, faults, taints>>
    BY DEF UpdateBits, Serialised, Goto, busVars
<1>3. TypeOK'
    BY <1>1, <1>2, MapsAssumption DEF IInv, TypeOK, Segment!TypeOK
<1>4. BusInv'
    BY <1>2 DEF IInv, BusInv, OnBus, TypeOK
<1>5. LockInv'
    <2> SUFFICES ASSUME NEW v \in User, pc'[v] # "idle" PROVE map_lock'[MapOf[v]] = v
        BY DEF LockInv
    <2>1. MapOf[u] \in Map /\ MapOf[v] \in Map /\ v # NoTask
        BY MapsAssumption
    <2>2. CASE v = u
        BY <1>2, <2>1, <2>2 DEF IInv, TypeOK
    <2>3. CASE v # u
        <3>1. map_lock[MapOf[v]] = v
            BY <1>2, <2>3 DEF IInv, LockInv, TypeOK
        <3>2. MapOf[v] # MapOf[u]
            BY <1>2, <2>1, <3>1
        <3> QED
            BY <1>2, <2>1, <3>1, <3>2 DEF IInv, TypeOK
    <2> QED
        BY <2>2, <2>3
<1>6. \A v \in User : Rested(v)'
    BY <1>2 DEF IInv, Rested, TypeOK
<1>7. ASSUME taints' = 0, NEW v \in User PROVE Fits(v)'
    <2>1. Fits(v) /\ Rested(v)
        BY <1>2, <1>7 DEF IInv
    <2>2. CASE v = u
        BY <1>2, <2>1, <2>2 DEF IInv, TypeOK, Fits, Rested, Settled, HasRead, OwnBit, HasWritten
    <2>3. CASE v # u
        BY <1>1, <1>2, <2>1, <2>3, OthersFit DEF IInv, TypeOK
    <2> QED
        BY <2>2, <2>3
<1> QED
    BY <1>3, <1>4, <1>5, <1>6, <1>7 DEF IInv

LEMMA LockBusStep ==
    ASSUME IInv, NEW u \in User, LockBus(u)
    PROVE  IInv'
<1>1. /\ pc[u] = "lock" /\ pc' = [pc EXCEPT ![u] = "address"]
      /\ UNCHANGED <<map_lock, want, writing, val, latch, mem, settled, faults>>
    BY DEF LockBus, Goto
<1>2. /\ users' = users \cup {u}
      /\ taints' \in 0..TaintBudget /\ tainted' \in BOOLEAN
      /\ ~tainted' => users = {} /\ ~tainted
      /\ taints' = 0 => taints = 0 /\ ~tainted'
    <2>1. /\ taints \in 0..TaintBudget /\ TaintBudget \in Nat /\ tainted \in BOOLEAN
          /\ taints = 0 => ~tainted
        BY BudgetAssumption DEF IInv, TypeOK, BusInv, Segment!TypeOK
    <2>2. CASE Segment!Enter(u) /\ UNCHANGED taints
        <3>1. users' = users \cup {u} /\ tainted' = tainted /\ taints' = taints
              /\ (users = {} \/ tainted)
            BY <2>2 DEF Segment!Enter
        <3> QED
            BY <2>1, <3>1
    <2>3. CASE Segment!Intrude(u) /\ Disturbed
        <3>1. users' = users \cup {u} /\ tainted' = TRUE /\ taints' = taints + 1
              /\ taints < TaintBudget
            BY <2>3 DEF Segment!Intrude, Disturbed
        <3> QED
            BY <2>1, <3>1
    <2> QED
        BY <2>2, <2>3 DEF LockBus
<1>3. TypeOK'
    BY <1>1, <1>2 DEF IInv, TypeOK, Segment!TypeOK
<1>4. BusInv'
    BY <1>1, <1>2 DEF IInv, BusInv, OnBus, TypeOK
<1>5. LockInv' /\ \A v \in User : Rested(v)'
    BY <1>1 DEF IInv, LockInv, Rested, TypeOK
<1>6. ASSUME taints' = 0, NEW v \in User PROVE Fits(v)'
    <2>1. Fits(v)
        BY <1>2, <1>6 DEF IInv
    <2>2. CASE v = u
        BY <1>1, <2>1, <2>2 DEF IInv, TypeOK, Fits, Settled, HasRead, OwnBit, HasWritten
    <2>3. CASE v # u
        BY <1>1, <2>1, <2>3, OthersFit DEF IInv, TypeOK
    <2> QED
        BY <2>2, <2>3
<1> QED
    BY <1>3, <1>4, <1>5, <1>6 DEF IInv

LEMMA AddressPhaseStep ==
    ASSUME IInv, NEW u \in User, AddressPhase(u)
    PROVE  IInv'
<1>1. PICK to \in {"data", "failed"} :
        /\ pc[u] = "address" /\ pc' = [pc EXCEPT ![u] = to]
        /\ to = "data" => latch' = RegOf[u]
        /\ latch' \in {latch, RegOf[u]}
        /\ faults' \in 0..FaultBudget
    <2>1. faults \in 0..FaultBudget /\ FaultBudget \in Nat
        BY BudgetAssumption DEF IInv, TypeOK
    <2>2. CASE Ok /\ Goto(u, "address", "data") /\ latch' = RegOf[u]
        BY <2>1, <2>2 DEF Ok, Goto
    <2>3. CASE Fail /\ Goto(u, "address", "failed") /\ latch' \in {latch, RegOf[u]}
        BY <2>1, <2>3 DEF Fail, Goto
    <2> QED
        BY <2>2, <2>3 DEF AddressPhase
<1>2. UNCHANGED <<users, tainted, map_lock, want, writing, val, mem, settled, taints>>
    BY DEF AddressPhase, busVars
<1>3. TypeOK'
    BY <1>1, <1>2, RegInReg DEF IInv, TypeOK, Segment!TypeOK
<1>4. ~tainted => \A v \in User : v # u => pc[v] # "data"
    BY <1>1 DEF IInv, BusInv, OnBus
<1>5. BusInv'
    BY <1>1, <1>2, <1>4 DEF IInv, BusInv, OnBus, TypeOK
<1>6. LockInv' /\ \A v \in User : Rested(v)'
    BY <1>1, <1>2 DEF IInv, LockInv, Rested, TypeOK
<1>7. ASSUME taints' = 0, NEW v \in User PROVE Fits(v)'
    <2>1. Fits(v)
        BY <1>2, <1>7 DEF IInv
    <2>2. CASE v = u
        BY <1>1, <1>2, <2>1, <2>2 DEF IInv, TypeOK, Fits, Settled, HasRead, OwnBit, HasWritten
    <2>3. CASE v # u
        BY <1>1, <1>2, <2>1, <2>3, OthersFit DEF IInv, TypeOK
    <2> QED
        BY <2>2, <2>3
<1> QED
    BY <1>3, <1>5, <1>6, <1>7 DEF IInv

\* A task whose update is settled and one that is about to write are tasks of
\* the same regmap if they share the register, so one of them waits.
LEMMA AloneInRegister ==
    ASSUME IInv, NEW u \in User, NEW v \in User, u # v, pc[u] # "idle",
           RegOf[u] = RegOf[v]
    PROVE  pc[v] = "idle"
<1>1. MapOf[u] = MapOf[v]
    BY MapsAssumption
<1> QED
    BY <1>1 DEF IInv, LockInv

LEMMA DataPhaseStep ==
    ASSUME IInv, NEW u \in User, DataPhase(u)
    PROVE  IInv'
<1>1. PICK to \in {"unlock", "failed"} : pc' = [pc EXCEPT ![u] = to]
    BY DEF DataPhase, Goto
<1>2. /\ pc[u] = "data"
      /\ UNCHANGED <<users, tainted, map_lock, want, writing, latch, settled, taints>>
    BY DEF DataPhase, Goto, busVars
<1>3. faults' \in 0..FaultBudget
    <2>1. faults \in 0..FaultBudget /\ FaultBudget \in Nat
        BY BudgetAssumption DEF IInv, TypeOK
    <2> QED
        BY <2>1 DEF DataPhase, Ok, Fail
<1>4. \/ writing[u] = FALSE /\ val' = [val EXCEPT ![u] = mem[latch]] /\ mem' = mem
      \/ writing[u] = FALSE /\ val' = val /\ mem' = mem /\ to = "failed"
      \/ writing[u] = TRUE /\ val' = val /\ mem' = [mem EXCEPT ![latch] = val[u]]
      \/ writing[u] = TRUE /\ val' = val /\ mem' = mem /\ to = "failed"
    <2>1. writing[u] \in BOOLEAN
        BY DEF IInv, TypeOK
    <2>2. Fail => to = "failed"
        <3>1. Fail => faults' # faults
            BY BudgetAssumption DEF Fail, IInv, TypeOK
        <3>2. faults' # faults => pc'[u] = "failed"
            BY DEF DataPhase, Goto, IInv, TypeOK
        <3> QED
            BY <1>1, <3>1, <3>2 DEF IInv, TypeOK
    <2> QED
        BY <2>1, <2>2 DEF DataPhase
<1>5. TypeOK'
    <2>1. val' \in [User -> Value] /\ mem' \in [Reg -> Value]
        BY <1>4 DEF IInv, TypeOK
    <2> QED
        BY <1>1, <1>2, <1>3, <2>1 DEF IInv, TypeOK, Segment!TypeOK
<1>6. BusInv'
    BY <1>1, <1>2 DEF IInv, BusInv, OnBus, TypeOK
<1>7. LockInv' /\ \A v \in User : Rested(v)'
    BY <1>1, <1>2 DEF IInv, LockInv, Rested, TypeOK
<1>8. ASSUME taints' = 0, NEW v \in User PROVE Fits(v)'
    <2>1. Fits(v) /\ latch = RegOf[u] /\ Fits(u) /\ RegOf[u] \in Reg /\ RegOf[v] \in Reg
        BY <1>2, <1>8, RegInReg DEF IInv, BusInv
    <2>2. CASE v = u
        <3>1. pc'[u] = to /\ settled[u] # TRUE
            BY <1>1, <1>2, <2>1 DEF IInv, TypeOK, Fits, Settled
        <3>2. to = "unlock" /\ writing[u] = FALSE => val'[u] = mem'[RegOf[u]]
            BY <1>4, <2>1 DEF IInv, TypeOK
        <3>3. to = "unlock" /\ writing[u] = TRUE =>
                  mem'[RegOf[u]] = val[u] /\ (want[u] = TRUE <=> u \in val[u])
            BY <1>2, <1>4, <2>1 DEF IInv, TypeOK, Fits, OwnBit
        <3> QED
            BY <1>2, <2>2, <3>1, <3>2, <3>3
               DEF Fits, Settled, HasRead, OwnBit, HasWritten
    <2>3. CASE v # u
        <3>1. pc'[v] = pc[v] /\ val'[v] = val[v]
            BY <1>1, <1>4, <2>3 DEF IInv, TypeOK
        <3>2. CASE mem'[RegOf[v]] = mem[RegOf[v]]
            BY <1>2, <2>1, <3>1, <3>2 DEF Fits, Settled, HasRead, OwnBit, HasWritten
        <3>3. CASE mem'[RegOf[v]] # mem[RegOf[v]]
            <4>1. RegOf[v] = RegOf[u] /\ writing[u] = TRUE /\ mem'[RegOf[v]] = val[u]
                BY <1>4, <2>1, <3>3 DEF IInv, TypeOK
            <4>2. pc[v] = "idle"
                BY <1>2, <2>3, <4>1, AloneInRegister
            <4>3. v \in mem'[RegOf[v]] <=> v \in mem[RegOf[v]]
                BY <1>2, <2>1, <2>3, <4>1 DEF Fits, OwnBit
            <4> QED
                BY <1>2, <2>1, <3>1, <4>2, <4>3
                   DEF Fits, Settled, HasRead, OwnBit, HasWritten
        <3> QED
            BY <3>2, <3>3
    <2> QED
        BY <2>2, <2>3
<1> QED
    BY <1>5, <1>6, <1>7, <1>8 DEF IInv

\* Who leaves the bus leaves it to nobody, or to those who broke in.
LEMMA LeaveBus ==
    ASSUME IInv, NEW u \in User, pc[u] \in {"unlock", "failed"}, Leave(u)
    PROVE  /\ users' = users \ {u} /\ tainted' \in BOOLEAN /\ taints' \in 0..TaintBudget
           /\ tainted /\ ~tainted' => users' = {}
           /\ taints' = 0 => taints = 0 /\ ~tainted'
<1>1. /\ taints \in 0..TaintBudget /\ TaintBudget \in Nat /\ tainted \in BOOLEAN
      /\ taints = 0 => ~tainted
    BY BudgetAssumption DEF IInv, TypeOK, BusInv, Segment!TypeOK
<1>2. /\ users' = users \ {u} /\ tainted' \in BOOLEAN
      /\ tainted /\ ~tainted' => users' = {}
    BY DEF Leave, Segment!Leave
<1>3. /\ tainted' /\ ~tainted => taints < TaintBudget /\ taints' = taints + 1
      /\ ~(tainted' /\ ~tainted) => taints' = taints
    BY DEF Leave, Disturbed
<1>4. taints' \in 0..TaintBudget
    BY <1>1, <1>3
<1>5. taints' = 0 => taints = 0 /\ ~tainted'
    BY <1>1, <1>3
<1> QED
    BY <1>2, <1>4, <1>5

LEMMA UnlockBusStep ==
    ASSUME IInv, NEW u \in User, UnlockBus(u)
    PROVE  IInv'
<1> DEFINE new == IF want[u] THEN val[u] \cup {u} ELSE val[u] \ {u}
           write == pc[u] = "unlock" /\ ~writing[u] /\ new # val[u]
<1>1. /\ pc[u] \in {"unlock", "failed"}
      /\ Leave(u)
      /\ pc' = [pc EXCEPT ![u] = IF write THEN "lock" ELSE "idle"]
      /\ writing' = [writing EXCEPT ![u] = write]
      /\ val' = [val EXCEPT ![u] = IF write THEN new ELSE {}]
      /\ map_lock' = [map_lock EXCEPT ![MapOf[u]] = IF write THEN u ELSE NoTask]
      /\ settled' = [settled EXCEPT ![u] = pc[u] = "unlock" /\ ~write]
      /\ UNCHANGED <<want, latch, mem, faults>>
    BY DEF UnlockBus
<1>2. /\ users' = users \ {u} /\ tainted' \in BOOLEAN /\ taints' \in 0..TaintBudget
      /\ tainted /\ ~tainted' => users' = {}
      /\ taints' = 0 => taints = 0 /\ ~tainted'
    BY <1>1, LeaveBus
<1>3. write \in BOOLEAN /\ new \in Value
    BY DEF IInv, TypeOK, Value
<1> HIDE DEF write, new
<1>4. MapOf[u] \in Map /\ pc'[u] = IF write THEN "lock" ELSE "idle"
    BY <1>1, MapsAssumption DEF IInv, TypeOK
<1>5. TypeOK'
    <2>1. /\ pc' \in [User -> {"idle", "lock", "address", "data", "unlock", "failed"}]
          /\ writing' \in [User -> BOOLEAN] /\ settled' \in [User -> BOOLEAN]
        BY <1>1, <1>3 DEF IInv, TypeOK
    <2>2. val' \in [User -> Value]
        BY <1>1, <1>3 DEF IInv, TypeOK, Value
    <2>3. map_lock' \in [Map -> User \cup {NoTask}]
        BY <1>1, <1>4 DEF IInv, TypeOK
    <2>4. users' \subseteq User /\ tainted' \in BOOLEAN
        BY <1>2 DEF IInv, TypeOK, Segment!TypeOK
    <2> QED
        BY <1>1, <1>2, <2>1, <2>2, <2>3, <2>4 DEF IInv, TypeOK, Segment!TypeOK
<1>6. BusInv'
    <2>1. \A v \in User : v \in users' <=> pc'[v] \in OnBus
        BY <1>1, <1>2, <1>4 DEF IInv, BusInv, OnBus, TypeOK
    <2>2. ~tainted' => \A v, w \in users' : v = w
        BY <1>2 DEF IInv, BusInv
    <2>3. ASSUME ~tainted', NEW v \in User, pc'[v] = "data" PROVE latch' = RegOf[v]
        <3>1. v \in users'
            BY <2>1, <2>3 DEF OnBus
        <3>2. ~tainted /\ pc[v] = "data"
            BY <1>1, <1>2, <1>4, <2>3, <3>1 DEF IInv, TypeOK
        <3> QED
            BY <1>1, <3>2 DEF IInv, BusInv
    <2> QED
        BY <1>2, <2>1, <2>2, <2>3 DEF BusInv
<1>7. LockInv'
    <2> SUFFICES ASSUME NEW v \in User, pc'[v] # "idle" PROVE map_lock'[MapOf[v]] = v
        BY DEF LockInv
    <2>1. MapOf[v] \in Map
        BY MapsAssumption
    <2>2. CASE v = u
        BY <1>1, <1>4, <2>2 DEF IInv, TypeOK
    <2>3. CASE v # u
        <3>1. map_lock[MapOf[v]] = v /\ map_lock[MapOf[u]] = u
            BY <1>1, <2>3 DEF IInv, LockInv, TypeOK
        <3> QED
            BY <1>1, <2>1, <2>3, <3>1 DEF IInv, TypeOK
    <2> QED
        BY <2>2, <2>3
<1>8. ASSUME NEW v \in User PROVE Rested(v)'
    <2>1. CASE v = u
        <3>1. writing'[u] = write
            BY <1>1 DEF IInv, TypeOK
        <3> QED
            BY <1>3, <1>4, <2>1, <3>1 DEF Rested
    <2>2. CASE v # u
        BY <1>1, <2>2 DEF IInv, Rested, TypeOK
    <2> QED
        BY <2>1, <2>2
<1>9. ASSUME taints' = 0, NEW v \in User PROVE Fits(v)'
    <2>1. Fits(v) /\ Fits(u)
        BY <1>2, <1>9 DEF IInv
    <2>2. CASE v = u
        <3>1. /\ writing'[u] = write
              /\ val'[u] = IF write THEN new ELSE {}
              /\ settled'[u] = (pc[u] = "unlock" /\ ~write)
              /\ want' = want /\ mem' = mem
            BY <1>1 DEF IInv, TypeOK
        <3>2. want[u] \in BOOLEAN /\ writing[u] \in BOOLEAN
            BY DEF IInv, TypeOK
        <3>3. CASE write
            <4>1. val[u] = mem[RegOf[u]]
                BY <2>1, <3>2, <3>3 DEF write, Fits, HasRead
            <4>2. /\ new \ {u} = mem[RegOf[u]] \ {u}
                  /\ want[u] = TRUE <=> u \in new
                BY <3>2, <4>1 DEF new
            <4> QED
                BY <1>4, <2>2, <3>1, <3>3, <4>2 DEF Fits, Settled, HasRead, OwnBit, HasWritten
        <3>4. CASE ~write
            <4>1. ASSUME pc[u] = "unlock" PROVE want[u] = TRUE <=> u \in mem[RegOf[u]]
                <5>1. CASE writing[u] = TRUE
                    BY <2>1, <4>1, <5>1 DEF Fits, HasWritten
                <5>2. CASE writing[u] = FALSE
                    <6>1. val[u] = mem[RegOf[u]] /\ new = val[u]
                        BY <2>1, <3>4, <4>1, <5>2 DEF write, Fits, HasRead
                    <6> QED
                        BY <3>2, <6>1 DEF new
                <5> QED
                    BY <3>2, <5>1, <5>2
            <4>2. settled'[u] = TRUE => pc[u] = "unlock"
                BY <3>1
            <4> QED
                BY <1>4, <2>2, <3>1, <3>4, <4>1, <4>2
                   DEF Fits, Settled, HasRead, OwnBit, HasWritten
        <3> QED
            BY <3>3, <3>4
    <2>3. CASE v # u
        BY <1>1, <2>1, <2>3, OthersFit DEF IInv, TypeOK
    <2> QED
        BY <2>2, <2>3
<1> QED
    BY <1>5, <1>6, <1>7, <1>8, <1>9 DEF IInv

LEMMA SegmentStep ==
    ASSUME IInv, SegmentChanges
    PROVE  IInv'
<1>1. UNCHANGED <<map_lock, pc, want, writing, val, latch, mem, settled, faults>>
    BY DEF SegmentChanges
<1>2. /\ users' = users /\ tainted' \in BOOLEAN /\ taints' \in 0..TaintBudget
      /\ tainted /\ ~tainted' => users = {}
      /\ taints' = 0 => taints = 0 /\ ~tainted'
    <2>1. /\ taints \in 0..TaintBudget /\ TaintBudget \in Nat /\ tainted \in BOOLEAN
        BY BudgetAssumption DEF IInv, TypeOK, Segment!TypeOK
    <2>2. CASE Segment!Taint /\ Disturbed
        <3>1. users' = users /\ tainted' = TRUE /\ taints' = taints + 1
              /\ taints < TaintBudget
            BY <2>2 DEF Segment!Taint, Disturbed
        <3> QED
            BY <2>1, <3>1
    <2>3. CASE Segment!Heal /\ UNCHANGED taints
        <3>1. users' = users /\ tainted' = FALSE /\ users = {} /\ taints' = taints
            BY <2>3 DEF Segment!Heal
        <3> QED
            BY <2>1, <3>1
    <2> QED
        BY <2>2, <2>3 DEF SegmentChanges
<1>3. TypeOK'
    BY <1>1, <1>2 DEF IInv, TypeOK, Segment!TypeOK
<1>4. BusInv'
    BY <1>1, <1>2 DEF IInv, BusInv, OnBus
<1>5. LockInv' /\ \A v \in User : Rested(v)'
    BY <1>1 DEF IInv, LockInv, Rested
<1>6. ASSUME taints' = 0, NEW v \in User PROVE Fits(v)'
    BY <1>1, <1>2, <1>6, OthersFit DEF IInv
<1> QED
    BY <1>3, <1>4, <1>5, <1>6 DEF IInv

LEMMA Inductive == IInv /\ [Next]_vars => IInv'
<1> SUFFICES ASSUME IInv, [Next]_vars PROVE IInv'
    OBVIOUS
<1>1. ASSUME NEW u \in User, UpdateBits(u) PROVE IInv'
    BY <1>1, UpdateBitsStep
<1>2. ASSUME NEW u \in User, Access(u) PROVE IInv'
    BY <1>2, LockBusStep, AddressPhaseStep, DataPhaseStep, UnlockBusStep DEF Access
<1>3. CASE SegmentChanges
    BY <1>3, SegmentStep
<1>4. CASE UNCHANGED vars
    <2>1. UNCHANGED <<users, tainted, map_lock, pc, want, writing, val, latch, mem,
                      settled, faults, taints>>
        BY <1>4 DEF vars, busVars
    <2>2. TypeOK' /\ BusInv' /\ LockInv'
        BY <2>1 DEF IInv, TypeOK, Segment!TypeOK, BusInv, LockInv
    <2>3. \A v \in User : Rested(v)'
        BY <2>1 DEF IInv, Rested
    <2>4. ASSUME taints' = 0, NEW v \in User PROVE Fits(v)'
        BY <2>1, <2>4, OthersFit DEF IInv
    <2> QED
        BY <2>2, <2>3, <2>4 DEF IInv
<1> QED
    BY <1>1, <1>2, <1>3, <1>4 DEF Next

LEMMA Invariance == Spec => []IInv
BY InitIInv, Inductive, PTL DEF Spec

\* The state has the types the model gives it.
THEOREM TypeCorrect == Spec => []TypeOK
<1>1. IInv => TypeOK
    BY DEF IInv
<1> QED
    BY <1>1, Invariance, PTL

\* As long as the arbitration keeps its promise, a task whose
\* regmap_update_bits returned success finds its bit as it left it, whatever
\* the other tasks do to the register and whichever transfers fail.
THEOREM NoUpdateLost == Spec => []NoLostUpdate
<1>1. ASSUME IInv PROVE NoLostUpdate
    <2> SUFFICES ASSUME taints = 0, NEW u \in User, settled[u]
                 PROVE  want[u] <=> u \in mem[RegOf[u]]
        BY DEF NoLostUpdate
    <2>1. want[u] \in BOOLEAN /\ settled[u] \in BOOLEAN /\ Fits(u)
        BY <1>1 DEF IInv, TypeOK
    <2>2. settled[u] = TRUE
        BY <2>1
    <2>3. want[u] = TRUE <=> u \in mem[RegOf[u]]
        BY <2>1, <2>2 DEF Fits, Settled
    <2> QED
        BY <2>1, <2>3
<1> QED
    BY <1>1, Invariance, PTL

\* The data phase is the only step that changes a register, and outside of a
\* tainted period the register is the one whose address its task has sent.
THEOREM StaysInRegister == Spec => OnlyOwnRegister
<1>1. ASSUME IInv, [Next]_vars, ~tainted, NEW r \in Reg, mem'[r] # mem[r]
      PROVE  \E u \in User : RegOf[u] = r /\ pc[u] = "data" /\ pc'[u] # "data"
    <2>1. PICK u \in User : DataPhase(u)
        BY <1>1 DEF Next, Access, UpdateBits, LockBus, AddressPhase, UnlockBus,
                    SegmentChanges, vars
    <2>2. /\ pc[u] = "data" /\ latch = RegOf[u]
          /\ pc'[u] # "data"
        BY <1>1, <2>1 DEF DataPhase, Goto, IInv, BusInv, TypeOK
    <2>3. r = latch
        BY <1>1, <2>1 DEF DataPhase, IInv, TypeOK
    <2> QED
        BY <2>2, <2>3
<1>2. IInv /\ [Next]_vars =>
          [\A r \in Reg : mem'[r] # mem[r] /\ ~tainted =>
              \E u \in User : RegOf[u] = r /\ pc[u] = "data" /\ pc'[u] # "data"]_vars
    BY <1>1
<1> QED
    BY <1>2, Invariance, PTL DEF Spec, OnlyOwnRegister

=============================================================================
