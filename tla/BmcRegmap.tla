------------------------------ MODULE BmcRegmap ------------------------------
(***************************************************************************)
(* Registers of an FPGA reached over I2C, cisco-fpga-bmc.c.                *)
(*                                                                         *)
(* An access takes two transfers: the register's address, which the FPGA   *)
(* latches, and then the data, which goes to or comes from whatever is     *)
(* latched.  The driver keeps the pair together with i2c_lock_bus on the   *)
(* root adapter, so the bus is BusMutex again.  regmap_update_bits is a    *)
(* read and a write, two bus sessions, under the lock of the device's      *)
(* regmap.  A register is the set of its one bits; each task sets and      *)
(* clears a bit of its own in a register that it shares with others.       *)
(***************************************************************************)
EXTENDS Naturals

CONSTANTS
    User,        \* tasks that access registers over this bus
    Map,         \* regmaps: one for each cell of the FPGA
    MapOf,       \* the regmap a task uses
    RegOf,       \* the register it updates
    NoTask,      \* an unlocked regmap
    FaultBudget, \* bound on the number of failing transfers
    TaintBudget  \* bound on the number of failures of the arbitration

ASSUME MapsAssumption ==
    /\ MapOf \in [User -> Map] /\ NoTask \notin User
    \* tasks that share a register use the same cell's regmap
    /\ DOMAIN RegOf = User
    /\ \A u, v \in User : RegOf[u] = RegOf[v] => MapOf[u] = MapOf[v]
ASSUME BudgetAssumption == FaultBudget \in Nat /\ TaintBudget \in Nat

Reg == {RegOf[u] : u \in User}
Value == SUBSET User

VARIABLES
    users, tainted,  \* the bus, as in BusMutex
    map_lock,        \* the lock of each regmap
    pc,              \* where each task is
    want,            \* should the task's bit become one?
    writing,         \* is it in the second half of regmap_update_bits?
    val,             \* the value it read, then the value it writes
    latch,           \* address register of the FPGA's I2C slave
    mem,             \* the registers
    settled,         \* history: the task's last update returned success
    faults, taints

busVars == <<users, tainted>>
vars == <<busVars, map_lock, pc, want, writing, val, latch, mem, settled, faults, taints>>

Segment == INSTANCE BusMutex

Ok   == UNCHANGED faults
Fail == faults < FaultBudget /\ faults' = faults + 1

Goto(u, from, to) == pc[u] = from /\ pc' = [pc EXCEPT ![u] = to]

\* The bus's promise is broken once more.
Disturbed == taints < TaintBudget /\ taints' = taints + 1

Leave(u) ==
    /\ Segment!Leave({u})
    /\ IF tainted' /\ ~tainted THEN Disturbed ELSE UNCHANGED taints
-----------------------------------------------------------------------------
Init ==
    /\ users = {} /\ tainted = FALSE
    /\ map_lock = [m \in Map |-> NoTask]
    /\ pc = [u \in User |-> "idle"]
    /\ want = [u \in User |-> FALSE]
    /\ writing = [u \in User |-> FALSE]
    /\ val = [u \in User |-> {}]
    /\ latch \in Reg
    /\ mem = [r \in Reg |-> {}]
    /\ settled = [u \in User |-> TRUE]
    /\ faults = 0 /\ taints = 0

\* Faulty variants of the actions below; no specification uses them.

\* The regmap has no lock (disable_locking).
Serialised_Disabled(u) == TRUE

\* The failure of the address transfer is not looked at.
AddressPhase_Unchecked(u) ==
    /\ Goto(u, "address", "data")
    /\ \/ Ok /\ latch' = RegOf[u]
       \/ Fail /\ latch' \in {latch, RegOf[u]}
    /\ UNCHANGED <<busVars, map_lock, want, writing, val, mem, settled, taints>>

\* The regmap's configuration leaves its lock, a mutex, in place.
Serialised(u) == map_lock[MapOf[u]] = NoTask

\* regmap_update_bits: take the regmap's lock.
UpdateBits(u) ==
    /\ Serialised(u)
    /\ Goto(u, "idle", "lock")
    /\ map_lock' = [map_lock EXCEPT ![MapOf[u]] = u]
    /\ \E b \in BOOLEAN : want' = [want EXCEPT ![u] = b]
    /\ settled' = [settled EXCEPT ![u] = FALSE]
    /\ UNCHANGED <<busVars, writing, val, latch, mem, faults, taints>>

\* _bmc_read, _bmc_write: i2c_lock_bus(I2C_LOCK_ROOT_ADAPTER) ...
LockBus(u) ==
    /\ Goto(u, "lock", "address")
    /\ \/ Segment!Enter(u) /\ UNCHANGED taints
       \/ Segment!Intrude(u) /\ Disturbed
    /\ UNCHANGED <<map_lock, want, writing, val, latch, mem, settled, faults>>

\* ... the address, whose failure ends the access with -EIO ...
AddressPhase(u) ==
    /\ \/ Ok /\ Goto(u, "address", "data") /\ latch' = RegOf[u]
       \/ Fail /\ Goto(u, "address", "failed") /\ latch' \in {latch, RegOf[u]}
    /\ UNCHANGED <<busVars, map_lock, want, writing, val, mem, settled, taints>>

\* ... and the data.
DataPhase(u) ==
    /\ \/ ~writing[u] /\ Ok /\ val' = [val EXCEPT ![u] = mem[latch]] /\ UNCHANGED mem
       \/ writing[u] /\ Ok /\ mem' = [mem EXCEPT ![latch] = val[u]] /\ UNCHANGED val
       \/ ~writing[u] /\ Fail /\ UNCHANGED <<mem, val>>
       \/ writing[u] /\ Fail /\ mem' \in {mem, [mem EXCEPT ![latch] = val[u]]} /\ UNCHANGED val
    /\ Goto(u, "data", IF faults' = faults THEN "unlock" ELSE "failed")
    /\ UNCHANGED <<busVars, map_lock, want, writing, latch, settled, taints>>

(* i2c_unlock_bus.  After the read, regmap_update_bits changes the bit and *)
(* writes the value back if that makes a difference; after a failure or    *)
(* the write it unlocks the regmap and returns.                            *)
UnlockBus(u) ==
    /\ pc[u] \in {"unlock", "failed"}
    /\ Leave(u)
    /\ LET new == IF want[u] THEN val[u] \cup {u} ELSE val[u] \ {u}
           write == pc[u] = "unlock" /\ ~writing[u] /\ new # val[u]
       IN  /\ pc' = [pc EXCEPT ![u] = IF write THEN "lock" ELSE "idle"]
           /\ writing' = [writing EXCEPT ![u] = write]
           /\ val' = [val EXCEPT ![u] = IF write THEN new ELSE {}]
           /\ map_lock' = [map_lock EXCEPT ![MapOf[u]] = IF write THEN u ELSE NoTask]
           /\ settled' = [settled EXCEPT ![u] = pc[u] = "unlock" /\ ~write]
    /\ UNCHANGED <<want, latch, mem, faults>>

\* The arbitration of the bus fails, or all its users have gone.
SegmentChanges ==
    /\ \/ Segment!Taint /\ ~tainted /\ Disturbed
       \/ Segment!Heal /\ UNCHANGED taints
    /\ UNCHANGED <<map_lock, pc, want, writing, val, latch, mem, settled, faults>>

Access(u) == LockBus(u) \/ AddressPhase(u) \/ DataPhase(u) \/ UnlockBus(u)

Next ==
    \/ \E u \in User : UpdateBits(u) \/ Access(u)
    \/ SegmentChanges

Spec == Init /\ [][Next]_vars
-----------------------------------------------------------------------------
TypeOK ==
    /\ Segment!TypeOK
    /\ map_lock \in [Map -> User \cup {NoTask}]
    /\ pc \in [User -> {"idle", "lock", "address", "data", "unlock", "failed"}]
    /\ want \in [User -> BOOLEAN] /\ writing \in [User -> BOOLEAN]
    /\ val \in [User -> Value]
    /\ latch \in Reg
    /\ mem \in [Reg -> Value]
    /\ settled \in [User -> BOOLEAN]
    /\ faults \in 0..FaultBudget /\ taints \in 0..TaintBudget

(* A task whose update succeeded finds its bit as it left it, however many *)
(* others update the register and whatever fails for them: no update is    *)
(* lost or undone by another's read, modify, write.                        *)
NoLostUpdate ==
    taints = 0 =>
        \A u \in User : settled[u] => (want[u] <=> u \in mem[RegOf[u]])

(* An access stays within its register: the data phase of another one      *)
(* never changes it, not even when it reports failure.                     *)
OnlyOwnRegister ==
    [][\A r \in Reg : mem'[r] # mem[r] /\ ~tainted =>
        \E u \in User : RegOf[u] = r /\ pc[u] = "data" /\ pc'[u] # "data"]_vars

=============================================================================
