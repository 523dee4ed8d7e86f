------------------------------- MODULE I2cSmb -------------------------------
(***************************************************************************)
(* Transfers on the I2C-SMB engine, cisco-fpga-i2c.c.                      *)
(*                                                                         *)
(* As on the I2C-EXT engine, a transfer runs between lock_bus and          *)
(* unlock_bus, here a lock between all users that never fails.  A transfer *)
(* is a single access, tried once: nothing asks whether the engine is idle *)
(* before it, and nothing resets the engine after an error.  A bus that    *)
(* hangs is recovered from inside the wait for the access.                 *)
(*                                                                         *)
(* One action is one register access, or the loop of accesses that fills   *)
(* or empties a buffer, or a read of CSR with the write that follows.  Any *)
(* access may fail, and may then have had its effect.  A byte is known by  *)
(* the user who wrote it; slot k only ever holds a k-th byte.              *)
(***************************************************************************)
EXTENDS Naturals, Sequences, FiniteSets

CONSTANTS
    User,         \* callers of master_xfer, on either host
    Msgs,         \* [num, tx, rx, recv, sel]: bytes to send and to receive,
                  \* I2C_M_RECV_LEN, and the device select of the adapter or of
                  \* the upper address bits
    DevSel,       \* HW_SUPPORTS_DEV_SEL
    BlockMax,     \* I2C_SMBUS_BLOCK_MAX
    MaxLen,       \* 511: longest transfer
    MaxPre,       \* 31: longest write before a read
    Budget        \* bound on the number of failing register accesses and of
                  \* users lost to a restart

ASSUME SmbAssumption ==
    /\ BlockMax \in Nat \ {0} /\ MaxLen \in Nat /\ MaxPre \in 0..MaxLen
    /\ DevSel \in BOOLEAN
    /\ Msgs \subseteq [num : {1, 2}, tx : Nat, rx : Nat, recv : BOOLEAN, sel : Nat]
    /\ Budget \in Nat

\* What is in the engine without a caller is not a caller's.
ASSUME UserAssumption == {"none", "recovery", "nobody"} \cap User = {}

VARIABLES
    pc,              \* where each user is
    msg,             \* its message
    err,             \* what the call will return
    got,             \* the access whose bytes it copied out, and how many it reports
    late,            \* history: the engine was busy when the user started it
    ext0,            \* EXT0: the length in use, or NoExt
    txbuf,           \* TXBUF: who wrote each slot
    devCtrl,         \* DEV_CTRL
    busy, status,    \* CSR: bit 14, bits 31 to 29
    job,             \* the access in the engine
    last,            \* the last access completed; RXBUF holds its bytes if it read
    failures

callVars   == <<msg, err, got, late>>
engineVars == <<ext0, txbuf, devCtrl, busy, status, job, last>>
vars == <<pc, callVars, engineVars, failures>>

None == [by |-> "none"]
Recovery == [by |-> "recovery"]
NoMsg == [num |-> 0]
NoExt == MaxLen + 1
Slots == 1..MaxLen

PC == {"idle", "istat", "ext0", "fill", "select", "start", "wait", "recover",
       "recovering", "drain", "close", "leave", "reset", "unext"}

Ok   == UNCHANGED failures
Fail == failures < Budget /\ failures' = failures + 1

\* u goes on at "to", with e as the result so far.
Goto(u, from, to, e) ==
    /\ pc[u] = from
    /\ pc' = [pc EXCEPT ![u] = to]
    /\ err' = [err EXCEPT ![u] = e]

-----------------------------------------------------------------------------
(* The message, as cisco_fpga_i2c_xfer sees it.                            *)

Read(m) == m.num > 1 \/ m.rx > 0

_msglen(m) ==
    IF Read(m) THEN m.rx + (IF m.num > 1 /\ m.recv THEN BlockMax ELSE 0) ELSE m.tx

Presz(m) == IF m.num > 1 THEN m.tx ELSE 0

UseExt(m) == _msglen(m) >= BlockMax

Refused(m) == _msglen(m) > MaxLen \/ Presz(m) > MaxPre

\* The access the engine makes of its registers and of the value written to CSR.
Access(u, m, bytes, select, ext) ==
    LET len == IF ext # NoExt THEN ext ELSE IF UseExt(m) THEN 0 ELSE _msglen(m)
    IN [by |-> u, sel |-> select, read |-> Read(m), len |-> len,
        sent |-> [k \in 1..(IF Read(m) THEN Presz(m) ELSE len) |-> bytes[k]]]

\* ... and the one its caller means.
Meant(u) ==
    LET m == msg[u]
    IN Access(u, m, [k \in Slots |-> u], IF DevSel THEN m.sel ELSE 0,
              IF UseExt(m) THEN _msglen(m) ELSE NoExt)

Disown(access, u) == IF access.by = u THEN [access EXCEPT !.by = "nobody"] ELSE access

-----------------------------------------------------------------------------
Init ==
    /\ pc = [u \in User |-> "idle"]
    /\ msg = [u \in User |-> NoMsg]
    /\ err = [u \in User |-> "none"]
    /\ got = [u \in User |-> [access |-> None, len |-> 0]]
    /\ late = [u \in User |-> FALSE]
    /\ ext0 = NoExt /\ txbuf = [k \in Slots |-> "none"] /\ devCtrl = 0
    /\ busy = FALSE /\ status = "ok" /\ job = None /\ last = None
    /\ failures = 0

\* The segment is free: nobody is between lock_bus and unlock_bus.
LockBus == \A u \in User : pc[u] = "idle"

\* lock_bus has returned; master_xfer is called and looks at the lengths.
Begin(u) ==
    /\ \E m \in Msgs :
        /\ msg' = [msg EXCEPT ![u] = m]
        /\ IF Refused(m) THEN Goto(u, "idle", "leave", "inval")
                         ELSE Goto(u, "idle", "istat", "none")
    /\ LockBus /\ Ok
    /\ UNCHANGED <<got, late, engineVars>>

\* cisco_i2c_register: the probe resets the engine, under the same lock.
Register(u) ==
    /\ Goto(u, "idle", "reset", "none")
    /\ LockBus /\ Ok
    /\ UNCHANGED <<msg, got, late, engineVars>>

\* Clear interrupts.
ClearStatus(u) ==
    /\ \/ Ok /\ Goto(u, "istat", "ext0", "none")
       \/ Fail /\ Goto(u, "istat", "leave", "io")
    /\ UNCHANGED <<msg, got, late, engineVars>>

SetExt0(u) == ext0' = IF UseExt(msg[u]) THEN _msglen(msg[u]) ELSE NoExt

\* A mutated form: EXT0 is written only to enable it.
WriteExt0_Slip(u) ==
    /\ pc[u] = "ext0"
    /\ \/ Ok /\ Goto(u, "ext0", "fill", "none") /\ (IF UseExt(msg[u]) THEN SetExt0(u) ELSE UNCHANGED ext0)
       \/ Fail /\ Goto(u, "ext0", "leave", "io") /\ (SetExt0(u) \/ UNCHANGED ext0)
    /\ UNCHANGED <<msg, got, late, txbuf, devCtrl, busy, status, job, last>>

\* EXT0 is written for every message: an earlier error may have left it enabled.
WriteExt0(u) ==
    /\ pc[u] = "ext0"
    /\ \/ Ok /\ Goto(u, "ext0", "fill", "none") /\ SetExt0(u)
       \/ Fail /\ Goto(u, "ext0", "leave", "io") /\ (SetExt0(u) \/ UNCHANGED ext0)
    /\ UNCHANGED <<msg, got, late, txbuf, devCtrl, busy, status, job, last>>

\* The bytes of msg[0], by index; the first error ends the call.
Fill(u) ==
    /\ pc[u] = "fill"
    /\ LET next == IF DevSel THEN "select" ELSE "start"
           Filled(n) == txbuf' = [k \in Slots |-> IF k <= n THEN u ELSE txbuf[k]]
       IN \/ Ok /\ Goto(u, "fill", next, "none") /\ Filled(msg[u].tx)
          \/ /\ msg[u].tx > 0 /\ Fail /\ Goto(u, "fill", "leave", "io")
             /\ \E n \in 0..msg[u].tx : Filled(n)
    /\ UNCHANGED <<msg, got, late, ext0, devCtrl, busy, status, job, last>>

\* DEV_CTRL: the adapter's bus, or the upper bits of a pseudo ten-bit address.
Select(u) ==
    /\ pc[u] = "select"
    /\ \/ Ok /\ Goto(u, "select", "start", "none") /\ devCtrl' = msg[u].sel
       \/ Fail /\ Goto(u, "select", "leave", "io") /\ devCtrl' \in {devCtrl, msg[u].sel}
    /\ UNCHANGED <<msg, got, late, ext0, txbuf, busy, status, job, last>>

\* CSR is written with the start bit.  A busy engine may take the new access or
\* go on with the one it has.
Started(u) ==
    /\ busy' = TRUE
    /\ \/ job' = Access(u, msg[u], txbuf, devCtrl, ext0)
       \/ busy /\ UNCHANGED job

Start(u) ==
    /\ pc[u] = "start"
    /\ \/ Ok /\ Goto(u, "start", "wait", "none") /\ Started(u)
       \/ Fail /\ Goto(u, "start", "leave", "io") /\ (Started(u) \/ UNCHANGED <<busy, job>>)
    /\ late' = [late EXCEPT ![u] = busy]
    /\ UNCHANGED <<msg, got, ext0, txbuf, devCtrl, status, last>>

\* What the error bits of CSR make of the call.
Finished(u) ==
  /\ pc[u] = "wait"
  /\ \/ status = "fault" /\ Goto(u, "wait", "close", "fault")
     \/ status = "hung" /\ Goto(u, "wait", "recover", "busy")
     \/ status = "ok" /\ Goto(u, "wait", IF Read(msg[u]) THEN "drain" ELSE "close", "none")

\* A mutated form: the error bits are looked at before the busy bit.
WaitDone_Slip(u) ==
    /\ \/ Ok /\ Finished(u)
       \/ Fail /\ Goto(u, "wait", "close", "io")
    /\ UNCHANGED <<msg, got, late, engineVars>>

\* cisco_fpga_i2c_wait_done: the busy bit drops, or adap->timeout has passed.
WaitDone(u) ==
    /\ \/ ~busy /\ Ok /\ Finished(u)
       \/ busy /\ Ok /\ Goto(u, "wait", "close", "timedout")
       \/ Fail /\ Goto(u, "wait", "close", "io")
    /\ UNCHANGED <<msg, got, late, engineVars>>

\* cisco_fpga_i2c_recover_bus; wait_done ignores its result.
Recover(u) ==
    /\ \/ Ok /\ Goto(u, "recover", "recovering", "busy") /\ busy' = TRUE /\ job' = Recovery
       \/ /\ Fail /\ Goto(u, "recover", "close", "busy")
          /\ \/ busy' = TRUE /\ job' = Recovery
             \/ UNCHANGED <<busy, job>>
    /\ UNCHANGED <<msg, got, late, ext0, txbuf, devCtrl, status, last>>

\* A mutated form: the loop has no deadline.
Recovering_Slip(u) ==
    /\ \/ ~busy /\ Ok
       \/ Fail
    /\ Goto(u, "recovering", "close", "busy")
    /\ UNCHANGED <<msg, got, late, engineVars>>

\* ... its loop: done, too late, or unreadable.
Recovering(u) ==
    /\ Ok \/ Fail
    /\ Goto(u, "recovering", "close", "busy")
    /\ UNCHANGED <<msg, got, late, engineVars>>

\* Copy RXBUF out.  The first byte of a block read is its length, which is
\* added to the length reported if it is a legal one.
Drain(u) ==
    /\ pc[u] = "drain"
    /\ \/ /\ Ok /\ Goto(u, "drain", "close", "none")
          /\ \E first \in 0..(BlockMax + 1) :
              LET m == msg[u]
                  more == IF m.num > 1 /\ m.recv /\ m.rx + first <= _msglen(m) THEN first ELSE 0
              IN got' = [got EXCEPT ![u] = [access |-> last, len |-> m.rx + more]]
       \/ Fail /\ Goto(u, "drain", "leave", "io") /\ UNCHANGED got
    /\ UNCHANGED <<msg, late, engineVars>>

\* EXT0 is disabled again after a message that used it.
Close(u) ==
    /\ pc[u] = "close"
    /\ IF UseExt(msg[u])
       THEN \/ Ok /\ Goto(u, "close", "leave", err[u]) /\ ext0' = NoExt
            \/ Fail /\ Goto(u, "close", "leave", "io") /\ ext0' \in {ext0, NoExt}
       ELSE Ok /\ Goto(u, "close", "leave", err[u]) /\ UNCHANGED ext0
    /\ UNCHANGED <<msg, got, late, txbuf, devCtrl, busy, status, job, last>>

\* cisco_fpga_i2c_reset: the reset bit of CSR set and cleared, then EXT0.
Reset(u) ==
    /\ \/ Ok /\ Goto(u, "reset", "unext", "none") /\ busy' = FALSE /\ job' = None
       \/ /\ Fail /\ Goto(u, "reset", "leave", "io")
          /\ \/ busy' = FALSE /\ job' = None
             \/ UNCHANGED <<busy, job>>
    /\ UNCHANGED <<msg, got, late, ext0, txbuf, devCtrl, status, last>>

ClearExt0(u) ==
    /\ \/ Ok /\ Goto(u, "unext", "leave", "none") /\ ext0' = NoExt
       \/ Fail /\ Goto(u, "unext", "leave", "io") /\ ext0' \in {ext0, NoExt}
    /\ UNCHANGED <<msg, got, late, txbuf, devCtrl, busy, status, job, last>>

\* The caller's state is gone, and what it left in the engine is nobody's.
Forget(u) ==
    /\ pc' = [pc EXCEPT ![u] = "idle"]
    /\ msg' = [msg EXCEPT ![u] = NoMsg]
    /\ err' = [err EXCEPT ![u] = "none"]
    /\ got' = [got EXCEPT ![u] = [access |-> None, len |-> 0]]
    /\ late' = [late EXCEPT ![u] = FALSE]
    /\ txbuf' = [k \in Slots |-> IF txbuf[k] = u THEN "nobody" ELSE txbuf[k]]
    /\ job' = Disown(job, u)
    /\ last' = Disown(last, u)

\* master_xfer returns and unlock_bus is called.
Return(u) ==
    /\ pc[u] = "leave"
    /\ Forget(u)
    /\ Ok
    /\ UNCHANGED <<ext0, devCtrl, busy, status>>

\* The user's host restarts; the engine goes on with what it was doing.
Crash(u) ==
    /\ pc[u] # "idle"
    /\ Fail
    /\ Forget(u)
    /\ UNCHANGED <<ext0, devCtrl, busy, status>>

\* The engine ends an access or a recovery, and reports how.
EngineEnds ==
    /\ busy
    /\ busy' = FALSE
    /\ status' \in {"ok", "fault", "hung"}
    /\ job' = None
    /\ last' = IF status' = "ok" /\ job # Recovery THEN job ELSE last
    /\ UNCHANGED <<pc, callVars, ext0, txbuf, devCtrl, failures>>

Driver(u) ==
    \/ ClearStatus(u) \/ WriteExt0(u) \/ Fill(u) \/ Select(u) \/ Start(u)
    \/ WaitDone(u) \/ Recover(u) \/ Recovering(u) \/ Drain(u) \/ Close(u)
    \/ Reset(u) \/ ClearExt0(u) \/ Return(u)

Next ==
    \/ \E u \in User : Begin(u) \/ Register(u) \/ Driver(u) \/ Crash(u)
    \/ EngineEnds

Spec == Init /\ [][Next]_vars

\* The driver never stops between two accesses; the engine owes nothing.
FairSpec == Spec /\ \A u \in User : WF_vars(Driver(u))

-----------------------------------------------------------------------------
\* The access that the engine works on for a user is the one its caller means:
\* no mode, length, select or byte of another call, or of a call that ended
\* early, is in it.
OwnAccess ==
    \A u \in User : job.by = u => job = Meant(u)

(* Success means that the engine executed the access and that the bytes of *)
(* a read are its own, with a reported length inside what was read.  The   *)
(* exception is an access started on a busy engine, which a call leaves    *)
(* that timed out, could not recover the bus or could not read CSR, and a  *)
(* host that restarts: the next call does not look.                        *)
SuccessMeansExecuted ==
    \A u \in User :
        /\ pc[u] = "leave" /\ err[u] = "none" /\ msg[u] # NoMsg
        /\ ~late[u]
        => /\ last = Meant(u)
           /\ Read(msg[u]) => got[u].access = Meant(u) /\ got[u].len <= Meant(u).len

\* Whatever the engine does, a call returns: both loops have a deadline.
CallReturns == \A u \in User : pc[u] # "idle" ~> pc[u] = "idle"

=============================================================================
