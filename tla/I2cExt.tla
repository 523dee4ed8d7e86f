------------------------------- MODULE I2cExt -------------------------------
(***************************************************************************)
(* Transfers on the I2C-EXT engine, cisco-fpga-i2c-ext.c.                  *)
(*                                                                         *)
(* The engine is one register block that all users of a segment share, so  *)
(* a transfer runs between lock_bus and unlock_bus.  Those are taken here  *)
(* from BusMutex, which Arbitration is shown to implement: a user is alone *)
(* unless the segment is tainted.                                          *)
(*                                                                         *)
(* A message is moved in chunks of at most the engine's buffer.  A chunk   *)
(* is loaded, started, polled until the start bit drops, checked in the    *)
(* sticky status register, and repeated after a reset if anything went     *)
(* wrong.  A chunk is its position in the transfer and a size, in units of *)
(* DRIVER_I2C_HW_BUF_SIZE bytes; a smaller rest counts as a unit.  What    *)
(* the bytes say is left out, but not whose they are: an access fills only *)
(* as much of the read window as it was programmed to.                     *)
(*                                                                         *)
(* One action is one register access, or a loop of accesses to a data      *)
(* window.  Any access may fail, and may then have had its effect.  The    *)
(* engine may take for ever, and a poll may give up at any time.           *)
(***************************************************************************)
EXTENDS Naturals, Sequences, FiniteSets

CONSTANTS
    User,         \* callers of master_xfer, on either host
    BufSize,      \* hw->bufsize: 1 up to version 4 of the engine, then 2
    Transfers,    \* i2c_msg arrays: sequences of [read, chunks, last], where
                  \* last is the size of the last chunk
    Retries,      \* adap->retries
    FaultBudget,  \* bound on the number of failing register accesses
    CrashBudget,  \* bound on the number of users lost to a restart
    TaintBudget   \* bound on the number of failures of the arbitration

ASSUME BufSizeAssumption == BufSize \in {1, 2}
ASSUME TransfersAssumption ==
    Transfers \subseteq
        Seq([read : BOOLEAN, chunks : Nat \ {0}, last : 1..BufSize]) \ {<<>>}
ASSUME BoundsAssumption ==
    Retries \in Nat /\ FaultBudget \in Nat /\ CrashBudget \in Nat /\ TaintBudget \in Nat

VARIABLES
    users, tainted,  \* the segment, as in BusMutex
    pc,              \* where each user is
    msgs,            \* its transfer
    at,              \* message and chunk it has reached
    retry,           \* local variable retry of _retryable_cfg
    err,             \* local variable e / err
    try,             \* local variable try of __i2c_transfer
    start, rst,      \* STARTACCESS and RST bits of cfg
    intSts,          \* sticky status bits
    job,             \* the chunk the engine is moving
    rdatasize,       \* RDATASIZE of cfg2
    rdata,           \* whose bytes are in each unit of the read window
    ran, got,        \* history: chunks the engine completed for a user, and
                     \* what the user copied out of the window for each
    unfilled,        \* history: did a write to the data window fail?
    faults, crashes, taints

busVars    == <<users, tainted>>
engineVars == <<start, rst, intSts, job, rdatasize, rdata>>
callVars   == <<msgs, at, retry, err, try>>
history    == <<ran, got, unfilled>>
budgets    == <<faults, crashes, taints>>
vars == <<busVars, pc, callVars, engineVars, history, budgets>>

Segment == INSTANCE BusMutex

\* The chunk in the engine or in a unit of the read window: whose it is and
\* where in the transfer; of no one's running call; or none at all.
None    == <<>>
Nobodys == <<"nobody">>
Disown(chunk, u) == IF chunk # None /\ Head(chunk) = u THEN Nobodys ELSE chunk
DisownWindow(u) == [k \in 1..BufSize |-> Disown(rdata[k], u)]

Status == {"done", "error", "timeout"}
Position == [msg : Nat, chunk : Nat]
Err == {"none", "io", "busy", "again", "fault"}
PC == {"idle", "clear", "message", "fill", "cfg2", "start", "wait", "check",
       "drain", "reset", "unreset", "clear_retry", "final", "unfinal", "leave"}

Ok   == UNCHANGED faults
Fail == faults < FaultBudget /\ faults' = faults + 1

Msg(u) == msgs[u][at[u].msg]
First == [msg |-> 1, chunk |-> 1]

HwBufSize == 1  \* DRIVER_I2C_HW_BUF_SIZE

\* cfg_len as it counts the bytes of chunk p ...
Size(u, p) ==
    IF p.chunk < msgs[u][p.msg].chunks THEN BufSize ELSE msgs[u][p.msg].last

\* ... and as it was when cfg2 was made of it; a write has only WDATASIZE.
RDataSize(u, p) ==
    IF ~msgs[u][p.msg].read THEN 0
    ELSE IF Size(u, p) > HwBufSize THEN HwBufSize ELSE Size(u, p)

\* u goes on at "to".
Goto(u, from, to) ==
    /\ pc[u] = from
    /\ pc' = [pc EXCEPT ![u] = to]

\* ... having seen error e.
GotoErr(u, from, to, e) ==
    /\ Goto(u, from, to)
    /\ err' = [err EXCEPT ![u] = e]

\* After chunk at[u]: the next one, the next message, or the end.
Advance(u, from) ==
    /\ pc[u] = from
    /\ \/ /\ at[u].chunk < Msg(u).chunks
          /\ at' = [at EXCEPT ![u].chunk = @ + 1]
          /\ Goto(u, from, "fill")
       \/ /\ at[u].chunk = Msg(u).chunks /\ at[u].msg < Len(msgs[u])
          /\ at' = [at EXCEPT ![u] = [msg |-> @.msg + 1, chunk |-> 1]]
          /\ Goto(u, from, "message")
       \/ /\ at[u].chunk = Msg(u).chunks /\ at[u].msg = Len(msgs[u])
          /\ Goto(u, from, "leave")
          /\ UNCHANGED at

-----------------------------------------------------------------------------
\* Registers.

_clear_intr_status ==
    \/ Ok /\ intSts' = {}
    \/ Fail /\ intSts' \in {intSts, {}}

\* The effect of writing one to RST.
Abort == start' = FALSE /\ rst' = TRUE /\ job' = None

-----------------------------------------------------------------------------
\* Faulty variants of the actions below; no specification uses them.

\* A start bit that does not drop is not reported as -EBUSY.
WaitDone_NotBusy(u) ==
    /\ \/ Ok /\ Goto(u, "wait", "check") /\ UNCHANGED err
       \/ Fail /\ GotoErr(u, "wait", "reset", "io")
    /\ UNCHANGED <<busVars, try, msgs, at, retry, engineVars, history, crashes, taints>>

\* The poll has no deadline.
WaitDone_Forever(u) ==
    /\ \/ ~start /\ Ok /\ Goto(u, "wait", "check") /\ UNCHANGED err
       \/ Fail /\ GotoErr(u, "wait", "reset", "io")
    /\ UNCHANGED <<busVars, try, msgs, at, retry, engineVars, history, crashes, taints>>

\* A message begins without looking at the engine.
WaitIdle_Skipped(u) ==
    /\ Ok /\ Goto(u, "message", "fill") /\ UNCHANGED err
    /\ UNCHANGED <<busVars, try, msgs, at, retry, engineVars, history, crashes, taints>>

\* retry++ where ++retry is meant.
ClearRetry_Post(u) ==
    /\ retry' = [retry EXCEPT ![u] = @ + 1]
    /\ Goto(u, "clear_retry", IF retry[u] <= Retries THEN "start" ELSE "final")
    /\ _clear_intr_status
    /\ UNCHANGED <<busVars, try, msgs, at, err, start, rst, job, rdatasize, rdata, history, crashes, taints>>

\* The attempts of a chunk are not counted.
ClearRetry_NotCounted(u) ==
    /\ Goto(u, "clear_retry", IF retry[u] <= Retries THEN "start" ELSE "final")
    /\ _clear_intr_status
    /\ UNCHANGED <<busVars, callVars, start, rst, job, rdatasize, rdata, history, crashes, taints>>

\* cfg2 is made for a write whatever the message: RDATASIZE is 0.
WriteCfg2_AsWrite(u) ==
    /\ \/ Ok /\ Goto(u, "cfg2", "start") /\ retry' = [retry EXCEPT ![u] = 0] /\ UNCHANGED err
       \/ Fail /\ GotoErr(u, "cfg2", "final", "io") /\ UNCHANGED retry
    /\ rdatasize' = 0
    /\ UNCHANGED <<busVars, try, msgs, at, start, rst, intSts, job, rdata, history, crashes, taints>>

\* A failed transfer leaves the engine as it is.
FinalReset_None(u) ==
    /\ Ok /\ Goto(u, "final", "leave")
    /\ UNCHANGED <<busVars, callVars, engineVars, history, crashes, taints>>

-----------------------------------------------------------------------------
Init ==
    /\ users = {} /\ tainted = FALSE
    /\ pc = [u \in User |-> "idle"]
    /\ msgs = [u \in User |-> <<>>]
    /\ at = [u \in User |-> First]
    /\ retry = [u \in User |-> 0]
    /\ err = [u \in User |-> "none"]
    /\ try = [u \in User |-> 0]
    /\ start = FALSE /\ rst = FALSE /\ intSts = {} /\ job = None
    /\ rdatasize = 0 /\ rdata = [k \in 1..BufSize |-> None]
    /\ ran = [u \in User |-> <<>>]
    /\ got = [u \in User |-> <<>>]
    /\ unfilled = [u \in User |-> "no"]
    /\ faults = 0 /\ crashes = 0 /\ taints = 0

\* The segment's promise is broken once more.
Disturbed == taints < TaintBudget /\ taints' = taints + 1

\* lock_bus returns, with the segment or without it.
Acquire(u) ==
    \/ Segment!Enter(u) /\ UNCHANGED taints
    \/ Segment!Intrude(u) /\ Disturbed

\* lock_bus has returned; master_xfer is called.
Begin(u) ==
    /\ Goto(u, "idle", "clear")
    /\ Acquire(u)
    /\ \E m \in Transfers : msgs' = [msgs EXCEPT ![u] = m]
    /\ UNCHANGED <<at, retry, err, try, engineVars, history, faults, crashes>>

\* cisco_i2c_register: the probe resets the engine, under the same lock.
Register(u) ==
    /\ Goto(u, "idle", "final")
    /\ Acquire(u)
    /\ UNCHANGED <<callVars, engineVars, history, faults, crashes>>

\* cisco_fpga_i2c_xfer: clear interrupts; the result is overwritten.
ClearStatus(u) ==
    /\ Goto(u, "clear", "message")
    /\ _clear_intr_status
    /\ UNCHANGED <<busVars, callVars, start, rst, job, rdatasize, rdata, history, crashes, taints>>

\* _i2c_xfer: _wait_done(adap, hw, 0) before the first chunk of a message.
WaitIdle(u) ==
    /\ \/ ~start /\ Ok /\ Goto(u, "message", "fill") /\ UNCHANGED err
       \/ start /\ Ok /\ GotoErr(u, "message", "final", "busy")
       \/ Fail /\ GotoErr(u, "message", "final", "io")
    /\ UNCHANGED <<busVars, try, msgs, at, retry, engineVars, history, crashes, taints>>

(* Load wdata with the chunk of a write.  An error ends the loop, and is    *)
(* then overwritten by the result of the chunk itself.                     *)
Fill(u) ==
    /\ Goto(u, "fill", "cfg2")
    /\ \/ Ok /\ UNCHANGED unfilled
       \/ ~Msg(u).read /\ Fail /\ unfilled' = [unfilled EXCEPT ![u] = "chunk"]
    /\ UNCHANGED <<busVars, callVars, engineVars, ran, got, crashes, taints>>

\* _write_cfg2_retryable_cfg: an error is not retried, nor is cfg2 written
\* again when the access is.
WriteCfg2(u) ==
    /\ \/ /\ Ok /\ Goto(u, "cfg2", "start") /\ rdatasize' = RDataSize(u, at[u])
          /\ retry' = [retry EXCEPT ![u] = 0] /\ UNCHANGED err
       \/ /\ Fail /\ GotoErr(u, "cfg2", "final", "io")
          /\ rdatasize' \in {rdatasize, RDataSize(u, at[u])} /\ UNCHANGED retry
    /\ UNCHANGED <<busVars, try, msgs, at, start, rst, intSts, job, rdata, history, crashes, taints>>

\* _retryable_cfg: write cfg with STARTACCESS set and RST clear.
StartAccess(u) ==
    /\ \/ Ok /\ GotoErr(u, "start", "wait", "none")
       \/ Fail /\ GotoErr(u, "start", "reset", "io")
    /\ \/ start' = TRUE /\ rst' = FALSE /\ job' = <<u, at[u]>>
       \/ err'[u] = "io" /\ UNCHANGED <<start, rst, job>>
    /\ UNCHANGED <<busVars, try, msgs, at, retry, intSts, rdatasize, rdata, history, crashes, taints>>

\* _wait_done: STARTACCESS drops, or adap->timeout has passed.
WaitDone(u) ==
    /\ \/ ~start /\ Ok /\ Goto(u, "wait", "check") /\ UNCHANGED err
       \/ start /\ Ok /\ GotoErr(u, "wait", "reset", "busy")
       \/ Fail /\ GotoErr(u, "wait", "reset", "io")
    /\ UNCHANGED <<busVars, try, msgs, at, retry, engineVars, history, crashes, taints>>

\* The error code _check_err makes of the status bits.
StatusError ==
    CASE "timeout" \in intSts -> "again"
      [] "error" \in intSts -> "fault"
      [] "done" \notin intSts -> "busy"
      [] OTHER -> "none"

CheckErr(u) ==
    /\ pc[u] = "check"
    /\ \/ /\ Ok /\ StatusError # "none"
          /\ GotoErr(u, "check", "reset", StatusError) /\ UNCHANGED <<at, unfilled>>
       \/ Fail /\ GotoErr(u, "check", "reset", "io") /\ UNCHANGED <<at, unfilled>>
       \/ /\ Ok /\ StatusError = "none" /\ Msg(u).read
          /\ Goto(u, "check", "drain") /\ UNCHANGED <<at, err, unfilled>>
       \/ /\ Ok /\ StatusError = "none" /\ ~Msg(u).read
          /\ Advance(u, "check") /\ UNCHANGED err
          /\ unfilled' = [unfilled EXCEPT ![u] = IF @ = "chunk" THEN "rest" ELSE @]
       \* a failed Fill may have left bytes of the chunk to be sent
       \/ /\ Ok /\ StatusError = "none" /\ unfilled[u] = "chunk"
          /\ unfilled' = [unfilled EXCEPT ![u] = "rest"]
          /\ Goto(u, "check", "fill") /\ UNCHANGED <<at, err>>
    /\ UNCHANGED <<busVars, try, msgs, retry, engineVars, ran, got, crashes, taints>>

\* Copy the chunk of a read out of rdata, all of it whatever RDATASIZE was.
Drain(u) ==
    /\ \/ /\ Ok /\ Advance(u, "drain") /\ UNCHANGED err
          /\ got' = [got EXCEPT ![u] = Append(@, SubSeq(rdata, 1, Size(u, at[u])))]
       \/ Fail /\ GotoErr(u, "drain", "final", "io") /\ UNCHANGED <<at, got>>
    /\ UNCHANGED <<busVars, try, msgs, retry, engineVars, ran, unfilled, crashes, taints>>

(* _i2c_reset: RST on and, if that worked, off.  The caller ignores the    *)
(* result.                                                                 *)
Reset(u, from, next, after) ==
    /\ \/ Ok /\ Goto(u, from, next) /\ Abort
       \/ Fail /\ Goto(u, from, after) /\ (Abort \/ UNCHANGED <<start, rst, job>>)
    /\ UNCHANGED <<busVars, callVars, intSts, rdatasize, rdata, history, crashes, taints>>

Unreset(u, from, next) ==
    /\ Goto(u, from, next)
    /\ \/ Ok /\ rst' = FALSE
       \/ Fail /\ rst' \in {rst, FALSE}
    /\ UNCHANGED <<busVars, callVars, start, intSts, job, rdatasize, rdata, history, crashes, taints>>

\* _retryable_cfg, on error ...
RetryReset(u) == Reset(u, "reset", "unreset", "clear_retry")

RetryUnreset(u) == Unreset(u, "unreset", "clear_retry")

\* ... and e && (++retry <= adap->retries).
ClearRetry(u) ==
    /\ retry' = [retry EXCEPT ![u] = @ + 1]
    /\ Goto(u, "clear_retry", IF retry'[u] <= Retries THEN "start" ELSE "final")
    /\ _clear_intr_status
    /\ UNCHANGED <<busVars, try, msgs, at, err, start, rst, job, rdatasize, rdata, history, crashes, taints>>

\* cisco_fpga_i2c_xfer, on error.
FinalReset(u) == Reset(u, "final", "unfinal", "leave")

FinalUnreset(u) == Unreset(u, "unfinal", "leave")

\* The caller's state is gone.
Forget(u) ==
    /\ pc' = [pc EXCEPT ![u] = "idle"]
    /\ msgs' = [msgs EXCEPT ![u] = <<>>]
    /\ at' = [at EXCEPT ![u] = First]
    /\ retry' = [retry EXCEPT ![u] = 0]
    /\ err' = [err EXCEPT ![u] = "none"]
    /\ try' = [try EXCEPT ![u] = 0]
    /\ ran' = [ran EXCEPT ![u] = <<>>]
    /\ got' = [got EXCEPT ![u] = <<>>]
    /\ unfilled' = [unfilled EXCEPT ![u] = "no"]
    /\ job' = Disown(job, u)
    /\ rdata' = DisownWindow(u)
    /\ Segment!Leave({u})
    /\ IF tainted' /\ ~tainted THEN Disturbed ELSE UNCHANGED taints

\* master_xfer returns and unlock_bus is called ...
Return(u) ==
    /\ pc[u] = "leave"
    /\ Forget(u)
    /\ UNCHANGED <<start, rst, intSts, rdatasize, faults, crashes>>

\* ... but __i2c_transfer first repeats a transfer that returned -EAGAIN,
\* if that is still within adap->timeout.
TryAgain(u) ==
    /\ GotoErr(u, "leave", "clear", "none")
    /\ err[u] = "again" /\ try[u] < Retries
    /\ try' = [try EXCEPT ![u] = @ + 1]
    /\ at' = [at EXCEPT ![u] = First]
    /\ ran' = [ran EXCEPT ![u] = <<>>]
    /\ got' = [got EXCEPT ![u] = <<>>]
    /\ unfilled' = [unfilled EXCEPT ![u] = "no"]
    /\ job' = Disown(job, u)
    /\ rdata' = DisownWindow(u)
    /\ UNCHANGED <<busVars, msgs, retry, start, rst, intSts, rdatasize, budgets>>

\* The user's host restarts; the engine goes on with what it was doing.
Crash(u) ==
    /\ pc[u] # "idle"
    /\ crashes < CrashBudget
    /\ crashes' = crashes + 1
    /\ Forget(u)
    /\ UNCHANGED <<start, rst, intSts, rdatasize, faults>>

\* What the engine reports of an access: an error may come with DONE.
Reports == {{"done"}, {"error"}, {"timeout"}, {"done", "error"}}

\* The engine ends the access it was started on and reports how.  It fills the
\* window up to RDATASIZE, with bytes that count as no one's if it failed.
EngineEnds ==
    /\ start /\ ~rst
    /\ start' = FALSE /\ job' = None
    /\ \E s \in Reports : intSts' = intSts \cup s /\
        LET chunk == IF s = {"done"} THEN job ELSE Nobodys IN
        /\ rdata' = [k \in 1..BufSize |-> IF k <= rdatasize THEN chunk ELSE rdata[k]]
        /\ ran' = IF chunk = Nobodys THEN ran
                  ELSE [ran EXCEPT ![job[1]] = Append(@, job[2])]
    /\ UNCHANGED <<busVars, pc, callVars, rst, rdatasize, got, unfilled, budgets>>

\* The arbitration of the segment fails, or all its users have gone.
SegmentChanges ==
    /\ \/ Segment!Taint /\ ~tainted /\ Disturbed
       \/ Segment!Heal /\ UNCHANGED taints
    /\ UNCHANGED <<pc, callVars, engineVars, history, faults, crashes>>

Driver(u) ==
    \/ ClearStatus(u) \/ WaitIdle(u) \/ Fill(u) \/ WriteCfg2(u) \/ StartAccess(u)
    \/ WaitDone(u) \/ CheckErr(u) \/ Drain(u) \/ RetryReset(u) \/ RetryUnreset(u)
    \/ ClearRetry(u) \/ FinalReset(u) \/ FinalUnreset(u) \/ Return(u) \/ TryAgain(u)

Next ==
    \/ \E u \in User : Begin(u) \/ Register(u) \/ Driver(u) \/ Crash(u)
    \/ EngineEnds
    \/ SegmentChanges

Spec == Init /\ [][Next]_vars

\* The driver never stops between two accesses; the engine owes nothing.
FairSpec == Spec /\ \A u \in User : WF_vars(Driver(u))

-----------------------------------------------------------------------------
Chunk == {None, Nobodys} \cup (User \X Position)

TypeOK ==
    /\ Segment!TypeOK
    /\ pc \in [User -> PC]
    /\ msgs \in [User -> Transfers \cup {<<>>}]
    /\ at \in [User -> Position]
    /\ retry \in [User -> 0..(Retries + 1)]
    /\ err \in [User -> Err]
    /\ try \in [User -> 0..Retries]
    /\ start \in BOOLEAN /\ rst \in BOOLEAN
    /\ intSts \subseteq Status
    /\ job \in Chunk /\ rdatasize \in 0..HwBufSize /\ rdata \in [1..BufSize -> Chunk]
    /\ \A u \in User : ran[u] \in Seq(Position)
    /\ \A u \in User : got[u] \in Seq(Seq(Chunk))
    /\ unfilled \in [User -> {"no", "chunk", "rest"}]
    /\ faults \in 0..FaultBudget /\ crashes \in 0..CrashBudget /\ taints \in 0..TaintBudget

\* The chunks of u's transfer.
Positions(u) ==
    UNION {{[msg |-> m, chunk |-> k] : k \in 1..msgs[u][m].chunks} : m \in DOMAIN msgs[u]}

Reads(u) == {p \in Positions(u) : msgs[u][p.msg].read}

p \prec q == p.msg < q.msg \/ (p.msg = q.msg /\ p.chunk < q.chunk)

Times(u, p) == Cardinality({i \in 1..Len(ran[u]) : ran[u][i] = p})

\* A call that returns success to a user alone on the segment.
Succeeds(u) ==
    /\ pc[u] = "leave" /\ msgs[u] # <<>> /\ err[u] = "none"
    /\ ~tainted

(* Success means that the engine completed every chunk, in order: a status *)
(* left in the sticky register by an earlier chunk or user, or an access   *)
(* cut short by a reset, is never taken for it.  A failed write to the     *)
(* data window is the exception the code makes (cisco-fpga-i2c-ext.c:267). *)
SuccessMeansExecuted ==
    \A u \in User : Succeeds(u) /\ unfilled[u] = "no" =>
        /\ \A p \in Positions(u) : Times(u, p) > 0
        /\ \A i, j \in 1..Len(ran[u]) : i < j => ~(ran[u][j] \prec ran[u][i])

\* c is what was copied out for chunk p of u: as long as the chunk, and in its
\* first DRIVER_I2C_HW_BUF_SIZE bytes the chunk itself.
CopyOf(u, p, c) ==
    /\ Len(c) = Size(u, p)
    /\ \A k \in 1..Len(c) : k <= HwBufSize => c[k] = <<u, p>>

(* ... and every chunk of a read was copied out once, the first 256 bytes  *)
(* of it, which is all where hw->bufsize is 256, while the window held     *)
(* that chunk: not what another user, an aborted attempt or an access that *)
(* was programmed for less left there.  ReadsWhole is about the rest.      *)
ReadsOwnData ==
    \A u \in User : Succeeds(u) =>
        /\ Len(got[u]) = Cardinality(Reads(u))
        /\ \A p \in Reads(u) : \E i \in 1..Len(got[u]) : CopyOf(u, p, got[u][i])

(* All that a successful read returns is data of its own accesses.  This   *)
(* is what the 128 words of "rdata for v5" (i2c-ext.h:29) promise a chunk  *)
(* of up to 512 bytes; the code programs an access for at most 256 (line   *)
(* 230) and copies out up to 512 (line 246).                               *)
ReadsWhole ==
    \A u \in User : Succeeds(u) =>
        \A i \in 1..Len(got[u]), k \in 1..BufSize :
            k <= Len(got[u][i]) => \E p \in Reads(u) : got[u][i][k] = <<u, p>>

(* A chunk may reach the device more than once, as an attempt can fail     *)
(* after the engine has done its work, but not more often than retries     *)
(* allow.                                                                  *)
RepeatsBounded ==
    \A u \in User : ~tainted /\ unfilled[u] = "no" =>
        \A p \in Positions(u) : Times(u, p) <= Retries + 1

(* No access is started on an engine that is still busy, even with one     *)
(* that a restarted host left behind.                                      *)
StartsOnIdle ==
    \A u \in User : pc[u] = "start" /\ ~tainted /\ faults = 0 => ~start

(* A call that returns leaves the engine idle and out of reset, so that    *)
(* the next user of the segment never finds it busy.                       *)
LeavesIdle ==
    \A u \in User : pc[u] = "leave" /\ ~tainted /\ faults = 0 => ~start /\ ~rst

\* What is left of u's call, the outer loops first: the chunks it may have to
\* send again after a failed Fill, the tries of __i2c_transfer, the messages,
\* the chunks of the message, the attempts at the chunk, and the lines.
Lines == [leave |-> 0, unfinal |-> 1, final |-> 2, drain |-> 3, clear_retry |-> 4,
          unreset |-> 5, reset |-> 6, check |-> 7, wait |-> 8, start |-> 9,
          cfg2 |-> 10, fill |-> 11, message |-> 12, clear |-> 13]

Attempting == {"start", "wait", "check", "reset", "unreset", "clear_retry"}

Left(u) ==
    << 2 * (FaultBudget - faults) + (IF unfilled[u] = "chunk" THEN 1 ELSE 0),
       Retries - try[u],
       IF msgs[u] = <<>> THEN 0 ELSE Len(msgs[u]) - at[u].msg,
       IF msgs[u] = <<>> THEN 0 ELSE Msg(u).chunks - at[u].chunk,
       CASE pc[u] \in Attempting -> Retries - retry[u]
         [] pc[u] \in {"clear", "message", "fill", "cfg2"} -> Retries + 1
         [] OTHER -> 0,
       Lines[pc[u]] >>

a \sqsubset b ==
    /\ \A i \in 1..6 : a[i] \in Nat
    /\ \E i \in 1..6 : a[i] < b[i] /\ \A j \in 1..(i - 1) : a[j] = b[j]

(* Each step of a call leaves less of it, counted in natural numbers from  *)
(* the outermost loop inwards, and nobody else's step adds to it: no call  *)
(* goes round its nested loops for ever, whatever the engine, the other    *)
(* users and a failing arbitration do.  With the fairness of CallEnds this *)
(* is why it returns.                                                      *)
CallsShrink ==
    [][\A u \in User : pc[u] # "idle" /\ pc'[u] # "idle" =>
          \/ Left(u)' \sqsubset Left(u)
          \/ pc'[u] = pc[u] /\ Left(u)' = Left(u)]_vars

(* Every call returns, even if the engine never answers: bus users may     *)
(* count on the segment being unlocked again.                              *)
CallEnds == \A u \in User : pc[u] # "idle" ~> pc[u] = "idle"
=============================================================================
