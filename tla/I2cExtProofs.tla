---------------------------- MODULE I2cExtProofs ----------------------------
(***************************************************************************)
(* I2cExt: what a successful call has done, and the state of the engine    *)
(* between calls, for any number of users, any transfers, any number of    *)
(* retries, failing accesses, restarts and failures of the arbitration.    *)
(***************************************************************************)
EXTENDS I2cExt, FiniteSetTheorems, SequenceTheorems, WellFoundedInduction, TLAPS

Has(u, p) == \E i \in 1..Len(ran[u]) : ran[u][i] = p

InTransfer(u) ==
    /\ at[u].msg \in 1..Len(msgs[u])
    /\ at[u].chunk \in 1..msgs[u][at[u].msg].chunks

AtEnd(u) == at[u].msg = Len(msgs[u]) /\ at[u].chunk = msgs[u][at[u].msg].chunks

Shape ==
    /\ users \subseteq User /\ tainted \in BOOLEAN
    /\ pc \in [User -> PC]
    /\ msgs \in [User -> Transfers \cup {<<>>}]
    /\ at \in [User -> Position]
    /\ err \in [User -> Err]
    /\ start \in BOOLEAN /\ rst \in BOOLEAN
    /\ intSts \subseteq Status
    /\ job \in Chunk
    /\ ran \in [User -> Seq(Position)]
    /\ unfilled \in [User -> {"no", "chunk", "rest"}]
    /\ faults \in Nat

(* Who is on the segment, and what holds of calls also when it is tainted. *)
UsersInv ==
    /\ \A u \in User : u \in users <=> pc[u] # "idle"
    /\ tainted = FALSE => \A u, v \in users : u = v

CallInv(u) ==
    /\ pc[u] = "idle" => ran[u] = <<>> /\ at[u] = First /\ msgs[u] = <<>> /\ err[u] = "none"
                         /\ unfilled[u] = "no"
    /\ msgs[u] = <<>> => pc[u] \in {"idle", "final", "unfinal", "leave"} /\ err[u] = "none"
    /\ msgs[u] # <<>> => InTransfer(u)
    /\ pc[u] \in {"reset", "unreset", "clear_retry"} => err[u] # "none"
    /\ pc[u] \in {"final", "unfinal"} => err[u] # "none" \/ msgs[u] = <<>>

\* The engine works for somebody who has not left, or for nobody any more.
EngineInv ==
    /\ start = TRUE <=> job # None
    /\ \A u \in User, p \in Position : job = <<u, p>> => pc[u] # "idle"

(* A user alone: the engine works on its chunk, if on anything of its own; *)
(* when the start bit has dropped and no error is shown, it has completed  *)
(* the chunk; and it has completed all those before, in order.             *)
EngineOwn(u) ==
    /\ \A p \in Position : job = <<u, p>> =>
          /\ p = at[u]
          /\ pc[u] \notin {"clear", "message", "fill", "cfg2", "check", "drain"}
    /\ pc[u] \in {"fill", "cfg2", "check", "drain"} => start = FALSE
    /\ pc[u] = "wait" /\ start = TRUE => job = <<u, at[u]>>

Completed(u) ==
    /\ pc[u] \in {"wait", "check"} /\ start = FALSE /\ intSts \cap {"error", "timeout"} = {}
          => Has(u, at[u])
    /\ pc[u] = "drain" => Has(u, at[u])
    /\ pc[u] = "leave" /\ err[u] = "none" /\ msgs[u] # <<>> => AtEnd(u) /\ Has(u, at[u])

Behind(u) ==
    unfilled[u] = "no" => \A p \in Positions(u) : p \prec at[u] => Has(u, p)

InOrder(u) ==
    /\ \A i \in 1..Len(ran[u]) : ran[u][i] = at[u] \/ ran[u][i] \prec at[u]
    /\ \A i, j \in 1..Len(ran[u]) : i < j => ~(ran[u][j] \prec ran[u][i])

\* No access has failed: the engine is idle and out of reset where it should be.
Clean(u) ==
    faults = 0 =>
        /\ pc[u] \in {"start", "unreset", "clear_retry", "unfinal", "leave"} => start = FALSE
        /\ pc[u] \in {"wait", "check", "drain", "leave"} => rst = FALSE

Alone(u) == EngineOwn(u) /\ Completed(u) /\ Behind(u) /\ InOrder(u) /\ Clean(u)

Common == Shape /\ UsersInv /\ EngineInv /\ \A u \in User : CallInv(u)

IInv == Common /\ (tainted = FALSE => \A u \in User : Alone(u))

-----------------------------------------------------------------------------
\* The least that a user's step does and does not do.
Steps(u) == Begin(u) \/ Register(u) \/ Driver(u) \/ Crash(u)

LEMMA NextCases ==
    ASSUME [Next]_vars
    PROVE  (\E u \in User : Steps(u)) \/ EngineEnds \/ SegmentChanges \/ UNCHANGED vars
BY DEF Next, Steps

LEMMA TransferShape ==
    ASSUME NEW m \in Transfers
    PROVE  /\ m # <<>> /\ Len(m) \in Nat \ {0}
           /\ \A k \in 1..Len(m) : m[k].chunks \in Nat \ {0} /\ m[k].read \in BOOLEAN
                                   /\ m[k].last \in 1..BufSize
<1>1. m \in Seq([read : BOOLEAN, chunks : Nat \ {0}, last : 1..BufSize]) /\ m # <<>>
    BY TransfersAssumption
<1>2. Len(m) \in Nat /\ Len(m) # 0
    BY <1>1, EmptySeq
<1>3. \A k \in 1..Len(m) : m[k] \in [read : BOOLEAN, chunks : Nat \ {0}, last : 1..BufSize]
    BY <1>1, ElementOfSeq
<1> QED
    BY <1>1, <1>2, <1>3

\* A user alone who is idle owes nothing.
IdleOwesNothing == \A u \in User : Common /\ pc[u] = "idle" => Alone(u)

LEMMA IdleAlone == IdleOwesNothing
<1> SUFFICES ASSUME Common, NEW u \in User, pc[u] = "idle" PROVE Alone(u)
    BY DEF IdleOwesNothing
<1>1. ran[u] = <<>> /\ at[u] = First /\ msgs[u] = <<>> /\ CallInv(u)
    BY DEF Common, CallInv
<1>2. Len(ran[u]) = 0 /\ DOMAIN msgs[u] = {}
    BY <1>1
<1>3. EngineOwn(u)
    BY DEF EngineOwn, Common, EngineInv
<1>4. Behind(u) /\ InOrder(u)
    <2>1. Positions(u) = {}
        BY <1>2 DEF Positions
    <2> QED
        BY <1>2, <2>1 DEF Behind, InOrder
<1> QED
    BY <1>3, <1>4 DEF Alone, Completed, Clean

LEMMA IdleAloneNext == IdleOwesNothing'
BY IdleAlone, PTL

\* What Advance does to a call whose chunk is at[u].
LEMMA AdvanceStep ==
    ASSUME Shape, NEW u \in User, NEW from, Advance(u, from), msgs[u] # <<>>, InTransfer(u)
    PROVE  /\ pc[u] = from
           /\ at' \in [User -> Position]
           /\ at'[u].msg \in 1..Len(msgs[u]) /\ at'[u].chunk \in 1..msgs[u][at'[u].msg].chunks
           /\ \E to \in {"fill", "message", "leave"} :
                 /\ pc' = [pc EXCEPT ![u] = to]
                 /\ IF to = "leave" THEN at' = at /\ AtEnd(u) ELSE at[u] \prec at'[u]
           /\ \A v \in User : v # u => at'[v] = at[v]
           /\ at'[u] = at[u] \/ at[u] \prec at'[u]
           /\ \A p \in Positions(u) : p \prec at'[u] => p \prec at[u] \/ p = at[u]
<1> DEFINE m == msgs[u]
           a == at[u]
<1>1. m \in Transfers /\ a \in Position
    BY DEF Shape
<1>2. /\ Len(m) \in Nat
      /\ \A k \in 1..Len(m) : m[k].chunks \in Nat \ {0}
    BY <1>1, TransferShape
<1>3. a.msg \in 1..Len(m) /\ a.chunk \in 1..m[a.msg].chunks
    BY DEF InTransfer
<1>4. \A p \in Positions(u) : p \in Position /\ p.chunk <= m[p.msg].chunks
    <2>1. DOMAIN m = 1..Len(m)
        BY <1>1, TransfersAssumption
    <2> QED
        BY <1>2, <2>1 DEF Positions, Position
<1>5. CASE /\ a.chunk < m[a.msg].chunks
           /\ at' = [at EXCEPT ![u].chunk = @ + 1]
           /\ Goto(u, from, "fill")
    <2>1. /\ at'[u] = [a EXCEPT !.chunk = a.chunk + 1]
          /\ \A v \in User : v # u => at'[v] = at[v]
          /\ a = [msg |-> a.msg, chunk |-> a.chunk]
          /\ DOMAIN at' = User /\ at' = [v \in User |-> at'[v]]
        BY <1>1, <1>5 DEF Shape, Position
    <2>2. at'[u] = [msg |-> a.msg, chunk |-> a.chunk + 1] /\ at' \in [User -> Position]
        <3>1. at'[u] = [[msg |-> a.msg, chunk |-> a.chunk] EXCEPT !.chunk = a.chunk + 1]
            BY <2>1
        <3>2. at'[u] = [msg |-> a.msg, chunk |-> a.chunk + 1]
            BY <3>1
        <3>3. at'[u] \in Position
            BY <1>1, <3>2 DEF Position
        <3> QED
            BY <2>1, <3>2, <3>3 DEF Shape
    <2>3. \A p \in Position : p \prec at'[u] => p \prec a \/ p = a
        BY <1>1, <2>2 DEF \prec, Position
    <2>4. a \prec at'[u]
        BY <1>1, <2>2 DEF \prec, Position
    <2> QED
        BY <1>1, <1>2, <1>3, <1>4, <1>5, <2>1, <2>2, <2>3, <2>4 DEF Goto, Position
<1>6. CASE /\ a.chunk = m[a.msg].chunks /\ a.msg < Len(m)
           /\ at' = [at EXCEPT ![u] = [msg |-> @.msg + 1, chunk |-> 1]]
           /\ Goto(u, from, "message")
    <2>1. at'[u] = [msg |-> a.msg + 1, chunk |-> 1] /\ at' \in [User -> Position]
        BY <1>1, <1>6 DEF Shape, Position
    <2>2. \A p \in Positions(u) : p \prec at'[u] => p \prec a \/ p = a
        <3> SUFFICES ASSUME NEW p \in Positions(u), p \prec at'[u] PROVE p \prec a \/ p = a
            OBVIOUS
        <3>1. p \in Position /\ p.chunk <= m[p.msg].chunks /\ p.chunk # 0
            BY <1>2, <1>4 DEF Positions
        <3>2. p.msg <= a.msg
            BY <1>1, <2>1, <3>1 DEF \prec, Position
        <3>3. p.msg = a.msg => p.chunk <= a.chunk
            BY <1>6, <3>1
        <3> QED
            BY <1>1, <3>1, <3>2, <3>3 DEF \prec, Position
    <2>3. a \prec at'[u]
        BY <1>1, <2>1 DEF \prec, Position
    <2> QED
        BY <1>1, <1>2, <1>3, <1>6, <2>1, <2>2, <2>3 DEF Goto, Position, Shape
<1>7. CASE /\ a.chunk = m[a.msg].chunks /\ a.msg = Len(m)
           /\ Goto(u, from, "leave")
           /\ UNCHANGED at
    BY <1>1, <1>3, <1>7 DEF Goto, AtEnd, Shape
<1> QED
    BY <1>5, <1>6, <1>7 DEF Advance, Msg

-----------------------------------------------------------------------------
\* A step in the middle of u's call: what it changes of others and of faults.
CallMoves(u) ==
    /\ pc[u] # "idle" /\ UNCHANGED <<users, tainted, msgs>>
    /\ \E to \in PC \ {"idle"} : pc' = [pc EXCEPT ![u] = to]
    /\ \A v \in User : v # u => at'[v] = at[v] /\ err'[v] = err[v] /\ ran'[v] = ran[v]
                                 /\ unfilled'[v] = unfilled[v]

\* If u's part of the invariant holds after it, all of it does.
LEMMA CallMovesStep ==
    ASSUME IInv, NEW u \in User, CallMoves(u), Shape', CallInv(u)', EngineInv',
           tainted = FALSE => Alone(u)'
    PROVE  IInv'
<1> USE DEF IInv, Common
<1>1. PICK to \in PC \ {"idle"} : pc' = [pc EXCEPT ![u] = to]
    BY DEF CallMoves
<1>2. \A v \in User : v # u => pc'[v] = pc[v] /\ at'[v] = at[v] /\ err'[v] = err[v]
                                /\ ran'[v] = ran[v] /\ unfilled'[v] = unfilled[v]
    BY <1>1 DEF CallMoves, Shape
<1>3. pc[u] # "idle" /\ pc'[u] # "idle" /\ UNCHANGED <<users, tainted, msgs>>
    BY <1>1 DEF CallMoves, Shape
<1>4. UsersInv'
    BY <1>2, <1>3 DEF UsersInv
<1>5. ASSUME NEW v \in User PROVE CallInv(v)'
    BY <1>2, <1>3 DEF CallInv, InTransfer
<1>6. Common'
    BY <1>4, <1>5
<1>7. ASSUME tainted' = FALSE, NEW v \in User PROVE Alone(v)'
    <2>1. CASE v = u
        BY <1>3, <1>7, <2>1
    <2>2. CASE v # u
        <3>1. pc'[v] = "idle"
            BY <1>2, <1>3, <1>7, <2>2 DEF UsersInv
        <3> QED
            BY <1>6, <3>1, IdleAloneNext DEF IdleOwesNothing
    <2> QED
        BY <2>1, <2>2
<1> QED
    BY <1>6, <1>7

\* Behind and InOrder depend on what the call has reached and completed only.
LEMMA SameProgress ==
    ASSUME NEW u \in User, UNCHANGED <<msgs, ran>>, at'[u] = at[u],
           unfilled'[u] = "no" => unfilled[u] = "no", Behind(u), InOrder(u)
    PROVE  Behind(u)' /\ InOrder(u)'
BY DEF Behind, InOrder, Positions, Has

\* u's next chunk, once the one before is completed.
LEMMA NextChunk ==
    ASSUME Shape, NEW u \in User, UNCHANGED <<msgs, ran>>,
           unfilled'[u] = "no" => unfilled[u] = "no", Behind(u), InOrder(u), Has(u, at[u]),
           at[u] \in Position, at'[u] \in Position,
           at'[u] = at[u] \/ at[u] \prec at'[u],
           \A p \in Positions(u) : p \prec at'[u] => p \prec at[u] \/ p = at[u]
    PROVE  Behind(u)' /\ InOrder(u)'
<1>1. Positions(u)' = Positions(u)
    BY DEF Positions
<1>2. Behind(u)'
    BY <1>1 DEF Behind, Has
<1>3. \A i \in 1..Len(ran[u]) : ran[u][i] \in Position
    BY ElementOfSeq DEF Shape
<1>4. \A p \in Position : p = at[u] \/ p \prec at[u] => p = at'[u] \/ p \prec at'[u]
    BY DEF \prec, Position
<1>5. InOrder(u)'
    BY <1>3, <1>4 DEF InOrder
<1> QED
    BY <1>2, <1>5


-----------------------------------------------------------------------------
LEMMA FaultsStay ==
    ASSUME Shape, Ok \/ Fail
    PROVE  faults' \in Nat /\ (faults' = 0 => faults = 0 /\ ~Fail)
BY DEF Shape, Ok, Fail

LEMMA EngineStays ==
    ASSUME Shape, EngineInv, NEW u \in User, CallMoves(u),
           (start' = start /\ job' = job) \/ (start' = FALSE /\ job' = None)
    PROVE  EngineInv'
<1>1. \A v \in User : pc[v] # "idle" => pc'[v] # "idle"
    BY DEF CallMoves, Shape
<1>2. \A v \in User, p \in Position : <<v, p>> # None
    BY DEF None
<1> QED
    BY <1>1, <1>2 DEF EngineInv

\* Fill, WriteCfg2, WaitDone and ClearRetry leave the engine alone, but for
\* its status; so do the first accesses of a call and a message.
LEMMA ClearStatusStep ==
    ASSUME IInv, NEW u \in User, ClearStatus(u)
    PROVE  IInv'
<1> USE DEF IInv, Common
<1>1. /\ pc[u] = "clear" /\ pc' = [pc EXCEPT ![u] = "message"] /\ intSts' \subseteq Status
      /\ Ok \/ Fail
      /\ UNCHANGED <<users, tainted, msgs, at, err, unfilled, start, rst, job, ran>>
    BY DEF ClearStatus, Goto, _clear_intr_status, Shape, busVars, callVars, history
<1>2. Shape' /\ CallMoves(u) /\ pc'[u] = "message"
    BY <1>1, FaultsStay DEF Shape, CallMoves, PC
<1>3. CallInv(u)'
    BY <1>1, <1>2 DEF CallInv, InTransfer
<1>4. ASSUME tainted = FALSE PROVE Alone(u)'
    <2>1. EngineOwn(u)' /\ Completed(u)' /\ Clean(u)'
        BY <1>1, <1>2, <1>4 DEF Alone, EngineOwn, Completed, Clean
    <2>2. Behind(u)' /\ InOrder(u)'
        BY <1>1, <1>4, SameProgress DEF Alone
    <2> QED
        BY <2>1, <2>2 DEF Alone
<1> QED
    BY <1>1, <1>2, <1>3, <1>4, EngineStays, CallMovesStep

LEMMA WaitIdleStep ==
    ASSUME IInv, NEW u \in User, WaitIdle(u)
    PROVE  IInv'
<1> USE DEF IInv, Common
<1>1. PICK to \in {"fill", "final"} :
        /\ pc[u] = "message" /\ pc' = [pc EXCEPT ![u] = to]
        /\ to = "fill" => start = FALSE /\ err' = err
        /\ to = "final" => \E e \in {"io", "busy"} : err' = [err EXCEPT ![u] = e]
        /\ Ok \/ Fail
    <2>1. CASE ~start /\ Ok /\ Goto(u, "message", "fill") /\ UNCHANGED err
        BY <2>1 DEF Goto
    <2>2. CASE start /\ Ok /\ GotoErr(u, "message", "final", "busy")
        BY <2>2 DEF GotoErr, Goto
    <2>3. CASE Fail /\ GotoErr(u, "message", "final", "io")
        BY <2>3 DEF GotoErr, Goto
    <2> QED
        BY <2>1, <2>2, <2>3 DEF WaitIdle
<1>2. UNCHANGED <<users, tainted, msgs, at, unfilled, start, rst, intSts, job, ran>>
    BY DEF WaitIdle, busVars, engineVars, history
<1>3. Shape' /\ CallMoves(u) /\ pc'[u] = to
    BY <1>1, <1>2, FaultsStay DEF Shape, CallMoves, PC, Err
<1>4. CallInv(u)'
    BY <1>1, <1>2, <1>3 DEF CallInv, InTransfer, Shape
<1>5. ASSUME tainted = FALSE PROVE Alone(u)'
    <2>1. EngineOwn(u)' /\ Completed(u)' /\ Clean(u)'
        BY <1>1, <1>2, <1>3, <1>5 DEF Alone, EngineOwn, Completed, Clean
    <2>2. Behind(u)' /\ InOrder(u)'
        BY <1>2, <1>5, SameProgress DEF Alone
    <2> QED
        BY <2>1, <2>2 DEF Alone
<1> QED
    BY <1>2, <1>3, <1>4, <1>5, EngineStays, CallMovesStep

LEMMA FillStep ==
    ASSUME IInv, NEW u \in User, Fill(u)
    PROVE  IInv'
<1> USE DEF IInv, Common
<1>1. /\ pc[u] = "fill" /\ pc' = [pc EXCEPT ![u] = "cfg2"]
      /\ unfilled' = unfilled \/ unfilled' = [unfilled EXCEPT ![u] = "chunk"]
      /\ Ok \/ Fail
      /\ UNCHANGED <<users, tainted, msgs, at, err, start, rst, intSts, job, ran>>
    BY DEF Fill, Goto, busVars, callVars, engineVars
<1>2. Shape' /\ CallMoves(u) /\ pc'[u] = "cfg2"
    BY <1>1, FaultsStay DEF Shape, CallMoves, PC
<1>3. CallInv(u)'
    BY <1>1, <1>2 DEF CallInv, InTransfer
<1>4. ASSUME tainted = FALSE PROVE Alone(u)'
    <2>1. EngineOwn(u)' /\ Completed(u)' /\ Clean(u)'
        BY <1>1, <1>2, <1>4 DEF Alone, EngineOwn, Completed, Clean
    <2>2. unfilled'[u] = "no" => unfilled[u] = "no"
        BY <1>1 DEF Shape
    <2>3. Behind(u)' /\ InOrder(u)'
        BY <1>1, <1>4, <2>2, SameProgress DEF Alone
    <2> QED
        BY <2>1, <2>3 DEF Alone
<1> QED
    BY <1>1, <1>2, <1>3, <1>4, EngineStays, CallMovesStep

LEMMA WriteCfg2Step ==
    ASSUME IInv, NEW u \in User, WriteCfg2(u)
    PROVE  IInv'
<1> USE DEF IInv, Common
<1>1. PICK to \in {"start", "final"} :
        /\ pc[u] = "cfg2" /\ pc' = [pc EXCEPT ![u] = to]
        /\ to = "start" => err' = err
        /\ to = "final" => err' = [err EXCEPT ![u] = "io"]
        /\ Ok \/ Fail
    <2>1. CASE Ok /\ Goto(u, "cfg2", "start") /\ UNCHANGED err
        BY <2>1 DEF Goto
    <2>2. CASE Fail /\ GotoErr(u, "cfg2", "final", "io")
        BY <2>2 DEF GotoErr, Goto
    <2> QED
        BY <2>1, <2>2 DEF WriteCfg2
<1>2. UNCHANGED <<users, tainted, msgs, at, unfilled, start, rst, intSts, job, ran>>
    BY DEF WriteCfg2, busVars, engineVars, history
<1>3. Shape' /\ CallMoves(u) /\ pc'[u] = to
    BY <1>1, <1>2, FaultsStay DEF Shape, CallMoves, PC, Err
<1>4. CallInv(u)'
    BY <1>1, <1>2, <1>3 DEF CallInv, InTransfer, Shape
<1>5. ASSUME tainted = FALSE PROVE Alone(u)'
    <2>1. EngineOwn(u)' /\ Completed(u)' /\ Clean(u)'
        BY <1>1, <1>2, <1>3, <1>5 DEF Alone, EngineOwn, Completed, Clean
    <2>2. Behind(u)' /\ InOrder(u)'
        BY <1>2, <1>5, SameProgress DEF Alone
    <2> QED
        BY <2>1, <2>2 DEF Alone
<1> QED
    BY <1>2, <1>3, <1>4, <1>5, EngineStays, CallMovesStep


LEMMA StartAccessStep ==
    ASSUME IInv, NEW u \in User, StartAccess(u)
    PROVE  IInv'
<1> USE DEF IInv, Common
<1>1. PICK to \in {"wait", "reset"} :
        /\ pc[u] = "start" /\ pc' = [pc EXCEPT ![u] = to]
        /\ to = "wait" => Ok /\ err' = [err EXCEPT ![u] = "none"]
        /\ to = "reset" => Fail /\ err' = [err EXCEPT ![u] = "io"]
    <2>1. CASE Ok /\ GotoErr(u, "start", "wait", "none")
        BY <2>1 DEF GotoErr, Goto
    <2>2. CASE Fail /\ GotoErr(u, "start", "reset", "io")
        BY <2>2 DEF GotoErr, Goto
    <2> QED
        BY <2>1, <2>2 DEF StartAccess
<1>2. \/ start' = TRUE /\ rst' = FALSE /\ job' = <<u, at[u]>>
      \/ to = "reset" /\ UNCHANGED <<start, rst, job>>
    BY <1>1 DEF StartAccess, Shape
<1>3. UNCHANGED <<users, tainted, msgs, at, unfilled, intSts, ran>>
    BY DEF StartAccess, busVars, history
<1>4. at[u] \in Position /\ <<u, at[u]>> \in Chunk /\ <<u, at[u]>> # None
    BY DEF Shape, Chunk, None
<1>5. Shape' /\ CallMoves(u) /\ pc'[u] = to
    BY <1>1, <1>2, <1>3, <1>4, FaultsStay DEF Shape, CallMoves, PC, Err
<1>6. CallInv(u)'
    BY <1>1, <1>3, <1>5 DEF CallInv, InTransfer, Shape
<1>7. EngineInv'
    <2>1. CASE start' = TRUE /\ rst' = FALSE /\ job' = <<u, at[u]>>
        <3>1. \A v \in User, p \in Position : job' = <<v, p>> => v = u
            BY <2>1
        <3> QED
            BY <1>4, <1>5, <2>1, <3>1 DEF EngineInv
    <2>2. CASE UNCHANGED <<start, rst, job>>
        BY <1>5, <2>2, EngineStays
    <2> QED
        BY <1>2, <2>1, <2>2
<1>8. ASSUME tainted = FALSE PROVE Alone(u)'
    <2>1. EngineOwn(u)'
        <3>1. CASE job' = <<u, at[u]>>
            BY <1>1, <1>3, <1>5, <3>1 DEF EngineOwn
        <3>2. CASE UNCHANGED <<start, rst, job>> /\ to = "reset"
            BY <1>3, <1>5, <1>8, <3>2 DEF Alone, EngineOwn
        <3> QED
            BY <1>1, <1>2, <3>1, <3>2
    <2>2. Completed(u)'
        BY <1>2, <1>5 DEF Completed
    <2>3. Clean(u)'
        BY <1>1, <1>2, <1>5, FaultsStay DEF Clean
    <2>4. Behind(u)' /\ InOrder(u)'
        BY <1>3, <1>8, SameProgress DEF Alone
    <2> QED
        BY <2>1, <2>2, <2>3, <2>4 DEF Alone
<1> QED
    BY <1>5, <1>6, <1>7, <1>8, CallMovesStep

LEMMA WaitDoneStep ==
    ASSUME IInv, NEW u \in User, WaitDone(u)
    PROVE  IInv'
<1> USE DEF IInv, Common
<1>1. PICK to \in {"check", "reset"} :
        /\ pc[u] = "wait" /\ pc' = [pc EXCEPT ![u] = to]
        /\ to = "check" => start = FALSE /\ err' = err
        /\ to = "reset" => \E e \in {"io", "busy"} : err' = [err EXCEPT ![u] = e]
        /\ Ok \/ Fail
    <2>1. CASE ~start /\ Ok /\ Goto(u, "wait", "check") /\ UNCHANGED err
        BY <2>1 DEF Goto
    <2>2. CASE start /\ Ok /\ GotoErr(u, "wait", "reset", "busy")
        BY <2>2 DEF GotoErr, Goto
    <2>3. CASE Fail /\ GotoErr(u, "wait", "reset", "io")
        BY <2>3 DEF GotoErr, Goto
    <2> QED
        BY <2>1, <2>2, <2>3 DEF WaitDone
<1>2. UNCHANGED <<users, tainted, msgs, at, unfilled, start, rst, intSts, job, ran>>
    BY DEF WaitDone, busVars, engineVars, history
<1>3. Shape' /\ CallMoves(u) /\ pc'[u] = to
    BY <1>1, <1>2, FaultsStay DEF Shape, CallMoves, PC, Err
<1>4. CallInv(u)'
    BY <1>1, <1>2, <1>3 DEF CallInv, InTransfer, Shape
<1>5. ASSUME tainted = FALSE PROVE Alone(u)'
    <2>1. EngineOwn(u)' /\ Clean(u)'
        <3>1. to = "check" => job = None
            BY <1>1 DEF EngineInv
        <3>2. \A p \in Position : <<u, p>> # None
            BY DEF None
        <3> QED
            BY <1>1, <1>2, <1>3, <1>5, <3>1, <3>2, FaultsStay DEF Alone, EngineOwn, Clean
    <2>2. Completed(u)'
        BY <1>1, <1>2, <1>3, <1>5 DEF Alone, Completed, Has
    <2>3. Behind(u)' /\ InOrder(u)'
        BY <1>2, <1>5, SameProgress DEF Alone
    <2> QED
        BY <2>1, <2>2, <2>3 DEF Alone
<1> QED
    BY <1>2, <1>3, <1>4, <1>5, EngineStays, CallMovesStep

LEMMA ClearRetryStep ==
    ASSUME IInv, NEW u \in User, ClearRetry(u)
    PROVE  IInv'
<1> USE DEF IInv, Common
<1>1. PICK to \in {"start", "final"} :
        /\ pc[u] = "clear_retry" /\ pc' = [pc EXCEPT ![u] = to]
        /\ Ok \/ Fail
        /\ intSts' \subseteq Status
    BY DEF ClearRetry, Goto, _clear_intr_status, Shape
<1>2. UNCHANGED <<users, tainted, msgs, at, err, unfilled, start, rst, job, ran>>
    BY DEF ClearRetry, busVars, history
<1>3. Shape' /\ CallMoves(u) /\ pc'[u] = to
    BY <1>1, <1>2, FaultsStay DEF Shape, CallMoves, PC
<1>4. CallInv(u)'
    BY <1>1, <1>2, <1>3 DEF CallInv, InTransfer
<1>5. ASSUME tainted = FALSE PROVE Alone(u)'
    <2>1. EngineOwn(u)' /\ Completed(u)' /\ Clean(u)'
        BY <1>1, <1>2, <1>3, <1>5, FaultsStay DEF Alone, EngineOwn, Completed, Clean
    <2>2. Behind(u)' /\ InOrder(u)'
        BY <1>2, <1>5, SameProgress DEF Alone
    <2> QED
        BY <2>1, <2>2 DEF Alone
<1> QED
    BY <1>2, <1>3, <1>4, <1>5, EngineStays, CallMovesStep

LEMMA ResetStep ==
    ASSUME IInv, NEW u \in User, RetryReset(u) \/ FinalReset(u)
    PROVE  IInv'
<1> USE DEF IInv, Common
<1>1. PICK to \in {"unreset", "clear_retry", "unfinal", "leave"} :
        /\ pc' = [pc EXCEPT ![u] = to]
        /\ \/ pc[u] = "reset" /\ to \in {"unreset", "clear_retry"}
           \/ pc[u] = "final" /\ to \in {"unfinal", "leave"}
        /\ to \in {"unreset", "unfinal"} => start' = FALSE
        /\ to \in {"clear_retry", "leave"} => Fail
        /\ Ok \/ Fail
        /\ \/ start' = FALSE /\ rst' = TRUE /\ job' = None
           \/ UNCHANGED <<start, rst, job>>
        /\ UNCHANGED <<users, tainted, msgs, at, err, unfilled, intSts, ran>>
    BY DEF RetryReset, FinalReset, Reset, Goto, Abort, busVars, callVars, history
<1>2. None \in Chunk /\ \A p \in Position : <<u, p>> # None
    BY DEF Chunk, None
<1>3. Shape' /\ CallMoves(u) /\ pc'[u] = to
    BY <1>1, <1>2, FaultsStay DEF Shape, CallMoves, PC
<1>4. CallInv(u)'
    BY <1>1, <1>3 DEF CallInv, InTransfer
<1>5. ASSUME tainted = FALSE PROVE Alone(u)'
    <2>1. EngineOwn(u)'
        BY <1>1, <1>2, <1>3, <1>5 DEF Alone, EngineOwn
    <2>2. Completed(u)'
        BY <1>1, <1>3 DEF Completed, CallInv
    <2>3. Clean(u)'
        BY <1>1, <1>3, FaultsStay DEF Clean
    <2>4. Behind(u)' /\ InOrder(u)'
        BY <1>1, <1>5, SameProgress DEF Alone
    <2> QED
        BY <2>1, <2>2, <2>3, <2>4 DEF Alone
<1> QED
    BY <1>1, <1>3, <1>4, <1>5, EngineStays, CallMovesStep

LEMMA UnresetStep ==
    ASSUME IInv, NEW u \in User, RetryUnreset(u) \/ FinalUnreset(u)
    PROVE  IInv'
<1> USE DEF IInv, Common
<1>1. PICK to \in {"clear_retry", "leave"} :
        /\ pc' = [pc EXCEPT ![u] = to]
        /\ \/ pc[u] = "unreset" /\ to = "clear_retry"
           \/ pc[u] = "unfinal" /\ to = "leave"
        /\ \/ Ok /\ rst' = FALSE
           \/ Fail /\ rst' \in {rst, FALSE}
        /\ UNCHANGED <<users, tainted, msgs, at, err, unfilled, start, intSts, job, ran>>
    BY DEF RetryUnreset, FinalUnreset, Unreset, Goto, busVars, callVars, history
<1>2. Shape' /\ CallMoves(u) /\ pc'[u] = to
    BY <1>1, FaultsStay DEF Shape, CallMoves, PC
<1>3. CallInv(u)'
    BY <1>1, <1>2 DEF CallInv, InTransfer
<1>4. ASSUME tainted = FALSE PROVE Alone(u)'
    <2>1. EngineOwn(u)' /\ Completed(u)'
        BY <1>1, <1>2, <1>4 DEF Alone, EngineOwn, Completed, CallInv
    <2>2. Clean(u)'
        BY <1>1, <1>2, <1>4, FaultsStay DEF Alone, Clean
    <2>3. Behind(u)' /\ InOrder(u)'
        BY <1>1, <1>4, SameProgress DEF Alone
    <2> QED
        BY <2>1, <2>2, <2>3 DEF Alone
<1> QED
    BY <1>1, <1>2, <1>3, <1>4, EngineStays, CallMovesStep


\* The chunk at[u] is completed and the call goes on to the next, or returns.
LEMMA AdvancesStep ==
    ASSUME IInv, NEW u \in User, Advance(u, pc[u]), pc[u] \in {"check", "drain"}, Ok,
           unfilled' \in [User -> {"no", "chunk", "rest"}],
           \A v \in User : v # u => unfilled'[v] = unfilled[v],
           unfilled'[u] = "no" => unfilled[u] = "no",
           UNCHANGED <<users, tainted, msgs, err, start, rst, intSts, job, ran>>,
           tainted = FALSE => Has(u, at[u])
    PROVE  IInv'
<1> USE DEF IInv, Common
<1>1. msgs[u] # <<>> /\ InTransfer(u)
    BY DEF CallInv
<1>2. /\ at' \in [User -> Position] /\ at[u] \in Position
      /\ at'[u].msg \in 1..Len(msgs[u]) /\ at'[u].chunk \in 1..msgs[u][at'[u].msg].chunks
      /\ \A v \in User : v # u => at'[v] = at[v]
      /\ at'[u] = at[u] \/ at[u] \prec at'[u]
      /\ \A p \in Positions(u) : p \prec at'[u] => p \prec at[u] \/ p = at[u]
    BY <1>1, AdvanceStep DEF Shape
<1>3. PICK to \in {"fill", "message", "leave"} :
          /\ pc' = [pc EXCEPT ![u] = to]
          /\ to = "leave" => at' = at /\ AtEnd(u)
    BY <1>1, AdvanceStep
<1>4. Shape' /\ CallMoves(u) /\ pc'[u] = to
    BY <1>2, <1>3, FaultsStay DEF Shape, CallMoves, PC
<1>5. CallInv(u)'
    BY <1>1, <1>2, <1>4 DEF CallInv, InTransfer
<1>6. ASSUME tainted = FALSE PROVE Alone(u)'
    <2>1. start = FALSE /\ job = None /\ (faults = 0 => rst = FALSE)
        BY <1>6 DEF Alone, EngineOwn, EngineInv, Clean
    <2>2. EngineOwn(u)' /\ Clean(u)'
        <3>1. \A p \in Position : <<u, p>> # None
            BY DEF None
        <3> QED
            BY <1>4, <2>1, <3>1, FaultsStay DEF EngineOwn, Clean
    <2>3. Completed(u)'
        BY <1>3, <1>4, <1>6 DEF Completed, AtEnd, Has
    <2>4. Behind(u)' /\ InOrder(u)'
        BY <1>2, <1>6, NextChunk DEF Alone
    <2> QED
        BY <2>2, <2>3, <2>4 DEF Alone
<1> QED
    BY <1>4, <1>5, <1>6, EngineStays, CallMovesStep

LEMMA CheckErrStep ==
    ASSUME IInv, NEW u \in User, CheckErr(u)
    PROVE  IInv'
<1> USE DEF IInv, Common
<1>1. /\ pc[u] = "check"
      /\ UNCHANGED <<users, tainted, msgs, start, rst, intSts, job, ran>>
    BY DEF CheckErr, busVars, engineVars
<1>2. ASSUME StatusError = "none", tainted = FALSE PROVE Has(u, at[u])
    <2>1. intSts \cap {"error", "timeout"} = {}
        BY <1>2 DEF StatusError
    <2> QED
        BY <1>1, <1>2, <2>1 DEF Alone, EngineOwn, Completed
<1>3. CASE \/ Ok /\ StatusError # "none" /\ GotoErr(u, "check", "reset", StatusError)
                 /\ UNCHANGED <<at, unfilled>>
           \/ Fail /\ GotoErr(u, "check", "reset", "io") /\ UNCHANGED <<at, unfilled>>
    <2>1. PICK e \in Err \ {"none"} :
            pc' = [pc EXCEPT ![u] = "reset"] /\ err' = [err EXCEPT ![u] = e]
        BY <1>3 DEF GotoErr, Goto, StatusError, Err
    <2>2. Shape' /\ CallMoves(u) /\ pc'[u] = "reset" /\ err'[u] = e
        BY <1>1, <1>3, <2>1, FaultsStay DEF Shape, CallMoves, PC
    <2>3. CallInv(u)'
        BY <1>1, <1>3, <2>2 DEF CallInv, InTransfer
    <2>4. ASSUME tainted = FALSE PROVE Alone(u)'
        <3>1. EngineOwn(u)' /\ Completed(u)' /\ Clean(u)'
            BY <1>1, <1>3, <2>2, <2>4 DEF Alone, EngineOwn, Completed, Clean
        <3>2. Behind(u)' /\ InOrder(u)'
            BY <1>1, <1>3, <2>4, SameProgress DEF Alone
        <3> QED
            BY <3>1, <3>2 DEF Alone
    <2> QED
        BY <1>1, <2>2, <2>3, <2>4, EngineStays, CallMovesStep
<1>4. CASE Ok /\ StatusError = "none" /\ Goto(u, "check", "drain") /\ UNCHANGED <<at, err, unfilled>>
    <2>1. Shape' /\ CallMoves(u) /\ pc'[u] = "drain"
        BY <1>1, <1>4, FaultsStay DEF Shape, CallMoves, PC, Goto
    <2>2. CallInv(u)'
        BY <1>1, <1>4, <2>1 DEF CallInv, InTransfer
    <2>3. ASSUME tainted = FALSE PROVE Alone(u)'
        <3>1. EngineOwn(u)' /\ Clean(u)'
            BY <1>1, <1>4, <2>1, <2>3, FaultsStay DEF Alone, EngineOwn, Clean
        <3>2. Completed(u)'
            BY <1>1, <1>2, <1>4, <2>1, <2>3 DEF Completed, Has
        <3>3. Behind(u)' /\ InOrder(u)'
            BY <1>1, <1>4, <2>3, SameProgress DEF Alone
        <3> QED
            BY <3>1, <3>2, <3>3 DEF Alone
    <2> QED
        BY <1>1, <2>1, <2>2, <2>3, EngineStays, CallMovesStep
<1>5. CASE /\ Ok /\ StatusError = "none" /\ Advance(u, "check") /\ UNCHANGED err
           /\ unfilled' = [unfilled EXCEPT ![u] = IF @ = "chunk" THEN "rest" ELSE @]
    <2>1. /\ unfilled' \in [User -> {"no", "chunk", "rest"}]
          /\ \A v \in User : v # u => unfilled'[v] = unfilled[v]
          /\ unfilled'[u] = "no" => unfilled[u] = "no"
        BY <1>5 DEF Shape
    <2> QED
        BY <1>1, <1>2, <1>5, <2>1, AdvancesStep
<1>6. CASE /\ Ok /\ unfilled[u] = "chunk"
           /\ unfilled' = [unfilled EXCEPT ![u] = "rest"]
           /\ Goto(u, "check", "fill") /\ UNCHANGED <<at, err>>
    <2>1. Shape' /\ CallMoves(u) /\ pc'[u] = "fill"
        BY <1>1, <1>6, FaultsStay DEF Shape, CallMoves, PC, Goto
    <2>2. CallInv(u)'
        BY <1>1, <1>6, <2>1 DEF CallInv, InTransfer
    <2>3. ASSUME tainted = FALSE PROVE Alone(u)'
        <3>1. EngineOwn(u)' /\ Completed(u)' /\ Clean(u)'
            BY <1>1, <1>6, <2>1, <2>3 DEF Alone, EngineOwn, Completed, Clean
        <3>2. unfilled'[u] # "no"
            BY <1>6 DEF Shape
        <3>3. Behind(u)' /\ InOrder(u)'
            BY <1>1, <1>6, <2>3, <3>2, SameProgress DEF Alone
        <3> QED
            BY <3>1, <3>3 DEF Alone
    <2> QED
        BY <1>1, <2>1, <2>2, <2>3, EngineStays, CallMovesStep
<1> QED
    BY <1>3, <1>4, <1>5, <1>6 DEF CheckErr

LEMMA DrainStep ==
    ASSUME IInv, NEW u \in User, Drain(u)
    PROVE  IInv'
<1> USE DEF IInv, Common
<1>1. UNCHANGED <<users, tainted, msgs, start, rst, intSts, job, ran, unfilled>>
    BY DEF Drain, busVars, engineVars
<1>2. CASE Ok /\ Advance(u, "drain") /\ UNCHANGED err
    <2>1. pc[u] = "drain"
        BY <1>2 DEF Advance
    <2>2. tainted = FALSE => Has(u, at[u])
        BY <2>1 DEF Alone, Completed
    <2>3. unfilled' \in [User -> {"no", "chunk", "rest"}]
        BY <1>1 DEF Shape
    <2> QED
        BY <1>1, <1>2, <2>1, <2>2, <2>3, AdvancesStep
<1>3. CASE Fail /\ GotoErr(u, "drain", "final", "io") /\ UNCHANGED at
    <2>1. pc[u] = "drain" /\ Shape' /\ CallMoves(u) /\ pc'[u] = "final" /\ err'[u] = "io"
        BY <1>1, <1>3, FaultsStay DEF Shape, CallMoves, PC, Err, GotoErr, Goto
    <2>2. CallInv(u)'
        BY <1>1, <1>3, <2>1 DEF CallInv, InTransfer
    <2>3. ASSUME tainted = FALSE PROVE Alone(u)'
        <3>1. EngineOwn(u)' /\ Completed(u)' /\ Clean(u)'
            BY <1>1, <1>3, <2>1, <2>3 DEF Alone, EngineOwn, Completed, Clean
        <3>2. Behind(u)' /\ InOrder(u)'
            BY <1>1, <1>3, <2>3, SameProgress DEF Alone
        <3> QED
            BY <3>1, <3>2 DEF Alone
    <2> QED
        BY <1>1, <2>1, <2>2, <2>3, EngineStays, CallMovesStep
<1> QED
    BY <1>2, <1>3 DEF Drain


-----------------------------------------------------------------------------
LEMMA DisownJob ==
    ASSUME Shape, EngineInv, NEW u \in User
    PROVE  /\ Disown(job, u) \in Chunk
           /\ Disown(job, u) = None <=> job = None
           /\ \A v \in User, p \in Position : Disown(job, u) = <<v, p>> => job = <<v, p>> /\ v # u
<1>1. CASE job \in User \X Position
    <2>1. PICK w \in User, q \in Position : job = <<w, q>>
        BY <1>1
    <2>2. job # None /\ Head(job) = w
        BY <2>1 DEF None
    <2>3. Disown(job, u) = IF w = u THEN Nobodys ELSE job
        BY <2>2 DEF Disown
    <2>4. Nobodys # None /\ \A v, p : Nobodys # <<v, p>>
        BY DEF Nobodys, None
    <2> QED
        BY <1>1, <2>1, <2>2, <2>3, <2>4 DEF Chunk
<1>2. CASE job \in {None, Nobodys}
    <2>1. Disown(job, u) = job
        BY <1>2 DEF Disown, None, Nobodys
    <2>2. \A v, p : job # <<v, p>>
        BY <1>2 DEF None, Nobodys
    <2> QED
        BY <1>2, <2>1, <2>2 DEF Chunk
<1> QED
    BY <1>1, <1>2 DEF Shape, Chunk

\* A transfer has a first chunk, and none before it.
LEMMA FirstChunk ==
    ASSUME NEW u \in User, msgs[u] \in Transfers
    PROVE  /\ First \in Position
           /\ First.msg \in 1..Len(msgs[u]) /\ First.chunk \in 1..msgs[u][First.msg].chunks
           /\ \A p \in Positions(u) : ~(p \prec First)
<1>1. msgs[u] # <<>> /\ Len(msgs[u]) \in Nat \ {0}
      /\ \A k \in 1..Len(msgs[u]) : msgs[u][k].chunks \in Nat \ {0}
    BY TransferShape
<1>2. DOMAIN msgs[u] = 1..Len(msgs[u])
    BY TransfersAssumption
<1>3. First = [msg |-> 1, chunk |-> 1] /\ First \in Position
    BY DEF First, Position
<1>4. \A p \in Positions(u) : p.msg \in Nat \ {0} /\ p.chunk \in Nat \ {0}
    BY <1>1, <1>2 DEF Positions
<1>5. \A p \in Positions(u) : ~(p \prec First)
    BY <1>3, <1>4 DEF \prec
<1> QED
    BY <1>1, <1>3, <1>5

FirstIsFirst == \A u \in User : msgs[u] \in Transfers =>
    /\ First.msg \in 1..Len(msgs[u]) /\ First.chunk \in 1..msgs[u][First.msg].chunks
    /\ \A p \in Positions(u) : ~(p \prec First)

LEMMA FirstChunkNext == FirstIsFirst'
<1>1. FirstIsFirst
    BY FirstChunk DEF FirstIsFirst
<1> QED
    BY <1>1, PTL

\* A call that has completed nothing yet.
LEMMA NothingCompleted ==
    ASSUME NEW u \in User, ran'[u] = <<>>, at'[u] = First,
           msgs'[u] \in Transfers \/ msgs'[u] = <<>>
    PROVE  Behind(u)' /\ InOrder(u)'
<1>1. Len(ran'[u]) = 0
    OBVIOUS
<1>2. \A p \in Positions(u)' : ~(p \prec First)
    <2>1. CASE msgs'[u] \in Transfers
        BY <2>1, FirstChunkNext DEF FirstIsFirst
    <2>2. CASE msgs'[u] = <<>>
        BY <2>2 DEF Positions
    <2> QED
        BY <2>1, <2>2
<1> QED
    BY <1>1, <1>2 DEF Behind, InOrder

LEMMA TryAgainStep ==
    ASSUME IInv, NEW u \in User, TryAgain(u)
    PROVE  IInv'
<1> USE DEF IInv, Common
<1>1. /\ pc[u] = "leave" /\ pc' = [pc EXCEPT ![u] = "clear"]
      /\ err[u] = "again" /\ err' = [err EXCEPT ![u] = "none"]
      /\ at' = [at EXCEPT ![u] = First] /\ ran' = [ran EXCEPT ![u] = <<>>]
      /\ unfilled' = [unfilled EXCEPT ![u] = "no"]
      /\ job' = Disown(job, u)
      /\ UNCHANGED <<users, tainted, msgs, start, rst, intSts, faults>>
    BY DEF TryAgain, GotoErr, Goto, busVars, budgets
<1>2. msgs[u] # <<>> /\ msgs[u] \in Transfers
    BY <1>1 DEF CallInv, Shape
<1>3. Shape' /\ CallMoves(u)
    <2>1. <<>> \in Seq(Position) /\ First \in Position
        BY <1>2, FirstChunk
    <2>2. at' \in [User -> Position] /\ ran' \in [User -> Seq(Position)]
        BY <1>1, <2>1 DEF Shape
    <2> QED
        BY <1>1, <2>2, DisownJob DEF Shape, CallMoves, PC, Err
<1>4. pc'[u] = "clear" /\ err'[u] = "none" /\ at'[u] = First /\ ran'[u] = <<>>
    BY <1>1 DEF Shape
<1>5. CallInv(u)'
    BY <1>1, <1>2, <1>4, FirstChunk DEF CallInv, InTransfer
<1>6. EngineInv'
    <2>1. \A v \in User : v # u => pc'[v] = pc[v]
        BY <1>1 DEF Shape
    <2> QED
        BY <1>1, <2>1, DisownJob DEF EngineInv
<1>7. ASSUME tainted = FALSE PROVE Alone(u)'
    <2>1. EngineOwn(u)' /\ Completed(u)' /\ Clean(u)'
        BY <1>1, <1>4, DisownJob DEF EngineOwn, Completed, Clean
    <2>2. Behind(u)' /\ InOrder(u)'
        BY <1>1, <1>2, <1>4, NothingCompleted
    <2> QED
        BY <2>1, <2>2 DEF Alone
<1> QED
    BY <1>3, <1>5, <1>6, <1>7, CallMovesStep

\* A user enters the segment, to transfer m or to reset the engine.
LEMMA EnterStep ==
    ASSUME IInv, NEW u \in User, pc[u] = "idle", Acquire(u),
           NEW m \in Transfers \cup {<<>>}, NEW to \in {"clear", "final"},
           pc' = [pc EXCEPT ![u] = to], msgs' = [msgs EXCEPT ![u] = m],
           to = "final" <=> m = <<>>,
           UNCHANGED <<at, err, unfilled, ran, engineVars, faults>>
    PROVE  IInv'
<1> USE DEF IInv, Common
<1>1. users' = users \cup {u} /\ tainted' \in BOOLEAN
      /\ (tainted' = FALSE => users = {} /\ tainted = FALSE)
    BY DEF Acquire, Segment!Enter, Segment!Intrude, Shape
<1>2. UNCHANGED <<start, rst, intSts, job>>
    BY DEF engineVars
<1>3. pc'[u] = to /\ msgs'[u] = m /\ \A v \in User : v # u => pc'[v] = pc[v] /\ msgs'[v] = msgs[v]
    BY DEF Shape
<1>4. Shape'
    BY <1>1, <1>2 DEF Shape, PC
<1>5. UsersInv'
    BY <1>1, <1>3 DEF UsersInv
<1>6. EngineInv'
    BY <1>2, <1>3 DEF EngineInv
<1>7. at[u] = First /\ ran[u] = <<>> /\ err[u] = "none" /\ msgs[u] = <<>>
    BY DEF CallInv
<1>8. ASSUME NEW v \in User PROVE CallInv(v)'
    <2>1. CASE v = u
        <3>1. m # <<>> => InTransfer(u)'
            <4>1. m # <<>> => msgs'[u] \in Transfers
                BY <1>3
            <4> QED
                BY <1>3, <1>7, <4>1, FirstChunkNext DEF InTransfer, FirstIsFirst
        <3> QED
            BY <1>3, <1>7, <2>1, <3>1 DEF CallInv
    <2>2. CASE v # u
        BY <1>3, <2>2 DEF CallInv, InTransfer
    <2> QED
        BY <2>1, <2>2
<1>9. ASSUME tainted' = FALSE, NEW v \in User PROVE Alone(v)'
    <2>1. CASE v = u
        <3>1. EngineOwn(u)' /\ Completed(u)' /\ Clean(u)'
            BY <1>2, <1>3, <1>7 DEF EngineOwn, EngineInv, Completed, Clean
        <3>2. Behind(u)' /\ InOrder(u)'
            BY <1>3, <1>7, NothingCompleted
        <3> QED
            BY <2>1, <3>1, <3>2 DEF Alone
    <2>2. CASE v # u
        <3>1. pc'[v] = "idle"
            BY <1>1, <1>3, <1>9, <2>2 DEF UsersInv
        <3> QED
            BY <1>4, <1>5, <1>6, <1>8, <3>1, IdleAloneNext DEF IdleOwesNothing
    <2> QED
        BY <2>1, <2>2
<1> QED
    BY <1>4, <1>5, <1>6, <1>8, <1>9

LEMMA ForgetStep ==
    ASSUME IInv, NEW u \in User, pc[u] # "idle", Forget(u),
           UNCHANGED <<start, rst, intSts, faults>>
    PROVE  IInv'
<1> USE DEF IInv, Common
<1>1. /\ pc' = [pc EXCEPT ![u] = "idle"] /\ msgs' = [msgs EXCEPT ![u] = <<>>]
      /\ at' = [at EXCEPT ![u] = First] /\ err' = [err EXCEPT ![u] = "none"]
      /\ ran' = [ran EXCEPT ![u] = <<>>] /\ unfilled' = [unfilled EXCEPT ![u] = "no"]
      /\ job' = Disown(job, u)
      /\ users' = users \ {u} /\ tainted' \in BOOLEAN
      /\ tainted = TRUE /\ tainted' = FALSE => users' = {}
    BY DEF Forget, Segment!Leave
<1>2. Shape'
    <2>1. <<>> \in Seq(Position) /\ First \in Position
        BY DEF First, Position
    <2>2. at' \in [User -> Position] /\ ran' \in [User -> Seq(Position)]
          /\ msgs' \in [User -> Transfers \cup {<<>>}]
        BY <1>1, <2>1 DEF Shape
    <2> QED
        BY <1>1, <2>2, DisownJob DEF Shape, PC, Err
<1>3. /\ pc'[u] = "idle" /\ ran'[u] = <<>> /\ at'[u] = First /\ msgs'[u] = <<>>
      /\ err'[u] = "none" /\ unfilled'[u] = "no"
      /\ \A v \in User : v # u => pc'[v] = pc[v] /\ msgs'[v] = msgs[v] /\ at'[v] = at[v]
            /\ err'[v] = err[v] /\ ran'[v] = ran[v] /\ unfilled'[v] = unfilled[v]
    BY <1>1 DEF Shape
<1>4. UsersInv'
    <2>1. tainted \in BOOLEAN
        BY DEF Shape
    <2> QED
        BY <1>1, <1>3, <2>1 DEF UsersInv
<1>5. EngineInv'
    <2>1. start' = TRUE <=> job' # None
        BY <1>1, DisownJob DEF EngineInv
    <2>2. ASSUME NEW v \in User, NEW p \in Position, job' = <<v, p>> PROVE pc'[v] # "idle"
        <3>1. job = <<v, p>> /\ v # u
            BY <1>1, <2>2, DisownJob
        <3> QED
            BY <1>3, <3>1 DEF EngineInv
    <2> QED
        BY <2>1, <2>2 DEF EngineInv
<1>6. ASSUME NEW v \in User PROVE CallInv(v)'
    BY <1>3 DEF CallInv, InTransfer
<1>7. ASSUME tainted' = FALSE, NEW v \in User PROVE pc'[v] = "idle"
    <2>1. tainted \in BOOLEAN /\ u \in users
        BY DEF Shape, UsersInv
    <2> QED
        BY <1>1, <1>3, <1>4, <1>7, <2>1 DEF UsersInv
<1> QED
    BY <1>2, <1>4, <1>5, <1>6, <1>7, IdleAloneNext DEF IdleOwesNothing

LEMMA SegmentStep ==
    ASSUME IInv, SegmentChanges
    PROVE  IInv'
<1> USE DEF IInv, Common
<1>1. /\ UNCHANGED <<users, pc, msgs, at, err, unfilled, ran, start, rst, intSts, job, faults>>
      /\ tainted' = TRUE \/ (tainted' = FALSE /\ users = {})
    BY DEF SegmentChanges, Segment!Taint, Segment!Heal, callVars, engineVars, history
<1>2. Shape' /\ UsersInv' /\ EngineInv'
    BY <1>1 DEF Shape, UsersInv, EngineInv
<1>3. ASSUME NEW v \in User PROVE CallInv(v)'
    BY <1>1 DEF CallInv, InTransfer
<1>4. ASSUME tainted' = FALSE, NEW v \in User PROVE pc'[v] = "idle"
    BY <1>1, <1>4 DEF UsersInv
<1> QED
    BY <1>2, <1>3, <1>4, IdleAloneNext DEF IdleOwesNothing


LEMMA NotBackwards ==
    ASSUME NEW p \in Position, NEW q \in Position, p = q \/ p \prec q
    PROVE  ~(q \prec p)
<1>1. p.msg \in Nat /\ p.chunk \in Nat /\ q.msg \in Nat /\ q.chunk \in Nat
    BY DEF Position
<1> QED
    BY <1>1 DEF \prec

\* The engine has completed a chunk for u: the one that u has reached.
LEMMA CompletedFor ==
    ASSUME Shape, NEW u \in User, NEW s, UNCHANGED <<msgs, at, unfilled>>,
           s = ran[u], ran'[u] = Append(s, at[u]), Behind(u), InOrder(u)
    PROVE  Has(u, at[u])' /\ Behind(u)' /\ InOrder(u)'
<1>1. s \in Seq(Position) /\ at[u] \in Position /\ Len(s) \in Nat
    BY DEF Shape
<1>2. /\ Len(ran'[u]) = Len(s) + 1
      /\ \A i \in 1..Len(s) : ran'[u][i] = s[i]
      /\ ran'[u][Len(s) + 1] = at[u]
    BY <1>1, AppendProperties
<1>3. Has(u, at[u])'
    BY <1>1, <1>2 DEF Has
<1>4. \A p : Has(u, p) => Has(u, p)'
    BY <1>1, <1>2 DEF Has
<1>5. Behind(u)'
    BY <1>4 DEF Behind, Positions
<1>6. \A i \in 1..Len(s) : s[i] \in Position
    BY <1>1, ElementOfSeq
<1>7. \A i \in 1..Len(ran'[u]) : ran'[u][i] = at[u] \/ ran'[u][i] \prec at[u]
    BY <1>1, <1>2 DEF InOrder
<1>8. ASSUME NEW i \in 1..Len(ran'[u]), NEW j \in 1..Len(ran'[u]), i < j
      PROVE  ~(ran'[u][j] \prec ran'[u][i])
    <2>1. i \in 1..Len(s) /\ ran'[u][i] = s[i]
        BY <1>1, <1>2, <1>8
    <2>2. CASE j \in 1..Len(s)
        BY <1>2, <1>8, <2>1, <2>2 DEF InOrder
    <2>3. CASE j = Len(s) + 1
        <3>1. s[i] = at[u] \/ s[i] \prec at[u]
            BY <2>1 DEF InOrder
        <3>2. s[i] \in Position
            BY <1>6, <2>1
        <3>3. ~(at[u] \prec s[i])
            BY <1>1, <3>1, <3>2, NotBackwards
        <3>4. ran'[u][j] = at[u] /\ ran'[u][i] = s[i]
            BY <1>2, <2>1, <2>3
        <3> QED
            BY <3>3, <3>4
    <2> QED
        BY <1>1, <1>2, <1>8, <2>2, <2>3
<1> QED
    BY <1>3, <1>5, <1>7, <1>8 DEF InOrder

LEMMA EngineEndsStep ==
    ASSUME IInv, EngineEnds
    PROVE  IInv'
<1> USE DEF IInv, Common
<1>1. /\ start = TRUE /\ rst = FALSE /\ start' = FALSE /\ job' = None
      /\ UNCHANGED <<users, tainted, pc, msgs, at, err, unfilled, rst, faults>>
    BY DEF EngineEnds, busVars, callVars, budgets, Shape
<1>2. PICK s \in Reports :
        /\ intSts' = intSts \cup s
        /\ s = {"done"} /\ job # Nobodys => ran' = [ran EXCEPT ![job[1]] = Append(@, job[2])]
        /\ ~(s = {"done"} /\ job # Nobodys) => ran' = ran
    BY DEF EngineEnds
<1>3. \/ job = Nobodys
      \/ \E v \in User, p \in Position : job = <<v, p>>
    BY <1>1 DEF EngineInv, Shape, Chunk
<1>4. \A v \in User, p \in Position : job = <<v, p>> => job # Nobodys /\ job[1] = v /\ job[2] = p
    BY DEF Nobodys
<1>5. ran' \in [User -> Seq(Position)]
    <2>1. CASE ran' = ran
        BY <2>1 DEF Shape
    <2>2. CASE s = {"done"} /\ job # Nobodys
        <3>1. PICK v \in User, p \in Position : job = <<v, p>>
            BY <1>3, <2>2
        <3>2. Append(ran[v], p) \in Seq(Position)
            BY AppendProperties DEF Shape
        <3> QED
            BY <1>2, <1>4, <2>2, <3>1, <3>2 DEF Shape
    <2> QED
        BY <1>2, <2>1, <2>2
<1>6. \A v \in User : (\A p \in Position : job # <<v, p>>) => ran'[v] = ran[v]
    BY <1>2, <1>3, <1>4 DEF Shape
<1>7. Shape'
    BY <1>1, <1>2, <1>5 DEF Shape, Reports, Status, Chunk
<1>8. UsersInv' /\ EngineInv'
    BY <1>1 DEF UsersInv, EngineInv, None
<1>9. ASSUME NEW v \in User PROVE CallInv(v)'
    BY <1>1, <1>6 DEF CallInv, InTransfer, EngineInv
<1>10. ASSUME tainted' = FALSE, NEW v \in User PROVE Alone(v)'
    <2>1. CASE pc'[v] = "idle"
        BY <1>7, <1>8, <1>9, <2>1, IdleAloneNext DEF IdleOwesNothing
    <2>2. CASE pc'[v] # "idle"
        <3>1. Alone(v) /\ EngineOwn(v)' /\ Clean(v)'
            BY <1>1, <1>10 DEF Alone, EngineOwn, Clean, None
        <3>2. CASE job = <<v, at[v]>> /\ s = {"done"}
            <4>1. at[v] \in Position
                BY DEF Shape
            <4>2. ran'[v] = Append(ran[v], at[v])
                BY <1>2, <1>4, <3>2, <4>1 DEF Shape
            <4>3. Has(v, at[v])' /\ Behind(v)' /\ InOrder(v)'
                BY <1>1, <3>1, <4>2, CompletedFor DEF Alone
            <4>4. Completed(v)'
                BY <1>1, <3>1, <4>3 DEF Completed, Alone, AtEnd
            <4> QED
                BY <3>1, <4>3, <4>4 DEF Alone
        <3>3. CASE job = <<v, at[v]>> /\ s # {"done"}
            <4>1. ran' = ran /\ intSts' \cap {"error", "timeout"} # {}
                BY <1>2, <3>3 DEF Reports
            <4>2. Behind(v)' /\ InOrder(v)'
                BY <1>1, <3>1, <4>1, SameProgress DEF Alone
            <4>3. Completed(v)'
                BY <1>1, <3>1, <4>1 DEF Completed, Alone, AtEnd, Has
            <4> QED
                BY <3>1, <4>2, <4>3 DEF Alone
        <3>4. CASE job # <<v, at[v]>>
            <4>1. \A p \in Position : job # <<v, p>>
                BY <3>1, <3>4 DEF Alone, EngineOwn
            <4>2. ran'[v] = ran[v]
                BY <1>6, <4>1
            <4>3. Behind(v)' /\ InOrder(v)'
                BY <1>1, <3>1, <4>2 DEF Alone, Behind, InOrder, Has, Positions
            <4>4. pc[v] \notin {"wait", "check", "drain"}
                BY <1>1, <3>1, <3>4 DEF Alone, EngineOwn
            <4>5. Completed(v)'
                BY <1>1, <3>1, <4>2, <4>4 DEF Completed, Alone, AtEnd, Has
            <4> QED
                BY <3>1, <4>3, <4>5 DEF Alone
        <3> QED
            BY <3>2, <3>3, <3>4
    <2> QED
        BY <2>1, <2>2
<1> QED
    BY <1>7, <1>8, <1>9, <1>10

-----------------------------------------------------------------------------
LEMMA Inductive == IInv /\ [Next]_vars => IInv'
<1> SUFFICES ASSUME IInv, [Next]_vars PROVE IInv'
    OBVIOUS
<1>1. ASSUME NEW u \in User, Steps(u) PROVE IInv'
    <2>1. CASE Begin(u)
        <3>1. PICK m \in Transfers : msgs' = [msgs EXCEPT ![u] = m]
            BY <2>1 DEF Begin
        <3>2. m # <<>>
            BY TransferShape
        <3>3. /\ pc[u] = "idle" /\ pc' = [pc EXCEPT ![u] = "clear"] /\ Acquire(u)
              /\ UNCHANGED <<at, err, unfilled, ran, engineVars, faults>>
            BY <2>1 DEF Begin, Goto, history
        <3> QED
            BY <3>1, <3>2, <3>3, EnterStep
    <2>2. CASE Register(u)
        <3>1. /\ pc[u] = "idle" /\ pc' = [pc EXCEPT ![u] = "final"] /\ Acquire(u)
              /\ UNCHANGED <<msgs, at, err, unfilled, ran, engineVars, faults>>
            BY <2>2 DEF Register, Goto, history, callVars
        <3>2. msgs' = [msgs EXCEPT ![u] = <<>>]
            BY <3>1 DEF IInv, Common, CallInv, Shape
        <3> QED
            BY <3>1, <3>2, EnterStep
    <2>3. CASE Driver(u)
        <3>1. CASE Return(u)
            <4>1. pc[u] # "idle" /\ Forget(u) /\ UNCHANGED <<start, rst, intSts, faults>>
                BY <3>1 DEF Return
            <4> QED
                BY <4>1, ForgetStep
        <3> QED
            BY <2>3, <3>1, ClearStatusStep, WaitIdleStep, FillStep, WriteCfg2Step,
               StartAccessStep, WaitDoneStep, CheckErrStep, DrainStep, ResetStep,
               UnresetStep, ClearRetryStep, TryAgainStep DEF Driver
    <2>4. CASE Crash(u)
        <3>1. pc[u] # "idle" /\ Forget(u) /\ UNCHANGED <<start, rst, intSts, faults>>
            BY <2>4 DEF Crash
        <3> QED
            BY <3>1, ForgetStep
    <2> QED
        BY <1>1, <2>1, <2>2, <2>3, <2>4 DEF Steps
<1>2. CASE UNCHANGED vars
    <2>1. UNCHANGED <<users, tainted, pc, msgs, at, err, start, rst, intSts, job, ran,
                      unfilled, faults>>
        BY <1>2 DEF vars, busVars, callVars, engineVars, history, budgets
    <2>2. Shape' /\ UsersInv' /\ EngineInv'
        BY <2>1 DEF IInv, Common, Shape, UsersInv, EngineInv
    <2>3. ASSUME NEW v \in User PROVE CallInv(v)'
        BY <2>1 DEF IInv, Common, CallInv, InTransfer
    <2>4. ASSUME tainted' = FALSE, NEW v \in User PROVE Alone(v)'
        <3>1. Alone(v)
            BY <2>1, <2>4 DEF IInv
        <3>2. EngineOwn(v)' /\ Completed(v)' /\ Clean(v)'
            BY <2>1, <3>1 DEF Alone, EngineOwn, Completed, Clean, AtEnd, Has
        <3>3. Behind(v)' /\ InOrder(v)'
            BY <2>1, <3>1, SameProgress DEF Alone
        <3> QED
            BY <3>2, <3>3 DEF Alone
    <2> QED
        BY <2>2, <2>3, <2>4 DEF IInv, Common
<1> QED
    BY <1>1, <1>2, EngineEndsStep, SegmentStep, NextCases

LEMMA Invariance == Spec => []IInv
<1>1. Init => IInv
    <2> SUFFICES ASSUME Init PROVE IInv
        OBVIOUS
    <2>1. Shape
        <3>1. First \in Position /\ <<>> \in Seq(Position)
            BY DEF First, Position
        <3>2. at \in [User -> Position] /\ ran \in [User -> Seq(Position)]
              /\ msgs \in [User -> Transfers \cup {<<>>}]
            BY <3>1 DEF Init
        <3>3. /\ users = {} /\ tainted \in BOOLEAN /\ start \in BOOLEAN /\ rst \in BOOLEAN
              /\ intSts \subseteq Status /\ faults \in Nat
            BY DEF Init
        <3>4. pc \in [User -> PC] /\ err \in [User -> Err] /\ job \in Chunk
              /\ unfilled \in [User -> {"no", "chunk", "rest"}]
            BY DEF Init, PC, Err, Chunk
        <3> QED
            BY <3>2, <3>3, <3>4 DEF Shape
    <2>2. UsersInv /\ EngineInv /\ \A u \in User : CallInv(u)
        BY DEF Init, UsersInv, EngineInv, CallInv, None
    <2>3. Common
        BY <2>1, <2>2 DEF Common
    <2>4. \A u \in User : Alone(u)
        BY <2>3, IdleAlone DEF IdleOwesNothing, Init
    <2> QED
        BY <2>3, <2>4 DEF IInv
<1> QED
    BY <1>1, Inductive, PTL DEF Spec

\* A user at the end of its transfer has every chunk behind it.
LEMMA NoneBeyondEnd ==
    ASSUME Shape, NEW u \in User, msgs[u] # <<>>, AtEnd(u), NEW p \in Positions(u)
    PROVE  p = at[u] \/ p \prec at[u]
<1>1. msgs[u] \in Transfers /\ at[u] \in Position
    BY DEF Shape
<1>2. /\ DOMAIN msgs[u] = 1..Len(msgs[u]) /\ Len(msgs[u]) \in Nat
      /\ \A k \in 1..Len(msgs[u]) : msgs[u][k].chunks \in Nat
    BY <1>1, TransferShape, TransfersAssumption
<1>3. /\ p = [msg |-> p.msg, chunk |-> p.chunk] /\ p \in Position
      /\ p.msg <= Len(msgs[u]) /\ p.chunk <= msgs[u][p.msg].chunks
    BY <1>2 DEF Positions, Position
<1>4. at[u] = [msg |-> at[u].msg, chunk |-> at[u].chunk]
    BY <1>1 DEF Position
<1> QED
    BY <1>1, <1>3, <1>4 DEF AtEnd, \prec, Position

\* A call that returns success to a user alone on the segment has had every
\* chunk of its transfer completed by the engine, in order: neither a status
\* left in the sticky register nor an access cut short passes for completion.
THEOREM SuccessIsReal == Spec => []SuccessMeansExecuted
<1>1. ASSUME IInv, NEW u \in User, Succeeds(u), unfilled[u] = "no"
      PROVE  /\ \A p \in Positions(u) : Times(u, p) > 0
             /\ \A i, j \in 1..Len(ran[u]) : i < j => ~(ran[u][j] \prec ran[u][i])
    <2>1. Alone(u) /\ AtEnd(u) /\ Has(u, at[u])
        BY <1>1 DEF IInv, Common, Shape, Succeeds, Alone, Completed
    <2>2. ASSUME NEW p \in Positions(u) PROVE Has(u, p)
        <3>1. p = at[u] \/ p \prec at[u]
            BY <1>1, <2>1, NoneBeyondEnd DEF IInv, Common, Succeeds
        <3> QED
            BY <1>1, <2>1, <3>1 DEF Alone, Behind
    <2>3. ASSUME NEW p, Has(u, p) PROVE Times(u, p) > 0
        <3> DEFINE is == {i \in 1..Len(ran[u]) : ran[u][i] = p}
        <3>1. Len(ran[u]) \in Nat
            BY <1>1 DEF IInv, Common, Shape
        <3>2. IsFiniteSet(1..Len(ran[u]))
            BY <3>1, FS_Interval
        <3>3. IsFiniteSet(is) /\ is # {}
            BY <2>3, <3>2, FS_Subset DEF Has
        <3>4. Cardinality(is) \in Nat /\ Cardinality(is) # 0
            BY <3>3, FS_CardinalityType, FS_EmptySet
        <3> QED
            BY <3>4 DEF Times
    <2> QED
        BY <2>1, <2>2, <2>3 DEF Alone, InOrder
<1>2. IInv => SuccessMeansExecuted
    BY <1>1 DEF SuccessMeansExecuted
<1> QED
    BY <1>2, Invariance, PTL

\* Without failing accesses no access is started on a busy engine, even if a
\* restarted host left it busy.
THEOREM StartsOnIdleEngine == Spec => []StartsOnIdle
<1>1. IInv => StartsOnIdle
    BY DEF IInv, Common, Shape, Alone, Clean, StartsOnIdle
<1> QED
    BY <1>1, Invariance, PTL

\* Without failing accesses a call that returns leaves the engine idle and out
\* of reset.
THEOREM LeavesEngineIdle == Spec => []LeavesIdle
<1>1. IInv => LeavesIdle
    BY DEF IInv, Common, Shape, Alone, Clean, LeavesIdle
<1> QED
    BY <1>1, Invariance, PTL

-----------------------------------------------------------------------------
(* What is read, and how often a chunk is sent.  Both are proved on top of *)
(* IInv, which says where a user alone is and what the engine has done.    *)

\* An access of u's chunk that the engine has still to complete.
Pending(u) == IF job = <<u, at[u]>> THEN 1 ELSE 0

\* How often u's chunk has been sent, or may still be.
Spent(u) == Times(u, at[u]) + Pending(u)

RepeatInv(u) ==
    unfilled[u] = "no" =>
        /\ \A p \in Positions(u) : Times(u, p) <= Retries + 1
        /\ Spent(u) <= Retries + 1
        /\ pc[u] \in {"clear", "message", "fill", "cfg2"} => Spent(u) = 0
        /\ pc[u] = "start" => retry[u] <= Retries /\ Spent(u) <= retry[u]
        /\ pc[u] \in {"wait", "check", "reset", "unreset", "clear_retry"}
              => retry[u] <= Retries /\ Spent(u) <= retry[u] + 1

\* u has copied out the chunks S, each once.
Copied(u, S) ==
    /\ IsFiniteSet(S)
    /\ Len(got[u]) = Cardinality(S)
    /\ \A p \in S : \E i \in 1..Len(got[u]) : CopyOf(u, p, got[u][i])

Before(u) == {p \in Reads(u) : p \prec at[u]}
UpTo(u)   == {p \in Reads(u) : p \prec at[u] \/ p = at[u]}

\* The window holds what the access of u's chunk was programmed to read.
Holds(u) == \A k \in 1..BufSize : k <= RDataSize(u, at[u]) => rdata[k] = <<u, at[u]>>

ReadInv(u) ==
    /\ pc[u] \in Attempting => rdatasize = RDataSize(u, at[u])
    /\ pc[u] \in {"wait", "check"} /\ start = FALSE /\ intSts \cap {"error", "timeout"} = {}
          => (Msg(u).read => Holds(u))
    /\ pc[u] = "drain" => Msg(u).read /\ Holds(u)
    /\ pc[u] # "leave" => Copied(u, Before(u))
    /\ pc[u] = "leave" /\ err[u] = "none" => Copied(u, UpTo(u))

DataShape ==
    /\ retry \in [User -> Nat]
    /\ rdata \in [1..BufSize -> Chunk]
    /\ got \in [User -> Seq(Seq(Chunk))]
    /\ \A u \in User : pc[u] = "idle" => got[u] = <<>>

DataAlone(u) == RepeatInv(u) /\ ReadInv(u)

DataInv == IInv /\ DataShape /\ (tainted = FALSE => \A u \in User : DataAlone(u))

-----------------------------------------------------------------------------
LEMMA TimesIsNat ==
    ASSUME Shape, NEW u \in User, NEW p
    PROVE  Times(u, p) \in Nat
<1>1. Len(ran[u]) \in Nat
    BY DEF Shape
<1>2. IsFiniteSet(1..Len(ran[u]))
    BY <1>1, FS_Interval
<1>3. IsFiniteSet({i \in 1..Len(ran[u]) : ran[u][i] = p})
    BY <1>2, FS_Subset
<1> QED
    BY <1>3, FS_CardinalityType DEF Times

LEMMA SpentIsNat ==
    ASSUME Shape, NEW u \in User
    PROVE  Spent(u) \in Nat /\ Times(u, at[u]) \in Nat /\ Pending(u) \in 0..1
BY TimesIsNat DEF Spent, Pending

LEMMA NeverCompleted ==
    ASSUME Shape, NEW u \in User, NEW p, ~Has(u, p)
    PROVE  Times(u, p) = 0
<1>1. {i \in 1..Len(ran[u]) : ran[u][i] = p} = {}
    BY DEF Has
<1> QED
    BY <1>1, FS_EmptySet DEF Times

\* One more completed chunk counts for itself and for no other.
LEMMA TimesAppend ==
    ASSUME Shape, NEW u \in User, NEW q \in Position, ran'[u] = Append(ran[u], q), NEW p
    PROVE  Times(u, p)' = Times(u, p) + (IF p = q THEN 1 ELSE 0)
<1> DEFINE n == Len(ran[u])
           is == {i \in 1..n : ran[u][i] = p}
           js == {i \in 1..Len(ran'[u]) : ran'[u][i] = p}
<1>1. ran[u] \in Seq(Position) /\ n \in Nat
    BY DEF Shape
<1>2. /\ Len(ran'[u]) = n + 1
      /\ \A i \in 1..n : ran'[u][i] = ran[u][i]
      /\ ran'[u][n + 1] = q
    BY <1>1, AppendProperties
<1>3. IsFiniteSet(is) /\ n + 1 \notin is
    <2>1. IsFiniteSet(1..n)
        BY <1>1, FS_Interval
    <2> QED
        BY <1>1, <2>1, FS_Subset
<1>4. Cardinality(is) \in Nat
    BY <1>3, FS_CardinalityType
<1>5. CASE p = q
    <2>1. js = is \cup {n + 1}
        BY <1>1, <1>2, <1>5
    <2>2. Cardinality(js) = Cardinality(is) + 1
        BY <1>3, <2>1, FS_AddElement
    <2> QED
        BY <1>5, <2>2 DEF Times
<1>6. CASE p # q
    <2>1. js = is
        BY <1>1, <1>2, <1>6
    <2>2. Times(u, p)' = Cardinality(is) /\ Times(u, p) = Cardinality(is)
        BY <2>1 DEF Times
    <2> QED
        BY <1>4, <1>6, <2>2
<1> QED
    BY <1>5, <1>6

\* A call that has not begun to move data owes none.
LEMMA NothingCopied ==
    ASSUME NEW u \in User, got[u] = <<>>, Before(u) = {}
    PROVE  Copied(u, Before(u))
BY FS_EmptySet DEF Copied

LEMMA IdleOwesNoData ==
    ASSUME IInv, DataShape, NEW u \in User, pc[u] = "idle"
    PROVE  DataAlone(u)
<1> USE DEF IInv, Common
<1>1. /\ ran[u] = <<>> /\ at[u] = First /\ msgs[u] = <<>> /\ got[u] = <<>>
      /\ at[u] \in Position
    BY DEF CallInv, DataShape, Shape
<1>2. Positions(u) = {} /\ Before(u) = {}
    BY <1>1 DEF Positions, Reads, Before
<1>3. Times(u, at[u]) = 0
    BY <1>1, NeverCompleted DEF Has
<1>4. Pending(u) = 0
    BY <1>1 DEF Pending, EngineInv
<1>5. RepeatInv(u)
    BY <1>2, <1>3, <1>4, BoundsAssumption DEF RepeatInv, Spent
<1>6. Copied(u, Before(u))
    BY <1>1, <1>2, NothingCopied
<1> QED
    BY <1>5, <1>6 DEF DataAlone, ReadInv, Attempting

IdleDataFree == \A u \in User : IInv /\ DataShape /\ pc[u] = "idle" => DataAlone(u)

LEMMA IdleDataFreeNext == IdleDataFree'
<1>1. IdleDataFree
    BY IdleOwesNoData DEF IdleDataFree
<1> QED
    BY <1>1, PTL

\* A user alone has the segment after its step as well.
LEMMA OneUserMoves ==
    ASSUME DataInv, IInv', DataShape', NEW u \in User, pc'[u] # "idle",
           tainted' = FALSE => DataAlone(u)'
    PROVE  DataInv'
<1>1. ASSUME tainted' = FALSE, NEW v \in User PROVE DataAlone(v)'
    <2>1. CASE v = u
        BY <1>1, <2>1
    <2>2. CASE v # u
        <3>1. pc'[v] = "idle"
            BY <1>1, <2>2 DEF IInv, Common, UsersInv
        <3> QED
            BY <3>1, IdleDataFreeNext DEF IdleDataFree
    <2> QED
        BY <2>1, <2>2
<1> QED
    BY <1>1 DEF DataInv

-----------------------------------------------------------------------------
(* Where a call may go by a step that moves no data and counts no attempt, *)
(* and what it must know to go there.                                      *)
QuietMove(u, to) ==
    \/ pc[u] \in {"clear", "message", "fill", "cfg2"}
          /\ to \in {"message", "fill", "cfg2", "final"}
    \/ pc[u] \in {"wait", "check", "reset", "unreset"}
          /\ to \in {"reset", "unreset", "clear_retry"}
    \/ pc[u] = "wait" /\ to = "check" /\ UNCHANGED <<start, intSts>>
    \/ pc[u] = "check" /\ to = "fill" /\ unfilled'[u] # "no"
    \/ /\ pc[u] = "check" /\ to = "drain"
       /\ start = FALSE /\ intSts \cap {"error", "timeout"} = {} /\ Msg(u).read
    \/ pc[u] = "drain" /\ to = "final"
    \/ pc[u] \in {"final", "unfinal"} /\ to \in {"unfinal", "leave"} /\ UNCHANGED err

Quiet(u) ==
    /\ UNCHANGED <<users, tainted, msgs, at, retry, ran, got, rdatasize, rdata>>
    /\ job' \in {job, None}
    /\ unfilled'[u] = "no" => unfilled[u] = "no"
    /\ \E to \in PC \ {"idle"} : pc' = [pc EXCEPT ![u] = to] /\ QuietMove(u, to)

LEMMA QuietStep ==
    ASSUME DataInv, IInv', NEW u \in User, Quiet(u)
    PROVE  DataInv'
<1> USE DEF DataInv, IInv, Common
<1>1. PICK to \in PC \ {"idle"} : pc' = [pc EXCEPT ![u] = to] /\ QuietMove(u, to)
    BY DEF Quiet
<1>2. /\ pc'[u] = to /\ \A v \in User : v # u => pc'[v] = pc[v]
      /\ UNCHANGED <<users, tainted, msgs, at, retry, ran, got, rdatasize, rdata>>
    BY <1>1 DEF Quiet, Shape
<1>3. DataShape'
    BY <1>1, <1>2 DEF DataShape
<1>4. ASSUME tainted' = FALSE PROVE DataAlone(u)'
    <2>1. DataAlone(u) /\ Alone(u) /\ CallInv(u)
        BY <1>2, <1>4
    <2>2. /\ Positions(u)' = Positions(u) /\ \A p : Times(u, p)' = Times(u, p)
          /\ Before(u)' = Before(u) /\ UpTo(u)' = UpTo(u) /\ Msg(u)' = Msg(u)
          /\ (Holds(u)' <=> Holds(u)) /\ RDataSize(u, at[u])' = RDataSize(u, at[u])
          /\ \A S : Copied(u, S)' <=> Copied(u, S)
        BY <1>2 DEF Positions, Times, Before, UpTo, Reads, Msg, Copied, CopyOf, Size,
                    Holds, RDataSize
    <2>3. Spent(u)' \in Nat /\ Spent(u) \in Nat /\ Spent(u)' <= Spent(u)
        <3>1. <<u, at[u]>> # None
            BY DEF None
        <3>2. Times(u, at[u])' = Times(u, at[u]) /\ Times(u, at[u]) \in Nat
            BY <1>2, <2>2, TimesIsNat
        <3> QED
            BY <1>2, <3>1, <3>2 DEF Spent, Pending, Quiet
    <2>4. RepeatInv(u)'
        <3>1. unfilled'[u] = "no" => unfilled[u] = "no"
            BY DEF Quiet
        <3>2. retry[u] \in Nat
            BY DEF DataShape
        <3> QED
            BY <1>1, <1>2, <2>1, <2>2, <2>3, <3>1, <3>2, BoundsAssumption
               DEF DataAlone, RepeatInv, QuietMove
    <2>5. ReadInv(u)'
        <3>1. /\ to # "leave" => pc[u] # "leave"
              /\ to = "leave" => pc[u] # "leave" /\ (err'[u] # "none" \/ msgs[u] = <<>>)
            BY <1>1, <2>1 DEF QuietMove, CallInv
        <3>2. to = "leave" /\ err'[u] = "none" => Copied(u, UpTo(u))
            <4>1. msgs[u] = <<>> => Positions(u) = {}
                BY DEF Positions
            <4>2. msgs[u] = <<>> => UpTo(u) = Before(u)
                BY <4>1 DEF UpTo, Before, Reads
            <4> QED
                BY <2>1, <3>1, <4>2 DEF DataAlone, ReadInv
        <3>3. to # "leave" => Copied(u, Before(u))
            BY <2>1, <3>1 DEF DataAlone, ReadInv
        <3>4. to = "drain" => Msg(u).read /\ Holds(u)
            BY <1>1, <2>1 DEF DataAlone, ReadInv, QuietMove
        <3>5. to \in {"wait", "check"} => to = "check" /\ pc[u] = "wait" /\ UNCHANGED <<start, intSts>>
            BY <1>1 DEF QuietMove
        <3>6. to \in {"wait", "check"} /\ start' = FALSE /\ intSts' \cap {"error", "timeout"} = {}
                => (Msg(u).read => Holds(u))
            BY <2>1, <3>5 DEF DataAlone, ReadInv
        <3>7. to \in Attempting => rdatasize = RDataSize(u, at[u])
            BY <1>1, <2>1 DEF DataAlone, ReadInv, QuietMove, Attempting
        <3> QED
            BY <1>2, <2>2, <3>2, <3>3, <3>4, <3>6, <3>7 DEF ReadInv
    <2> QED
        BY <2>4, <2>5 DEF DataAlone
<1> QED
    BY <1>1, <1>2, <1>3, <1>4, OneUserMoves

LEMMA QuietActions ==
    ASSUME DataInv, NEW u \in User,
           \/ ClearStatus(u) \/ WaitIdle(u) \/ Fill(u) \/ WaitDone(u)
           \/ RetryReset(u) \/ RetryUnreset(u) \/ FinalReset(u) \/ FinalUnreset(u)
    PROVE  Quiet(u)
<1>1. unfilled \in [User -> {"no", "chunk", "rest"}]
    BY DEF DataInv, IInv, Common, Shape
<1>2. CASE ClearStatus(u)
    BY <1>2 DEF ClearStatus, Goto, Quiet, QuietMove, PC, busVars, callVars, history
<1>3. CASE WaitIdle(u)
    <2>1. \E to \in {"fill", "final"} : pc[u] = "message" /\ pc' = [pc EXCEPT ![u] = to]
        BY <1>3 DEF WaitIdle, GotoErr, Goto
    <2> QED
        BY <1>3, <2>1 DEF WaitIdle, Quiet, QuietMove, PC, busVars, engineVars, history
<1>4. CASE Fill(u)
    <2>1. unfilled'[u] = "no" => unfilled[u] = "no"
        BY <1>1, <1>4 DEF Fill
    <2> QED
        BY <1>4, <2>1 DEF Fill, Goto, Quiet, QuietMove, PC, busVars, callVars, engineVars
<1>5. CASE WaitDone(u)
    <2>1. \E to \in {"check", "reset"} : pc[u] = "wait" /\ pc' = [pc EXCEPT ![u] = to]
        BY <1>5 DEF WaitDone, GotoErr, Goto
    <2> QED
        BY <1>5, <2>1 DEF WaitDone, Quiet, QuietMove, PC, busVars, engineVars, history
<1>6. CASE RetryReset(u)
    <2>1. \E to \in {"unreset", "clear_retry"} : pc[u] = "reset" /\ pc' = [pc EXCEPT ![u] = to]
        BY <1>6 DEF RetryReset, Reset, Goto
    <2>2. job' \in {job, None}
        BY <1>6 DEF RetryReset, Reset, Abort
    <2> QED
        BY <1>6, <2>1, <2>2 DEF RetryReset, Reset, Quiet, QuietMove, PC, busVars, callVars, history
<1>7. CASE FinalReset(u)
    <2>1. \E to \in {"unfinal", "leave"} : pc[u] = "final" /\ pc' = [pc EXCEPT ![u] = to]
        BY <1>7 DEF FinalReset, Reset, Goto
    <2>2. job' \in {job, None}
        BY <1>7 DEF FinalReset, Reset, Abort
    <2> QED
        BY <1>7, <2>1, <2>2 DEF FinalReset, Reset, Quiet, QuietMove, PC, busVars, callVars, history
<1>8. CASE RetryUnreset(u)
    BY <1>8 DEF RetryUnreset, Unreset, Goto, Quiet, QuietMove, PC, busVars, callVars, history
<1>9. CASE FinalUnreset(u)
    BY <1>9 DEF FinalUnreset, Unreset, Goto, Quiet, QuietMove, PC, busVars, callVars, history
<1> QED
    BY <1>2, <1>3, <1>4, <1>5, <1>6, <1>7, <1>8, <1>9

\* A chunk gets its first attempt, and each failure one more.
LEMMA AttemptStep ==
    ASSUME DataInv, IInv', NEW u \in User, WriteCfg2(u) \/ StartAccess(u) \/ ClearRetry(u)
    PROVE  DataInv'
<1> USE DEF DataInv, IInv, Common
<1>1. /\ UNCHANGED <<users, tainted, msgs, at, unfilled, ran, got, rdata>>
      /\ pc[u] \in {"cfg2", "start", "clear_retry"}
    BY DEF WriteCfg2, StartAccess, ClearRetry, Goto, GotoErr, busVars, engineVars, history
<1>2. PICK to \in {"start", "final", "wait", "reset"} :
        /\ pc' = [pc EXCEPT ![u] = to]
        /\ \/ pc[u] = "cfg2" /\ to = "start" /\ retry' = [retry EXCEPT ![u] = 0] /\ job' = job
           \/ pc[u] = "cfg2" /\ to = "final" /\ retry' = retry /\ job' = job
           \/ pc[u] = "start" /\ to \in {"wait", "reset"} /\ retry' = retry
                 /\ (job' = job \/ job' = <<u, at[u]>>)
           \/ pc[u] = "clear_retry" /\ retry' = [retry EXCEPT ![u] = @ + 1] /\ job' = job
                 /\ ((to = "start" /\ retry'[u] <= Retries) \/ to = "final")
    <2>1. CASE WriteCfg2(u)
        BY <2>1 DEF WriteCfg2, GotoErr, Goto, engineVars
    <2>2. CASE StartAccess(u)
        BY <2>2 DEF StartAccess, GotoErr, Goto
    <2>3. CASE ClearRetry(u)
        BY <2>3 DEF ClearRetry, Goto
    <2> QED
        BY <2>1, <2>2, <2>3
<1>3. start' = TRUE \/ to # "wait"
    BY <1>1, <1>2 DEF WriteCfg2, StartAccess, ClearRetry, Goto, GotoErr, Shape
<1>4. pc'[u] = to /\ \A v \in User : v # u => pc'[v] = pc[v]
    BY <1>2 DEF Shape
<1>5. DataShape'
    <2>1. retry' \in [User -> Nat]
        <3>1. retry[u] + 1 \in Nat /\ 0 \in Nat
            BY DEF DataShape
        <3> QED
            BY <1>2, <3>1 DEF DataShape
    <2>2. \A v \in User : pc'[v] = "idle" => pc[v] = "idle"
        BY <1>4
    <2> QED
        BY <1>1, <2>1, <2>2 DEF DataShape
<1>6. ASSUME tainted' = FALSE PROVE DataAlone(u)'
    <2>1. DataAlone(u)
        BY <1>1, <1>6
    <2>2. /\ Positions(u)' = Positions(u) /\ \A p : Times(u, p)' = Times(u, p)
          /\ Before(u)' = Before(u) /\ \A S : Copied(u, S)' <=> Copied(u, S)
          /\ RDataSize(u, at[u])' = RDataSize(u, at[u])
        BY <1>1 DEF Positions, Times, Before, Reads, Copied, CopyOf, Size, RDataSize
    <2>3. /\ Times(u, at[u])' = Times(u, at[u]) /\ Times(u, at[u]) \in Nat
          /\ Pending(u)' \in 0..1 /\ Pending(u) \in 0..1
          /\ job' = job => Pending(u)' = Pending(u)
        BY <1>1, <2>2, TimesIsNat DEF Pending
    <2>4. RepeatInv(u)'
        <3>1. retry[u] \in Nat /\ retry'[u] \in Nat
            BY <1>5 DEF DataShape
        <3>2. CASE pc[u] = "cfg2" /\ to = "start" /\ retry' = [retry EXCEPT ![u] = 0] /\ job' = job
            <4>1. retry'[u] = 0
                BY <3>2 DEF DataShape
            <4> QED
                BY <1>1, <1>4, <2>1, <2>2, <2>3, <3>2, <4>1, BoundsAssumption
                   DEF DataAlone, RepeatInv, Spent
        <3>3. CASE pc[u] = "cfg2" /\ to = "final" /\ retry' = retry /\ job' = job
            BY <1>1, <1>4, <2>1, <2>2, <2>3, <3>3 DEF DataAlone, RepeatInv, Spent
        <3>4. CASE /\ pc[u] = "start" /\ to \in {"wait", "reset"} /\ retry' = retry
            BY <1>1, <1>4, <2>1, <2>2, <2>3, <3>1, <3>4, BoundsAssumption
               DEF DataAlone, RepeatInv, Spent
        <3>5. CASE /\ pc[u] = "clear_retry" /\ retry' = [retry EXCEPT ![u] = @ + 1] /\ job' = job
                   /\ ((to = "start" /\ retry'[u] <= Retries) \/ to = "final")
            <4>1. retry'[u] = retry[u] + 1
                BY <3>5 DEF DataShape
            <4> QED
                BY <1>1, <1>4, <2>1, <2>2, <2>3, <3>1, <3>5, <4>1, BoundsAssumption
                   DEF DataAlone, RepeatInv, Spent
        <3> QED
            BY <1>2, <3>2, <3>3, <3>4, <3>5
    <2>5. ReadInv(u)'
        <3>1. to \in Attempting => rdatasize' = RDataSize(u, at[u])
            <4>1. CASE pc[u] = "cfg2"
                BY <1>4, <4>1 DEF WriteCfg2, StartAccess, ClearRetry, Goto, GotoErr, Attempting, Shape
            <4>2. CASE pc[u] # "cfg2"
                <5>1. rdatasize' = rdatasize
                    BY <4>2 DEF WriteCfg2, StartAccess, ClearRetry, Goto, GotoErr
                <5>2. pc[u] \in Attempting
                    BY <1>1, <4>2 DEF Attempting
                <5> QED
                    BY <2>1, <5>1, <5>2 DEF DataAlone, ReadInv
            <4> QED
                BY <4>1, <4>2
        <3> QED
            BY <1>1, <1>2, <1>3, <1>4, <2>1, <2>2, <3>1 DEF DataAlone, ReadInv
    <2> QED
        BY <2>4, <2>5 DEF DataAlone
<1> QED
    BY <1>4, <1>5, <1>6, OneUserMoves

\* What is copied out of the window; of one that holds the chunk, a copy of it.
LEMMA WindowIsSeq ==
    ASSUME Shape, DataShape, NEW u \in User, msgs[u] # <<>>, InTransfer(u)
    PROVE  /\ SubSeq(rdata, 1, Size(u, at[u])) \in Seq(Chunk)
           /\ Len(SubSeq(rdata, 1, Size(u, at[u]))) = Size(u, at[u])
           /\ Size(u, at[u]) \in 1..BufSize
           /\ \A k \in 1..Size(u, at[u]) : SubSeq(rdata, 1, Size(u, at[u]))[k] = rdata[k]
<1> DEFINE n == Size(u, at[u])
<1>1. n \in 1..BufSize
    <2>1. msgs[u] \in Transfers /\ at[u] \in Position
        BY DEF Shape
    <2>2. msgs[u][at[u].msg].last \in 1..BufSize
        BY <2>1, TransferShape DEF InTransfer
    <2> QED
        BY <2>2, BufSizeAssumption DEF Size
<1>2. rdata \in Seq(Chunk) /\ Len(rdata) = BufSize
    BY BufSizeAssumption DEF DataShape
<1>3. /\ SubSeq(rdata, 1, n) \in Seq(Chunk) /\ Len(SubSeq(rdata, 1, n)) = n
      /\ \A k \in 1..n : SubSeq(rdata, 1, n)[k] = rdata[k]
    BY <1>1, <1>2, BufSizeAssumption
<1> QED
    BY <1>1, <1>3

LEMMA CopyOfWindow ==
    ASSUME Shape, DataShape, NEW u \in User, msgs[u] # <<>>, InTransfer(u), Msg(u).read, Holds(u)
    PROVE  /\ SubSeq(rdata, 1, Size(u, at[u])) \in Seq(Chunk)
           /\ CopyOf(u, at[u], SubSeq(rdata, 1, Size(u, at[u])))
<1> DEFINE n == Size(u, at[u])
<1>1. n \in 1..BufSize
    BY WindowIsSeq
<1>3. /\ SubSeq(rdata, 1, n) \in Seq(Chunk) /\ Len(SubSeq(rdata, 1, n)) = n
      /\ \A k \in 1..n : SubSeq(rdata, 1, n)[k] = rdata[k]
    BY WindowIsSeq
<1>4. \A k \in 1..n : k <= HwBufSize => rdata[k] = <<u, at[u]>>
    BY <1>1, BufSizeAssumption DEF Holds, RDataSize, HwBufSize, Msg
<1> QED
    BY <1>3, <1>4 DEF CopyOf

\* What a user has read once its chunk at[u] is dealt with.
LEMMA CopiedUpTo ==
    ASSUME Shape, DataShape, NEW u \in User, msgs[u] # <<>>, InTransfer(u), UNCHANGED msgs,
           Copied(u, Before(u)),
           \/ Msg(u).read = FALSE /\ got' = got
           \/ /\ Msg(u).read /\ Holds(u)
              /\ got'[u] = Append(got[u], SubSeq(rdata, 1, Size(u, at[u])))
    PROVE  /\ IsFiniteSet(UpTo(u))
           /\ Len(got'[u]) = Cardinality(UpTo(u))
           /\ \A p \in UpTo(u) : \E i \in 1..Len(got'[u]) : CopyOf(u, p, got'[u][i])
<1>1. /\ msgs[u] \in Transfers /\ at[u] \in Position /\ got[u] \in Seq(Seq(Chunk))
      /\ Len(got[u]) \in Nat
    BY DEF Shape, DataShape
<1>2. at[u] \in Positions(u)
    <2>1. DOMAIN msgs[u] = 1..Len(msgs[u])
        BY <1>1, TransfersAssumption
    <2> QED
        BY <1>1, <2>1 DEF InTransfer, Positions, Position
<1>3. ~(at[u] \prec at[u])
    BY <1>1 DEF \prec, Position
<1>4. CASE Msg(u).read = FALSE /\ got' = got
    <2>1. UpTo(u) = Before(u)
        BY <1>4 DEF UpTo, Before, Reads, Msg
    <2> QED
        BY <1>4, <2>1 DEF Copied
<1>5. CASE /\ Msg(u).read /\ Holds(u)
           /\ got'[u] = Append(got[u], SubSeq(rdata, 1, Size(u, at[u])))
    <2>5. /\ SubSeq(rdata, 1, Size(u, at[u])) \in Seq(Chunk)
          /\ CopyOf(u, at[u], SubSeq(rdata, 1, Size(u, at[u])))
        BY <1>5, CopyOfWindow
    <2>1. UpTo(u) = Before(u) \cup {at[u]} /\ at[u] \notin Before(u)
        BY <1>2, <1>3, <1>5 DEF UpTo, Before, Reads, Msg
    <2>2. /\ Len(got'[u]) = Len(got[u]) + 1
          /\ \A i \in 1..Len(got[u]) : got'[u][i] = got[u][i]
          /\ CopyOf(u, at[u], got'[u][Len(got[u]) + 1])
        BY <1>1, <1>5, <2>5, AppendProperties
    <2>3. /\ IsFiniteSet(UpTo(u))
          /\ Cardinality(UpTo(u)) = Cardinality(Before(u)) + 1
        BY <2>1, FS_AddElement DEF Copied
    <2>4. ASSUME NEW p \in UpTo(u) PROVE \E i \in 1..Len(got'[u]) : CopyOf(u, p, got'[u][i])
        <3>1. CASE p = at[u]
            BY <1>1, <2>2, <3>1
        <3>2. CASE p \in Before(u)
            <4>1. PICK i \in 1..Len(got[u]) : CopyOf(u, p, got[u][i])
                BY <3>2 DEF Copied
            <4> QED
                BY <1>1, <2>2, <4>1
        <3> QED
            BY <2>1, <3>1, <3>2
    <2> QED
        BY <2>2, <2>3, <2>4 DEF Copied
<1> QED
    BY <1>4, <1>5

\* The next chunk, and the next message, begin with a clean slate.
LEMMA AdvanceData ==
    ASSUME DataInv, IInv', NEW u \in User, Advance(u, pc[u]), pc[u] \in {"check", "drain"},
           UNCHANGED <<users, tainted, msgs, retry, err, start, intSts, job, rdata, ran>>,
           unfilled'[u] = "no" => unfilled[u] = "no",
           got' \in [User -> Seq(Seq(Chunk))],
           \A v \in User : v # u => got'[v] = got[v],
           tainted = FALSE =>
              \/ Msg(u).read = FALSE /\ got' = got
              \/ /\ Msg(u).read /\ Holds(u)
                 /\ got'[u] = Append(got[u], SubSeq(rdata, 1, Size(u, at[u])))
    PROVE  DataInv'
<1> USE DEF DataInv, IInv, Common
<1>1. msgs[u] # <<>> /\ InTransfer(u)
    BY DEF CallInv
<1>2. /\ at[u] \in Position /\ at'[u] \in Position
      /\ \A p \in Positions(u) : p \prec at'[u] => p \prec at[u] \/ p = at[u]
    BY <1>1, AdvanceStep DEF Shape
<1>3. PICK to \in {"fill", "message", "leave"} :
          /\ pc' = [pc EXCEPT ![u] = to]
          /\ IF to = "leave" THEN at' = at /\ AtEnd(u) ELSE at[u] \prec at'[u]
    BY <1>1, AdvanceStep
<1>4. pc'[u] = to /\ \A v \in User : v # u => pc'[v] = pc[v]
    BY <1>3 DEF Shape
<1>5. DataShape'
    BY <1>4 DEF DataShape
<1>6. ASSUME tainted' = FALSE PROVE DataAlone(u)'
    <2>1. DataAlone(u) /\ Alone(u)
        BY <1>6
    <2>2. /\ Positions(u)' = Positions(u) /\ \A p : Times(u, p)' = Times(u, p)
          /\ Reads(u)' = Reads(u) /\ \A p, c : CopyOf(u, p, c)' <=> CopyOf(u, p, c)
        BY DEF Positions, Times, Reads, CopyOf, Size
    <2>3. Copied(u, Before(u))
        BY <2>1 DEF DataAlone, ReadInv
    <2>4. /\ IsFiniteSet(UpTo(u))
          /\ Len(got'[u]) = Cardinality(UpTo(u))
          /\ \A p \in UpTo(u) : \E i \in 1..Len(got'[u]) : CopyOf(u, p, got'[u][i])
        BY <1>1, <1>6, <2>3, CopiedUpTo
    <2>5. CASE to = "leave"
        <3>1. UpTo(u)' = UpTo(u) /\ Spent(u)' = Spent(u)
            BY <1>3, <2>2, <2>5 DEF UpTo, Spent, Pending
        <3>2. RepeatInv(u)'
            BY <1>4, <2>1, <2>2, <2>5, <3>1 DEF DataAlone, RepeatInv
        <3>3. ReadInv(u)'
            BY <1>4, <2>2, <2>4, <2>5, <3>1 DEF ReadInv, Copied, Attempting
        <3> QED
            BY <3>2, <3>3 DEF DataAlone
    <2>6. CASE to # "leave"
        <3>1. at[u] \prec at'[u]
            BY <1>3, <2>6
        <3>2. Before(u)' = UpTo(u)
            <4>1. \A p \in Positions(u) : p \in Position
                <5>1. msgs[u] \in Transfers
                    BY <1>1 DEF Shape
                <5>2. /\ DOMAIN msgs[u] = 1..Len(msgs[u])
                      /\ \A k \in 1..Len(msgs[u]) : msgs[u][k].chunks \in Nat
                    BY <5>1, TransferShape, TransfersAssumption
                <5> QED
                    BY <5>2 DEF Positions, Position
            <4>2. \A p \in Positions(u) : p \prec at'[u] <=> p \prec at[u] \/ p = at[u]
                BY <1>2, <3>1, <4>1 DEF \prec, Position
            <4> QED
                BY <2>2, <4>2 DEF Before, UpTo, Reads
        <3>3. Spent(u)' = 0
            <4>1. at'[u] # at[u] /\ ~(at'[u] \prec at[u])
                BY <1>2, <3>1 DEF \prec, Position
            <4>2. ~Has(u, at'[u])
                BY <2>1, <4>1 DEF Alone, InOrder, Has
            <4>3. Times(u, at'[u]) = 0
                BY <4>2, NeverCompleted
            <4>4. job # <<u, at'[u]>>
                BY <1>2, <2>1 DEF Alone, EngineOwn
            <4> QED
                BY <4>3, <4>4 DEF Spent, Pending, Times
        <3>4. RepeatInv(u)'
            BY <1>3, <1>4, <2>1, <2>2, <2>6, <3>3, BoundsAssumption DEF DataAlone, RepeatInv
        <3>5. ReadInv(u)'
            BY <1>3, <1>4, <2>2, <2>4, <2>6, <3>2 DEF ReadInv, Copied, Attempting
        <3> QED
            BY <3>4, <3>5 DEF DataAlone
    <2> QED
        BY <2>5, <2>6
<1> QED
    BY <1>3, <1>4, <1>5, <1>6, OneUserMoves

LEMMA CheckErrData ==
    ASSUME DataInv, IInv', NEW u \in User, CheckErr(u)
    PROVE  DataInv'
<1> USE DEF DataInv, IInv, Common
<1>1. /\ pc[u] = "check" /\ unfilled \in [User -> {"no", "chunk", "rest"}]
      /\ UNCHANGED <<users, tainted, msgs, retry, start, rst, intSts, job, rdatasize, rdata, ran, got>>
    BY DEF CheckErr, busVars, engineVars, Shape
<1>2. StatusError = "none" => intSts \cap {"error", "timeout"} = {}
    BY DEF StatusError
<1>3. CASE \/ GotoErr(u, "check", "reset", StatusError) /\ UNCHANGED <<at, unfilled>>
           \/ GotoErr(u, "check", "reset", "io") /\ UNCHANGED <<at, unfilled>>
    <2>1. Quiet(u)
        BY <1>1, <1>3 DEF GotoErr, Goto, Quiet, QuietMove, PC
    <2> QED
        BY <2>1, QuietStep
<1>4. CASE /\ StatusError = "none" /\ Msg(u).read
           /\ Goto(u, "check", "drain") /\ UNCHANGED <<at, err, unfilled>>
    <2>1. tainted = FALSE => start = FALSE
        BY <1>1 DEF Alone, EngineOwn
    <2>2. CASE tainted = FALSE
        <3>1. Quiet(u)
            BY <1>1, <1>2, <1>4, <2>1, <2>2 DEF Goto, Quiet, QuietMove, PC
        <3> QED
            BY <3>1, QuietStep
    <2>3. CASE tainted # FALSE
        <3>1. pc' = [pc EXCEPT ![u] = "drain"]
            BY <1>4 DEF Goto
        <3>2. \A v \in User : pc'[v] = "idle" => pc[v] = "idle"
            BY <1>1, <3>1 DEF Shape
        <3>3. DataShape'
            BY <1>1, <3>2 DEF DataShape
        <3> QED
            BY <1>1, <2>3, <3>3
    <2> QED
        BY <2>2, <2>3
<1>5. CASE /\ StatusError = "none" /\ ~Msg(u).read
           /\ Advance(u, "check") /\ UNCHANGED err
           /\ unfilled' = [unfilled EXCEPT ![u] = IF @ = "chunk" THEN "rest" ELSE @]
    <2>1. Msg(u).read = FALSE
        <3>1. msgs[u] # <<>> /\ InTransfer(u) /\ msgs[u] \in Transfers
            BY <1>1 DEF CallInv, Shape
        <3> QED
            BY <1>5, <3>1, TransferShape DEF Msg, InTransfer
    <2>2. unfilled'[u] = "no" => unfilled[u] = "no"
        BY <1>1, <1>5
    <2> QED
        BY <1>1, <1>5, <2>1, <2>2, AdvanceData DEF DataShape
<1>6. CASE /\ unfilled' = [unfilled EXCEPT ![u] = "rest"]
           /\ Goto(u, "check", "fill") /\ UNCHANGED <<at, err>>
    <2>1. unfilled'[u] = "rest"
        BY <1>1, <1>6
    <2>2. Quiet(u)
        BY <1>1, <1>6, <2>1 DEF Goto, Quiet, QuietMove, PC
    <2> QED
        BY <2>2, QuietStep
<1> QED
    BY <1>3, <1>4, <1>5, <1>6 DEF CheckErr

LEMMA DrainData ==
    ASSUME DataInv, IInv', NEW u \in User, Drain(u)
    PROVE  DataInv'
<1> USE DEF DataInv, IInv, Common
<1>1. UNCHANGED <<users, tainted, msgs, retry, start, rst, intSts, job, rdatasize, rdata, ran,
                unfilled>>
    BY DEF Drain, busVars, engineVars
<1> DEFINE c == SubSeq(rdata, 1, Size(u, at[u]))
<1>2. CASE Advance(u, "drain") /\ UNCHANGED err /\ got' = [got EXCEPT ![u] = Append(@, c)]
    <2>1. pc[u] = "drain"
        BY <1>2 DEF Advance
    <2>2. Append(got[u], c) \in Seq(Seq(Chunk))
        <3>1. c \in Seq(Chunk)
            <4>1. msgs[u] # <<>> /\ InTransfer(u)
                BY <2>1 DEF CallInv
            <4> QED
                BY <4>1, WindowIsSeq
        <3> QED
            BY <3>1, AppendProperties DEF DataShape
    <2>3. /\ got' \in [User -> Seq(Seq(Chunk))] /\ got'[u] = Append(got[u], c)
          /\ \A v \in User : v # u => got'[v] = got[v]
        BY <1>2, <2>2 DEF DataShape
    <2>4. tainted = FALSE => Msg(u).read /\ Holds(u)
        BY <2>1 DEF DataAlone, ReadInv
    <2> QED
        BY <1>1, <1>2, <2>1, <2>3, <2>4, AdvanceData
<1>3. CASE GotoErr(u, "drain", "final", "io") /\ UNCHANGED <<at, got>>
    <2>1. Quiet(u)
        BY <1>1, <1>3 DEF GotoErr, Goto, Quiet, QuietMove, PC
    <2> QED
        BY <2>1, QuietStep
<1> QED
    BY <1>2, <1>3 DEF Drain

LEMMA DisownChunk ==
    ASSUME NEW c \in Chunk, NEW u \in User
    PROVE  Disown(c, u) \in Chunk
BY DEF Disown, Chunk

LEMMA DisownedWindow ==
    ASSUME DataShape, NEW u \in User
    PROVE  DisownWindow(u) \in [1..BufSize -> Chunk]
BY DisownChunk DEF DisownWindow, DataShape

\* A call that begins, or begins again.
LEMMA FreshCall ==
    ASSUME NEW u \in User, at'[u] = First, ran'[u] = <<>>, got'[u] = <<>>,
           msgs'[u] \in Transfers \cup {<<>>}, job' # <<u, First>>,
           pc'[u] \in {"clear", "final"}
    PROVE  DataAlone(u)'
<1>1. Before(u)' = {}
    <2>1. CASE msgs'[u] \in Transfers
        BY <2>1, FirstChunkNext DEF FirstIsFirst, Before, Reads
    <2>2. CASE msgs'[u] = <<>>
        BY <2>2 DEF Positions, Before, Reads
    <2> QED
        BY <2>1, <2>2
<1>2. Copied(u, Before(u))'
    BY <1>1, FS_EmptySet DEF Copied
<1>3. \A p : Times(u, p)' = 0
    <2>1. \A p : {i \in 1..Len(ran'[u]) : ran'[u][i] = p} = {}
        OBVIOUS
    <2> QED
        BY <2>1, FS_EmptySet DEF Times
<1>4. Spent(u)' = 0
    BY <1>3 DEF Spent, Pending
<1>5. RepeatInv(u)'
    BY <1>3, <1>4, BoundsAssumption DEF RepeatInv
<1> QED
    BY <1>2, <1>5 DEF DataAlone, ReadInv, Attempting

LEMMA TryAgainData ==
    ASSUME DataInv, IInv', NEW u \in User, TryAgain(u)
    PROVE  DataInv'
<1> USE DEF DataInv, IInv, Common
<1>1. /\ pc' = [pc EXCEPT ![u] = "clear"] /\ at' = [at EXCEPT ![u] = First]
      /\ ran' = [ran EXCEPT ![u] = <<>>] /\ got' = [got EXCEPT ![u] = <<>>]
      /\ job' = Disown(job, u) /\ rdata' = DisownWindow(u)
      /\ UNCHANGED <<users, tainted, msgs, retry>>
    BY DEF TryAgain, GotoErr, Goto, busVars
<1>2. /\ pc'[u] = "clear" /\ at'[u] = First /\ ran'[u] = <<>> /\ got'[u] = <<>>
      /\ \A v \in User : v # u => pc'[v] = pc[v] /\ got'[v] = got[v]
    BY <1>1 DEF Shape, DataShape
<1>3. got' \in [User -> Seq(Seq(Chunk))]
    <2>1. <<>> \in Seq(Seq(Chunk))
        OBVIOUS
    <2> QED
        BY <1>1, <2>1 DEF DataShape
<1>4. DataShape'
    BY <1>1, <1>2, <1>3, DisownedWindow DEF DataShape
<1>5. msgs'[u] \in Transfers \cup {<<>>} /\ job' # <<u, First>>
    <2>1. First \in Position
        BY DEF First, Position
    <2> QED
        BY <1>1, <2>1, DisownJob DEF Shape
<1> QED
    BY <1>2, <1>4, <1>5, FreshCall, OneUserMoves

\* A user enters the segment, for a transfer or to reset the engine.
LEMMA EnterData ==
    ASSUME DataInv, IInv', NEW u \in User, Begin(u) \/ Register(u)
    PROVE  DataInv'
<1> USE DEF DataInv, IInv, Common
<1>1. PICK to \in {"clear", "final"} : pc' = [pc EXCEPT ![u] = to]
    BY DEF Begin, Register, Goto
<1>2. /\ pc[u] = "idle"
      /\ UNCHANGED <<at, ran, got, job, rdata, retry>>
    BY DEF Begin, Register, Goto, engineVars, history, callVars
<1>3. pc'[u] = to /\ \A v \in User : v # u => pc'[v] = pc[v]
    BY <1>1 DEF Shape
<1>4. at[u] = First /\ ran[u] = <<>> /\ got[u] = <<>> /\ job # <<u, First>>
    <2>1. First \in Position
        BY DEF First, Position
    <2> QED
        BY <1>2, <2>1 DEF CallInv, EngineInv, DataShape
<1>5. DataShape'
    BY <1>2, <1>3, <1>4 DEF DataShape
<1>6. msgs'[u] \in Transfers \cup {<<>>}
    BY DEF Shape
<1>7. DataAlone(u)'
    BY <1>2, <1>3, <1>4, <1>6, FreshCall
<1> QED
    BY <1>3, <1>5, <1>7, OneUserMoves

LEMMA ForgetData ==
    ASSUME DataInv, IInv', NEW u \in User, pc[u] # "idle", Forget(u)
    PROVE  DataInv'
<1> USE DEF DataInv, IInv, Common
<1>1. /\ pc' = [pc EXCEPT ![u] = "idle"] /\ retry' = [retry EXCEPT ![u] = 0]
      /\ got' = [got EXCEPT ![u] = <<>>] /\ rdata' = DisownWindow(u)
      /\ users' = users \ {u} /\ tainted' \in BOOLEAN
      /\ tainted = TRUE /\ tainted' = FALSE => users' = {}
    BY DEF Forget, Segment!Leave
<1>2. DataShape'
    <2>1. <<>> \in Seq(Seq(Chunk)) /\ 0 \in Nat
        OBVIOUS
    <2>2. \A v \in User : pc'[v] = "idle" => got'[v] = <<>>
        BY <1>1 DEF Shape, DataShape
    <2> QED
        BY <1>1, <2>1, <2>2, DisownedWindow DEF DataShape
<1>3. ASSUME tainted' = FALSE, NEW v \in User PROVE DataAlone(v)'
    <2>1. pc'[v] = "idle"
        <3>1. tainted \in BOOLEAN /\ u \in users
            BY DEF Shape, UsersInv
        <3> QED
            BY <1>1, <1>3, <3>1 DEF UsersInv
    <2> QED
        BY <1>2, <2>1, IdleDataFreeNext DEF IdleDataFree
<1> QED
    BY <1>2, <1>3

LEMMA SegmentData ==
    ASSUME DataInv, IInv', SegmentChanges
    PROVE  DataInv'
<1> USE DEF DataInv, IInv, Common
<1>1. /\ UNCHANGED <<users, pc, retry, rdata, got>>
      /\ tainted' = TRUE \/ (tainted' = FALSE /\ users = {})
    BY DEF SegmentChanges, Segment!Taint, Segment!Heal, callVars, engineVars, history
<1>2. DataShape'
    BY <1>1 DEF DataShape
<1>3. ASSUME tainted' = FALSE, NEW v \in User PROVE DataAlone(v)'
    <2>1. pc'[v] = "idle"
        BY <1>1, <1>3 DEF UsersInv
    <2> QED
        BY <1>2, <2>1, IdleDataFreeNext DEF IdleDataFree
<1> QED
    BY <1>2, <1>3

\* The engine completes a chunk at most once for each time it was started.
LEMMA EngineEndsData ==
    ASSUME DataInv, IInv', EngineEnds
    PROVE  DataInv'
<1> USE DEF DataInv, IInv, Common
<1>1. /\ start = TRUE /\ start' = FALSE /\ job' = None
      /\ UNCHANGED <<users, tainted, pc, msgs, at, err, retry, unfilled, got, rdatasize>>
    BY DEF EngineEnds, busVars, callVars, budgets, Shape
<1>2. PICK s \in Reports :
        LET chunk == IF s = {"done"} THEN job ELSE Nobodys IN
        /\ intSts' = intSts \cup s
        /\ rdata' = [k \in 1..BufSize |-> IF k <= rdatasize THEN chunk ELSE rdata[k]]
        /\ ran' = IF chunk = Nobodys THEN ran
                  ELSE [ran EXCEPT ![job[1]] = Append(@, job[2])]
    BY DEF EngineEnds
<1>3. DataShape'
    <2>1. job \in Chunk /\ Nobodys \in Chunk
        BY DEF Shape, Chunk
    <2>2. rdata' \in [1..BufSize -> Chunk]
        BY <1>2, <2>1 DEF DataShape
    <2> QED
        BY <1>1, <2>2 DEF DataShape
<1>4. ASSUME tainted' = FALSE, NEW v \in User PROVE DataAlone(v)'
    <2>1. DataAlone(v) /\ Alone(v) /\ at[v] \in Position
        BY <1>1, <1>4 DEF Shape
    <2>2. Positions(v)' = Positions(v) /\ Before(v)' = Before(v) /\ UpTo(v)' = UpTo(v)
          /\ Msg(v)' = Msg(v) /\ \A S : Copied(v, S)' <=> Copied(v, S)
        BY <1>1 DEF Positions, Before, UpTo, Reads, Msg, Copied, CopyOf, Size
    <2>5. /\ pc'[v] = pc[v] /\ err'[v] = err[v] /\ Msg(v)' = Msg(v)
          /\ Copied(v, Before(v))' <=> Copied(v, Before(v))
          /\ Copied(v, UpTo(v))' <=> Copied(v, UpTo(v))
          /\ (rdatasize = RDataSize(v, at[v]))' <=> rdatasize = RDataSize(v, at[v])
        BY <1>1 DEF Before, UpTo, Reads, Positions, Msg, Copied, CopyOf, Size, RDataSize
    <2>3. CASE job = <<v, at[v]>> /\ s = {"done"}
        <3>1. job # Nobodys /\ job[1] = v /\ job[2] = at[v]
            BY <2>3 DEF Nobodys
        <3>2. /\ ran'[v] = Append(ran[v], at[v])
              /\ rdata' = [k \in 1..BufSize |-> IF k <= rdatasize THEN job ELSE rdata[k]]
            BY <1>2, <2>3, <3>1 DEF Shape
        <3>3. \A p : Times(v, p)' = Times(v, p) + (IF p = at[v] THEN 1 ELSE 0)
            BY <2>1, <3>2, TimesAppend
        <3>4. Pending(v)' = 0 /\ Pending(v) = 1 /\ Times(v, at[v]) \in Nat
            BY <1>1, <2>3, TimesIsNat DEF Pending, None
        <3>8. PICK a \in Position : a = at[v] /\ at'[v] = a
            BY <1>1, <2>1
        <3>5. Spent(v)' = Spent(v) /\ Spent(v) = Times(v, a)'
            <4>1. Times(v, a)' = Times(v, a) + 1 /\ Times(v, a) \in Nat
                BY <3>3, <3>8, TimesIsNat
            <4>2. Spent(v) = Times(v, a) + 1
                BY <3>4, <3>8 DEF Spent
            <4>3. Spent(v)' = Times(v, a)'
                <5>1. Spent(v)' = Times(v, a)' + Pending(v)'
                    BY <3>8 DEF Spent, Times
                <5> QED
                    BY <3>4, <4>1, <5>1
            <4> QED
                BY <4>1, <4>2, <4>3
        <3>6. RepeatInv(v)'
            <4>1. unfilled[v] = "no" =>
                    \A p \in Positions(v) : Times(v, p)' <= Retries + 1
                <5> SUFFICES ASSUME unfilled[v] = "no", NEW p \in Positions(v)
                             PROVE  Times(v, p)' <= Retries + 1
                    OBVIOUS
                <5>1. CASE p = at[v]
                    <6>1. p = a
                        BY <3>8, <5>1
                    <6>2. Times(v, p)' = Spent(v)
                        BY <3>5, <6>1
                    <6> QED
                        BY <2>1, <6>2 DEF DataAlone, RepeatInv
                <5>2. CASE p # at[v]
                    BY <2>1, <3>3, <5>2, TimesIsNat DEF DataAlone, RepeatInv
                <5> QED
                    BY <5>1, <5>2
            <4> QED
                BY <1>1, <2>1, <2>2, <3>5, <4>1 DEF DataAlone, RepeatInv
        <3>7. ReadInv(v)'
            <4>1. pc[v] \in {"wait", "check"} => rdatasize = RDataSize(v, at[v])
                BY <2>1 DEF DataAlone, ReadInv, Attempting
            <4>2. pc[v] \in {"wait", "check"} => Holds(v)'
                <5>1. pc[v] \in {"wait", "check"} =>
                        \A k \in 1..BufSize : k <= RDataSize(v, at[v]) => rdata'[k] = job
                    BY <3>2, <4>1
                <5>2. at'[v] = at[v]
                    BY <1>1
                <5>3. RDataSize(v, at[v])' = RDataSize(v, at[v])
                    BY <1>1 DEF RDataSize, Size
                <5>4. SUFFICES ASSUME pc[v] \in {"wait", "check"}, NEW k \in 1..BufSize,
                                      (k <= RDataSize(v, at[v]))'
                               PROVE  rdata'[k] = <<v, at'[v]>>
                    BY DEF Holds
                <5> QED
                    BY <2>3, <5>1, <5>2, <5>3, <5>4
            <4>3. pc[v] \notin {"check", "drain"}
                BY <2>1, <2>3 DEF Alone, EngineOwn
            <4> QED
                BY <2>1, <2>5, <4>2, <4>3 DEF DataAlone, ReadInv
        <3> QED
            BY <3>6, <3>7 DEF DataAlone
    <2>4. CASE ~(job = <<v, at[v]>> /\ s = {"done"})
        <3>1. ran'[v] = ran[v]
            <4>1. CASE s = {"done"} /\ job # Nobodys
                <5>1. PICK w \in User, p \in Position : job = <<w, p>>
                    BY <1>1, <4>1 DEF EngineInv, Shape, Chunk
                <5>2. w # v
                    BY <2>1, <2>4, <4>1, <5>1 DEF Alone, EngineOwn
                <5>3. ran' = [ran EXCEPT ![w] = Append(@, p)]
                    BY <1>2, <4>1, <5>1
                <5> QED
                    BY <5>2, <5>3 DEF Shape
            <4> QED
                BY <1>2, <4>1
        <3>2. \A p : Times(v, p)' = Times(v, p)
            BY <3>1 DEF Times
        <3>3. Spent(v)' \in Nat /\ Spent(v) \in Nat /\ Spent(v)' <= Spent(v)
            <4>1. job' # <<v, at[v]>>
                BY <1>1 DEF None
            <4> QED
                BY <1>1, <3>2, <4>1, TimesIsNat DEF Spent, Pending
        <3>4. RepeatInv(v)'
            <4>1. retry[v] \in Nat
                BY DEF DataShape
            <4> QED
                BY <1>1, <2>1, <2>2, <3>2, <3>3, <4>1, BoundsAssumption DEF DataAlone, RepeatInv
        <3>5. ReadInv(v)'
            <4>1. pc[v] \notin {"check", "drain"}
                BY <1>1, <2>1 DEF Alone, EngineOwn
            <4>2. pc[v] = "wait" => intSts' \cap {"error", "timeout"} # {}
                BY <1>1, <1>2, <2>1, <2>4 DEF Alone, EngineOwn, Reports
            <4> QED
                BY <2>1, <2>5, <4>1, <4>2 DEF DataAlone, ReadInv
        <3> QED
            BY <3>4, <3>5 DEF DataAlone
    <2> QED
        BY <2>3, <2>4
<1> QED
    BY <1>3, <1>4

-----------------------------------------------------------------------------
LEMMA DataInductive == DataInv /\ [Next]_vars => DataInv'
<1> SUFFICES ASSUME DataInv, [Next]_vars PROVE DataInv'
    OBVIOUS
<1>1. IInv'
    BY Inductive DEF DataInv
<1>2. ASSUME NEW u \in User, Steps(u) PROVE DataInv'
    <2>1. CASE Begin(u) \/ Register(u)
        BY <1>1, <2>1, EnterData
    <2>2. CASE Driver(u)
        <3>1. CASE \/ ClearStatus(u) \/ WaitIdle(u) \/ Fill(u) \/ WaitDone(u)
                   \/ RetryReset(u) \/ RetryUnreset(u) \/ FinalReset(u) \/ FinalUnreset(u)
            BY <1>1, <3>1, QuietActions, QuietStep
        <3>2. CASE WriteCfg2(u) \/ StartAccess(u) \/ ClearRetry(u)
            BY <1>1, <3>2, AttemptStep
        <3>3. CASE Return(u)
            BY <1>1, <3>3, ForgetData DEF Return
        <3> QED
            BY <1>1, <2>2, <3>1, <3>2, <3>3, CheckErrData, DrainData, TryAgainData DEF Driver
    <2>3. CASE Crash(u)
        BY <1>1, <2>3, ForgetData DEF Crash
    <2> QED
        BY <1>2, <2>1, <2>2, <2>3 DEF Steps
<1>3. CASE UNCHANGED vars
    <2>1. UNCHANGED <<tainted, pc, msgs, at, retry, err, start, intSts, job, rdatasize, rdata, ran, got,
                      unfilled>>
        BY <1>3 DEF vars, busVars, callVars, engineVars, history, budgets
    <2>2. DataShape'
        BY <2>1 DEF DataInv, DataShape
    <2>3. ASSUME tainted' = FALSE, NEW u \in User PROVE DataAlone(u)'
        <3>1. RepeatInv(u) /\ ReadInv(u)
            BY <2>1, <2>3 DEF DataInv, DataAlone
        <3>2. RepeatInv(u)'
            BY <2>1, <3>1 DEF RepeatInv, Spent, Pending, Times, Positions
        <3>3. ReadInv(u)'
            <4>1. /\ Before(u)' = Before(u) /\ UpTo(u)' = UpTo(u) /\ Msg(u)' = Msg(u)
                  /\ \A S : Copied(u, S)' <=> Copied(u, S)
                  /\ (Holds(u)' <=> Holds(u)) /\ RDataSize(u, at[u])' = RDataSize(u, at[u])
                BY <2>1 DEF Copied, CopyOf, Size, Holds, RDataSize, Before, UpTo, Reads,
                            Positions, Msg
            <4> QED
                BY <2>1, <3>1, <4>1 DEF ReadInv
        <3> QED
            BY <3>2, <3>3 DEF DataAlone
    <2> QED
        BY <1>1, <2>2, <2>3 DEF DataInv
<1> QED
    BY <1>1, <1>2, <1>3, EngineEndsData, SegmentData, NextCases

LEMMA DataInvariance == Spec => []DataInv
<1>1. Init /\ IInv => DataInv
    <2> SUFFICES ASSUME Init, IInv PROVE DataInv
        OBVIOUS
    <2>1. DataShape
        BY DEF Init, DataShape, Chunk
    <2>2. \A u \in User : DataAlone(u)
        BY <2>1, IdleOwesNoData DEF Init
    <2> QED
        BY <2>1, <2>2 DEF DataInv
<1> QED
    BY <1>1, Invariance, DataInductive, PTL DEF Spec

\* A call that returns success to a user alone on the segment has copied out,
\* once each, every chunk it was to read, the first 256 bytes of it taken from
\* the window while they were that chunk's: not those of another user, of an
\* aborted attempt or of an access programmed for less.
THEOREM ReadsAreOwn == Spec => []ReadsOwnData
<1>1. ASSUME DataInv, NEW u \in User, Succeeds(u)
      PROVE  /\ Len(got[u]) = Cardinality(Reads(u))
             /\ \A p \in Reads(u) : \E i \in 1..Len(got[u]) : CopyOf(u, p, got[u][i])
    <2>1. Shape /\ Alone(u) /\ DataAlone(u)
        BY <1>1 DEF DataInv, IInv, Common, Shape, Succeeds
    <2>2. AtEnd(u) /\ Copied(u, UpTo(u))
        BY <1>1, <2>1 DEF Alone, Completed, DataAlone, ReadInv, Succeeds
    <2>3. UpTo(u) = Reads(u)
        BY <1>1, <2>1, <2>2, NoneBeyondEnd DEF UpTo, Reads, Succeeds
    <2> QED
        BY <2>2, <2>3 DEF Copied
<1>2. DataInv => ReadsOwnData
    BY <1>1 DEF ReadsOwnData
<1> QED
    BY <1>2, DataInvariance, PTL

\* However accesses fail and resets are lost, a user alone on the segment has
\* no chunk completed by the engine more than once per attempt it may make.
THEOREM RepeatsWithinRetries == Spec => []RepeatsBounded
<1>1. DataInv => RepeatsBounded
    BY DEF DataInv, IInv, Common, Shape, DataAlone, RepeatInv, RepeatsBounded
<1> QED
    BY <1>1, DataInvariance, PTL

-----------------------------------------------------------------------------
(* No call goes on for ever: what is left of it is counted in naturals and *)
(* each of its steps leaves less.                                          *)
CountInv ==
    /\ faults <= FaultBudget
    /\ try \in [User -> 0..Retries]
    /\ retry \in [User -> Nat]
    /\ \A u \in User : pc[u] \in Attempting => retry[u] <= Retries

\* What the steps of others leave alone of u's call.
Untouched(u) ==
    /\ pc'[u] = pc[u] /\ at'[u] = at[u] /\ retry'[u] = retry[u] /\ try'[u] = try[u]
    /\ msgs'[u] = msgs[u] /\ unfilled'[u] = unfilled[u]

LEMMA StepFaults ==
    ASSUME [Next]_vars
    PROVE  faults' = faults \/ Fail
<1>1. ASSUME NEW u \in User, Steps(u) PROVE faults' = faults \/ Fail
    <2>1. CASE Begin(u) \/ Register(u) \/ Crash(u) \/ Return(u) \/ TryAgain(u)
        BY <2>1 DEF Begin, Register, Crash, Return, TryAgain, budgets
    <2>2. CASE \/ ClearStatus(u) \/ WaitIdle(u) \/ Fill(u) \/ WriteCfg2(u) \/ StartAccess(u)
               \/ WaitDone(u) \/ CheckErr(u) \/ Drain(u) \/ RetryReset(u) \/ RetryUnreset(u)
               \/ ClearRetry(u) \/ FinalReset(u) \/ FinalUnreset(u)
        BY <2>2 DEF Ok, ClearStatus, WaitIdle, Fill, WriteCfg2, StartAccess, WaitDone, CheckErr,
           Drain, RetryReset, RetryUnreset, ClearRetry, FinalReset, FinalUnreset, Reset, Unreset,
           _clear_intr_status
    <2> QED
        BY <1>1, <2>1, <2>2 DEF Steps, Driver
<1>2. CASE EngineEnds \/ SegmentChanges \/ UNCHANGED vars
    BY <1>2 DEF EngineEnds, SegmentChanges, vars, budgets
<1> QED
    BY <1>1, <1>2, NextCases

\* A step within a call: where it goes, and what it counts.
CallStep(u) ==
    \/ UNCHANGED <<retry, try>> /\ pc'[u] \notin Attempting
    \/ UNCHANGED <<retry, try>> /\ pc[u] \in Attempting
    \/ retry' = [retry EXCEPT ![u] = 0] /\ UNCHANGED try
    \/ /\ retry' = [retry EXCEPT ![u] = @ + 1] /\ UNCHANGED try
       /\ pc'[u] \in Attempting => retry'[u] <= Retries
    \/ /\ try[u] < Retries /\ try' = [try EXCEPT ![u] = @ + 1]
       /\ UNCHANGED retry /\ pc'[u] \notin Attempting
    \/ /\ retry' = [retry EXCEPT ![u] = 0] /\ try' = [try EXCEPT ![u] = 0]
       /\ pc'[u] \notin Attempting

LEMMA CallSteps ==
    ASSUME Shape, NEW u \in User, Steps(u)
    PROVE  CallStep(u) /\ \E to \in PC : pc' = [pc EXCEPT ![u] = to]
<1> USE DEF Shape, Goto, GotoErr, Attempting, PC
<1>1. CASE Begin(u) \/ Register(u)
    BY <1>1 DEF Begin, Register, CallStep, callVars
<1>2. CASE Crash(u) \/ Return(u)
    BY <1>2 DEF Crash, Return, Forget, CallStep
<1>3. CASE TryAgain(u)
    BY <1>3 DEF TryAgain, CallStep
<1>4. CASE ClearStatus(u) \/ WaitIdle(u) \/ Fill(u)
    BY <1>4 DEF ClearStatus, WaitIdle, Fill, CallStep, callVars
<1>5. CASE WriteCfg2(u)
    BY <1>5 DEF WriteCfg2, CallStep
<1>6. CASE StartAccess(u) \/ WaitDone(u)
    BY <1>6 DEF StartAccess, WaitDone, CallStep
<1>7. CASE CheckErr(u)
    <2>1. UNCHANGED <<retry, try>> /\ pc[u] = "check"
        BY <1>7 DEF CheckErr
    <2>2. \E to \in PC : pc' = [pc EXCEPT ![u] = to]
        BY <1>7 DEF CheckErr, Advance
    <2> QED
        BY <2>1, <2>2 DEF CallStep
<1>8. CASE Drain(u)
    <2>1. UNCHANGED <<retry, try>>
        BY <1>8 DEF Drain
    <2>2. \E to \in PC \ Attempting : pc' = [pc EXCEPT ![u] = to]
        BY <1>8 DEF Drain, Advance
    <2> QED
        BY <2>1, <2>2 DEF CallStep
<1>9. CASE RetryReset(u) \/ RetryUnreset(u) \/ FinalReset(u) \/ FinalUnreset(u)
    BY <1>9 DEF RetryReset, RetryUnreset, FinalReset, FinalUnreset, Reset, Unreset, CallStep, callVars
<1>10. CASE ClearRetry(u)
    BY <1>10 DEF ClearRetry, CallStep
<1> QED
    BY <1>1, <1>2, <1>3, <1>4, <1>5, <1>6, <1>7, <1>8, <1>9, <1>10 DEF Steps, Driver

LEMMA CountInductive == IInv /\ CountInv /\ [Next]_vars => CountInv'
<1> SUFFICES ASSUME IInv, CountInv, [Next]_vars PROVE CountInv'
    OBVIOUS
<1>1. Shape /\ Retries \in Nat /\ FaultBudget \in Nat
    BY BoundsAssumption DEF IInv, Common
<1>2. faults' <= FaultBudget
    BY <1>1, StepFaults DEF CountInv, Fail, Shape
<1>3. CASE EngineEnds \/ SegmentChanges \/ UNCHANGED vars
    <2>1. UNCHANGED <<pc, retry, try>>
        BY <1>3 DEF EngineEnds, SegmentChanges, vars, callVars
    <2> QED
        BY <1>2, <2>1 DEF CountInv
<1>4. ASSUME NEW u \in User, Steps(u) PROVE CountInv'
    <2>1. PICK to \in PC : pc' = [pc EXCEPT ![u] = to]
        BY <1>1, <1>4, CallSteps
    <2>2. pc'[u] = to /\ \A v \in User : v # u => pc'[v] = pc[v]
        BY <1>1, <2>1 DEF Shape
    <2>3. CallStep(u) /\ retry[u] \in Nat /\ try[u] \in 0..Retries
        BY <1>1, <1>4, CallSteps DEF CountInv
    <2>4. retry' \in [User -> Nat] /\ \A v \in User : v # u => retry'[v] = retry[v]
        BY <2>3 DEF CountInv, CallStep
    <2>5. try' \in [User -> 0..Retries]
        BY <1>1, <2>3 DEF CountInv, CallStep
    <2>6. pc'[u] \in Attempting => retry'[u] <= Retries
        BY <1>1, <2>3 DEF CountInv, CallStep
    <2> QED
        BY <1>2, <2>2, <2>4, <2>5, <2>6 DEF CountInv
<1> QED
    BY <1>3, <1>4, NextCases

LEMMA CountInvariance == Spec => []CountInv
<1>1. Init => CountInv
    BY BoundsAssumption DEF Init, CountInv, Attempting
<1> QED
    BY <1>1, Invariance, CountInductive, PTL DEF Spec

\* What is left of a call is counted in naturals, after a step as before it.
CountsNat ==
    \A u \in User : IInv /\ CountInv /\ pc[u] # "idle" => \A i \in 1..6 : Left(u)[i] \in Nat

LEMMA LeftIsNat == CountsNat
<1> SUFFICES ASSUME IInv, CountInv, NEW u \in User, pc[u] # "idle"
             PROVE  \A i \in 1..6 : Left(u)[i] \in Nat
    BY DEF CountsNat
<1>1. Shape /\ CallInv(u) /\ Retries \in Nat /\ FaultBudget \in Nat
    BY BoundsAssumption DEF IInv, Common
<1>2. Left(u)[1] \in Nat /\ Left(u)[2] \in Nat
    <2>1. faults \in Nat /\ faults <= FaultBudget /\ try[u] \in 0..Retries
        BY <1>1 DEF CountInv, Shape
    <2> QED
        BY <1>1, <2>1 DEF Left
<1>3. Left(u)[3] \in Nat /\ Left(u)[4] \in Nat
    <2>1. CASE msgs[u] = <<>>
        BY <2>1 DEF Left
    <2>2. CASE msgs[u] # <<>>
        <3>1. msgs[u] \in Transfers /\ InTransfer(u) /\ at[u] \in Position
            BY <1>1, <2>2 DEF Shape, CallInv
        <3>2. Len(msgs[u]) \in Nat /\ \A k \in 1..Len(msgs[u]) : msgs[u][k].chunks \in Nat
            BY <3>1, TransferShape
        <3>3. /\ Len(msgs[u]) - at[u].msg \in Nat
              /\ Msg(u).chunks - at[u].chunk \in Nat
            BY <3>1, <3>2 DEF InTransfer, Msg, Position
        <3> QED
            BY <2>2, <3>3 DEF Left
    <2> QED
        BY <2>1, <2>2
<1>4. Left(u)[5] \in Nat
    <2>1. retry[u] \in Nat /\ (pc[u] \in Attempting => retry[u] <= Retries)
        BY DEF CountInv
    <2> QED
        BY <1>1, <2>1 DEF Left, Attempting
<1>5. Left(u)[6] \in Nat
    BY <1>1 DEF Left, Lines, PC, Shape
<1> QED
    BY <1>2, <1>3, <1>4, <1>5

LEMMA LeftIsNatNext == CountsNat'
BY LeftIsNat, PTL

\* Another failure, and another repeat after a failed Fill, are paid first.
LEMMA PaidByFailure ==
    ASSUME IInv, CountInv, [Next]_vars, NEW u \in User, pc[u] # "idle", pc'[u] # "idle",
           IInv', CountInv',
           faults' # faults \/ (unfilled[u] = "chunk" /\ unfilled'[u] # "chunk")
    PROVE  Left(u)' \sqsubset Left(u)
<1>1. faults \in Nat /\ faults' \in Nat /\ FaultBudget \in Nat
    BY BoundsAssumption DEF IInv, Common, Shape
<1>2. faults' = faults \/ faults' = faults + 1
    BY StepFaults DEF Fail
<1>3. Left(u)'[1] < Left(u)[1]
    BY <1>1, <1>2 DEF Left
<1>4. \A i \in 1..6 : Left(u)'[i] \in Nat
    BY LeftIsNatNext DEF CountsNat
<1> QED
    BY <1>3, <1>4 DEF \sqsubset

\* A step on the same chunk: an attempt less, or a line further.
LEMMA PaidByLine ==
    ASSUME IInv, CountInv, IInv', CountInv', NEW u \in User, pc[u] # "idle", pc'[u] # "idle",
           UNCHANGED <<faults, msgs, at, try>>, unfilled'[u] = unfilled[u],
           \/ Left(u)'[5] < Left(u)[5]
           \/ Left(u)'[5] = Left(u)[5] /\ Left(u)'[6] < Left(u)[6]
    PROVE  Left(u)' \sqsubset Left(u)
<1>1. \A i \in 1..4 : Left(u)'[i] = Left(u)[i]
    <2>1. Msg(u)' = Msg(u)
        BY DEF Msg
    <2> QED
        BY <2>1 DEF Left
<1>2. \A i \in 1..6 : Left(u)'[i] \in Nat
    BY LeftIsNatNext DEF CountsNat
<1>3. CASE Left(u)'[5] < Left(u)[5]
    BY <1>1, <1>2, <1>3 DEF \sqsubset
<1>4. CASE Left(u)'[5] = Left(u)[5] /\ Left(u)'[6] < Left(u)[6]
    <2>1. \A j \in 1..(6 - 1) : Left(u)'[j] = Left(u)[j]
        BY <1>1, <1>4
    <2> QED
        BY <1>2, <1>4, <2>1 DEF \sqsubset
<1> QED
    BY <1>3, <1>4

\* The next chunk, the next message, or the end.
LEMMA PaidByAdvance ==
    ASSUME IInv, CountInv, IInv', CountInv', NEW u \in User, pc[u] \in {"check", "drain"},
           Advance(u, pc[u]), UNCHANGED <<faults, msgs, try>>, unfilled'[u] = unfilled[u]
    PROVE  Left(u)' \sqsubset Left(u)
<1>1. Shape /\ msgs[u] # <<>> /\ InTransfer(u) /\ Retries \in Nat
    BY BoundsAssumption DEF IInv, Common, CallInv
<1>2. Left(u)'[1] = Left(u)[1] /\ Left(u)'[2] = Left(u)[2]
    BY DEF Left
<1>3. msgs[u] \in Transfers /\ at[u] \in Position
    BY <1>1 DEF Shape
<1>4. Len(msgs[u]) \in Nat /\ \A k \in 1..Len(msgs[u]) : msgs[u][k].chunks \in Nat
    BY <1>3, TransferShape
<1>5. /\ Left(u)[3] = Len(msgs[u]) - at[u].msg /\ Left(u)[4] = Msg(u).chunks - at[u].chunk
      /\ Left(u)'[3] = Len(msgs[u]) - at'[u].msg
      /\ Left(u)'[4] = msgs[u][at'[u].msg].chunks - at'[u].chunk
    BY <1>1 DEF Left, Msg
<1>6. at[u].msg \in Nat /\ at[u].chunk \in Nat /\ Msg(u).chunks \in Nat
    BY <1>1, <1>3, <1>4 DEF Position, Msg, InTransfer
<1>7. CASE /\ at[u].chunk < Msg(u).chunks
           /\ at' = [at EXCEPT ![u].chunk = @ + 1]
           /\ Goto(u, pc[u], "fill")
    <2>1. at'[u].msg = at[u].msg /\ at'[u].chunk = at[u].chunk + 1
        BY <1>1, <1>3, <1>7 DEF Shape, Position
    <2>2. pc'[u] # "idle"
        BY <1>1, <1>7 DEF Goto, Shape
    <2>3. Left(u)'[3] = Left(u)[3] /\ Left(u)'[4] < Left(u)[4]
        BY <1>5, <1>6, <2>1 DEF Msg
    <2>4. \A i \in 1..6 : Left(u)'[i] \in Nat
        BY <2>2, LeftIsNatNext DEF CountsNat
    <2>5. \A j \in 1..(4 - 1) : Left(u)'[j] = Left(u)[j]
        BY <1>2, <2>3
    <2> QED
        BY <2>3, <2>4, <2>5 DEF \sqsubset
<1>8. CASE /\ at[u].chunk = Msg(u).chunks /\ at[u].msg < Len(msgs[u])
           /\ at' = [at EXCEPT ![u] = [msg |-> @.msg + 1, chunk |-> 1]]
           /\ Goto(u, pc[u], "message")
    <2>1. at'[u].msg = at[u].msg + 1
        BY <1>1, <1>3, <1>8 DEF Shape, Position
    <2>2. pc'[u] # "idle"
        BY <1>1, <1>8 DEF Goto, Shape
    <2>3. Left(u)'[3] < Left(u)[3]
        BY <1>4, <1>5, <1>6, <2>1
    <2>4. \A i \in 1..6 : Left(u)'[i] \in Nat
        BY <2>2, LeftIsNatNext DEF CountsNat
    <2>5. \A j \in 1..(3 - 1) : Left(u)'[j] = Left(u)[j]
        BY <1>2
    <2> QED
        BY <2>3, <2>4, <2>5 DEF \sqsubset
<1>9. CASE Goto(u, pc[u], "leave") /\ UNCHANGED at
    <2>1. pc'[u] = "leave"
        BY <1>1, <1>9 DEF Goto, Shape
    <2>2. Left(u)'[5] = 0 /\ Left(u)'[6] = 0 /\ Left(u)[6] > 0
        BY <2>1 DEF Left, Lines, Attempting
    <2>3. Left(u)[5] \in Nat
        BY LeftIsNat DEF CountsNat
    <2> QED
        BY <1>9, <2>1, <2>2, <2>3, PaidByLine
<1> QED
    BY <1>7, <1>8, <1>9 DEF Advance

LEMMA DriverShrinks ==
    ASSUME IInv, CountInv, IInv', CountInv', [Next]_vars, NEW u \in User, Driver(u),
           pc'[u] # "idle"
    PROVE  Left(u)' \sqsubset Left(u)
<1>1. Shape /\ CallInv(u) /\ Retries \in Nat /\ retry[u] \in Nat
    BY BoundsAssumption DEF IInv, Common, CountInv
<1>2. pc[u] # "idle"
    <2>1. CASE Drain(u)
        BY <2>1 DEF Drain, Advance, Goto, GotoErr
    <2>2. CASE FinalReset(u) \/ FinalUnreset(u) \/ RetryReset(u) \/ RetryUnreset(u)
        BY <2>2 DEF RetryReset, RetryUnreset, FinalReset, FinalUnreset, Reset, Unreset, Goto
    <2>3. CASE Return(u) \/ TryAgain(u) \/ CheckErr(u) \/ ClearRetry(u)
        BY <2>3 DEF Return, TryAgain, CheckErr, ClearRetry, Goto, GotoErr
    <2>4. CASE \/ ClearStatus(u) \/ WaitIdle(u) \/ Fill(u) \/ WriteCfg2(u)
               \/ StartAccess(u) \/ WaitDone(u)
        BY <2>4 DEF ClearStatus, WaitIdle, Fill, WriteCfg2, StartAccess, WaitDone, Goto, GotoErr
    <2> QED
        BY <2>1, <2>2, <2>3, <2>4 DEF Driver
<1>3. CASE faults' # faults \/ (unfilled[u] = "chunk" /\ unfilled'[u] # "chunk")
    BY <1>2, <1>3, PaidByFailure
<1> SUFFICES ASSUME faults' = faults, unfilled[u] = "chunk" => unfilled'[u] = "chunk"
             PROVE  Left(u)' \sqsubset Left(u)
    BY <1>3
<1>4. ~Fail
    BY <1>1 DEF Fail, Shape
<1>5. /\ \A to \in PC : pc' = [pc EXCEPT ![u] = to] => pc'[u] = to
      /\ Left(u)[5] \in Nat
      /\ pc[u] \in Attempting => retry[u] <= Retries
    <2>1. \A to \in PC : pc' = [pc EXCEPT ![u] = to] => pc'[u] = to
        BY <1>1 DEF Shape
    <2>2. Left(u)[5] \in Nat
        BY <1>2, LeftIsNat DEF CountsNat
    <2>3. pc[u] \in Attempting => retry[u] <= Retries
        BY DEF CountInv
    <2> QED
        BY <2>1, <2>2, <2>3
\* On the same chunk, with the same count of retries.
<1>6. ASSUME UNCHANGED <<msgs, at, try, retry>>, unfilled'[u] = unfilled[u],
             Lines[pc'[u]] < Lines[pc[u]],
             \/ pc'[u] \in {"drain", "final", "unfinal", "leave"}
             \/ pc[u] \in Attempting /\ pc'[u] \in Attempting
             \/ {pc[u], pc'[u]} \subseteq {"clear", "message", "fill", "cfg2"}
      PROVE  Left(u)' \sqsubset Left(u)
    <2>1. Left(u)'[6] < Left(u)[6]
        BY <1>6 DEF Left
    <2>2. Left(u)'[5] = Left(u)[5] \/ Left(u)'[5] < Left(u)[5]
        <3>1. CASE pc'[u] \in {"drain", "final", "unfinal", "leave"}
            <4>1. Left(u)'[5] = 0
                BY <3>1 DEF Left, Attempting
            <4> QED
                BY <1>5, <4>1
        <3>2. CASE pc[u] \in Attempting /\ pc'[u] \in Attempting
            <4>1. Left(u)[5] = Retries - retry[u]
                BY <3>2 DEF Left, Attempting
            <4>2. Left(u)'[5] = Retries - retry'[u]
                BY <3>2 DEF Left, Attempting
            <4> QED
                BY <1>6, <4>1, <4>2
        <3>3. CASE {pc[u], pc'[u]} \subseteq {"clear", "message", "fill", "cfg2"}
            BY <3>3 DEF Left, Attempting
        <3> QED
            BY <1>6, <3>1, <3>2, <3>3
    <2> QED
        BY <1>2, <1>6, <2>1, <2>2, PaidByLine
<1>7. CASE ClearStatus(u) \/ WaitIdle(u) \/ Fill(u)
    <2>1. /\ UNCHANGED <<msgs, at, try, retry>> /\ unfilled'[u] = unfilled[u]
          /\ \/ pc[u] = "clear" /\ pc'[u] = "message"
             \/ pc[u] = "message" /\ pc'[u] \in {"fill", "final"}
             \/ pc[u] = "fill" /\ pc'[u] = "cfg2"
        BY <1>4, <1>5, <1>7 DEF ClearStatus, WaitIdle, Fill, Goto, GotoErr, PC, callVars, history
    <2> QED
        BY <1>6, <2>1 DEF Lines
<1>8. CASE WriteCfg2(u)
    <2>1. /\ pc[u] = "cfg2" /\ pc'[u] = "start" /\ retry'[u] = 0
          /\ UNCHANGED <<msgs, at, try, unfilled>>
        BY <1>4, <1>5, <1>8 DEF WriteCfg2, Goto, PC, history, CountInv
    <2>2. Left(u)'[5] < Left(u)[5]
        BY <1>1, <2>1 DEF Left, Attempting
    <2> QED
        BY <1>2, <2>1, <2>2, PaidByLine
<1>9. CASE StartAccess(u) \/ WaitDone(u)
    <2>1. /\ UNCHANGED <<msgs, at, try, retry, unfilled>>
          /\ \/ pc[u] = "start" /\ pc'[u] = "wait"
             \/ pc[u] = "wait" /\ pc'[u] \in {"check", "reset"}
        BY <1>4, <1>5, <1>9 DEF StartAccess, WaitDone, Goto, GotoErr, PC, history
    <2> QED
        BY <1>6, <2>1 DEF Lines, Attempting
<1>10. CASE CheckErr(u)
    <2>1. UNCHANGED <<faults, msgs, try, retry>> /\ pc[u] = "check"
        BY <1>10 DEF CheckErr
    <2>2. CASE UNCHANGED <<at, unfilled>> /\ pc'[u] \in {"reset", "drain"}
        BY <1>6, <2>1, <2>2 DEF Lines, Attempting
    <2>3. CASE Advance(u, "check") /\ unfilled'[u] = unfilled[u]
        BY <2>1, <2>3, PaidByAdvance
    <2>4. \/ UNCHANGED <<at, unfilled>> /\ pc'[u] \in {"reset", "drain"}
          \/ Advance(u, "check") /\ unfilled'[u] = unfilled[u]
        BY <1>1, <1>4, <1>5, <1>10 DEF CheckErr, Goto, GotoErr, PC, Shape
    <2> QED
        BY <2>2, <2>3, <2>4
<1>11. CASE Drain(u)
    <2>1. Advance(u, "drain") /\ pc[u] = "drain" /\ UNCHANGED <<msgs, try, unfilled>>
        BY <1>4, <1>11 DEF Drain, Advance
    <2> QED
        BY <2>1, PaidByAdvance
<1>12. CASE RetryReset(u) \/ RetryUnreset(u) \/ FinalReset(u) \/ FinalUnreset(u)
    <2>1. /\ UNCHANGED <<msgs, at, try, retry, unfilled>>
          /\ \/ pc[u] = "reset" /\ pc'[u] = "unreset"
             \/ pc[u] = "unreset" /\ pc'[u] = "clear_retry"
             \/ pc[u] = "final" /\ pc'[u] = "unfinal"
             \/ pc[u] = "unfinal" /\ pc'[u] = "leave"
        BY <1>4, <1>5, <1>12 DEF RetryReset, RetryUnreset, FinalReset, FinalUnreset, Reset,
           Unreset, Goto, PC, callVars, history
    <2> QED
        BY <1>6, <2>1 DEF Lines, Attempting
<1>13. CASE ClearRetry(u)
    <2>1. /\ pc[u] = "clear_retry" /\ retry'[u] = retry[u] + 1
          /\ UNCHANGED <<msgs, at, try, unfilled>>
          /\ \/ pc'[u] = "start"
             \/ pc'[u] = "final"
        BY <1>4, <1>5, <1>13 DEF ClearRetry, Goto, PC, history, CountInv
    <2>2. CASE pc'[u] = "start"
        <3>1. Left(u)'[5] < Left(u)[5]
            BY <1>1, <2>1, <2>2 DEF Left, Attempting
        <3> QED
            BY <1>2, <2>1, <3>1, PaidByLine
    <2>3. CASE pc'[u] = "final"
        <3>1. Left(u)'[5] = 0 /\ Left(u)'[6] < Left(u)[6]
            BY <2>1, <2>3 DEF Left, Attempting, Lines
        <3> QED
            BY <1>2, <1>5, <2>1, <3>1, PaidByLine
    <2> QED
        BY <2>1, <2>2, <2>3
<1>14. CASE TryAgain(u)
    <2>1. /\ try'[u] = try[u] + 1 /\ try[u] \in Nat /\ unfilled'[u] = "no"
        BY <1>1, <1>14 DEF TryAgain, CountInv, Shape
    <2>2. Left(u)'[2] < Left(u)[2]
        BY <1>1, <2>1 DEF Left
    <2>3. Left(u)'[1] = Left(u)[1]
        BY <2>1 DEF Left
    <2>4. \A i \in 1..6 : Left(u)'[i] \in Nat
        BY LeftIsNatNext DEF CountsNat
    <2>5. \A j \in 1..(2 - 1) : Left(u)'[j] = Left(u)[j]
        BY <2>3
    <2> QED
        BY <2>2, <2>4, <2>5 DEF \sqsubset
<1>15. CASE Return(u)
    BY <1>1, <1>15 DEF Return, Forget, Shape
<1> QED
    BY <1>7, <1>8, <1>9, <1>10, <1>11, <1>12, <1>13, <1>14, <1>15 DEF Driver

\* What u's call does not see, or sees only as a failure.
LEMMA OthersLeaveCall ==
    ASSUME Shape, CountInv, [Next]_vars, NEW u \in User, ~Driver(u), pc[u] # "idle", pc'[u] # "idle"
    PROVE  Untouched(u)
<1>1. CASE EngineEnds \/ SegmentChanges \/ UNCHANGED vars
    BY <1>1 DEF EngineEnds, SegmentChanges, vars, callVars, history, Untouched
<1>2. ASSUME NEW v \in User, Steps(v) PROVE Untouched(u)
    <2>1. v # u
        <3>1. ~Begin(u) /\ ~Register(u)
            BY DEF Begin, Register, Goto
        <3>2. ~Crash(u)
            BY DEF Crash, Forget, Shape
        <3> QED
            BY <1>2, <3>1, <3>2 DEF Steps
    <2>2. pc'[u] = pc[u] /\ retry'[u] = retry[u] /\ try'[u] = try[u]
        <3>1. CallStep(v) /\ \E to \in PC : pc' = [pc EXCEPT ![v] = to]
            BY <1>2, CallSteps
        <3>2. pc'[u] = pc[u]
            BY <2>1, <3>1 DEF Shape
        <3>3. retry'[u] = retry[u] /\ try'[u] = try[u]
            BY <2>1, <3>1 DEF CallStep, CountInv
        <3> QED
            BY <3>2, <3>3
    <2>3. at'[u] = at[u] /\ msgs'[u] = msgs[u] /\ unfilled'[u] = unfilled[u]
        <3>1. CASE Begin(v) \/ Register(v) \/ ClearStatus(v) \/ WaitIdle(v)
            BY <2>1, <3>1 DEF Begin, Register, ClearStatus, WaitIdle, Shape, callVars, history
        <3>2. CASE Crash(v) \/ Return(v)
            BY <2>1, <3>2 DEF Crash, Return, Forget, Shape
        <3>3. CASE TryAgain(v)
            BY <2>1, <3>3 DEF TryAgain, Shape
        <3>4. CASE CheckErr(v) \/ Drain(v)
            <4>1. UNCHANGED msgs /\ unfilled'[u] = unfilled[u]
                BY <2>1, <3>4 DEF CheckErr, Drain, Shape
            <4>2. at'[u] = at[u]
                BY <2>1, <3>4 DEF CheckErr, Drain, Advance, Shape
            <4> QED
                BY <4>1, <4>2
        <3>5. CASE Fill(v)
            BY <2>1, <3>5 DEF Fill, callVars, Shape
        <3>6. CASE WriteCfg2(v) \/ StartAccess(v) \/ WaitDone(v) \/ ClearRetry(v)
            BY <3>6 DEF WriteCfg2, StartAccess, WaitDone, ClearRetry, history
        <3>7. CASE RetryReset(v) \/ RetryUnreset(v) \/ FinalReset(v) \/ FinalUnreset(v)
            BY <3>7 DEF RetryReset, RetryUnreset, FinalReset, FinalUnreset, Reset, Unreset,
               callVars, history
        <3> QED
            BY <1>2, <3>1, <3>2, <3>3, <3>4, <3>5, <3>6, <3>7 DEF Steps, Driver
    <2> QED
        BY <2>2, <2>3 DEF Untouched
<1> QED
    BY <1>1, <1>2, NextCases

LEMMA Shrink ==
    ASSUME IInv, CountInv, IInv', CountInv', [Next]_vars
    PROVE  \A u \in User : pc[u] # "idle" /\ pc'[u] # "idle" =>
              \/ Left(u)' \sqsubset Left(u)
              \/ pc'[u] = pc[u] /\ Left(u)' = Left(u)
<1> SUFFICES ASSUME NEW u \in User, pc[u] # "idle", pc'[u] # "idle"
             PROVE  \/ Left(u)' \sqsubset Left(u)
                    \/ pc'[u] = pc[u] /\ Left(u)' = Left(u)
    OBVIOUS
<1>1. CASE Driver(u)
    BY <1>1, DriverShrinks
<1>2. CASE faults' # faults
    BY <1>2, PaidByFailure
<1>3. CASE ~Driver(u) /\ faults' = faults
    <2>1. Untouched(u)
        BY <1>3, OthersLeaveCall DEF IInv, Common
    <2>2. Msg(u)' = Msg(u)
        BY <2>1 DEF Untouched, Msg
    <2> QED
        BY <1>3, <2>1, <2>2 DEF Untouched, Left
<1> QED
    BY <1>1, <1>2, <1>3

\* Each step of a call leaves less of it, so that whatever the engine, the
\* other users and a failing arbitration do, no call goes round its loops for
\* ever: the safety half of its return, for any retries, transfers and users.
THEOREM CallsRunDown == Spec => CallsShrink
<1>1. IInv /\ CountInv /\ IInv' /\ CountInv' /\ [Next]_vars =>
        \A u \in User : pc[u] # "idle" /\ pc'[u] # "idle" =>
              \/ Left(u)' \sqsubset Left(u)
              \/ pc'[u] = pc[u] /\ Left(u)' = Left(u)
    BY Shrink
<1> QED
    BY <1>1, Invariance, CountInvariance, PTL DEF Spec, CallsShrink

\* The indices in T at which component i of f is least.
Least(f, i, T) == {n \in T : \A m \in T : f[n][i] <= f[m][i]}

LEMMA LeastExists ==
    ASSUME NEW f, NEW i, NEW T, T # {}, \A n \in T : f[n][i] \in Nat
    PROVE  Least(f, i, T) # {}
<1> DEFINE V == {f[n][i] : n \in T}
<1>1. V \subseteq Nat /\ V # {}
    OBVIOUS
<1> HIDE DEF V
<1>2. \E v \in V : \A w \in V : ~(<<w, v>> \in OpToRel(<, Nat))
    BY <1>1, WFMin, NatLessThanWellFounded, Zenon
<1>3. PICK v \in V : \A w \in V : ~(w < v)
    BY <1>1, <1>2 DEF OpToRel
<1>4. PICK n \in T : f[n][i] = v
    BY <1>3 DEF V
<1>5. ASSUME NEW m \in T PROVE f[n][i] <= f[m][i]
    <2>1. f[m][i] \in V
        BY DEF V
    <2> QED
        BY <1>1, <1>3, <1>4, <2>1
<1> QED
    BY <1>5 DEF Least

\* What is left of a call cannot become less for ever: the order in which
\* CallsRunDown counts its loops has no endless descent.
THEOREM NoEndlessDescent == \A f : ~ \A n \in Nat : f[n + 1] \sqsubset f[n]
<1> SUFFICES ASSUME NEW f, \A n \in Nat : f[n + 1] \sqsubset f[n] PROVE FALSE
    OBVIOUS
<1> DEFINE T0 == Nat \ {0}
           T1 == Least(f, 1, T0)
           T2 == Least(f, 2, T1)
           T3 == Least(f, 3, T2)
           T4 == Least(f, 4, T3)
           T5 == Least(f, 5, T4)
           T6 == Least(f, 6, T5)
<1>1. \A n \in T0 : \A i \in 1..6 : f[n][i] \in Nat
    <2> SUFFICES ASSUME NEW n \in Nat, n # 0, NEW i \in 1..6 PROVE f[n][i] \in Nat
        OBVIOUS
    <2>1. n - 1 \in Nat /\ (n - 1) + 1 = n
        OBVIOUS
    <2>2. f[(n - 1) + 1] \sqsubset f[n - 1]
        BY <2>1
    <2> QED
        BY <2>1, <2>2 DEF \sqsubset
<1>2. /\ T1 \subseteq T0 /\ T2 \subseteq T1 /\ T3 \subseteq T2
      /\ T4 \subseteq T3 /\ T5 \subseteq T4 /\ T6 \subseteq T5
    BY DEF Least
<1>3. T6 # {}
    <2> HIDE DEF T0, T1, T2, T3, T4, T5, T6
    <2>1. T0 # {} /\ 1 \in 1..6 /\ 2 \in 1..6 /\ 3 \in 1..6 /\ 4 \in 1..6 /\ 5 \in 1..6 /\ 6 \in 1..6
        BY DEF T0
    <2>2. T1 # {}
        BY <1>1, <2>1, LeastExists DEF T1
    <2>3. T2 # {}
        BY <1>1, <1>2, <2>1, <2>2, LeastExists DEF T2
    <2>4. T3 # {}
        BY <1>1, <1>2, <2>1, <2>3, LeastExists DEF T3
    <2>5. T4 # {}
        BY <1>1, <1>2, <2>1, <2>4, LeastExists DEF T4
    <2>6. T5 # {}
        BY <1>1, <1>2, <2>1, <2>5, LeastExists DEF T5
    <2> QED
        BY <1>1, <1>2, <2>1, <2>6, LeastExists DEF T6
<1>4. PICK n \in T6 : TRUE
    BY <1>3
<1>5. /\ n \in T0 /\ n \in T1 /\ n \in T2 /\ n \in T3 /\ n \in T4 /\ n \in T5 /\ n \in T6
      /\ n + 1 \in T0
    <2>1. \A m \in T0 : m + 1 \in T0
        OBVIOUS
    <2> HIDE DEF T0, T1, T2, T3, T4, T5, T6
    <2> QED
        BY <1>2, <1>4, <2>1
<1>6. PICK i \in 1..6 : /\ f[n + 1][i] < f[n][i]
                        /\ \A j \in 1..(i - 1) : f[n + 1][j] = f[n][j]
    BY <1>5 DEF \sqsubset
\* Up to i the two agree, so that n + 1 is among those least so far as well.
<1>7. /\ \A j \in 1..6 : f[n][j] \in Nat /\ f[n + 1][j] \in Nat
      /\ \A j : \A T : n \in Least(f, j, T) /\ n + 1 \in T =>
            f[n][j] <= f[n + 1][j] /\ (f[n + 1][j] = f[n][j] => n + 1 \in Least(f, j, T))
    BY <1>1, <1>5 DEF Least
<1>8. \A j \in 1..6 : j < i => f[n + 1][j] = f[n][j]
    BY <1>6
<1> HIDE DEF T0
<1>9. \A j \in 1..6 : f[n][j] <= f[n + 1][j] => j # i
    BY <1>6, <1>7
<1>10. i # 1 /\ n + 1 \in T1
    BY <1>5, <1>7, <1>8, <1>9
<1>11. i # 2 /\ n + 1 \in T2
    BY <1>5, <1>7, <1>8, <1>9, <1>10
<1>12. i # 3 /\ n + 1 \in T3
    BY <1>5, <1>7, <1>8, <1>9, <1>10, <1>11
<1>13. i # 4 /\ n + 1 \in T4
    BY <1>5, <1>7, <1>8, <1>9, <1>10, <1>11, <1>12
<1>14. i # 5 /\ n + 1 \in T5
    BY <1>5, <1>7, <1>8, <1>9, <1>10, <1>11, <1>12, <1>13
<1>15. i # 6
    BY <1>5, <1>7, <1>9, <1>14
<1> QED
    BY <1>10, <1>11, <1>12, <1>13, <1>14, <1>15

=============================================================================
