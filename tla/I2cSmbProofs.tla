---------------------------- MODULE I2cSmbProofs ----------------------------
(***************************************************************************)
(* I2cSmb: the access in the engine is its caller's own, and success means *)
(* that it was executed, for any users, messages, failures and restarts.   *)
(***************************************************************************)
EXTENDS I2cSmb, TLAPS

Before == {"istat", "ext0", "fill", "select", "start"}
After  == {"wait", "recover", "recovering", "close", "leave"}

Shape ==
    /\ pc \in [User -> PC]
    /\ msg \in [User -> Msgs \cup {NoMsg}]
    /\ DOMAIN err = User /\ DOMAIN got = User
    /\ late \in [User -> BOOLEAN]
    /\ DOMAIN txbuf = Slots
    /\ busy \in BOOLEAN

(* The lock is held by one user; what is between calls has left nothing.   *)
OneCall == \A u, v \in User : pc[u] # "idle" /\ pc[v] # "idle" => u = v

CallInv(u) ==
    /\ pc[u] = "idle" => job.by # u /\ late[u] = FALSE
    /\ pc[u] \in {"idle", "reset", "unext"} => msg[u] = NoMsg
    /\ pc[u] \in Before \cup After \cup {"drain"} =>
          pc[u] = "leave" \/ (msg[u] # NoMsg /\ ~Refused(msg[u]))

(* What of the access the registers hold so far.                           *)
Loaded(u) ==
    /\ ~DevSel => devCtrl = 0 /\ pc[u] # "select"
    /\ pc[u] \in {"fill", "select", "start"} =>
          ext0 = IF UseExt(msg[u]) THEN _msglen(msg[u]) ELSE NoExt
    /\ pc[u] \in {"select", "start"} => \A k \in 1..msg[u].tx : k \in Slots => txbuf[k] = u
    /\ pc[u] = "start" /\ DevSel => devCtrl = msg[u].sel

InEngine(u) == job.by = u => job = Meant(u) /\ busy = TRUE /\ pc[u] \in After

(* An access started on an idle engine is worked on or completed; once the *)
(* busy bit has dropped the engine does nothing any more.                  *)
Succeeds(u) == pc[u] \in {"close", "leave"} /\ err[u] = "none" /\ msg[u] # NoMsg

Executed(u) ==
    /\ pc[u] = "drain" \/ Succeeds(u) => busy = FALSE
    /\ late[u] = FALSE =>
        /\ pc[u] = "wait" => IF busy THEN job = Meant(u) ELSE status = "ok" => last = Meant(u)
        /\ pc[u] = "drain" \/ Succeeds(u) => last = Meant(u)
        /\ Succeeds(u) /\ Read(msg[u]) =>
              got[u].access = Meant(u) /\ got[u].len <= Meant(u).len

UserInv(u) == CallInv(u) /\ Loaded(u) /\ InEngine(u) /\ Executed(u)

IInv == Shape /\ OneCall /\ \A u \in User : UserInv(u)

-----------------------------------------------------------------------------
LEMMA MsgShape ==
    ASSUME NEW m \in Msgs
    PROVE  /\ m.num \in {1, 2} /\ m.tx \in Nat /\ m.rx \in Nat /\ m.recv \in BOOLEAN
           /\ m # NoMsg
<1>1. m \in [num : {1, 2}, tx : Nat, rx : Nat, recv : BOOLEAN, sel : Nat]
    BY SmbAssumption
<1> QED
    BY <1>1 DEF NoMsg

\* A message that is not refused fits the buffers.
LEMMA FitsBuffers ==
    ASSUME NEW m \in Msgs, ~Refused(m)
    PROVE  /\ _msglen(m) \in Nat /\ _msglen(m) <= MaxLen /\ m.rx \in Nat
           /\ Read(m) => Presz(m) <= MaxLen /\ Presz(m) <= m.tx /\ m.rx <= _msglen(m)
           /\ ~Read(m) => _msglen(m) = m.tx
           /\ Presz(m) \in Nat /\ m.tx \in Nat /\ NoExt \in Nat /\ _msglen(m) # NoExt
BY MsgShape, SmbAssumption DEF Refused, _msglen, Presz, Read, NoExt

\* What a caller means depends on its message only.
LEMMA MeantStays ==
    ASSUME NEW u \in User, msg'[u] = msg[u]
    PROVE  Meant(u)' = Meant(u)
BY DEF Meant

LEMMA MeantShape ==
    ASSUME NEW u \in User
    PROVE  /\ Meant(u).by = u
           /\ Meant(u) = [by |-> u, sel |-> Meant(u).sel, read |-> Meant(u).read,
                          len |-> Meant(u).len, sent |-> Meant(u).sent]
           /\ msg[u] \in Msgs /\ ~Refused(msg[u]) => Meant(u).len = _msglen(msg[u])
<1>1. msg[u] \in Msgs /\ ~Refused(msg[u]) => _msglen(msg[u]) # NoExt
    BY FitsBuffers
<1> QED
    BY <1>1 DEF Meant, Access

LEMMA Nobody ==
    ASSUME NEW u \in User
    PROVE  None.by # u /\ Recovery.by # u /\ "nobody" # u
BY UserAssumption DEF None, Recovery

\* What a step of u does to the others, which are idle.
Apart(u) ==
    /\ \A v \in User : v # u => pc[v] = "idle"
    /\ \A v \in User : v # u => pc'[v] = "idle" /\ msg'[v] = msg[v] /\ late'[v] = late[v]
                                /\ (job'.by = v => job.by = v)

\* If u's part of the invariant holds after the step, all of it does.
LEMMA CallStep ==
    ASSUME IInv, NEW u \in User, Apart(u), Shape', UserInv(u)'
    PROVE  IInv'
<1>1. OneCall'
    BY DEF OneCall, Apart
<1>2. ASSUME NEW v \in User, v # u PROVE UserInv(v)'
    <2>1. pc[v] = "idle" /\ pc'[v] = "idle" /\ msg'[v] = msg[v] /\ late'[v] = late[v]
          /\ (job'.by = v => job.by = v)
        BY <1>2 DEF Apart
    <2>2. CallInv(v)
        BY DEF IInv, UserInv
    <2>3. CallInv(v)' /\ job'.by # v /\ late'[v] = FALSE
        BY <2>1, <2>2 DEF CallInv, Before, After
    <2>4. Loaded(v)'
        <3>1. ~DevSel => devCtrl' = 0
            BY DEF UserInv, Loaded
        <3> QED
            BY <2>1, <3>1 DEF Loaded
    <2>5. InEngine(v)' /\ Executed(v)'
        BY <2>1, <2>3 DEF InEngine, Executed, Succeeds
    <2> QED
        BY <2>3, <2>4, <2>5 DEF UserInv
<1> QED
    BY <1>1, <1>2 DEF IInv

-----------------------------------------------------------------------------
LEMMA InitIInv == Init => IInv
<1> SUFFICES ASSUME Init PROVE IInv
    OBVIOUS
<1>1. Shape /\ OneCall
    BY DEF Init, Shape, OneCall, PC
<1>2. ASSUME NEW u \in User PROVE UserInv(u)
    <2>1. CallInv(u) /\ Loaded(u)
        BY Nobody DEF Init, CallInv, Loaded, Before, After
    <2>2. InEngine(u) /\ Executed(u)
        BY Nobody DEF Init, InEngine, Executed, Succeeds
    <2> QED
        BY <2>1, <2>2 DEF UserInv
<1> QED
    BY <1>1, <1>2 DEF IInv

\* Steps in which u goes on: where the others are, and what Goto does.
LEMMA GotoStep ==
    ASSUME IInv, NEW u \in User, NEW from \in PC, NEW to \in PC, NEW e, Goto(u, from, to, e),
           LockBus \/ from # "idle"
    PROVE  /\ pc[u] = from /\ pc'[u] = to /\ pc' \in [User -> PC]
           /\ err'[u] = e /\ DOMAIN err' = User
           /\ \A v \in User : v # u => pc[v] = "idle" /\ pc'[v] = "idle"
           /\ UserInv(u) /\ Shape
<1>1. pc \in [User -> PC] /\ DOMAIN err = User
    BY DEF IInv, Shape
<1>2. \A v \in User : v # u => pc[v] = "idle"
    BY DEF IInv, OneCall, Goto, LockBus
<1> QED
    BY <1>1, <1>2 DEF Goto, IInv

LEMMA BeginStep ==
    ASSUME IInv, NEW u \in User, Begin(u) \/ Register(u)
    PROVE  IInv'
<1>1. PICK to \in {"leave", "istat", "reset"}, e \in {"inval", "none"} :
         /\ Goto(u, "idle", to, e) /\ LockBus
         /\ to = "reset" => msg' = msg
         /\ to # "reset" => \E m \in Msgs : msg' = [msg EXCEPT ![u] = m]
                                            /\ (to = "istat" => ~Refused(m))
         /\ to = "leave" => e = "inval"
         /\ UNCHANGED <<got, late, engineVars>>
    <2>1. CASE Register(u)
        BY <2>1 DEF Register
    <2>2. CASE Begin(u)
        <3>1. PICK m \in Msgs :
                 /\ msg' = [msg EXCEPT ![u] = m]
                 /\ IF Refused(m) THEN Goto(u, "idle", "leave", "inval")
                                  ELSE Goto(u, "idle", "istat", "none")
            BY <2>2 DEF Begin
        <3>2. LockBus /\ UNCHANGED <<got, late, engineVars>>
            BY <2>2 DEF Begin
        <3>3. CASE Refused(m)
            BY <3>1, <3>2, <3>3
        <3>4. CASE ~Refused(m)
            BY <3>1, <3>2, <3>4
        <3> QED
            BY <3>3, <3>4
    <2> QED
        BY <2>1, <2>2
<1>g. "idle" \in PC /\ to \in PC /\ LockBus /\ Goto(u, "idle", to, e)
    BY <1>1 DEF PC
<1>2. /\ pc[u] = "idle" /\ pc'[u] = to /\ pc' \in [User -> PC]
      /\ err'[u] = e /\ DOMAIN err' = User
      /\ \A v \in User : v # u => pc[v] = "idle" /\ pc'[v] = "idle"
      /\ UserInv(u) /\ Shape
    BY <1>g, GotoStep
<1>3. /\ UNCHANGED <<ext0, txbuf, devCtrl, busy, status, job, last, got, late>>
      /\ \A v \in User : v # u => msg'[v] = msg[v]
      /\ msg' \in [User -> Msgs \cup {NoMsg}]
      /\ to = "reset" => msg'[u] = msg[u]
      /\ to # "reset" => msg'[u] \in Msgs /\ (to = "istat" => ~Refused(msg'[u]))
    BY <1>1, <1>2 DEF engineVars, Shape
<1>4. Shape' /\ Apart(u)
    BY <1>2, <1>3 DEF Shape, Apart
<1>5. CallInv(u)'
    BY <1>2, <1>3, MsgShape DEF UserInv, CallInv, Before, After
<1>6. Loaded(u)' /\ InEngine(u)' /\ Executed(u)'
    <2>1. job'.by # u /\ late'[u] = FALSE
        BY <1>2, <1>3 DEF UserInv, CallInv
    <2>2. ~DevSel => devCtrl' = 0
        BY <1>2, <1>3 DEF UserInv, Loaded
    <2>3. ~Succeeds(u)'
        BY <1>1, <1>2, <1>3 DEF Succeeds
    <2> QED
        BY <1>2, <2>1, <2>2, <2>3 DEF Loaded, InEngine, Executed
<1> QED
    BY <1>4, <1>5, <1>6, CallStep DEF UserInv

\* The accesses before the start bit: none of them touches the engine's work.
Loads(u) == ClearStatus(u) \/ WriteExt0(u) \/ Fill(u) \/ Select(u)

LEMMA LoadSteps ==
    ASSUME IInv, NEW u \in User, Loads(u)
    PROVE  IInv'
<1>1. PICK from \in Before \ {"start"}, to \in (Before \ {"istat"}) \cup {"leave"}, e \in {"none", "io"} :
         /\ Goto(u, from, to, e)
         /\ to = "leave" => e = "io"
         /\ UNCHANGED <<msg, got, late, busy, status, job, last>>
         /\ DOMAIN txbuf' = Slots
         /\ devCtrl' = devCtrl \/ from = "select"
         /\ to \in {"fill", "select", "start"} /\ from # "ext0" => ext0' = ext0
         /\ to = "fill" => ext0' = IF UseExt(msg[u]) THEN _msglen(msg[u]) ELSE NoExt
         /\ to \in {"select", "start"} =>
               IF from = "fill" THEN \A k \in 1..msg[u].tx : k \in Slots => txbuf'[k] = u
                                ELSE txbuf' = txbuf
         /\ to = "select" => DevSel /\ from = "fill"
         /\ to = "fill" => from = "ext0"
         /\ to = "start" => (from = "fill" /\ ~DevSel) \/ (from = "select" /\ devCtrl' = msg[u].sel)
    <2> USE DEF Before
    <2>1. CASE ClearStatus(u)
        BY <2>1 DEF ClearStatus, engineVars, IInv, Shape
    <2>2. CASE WriteExt0(u)
        BY <2>2 DEF WriteExt0, SetExt0, IInv, Shape
    <2>3. CASE Fill(u)
        BY <2>3 DEF Fill
    <2>4. CASE Select(u)
        BY <2>4 DEF Select, IInv, Shape
    <2> QED
        BY <2>1, <2>2, <2>3, <2>4 DEF Loads
<1>g. from \in PC /\ to \in PC /\ from # "idle" /\ Goto(u, from, to, e)
    BY <1>1 DEF PC, Before
<1>2. /\ pc[u] = from /\ pc'[u] = to /\ pc' \in [User -> PC]
      /\ err'[u] = e /\ DOMAIN err' = User
      /\ \A v \in User : v # u => pc[v] = "idle" /\ pc'[v] = "idle"
      /\ UserInv(u) /\ Shape
    BY <1>g, GotoStep
<1>3. Shape' /\ Apart(u)
    BY <1>1, <1>2 DEF Shape, Apart
<1>4. CallInv(u)'
    BY <1>1, <1>2 DEF UserInv, CallInv, Before, After
<1>5. Loaded(u)'
    <2>1. ~DevSel => devCtrl' = 0
        BY <1>1, <1>2 DEF UserInv, Loaded
    <2>2. to \in {"fill", "select", "start"} =>
             ext0' = IF UseExt(msg[u]) THEN _msglen(msg[u]) ELSE NoExt
        BY <1>1, <1>2 DEF UserInv, Loaded, Before
    <2>3. to \in {"select", "start"} => \A k \in 1..msg[u].tx : k \in Slots => txbuf'[k] = u
        BY <1>1, <1>2 DEF UserInv, Loaded, Before
    <2> QED
        BY <1>1, <1>2, <2>1, <2>2, <2>3 DEF Loaded
<1>6. InEngine(u)' /\ Executed(u)'
    BY <1>1, <1>2 DEF UserInv, InEngine, Executed, Succeeds, Before, After
<1> QED
    BY <1>3, <1>4, <1>5, <1>6, CallStep DEF UserInv

\* What is written to CSR starts the access that the caller means.
LEMMA StartsMeant ==
    ASSUME IInv, NEW u \in User, pc[u] = "start"
    PROVE  Access(u, msg[u], txbuf, devCtrl, ext0) = Meant(u)
<1> DEFINE m == msg[u]
           size == IF Read(m) THEN Presz(m) ELSE _msglen(m)
           loaded == [k \in 1..size |-> txbuf[k]]
           own == [k \in 1..size |-> [j \in Slots |-> u][k]]
<1>1. UserInv(u) /\ Shape
    BY DEF IInv
<1>2. m \in Msgs /\ ~Refused(m)
    BY <1>1 DEF UserInv, CallInv, Shape, Before
<1>3. ext0 = IF UseExt(m) THEN _msglen(m) ELSE NoExt
    BY <1>1 DEF UserInv, Loaded
<1>4. devCtrl = IF DevSel THEN m.sel ELSE 0
    BY <1>1 DEF UserInv, Loaded
<1>5. ASSUME NEW n \in Nat, n <= m.tx, n <= MaxLen, NEW k \in 1..n
      PROVE  txbuf[k] = [j \in Slots |-> u][k]
    <2>1. k \in 1..m.tx /\ k \in Slots
        BY <1>2, <1>5, FitsBuffers, SmbAssumption DEF Slots
    <2> QED
        BY <1>1, <2>1 DEF UserInv, Loaded
<1>6. (IF ext0 # NoExt THEN ext0 ELSE IF UseExt(m) THEN 0 ELSE _msglen(m)) = _msglen(m)
    BY <1>2, <1>3, FitsBuffers
<1>7. loaded = own
    BY <1>2, <1>5, FitsBuffers
<1>8. Access(u, m, txbuf, devCtrl, ext0)
      = [by |-> u, sel |-> devCtrl, read |-> Read(m), len |-> _msglen(m), sent |-> loaded]
    BY <1>6 DEF Access
<1>9. Access(u, m, [j \in Slots |-> u], IF DevSel THEN m.sel ELSE 0,
             IF UseExt(m) THEN _msglen(m) ELSE NoExt)
      = [by |-> u, sel |-> devCtrl, read |-> Read(m), len |-> _msglen(m), sent |-> own]
    BY <1>3, <1>4, <1>6 DEF Access
<1>10. Meant(u) = Access(u, m, [j \in Slots |-> u], IF DevSel THEN m.sel ELSE 0,
                         IF UseExt(m) THEN _msglen(m) ELSE NoExt)
    BY DEF Meant
<1> HIDE DEF loaded, own
<1> QED
    BY <1>7, <1>8, <1>9, <1>10

LEMMA StartStep ==
    ASSUME IInv, NEW u \in User, Start(u)
    PROVE  IInv'
<1>1. PICK to \in {"wait", "leave"}, e \in {"none", "io"} :
         /\ Goto(u, "start", to, e)
         /\ to = "leave" <=> e = "io"
         /\ Started(u) \/ (to = "leave" /\ UNCHANGED <<busy, job>>)
         /\ late' = [late EXCEPT ![u] = busy]
         /\ UNCHANGED <<msg, got, ext0, txbuf, devCtrl, status, last>>
    BY DEF Start
<1>g. "start" \in PC /\ to \in PC /\ "start" # "idle" /\ Goto(u, "start", to, e)
    BY <1>1 DEF PC
<1>2. /\ pc[u] = "start" /\ pc'[u] = to /\ pc' \in [User -> PC]
      /\ err'[u] = e /\ DOMAIN err' = User
      /\ \A v \in User : v # u => pc[v] = "idle" /\ pc'[v] = "idle"
      /\ UserInv(u) /\ Shape
    BY <1>g, GotoStep
<1>3. Meant(u)' = Meant(u) /\ Meant(u).by = u
    BY <1>1, MeantStays, MeantShape
<1>4. /\ (job' = Meant(u) /\ busy' = TRUE) \/ (job' = job /\ (to = "wait" => busy = TRUE))
      /\ to = "wait" => busy' = TRUE
      /\ busy' \in BOOLEAN /\ late'[u] = busy
    BY <1>1, <1>2, StartsMeant DEF Started, Shape
<1>5. \A v \in User : v # u => late'[v] = late[v] /\ (job'.by = v => job.by = v)
    BY <1>1, <1>2, <1>3, <1>4 DEF Shape
<1>6. Shape' /\ Apart(u)
    BY <1>1, <1>2, <1>4, <1>5 DEF Shape, Apart
<1>7. CallInv(u)' /\ Loaded(u)'
    BY <1>1, <1>2 DEF UserInv, CallInv, Loaded, Before, After
<1>8. InEngine(u)'
    BY <1>2, <1>3, <1>4 DEF UserInv, InEngine, After
<1>9. Executed(u)'
    BY <1>1, <1>2, <1>3, <1>4 DEF Executed, Succeeds
<1> QED
    BY <1>6, <1>7, <1>8, <1>9, CallStep DEF UserInv

LEMMA WaitStep ==
    ASSUME IInv, NEW u \in User, WaitDone(u)
    PROVE  IInv'
<1>1. PICK to \in {"close", "recover", "drain"}, e \in {"none", "fault", "busy", "timedout", "io"} :
         /\ Goto(u, "wait", to, e)
         /\ e = "none" => busy = FALSE /\ status = "ok"
         /\ to = "drain" => e = "none"
         /\ e = "none" /\ to = "close" => ~Read(msg[u])
         /\ UNCHANGED <<msg, got, late, ext0, txbuf, devCtrl, busy, status, job, last>>
    <2>1. CASE ~busy /\ Finished(u)
        BY <2>1 DEF WaitDone, Finished, engineVars, IInv, Shape
    <2>2. CASE Goto(u, "wait", "close", "timedout") \/ Goto(u, "wait", "close", "io")
        BY <2>2 DEF WaitDone, engineVars
    <2> QED
        BY <2>1, <2>2 DEF WaitDone
<1>g. "wait" \in PC /\ to \in PC /\ "wait" # "idle" /\ Goto(u, "wait", to, e)
    BY <1>1 DEF PC
<1>2. /\ pc[u] = "wait" /\ pc'[u] = to /\ pc' \in [User -> PC]
      /\ err'[u] = e /\ DOMAIN err' = User
      /\ \A v \in User : v # u => pc[v] = "idle" /\ pc'[v] = "idle"
      /\ UserInv(u) /\ Shape
    BY <1>g, GotoStep
<1>3. Meant(u)' = Meant(u)
    BY <1>1, MeantStays
<1>4. Shape' /\ Apart(u)
    BY <1>1, <1>2 DEF Shape, Apart
<1>5. CallInv(u)' /\ Loaded(u)'
    BY <1>1, <1>2 DEF UserInv, CallInv, Loaded, Before, After
<1>6. Executed(u)'
    BY <1>1, <1>2, <1>3 DEF UserInv, Executed, Succeeds
<1>7. InEngine(u)'
    BY <1>1, <1>2, <1>3 DEF UserInv, InEngine, After
<1> QED
    BY <1>4, <1>5, <1>6, <1>7, CallStep DEF UserInv

\* The bus is recovered, or the call gives up; either way it has failed.
LEMMA RecoverSteps ==
    ASSUME IInv, NEW u \in User, Recover(u) \/ Recovering(u)
    PROVE  IInv'
<1>1. PICK from \in {"recover", "recovering"}, to \in {"recovering", "close"} :
         /\ Goto(u, from, to, "busy")
         /\ UNCHANGED <<busy, job>> \/ (busy' = TRUE /\ job' = Recovery)
         /\ UNCHANGED <<msg, got, late, ext0, txbuf, devCtrl, status, last>>
    <2>1. CASE Recover(u)
        BY <2>1 DEF Recover
    <2>2. CASE Recovering(u)
        BY <2>2 DEF Recovering, engineVars
    <2> QED
        BY <2>1, <2>2
<1>g. from \in PC /\ to \in PC /\ from # "idle" /\ Goto(u, from, to, "busy")
    BY <1>1 DEF PC
<1>2. /\ pc[u] = from /\ pc'[u] = to /\ pc' \in [User -> PC]
      /\ err'[u] = "busy" /\ DOMAIN err' = User
      /\ \A v \in User : v # u => pc[v] = "idle" /\ pc'[v] = "idle"
      /\ UserInv(u) /\ Shape
    BY <1>g, GotoStep
<1>3. Meant(u)' = Meant(u) /\ \A v \in User : job'.by = v => job' = job
    BY <1>1, MeantStays, Nobody
<1>4. Shape' /\ Apart(u)
    BY <1>1, <1>2, <1>3 DEF Shape, Apart
<1>5. CallInv(u)' /\ Loaded(u)'
    BY <1>1, <1>2 DEF UserInv, CallInv, Loaded, Before, After
<1>6. InEngine(u)' /\ Executed(u)'
    BY <1>1, <1>2, <1>3, Nobody DEF UserInv, InEngine, Executed, Succeeds, After
<1> QED
    BY <1>4, <1>5, <1>6, CallStep DEF UserInv

LEMMA DrainStep ==
    ASSUME IInv, NEW u \in User, Drain(u)
    PROVE  IInv'
<1>1. PICK to \in {"close", "leave"}, e \in {"none", "io"} :
         /\ Goto(u, "drain", to, e)
         /\ to = "close" <=> e = "none"
         /\ to = "leave" => got' = got
         /\ to = "close" =>
               \E first \in 0..(BlockMax + 1) :
                  got' = [got EXCEPT ![u] =
                            [access |-> last,
                             len |-> msg[u].rx + (IF msg[u].num > 1 /\ msg[u].recv
                                                     /\ msg[u].rx + first <= _msglen(msg[u])
                                                  THEN first ELSE 0)]]
         /\ UNCHANGED <<msg, late, ext0, txbuf, devCtrl, busy, status, job, last>>
    BY DEF Drain, engineVars
<1>g. "drain" \in PC /\ to \in PC /\ "drain" # "idle" /\ Goto(u, "drain", to, e)
    BY <1>1 DEF PC
<1>2. /\ pc[u] = "drain" /\ pc'[u] = to /\ pc' \in [User -> PC]
      /\ err'[u] = e /\ DOMAIN err' = User
      /\ \A v \in User : v # u => pc[v] = "idle" /\ pc'[v] = "idle"
      /\ UserInv(u) /\ Shape
    BY <1>g, GotoStep
<1>3. Meant(u)' = Meant(u)
    BY <1>1, MeantStays
<1>4. Shape' /\ Apart(u)
    BY <1>1, <1>2 DEF Shape, Apart
<1>5. CallInv(u)' /\ Loaded(u)'
    BY <1>1, <1>2 DEF UserInv, CallInv, Loaded, Before, After
<1>6. InEngine(u)'
    BY <1>1, <1>2, <1>3 DEF UserInv, InEngine, After
<1>7. ASSUME to = "close", Read(msg[u])
      PROVE  got'[u].access = last /\ got'[u].len <= Meant(u).len
    <2>1. msg[u] \in Msgs /\ ~Refused(msg[u])
        BY <1>2 DEF UserInv, CallInv, Shape
    <2>2. Meant(u).len = _msglen(msg[u]) /\ msg[u].rx <= _msglen(msg[u])
          /\ msg[u].rx \in Nat /\ _msglen(msg[u]) \in Nat
        BY <1>7, <2>1, MeantShape, FitsBuffers
    <2>3. PICK first \in 0..(BlockMax + 1) :
             got' = [got EXCEPT ![u] =
                       [access |-> last,
                        len |-> msg[u].rx + (IF msg[u].num > 1 /\ msg[u].recv
                                                /\ msg[u].rx + first <= _msglen(msg[u])
                                             THEN first ELSE 0)]]
        BY <1>1, <1>7
    <2>4. got'[u] = [access |-> last,
                     len |-> msg[u].rx + (IF msg[u].num > 1 /\ msg[u].recv
                                             /\ msg[u].rx + first <= _msglen(msg[u])
                                          THEN first ELSE 0)]
        BY <1>2, <2>3 DEF Shape
    <2> QED
        BY <2>2, <2>4
<1>8. Executed(u)'
    BY <1>1, <1>2, <1>3, <1>7 DEF UserInv, Executed, Succeeds
<1> QED
    BY <1>4, <1>5, <1>6, <1>8, CallStep DEF UserInv

LEMMA CloseStep ==
    ASSUME IInv, NEW u \in User, Close(u)
    PROVE  IInv'
<1>1. PICK e \in {err[u], "io"} :
         /\ Goto(u, "close", "leave", e)
         /\ UNCHANGED <<msg, got, late, txbuf, devCtrl, busy, status, job, last>>
    BY DEF Close
<1>g. "close" \in PC /\ "leave" \in PC /\ "close" # "idle" /\ Goto(u, "close", "leave", e)
    BY <1>1 DEF PC
<1>2. /\ pc[u] = "close" /\ pc'[u] = "leave" /\ pc' \in [User -> PC]
      /\ err'[u] = e /\ DOMAIN err' = User
      /\ \A v \in User : v # u => pc[v] = "idle" /\ pc'[v] = "idle"
      /\ UserInv(u) /\ Shape
    BY <1>g, GotoStep
<1>3. Meant(u)' = Meant(u) /\ (Succeeds(u)' => Succeeds(u))
    BY <1>1, <1>2, MeantStays DEF Succeeds
<1>4. Shape' /\ Apart(u)
    BY <1>1, <1>2 DEF Shape, Apart
<1>5. CallInv(u)' /\ Loaded(u)'
    BY <1>1, <1>2 DEF UserInv, CallInv, Loaded, Before, After
<1>6. InEngine(u)' /\ Executed(u)'
    BY <1>1, <1>2, <1>3 DEF UserInv, InEngine, Executed, After
<1> QED
    BY <1>4, <1>5, <1>6, CallStep DEF UserInv

\* The reset of the probe, for which there is no message.
LEMMA ResetSteps ==
    ASSUME IInv, NEW u \in User, Reset(u) \/ ClearExt0(u)
    PROVE  IInv'
<1>1. PICK from \in {"reset", "unext"}, to \in {"unext", "leave"}, e \in {"none", "io"} :
         /\ Goto(u, from, to, e)
         /\ UNCHANGED <<busy, job>> \/ (busy' = FALSE /\ job' = None)
         /\ UNCHANGED <<msg, got, late, txbuf, devCtrl, status, last>>
    <2>1. CASE Reset(u)
        BY <2>1 DEF Reset
    <2>2. CASE ClearExt0(u)
        BY <2>2 DEF ClearExt0
    <2> QED
        BY <2>1, <2>2
<1>g. from \in PC /\ to \in PC /\ from # "idle" /\ Goto(u, from, to, e)
    BY <1>1 DEF PC
<1>2. /\ pc[u] = from /\ pc'[u] = to /\ pc' \in [User -> PC]
      /\ err'[u] = e /\ DOMAIN err' = User
      /\ \A v \in User : v # u => pc[v] = "idle" /\ pc'[v] = "idle"
      /\ UserInv(u) /\ Shape
    BY <1>g, GotoStep
<1>3. msg'[u] = NoMsg /\ \A v \in User : job'.by = v => job' = job
    BY <1>1, <1>2, Nobody DEF UserInv, CallInv
<1>4. Shape' /\ Apart(u)
    BY <1>1, <1>2, <1>3 DEF Shape, Apart
<1>5. CallInv(u)' /\ Loaded(u)'
    BY <1>1, <1>2, <1>3 DEF UserInv, CallInv, Loaded, Before, After
<1>6. InEngine(u)' /\ Executed(u)'
    BY <1>1, <1>2, <1>3 DEF UserInv, InEngine, Executed, Succeeds, After
<1> QED
    BY <1>4, <1>5, <1>6, CallStep DEF UserInv

\* A call that returns or is lost leaves nothing of its own in the engine.
LEMMA ForgetStep ==
    ASSUME IInv, NEW u \in User, Return(u) \/ Crash(u)
    PROVE  IInv'
<1>1. pc[u] # "idle" /\ Forget(u) /\ UNCHANGED <<ext0, devCtrl, busy, status>>
    BY DEF Return, Crash
<1>2. UserInv(u) /\ Shape /\ \A v \in User : v # u => pc[v] = "idle"
    BY <1>1 DEF IInv, OneCall
<1>3. /\ pc'[u] = "idle" /\ pc' \in [User -> PC]
      /\ \A v \in User : v # u => pc'[v] = pc[v]
      /\ msg'[u] = NoMsg /\ msg' \in [User -> Msgs \cup {NoMsg}]
      /\ \A v \in User : v # u => msg'[v] = msg[v]
      /\ late'[u] = FALSE /\ late' \in [User -> BOOLEAN]
      /\ \A v \in User : v # u => late'[v] = late[v]
      /\ DOMAIN err' = User /\ DOMAIN got' = User /\ DOMAIN txbuf' = Slots
    BY <1>1, <1>2 DEF Forget, Shape, PC
<1>4. /\ job'.by # u
      /\ \A v \in User : v # u => (job'.by = v => job.by = v)
    <2>1. CASE job.by = u
        <3>1. job = [by |-> u, sel |-> Meant(u).sel, read |-> Meant(u).read,
                     len |-> Meant(u).len, sent |-> Meant(u).sent]
            BY <1>2, <2>1, MeantShape DEF UserInv, InEngine
        <3>2. [job EXCEPT !.by = "nobody"].by = "nobody"
            BY <3>1
        <3>3. job'.by = "nobody"
            BY <1>1, <2>1, <3>2 DEF Forget, Disown
        <3> QED
            BY <3>3, Nobody
    <2>2. CASE job.by # u
        BY <1>1, <2>2 DEF Forget, Disown
    <2> QED
        BY <2>1, <2>2
<1>5. Shape' /\ Apart(u)
    BY <1>1, <1>2, <1>3, <1>4 DEF Shape, Apart
<1>6. UserInv(u)'
    <2>1. ~DevSel => devCtrl' = 0
        BY <1>1, <1>2 DEF UserInv, Loaded
    <2> QED
        BY <1>3, <1>4, <2>1
        DEF UserInv, CallInv, Loaded, InEngine, Executed, Succeeds, Before, After
<1> QED
    BY <1>5, <1>6, CallStep

\* The engine ends an access at any time, and reports anything.
LEMMA EngineEndsStep ==
    ASSUME IInv, EngineEnds
    PROVE  IInv'
<1>1. /\ busy = TRUE /\ busy' = FALSE /\ job' = None
      /\ status' = "ok" /\ job # Recovery => last' = job
      /\ UNCHANGED <<pc, msg, err, got, late, ext0, txbuf, devCtrl>>
    BY DEF EngineEnds, callVars
<1>2. Shape' /\ OneCall'
    BY <1>1 DEF IInv, Shape, OneCall
<1>3. ASSUME NEW u \in User PROVE UserInv(u)'
    <2>1. UserInv(u) /\ Meant(u)' = Meant(u) /\ job'.by # u
        BY <1>1, MeantStays, Nobody DEF IInv
    <2>2. CallInv(u)' /\ Loaded(u)' /\ InEngine(u)'
        BY <1>1, <2>1 DEF UserInv, CallInv, Loaded, InEngine, Before, After
    <2>3. Meant(u) # Recovery
        BY MeantShape, Nobody
    <2>4. Executed(u)'
        BY <1>1, <2>1, <2>3 DEF UserInv, Executed, Succeeds
    <2> QED
        BY <2>1, <2>2, <2>4 DEF UserInv
<1> QED
    BY <1>2, <1>3 DEF IInv

-----------------------------------------------------------------------------
LEMMA Invariance == Spec => []IInv
<1>1. IInv /\ [Next]_vars => IInv'
    <2> SUFFICES ASSUME IInv, [Next]_vars PROVE IInv'
        OBVIOUS
    <2>1. ASSUME NEW u \in User, Driver(u) PROVE IInv'
        BY <2>1, LoadSteps, StartStep, WaitStep, RecoverSteps, DrainStep, CloseStep, ResetSteps,
           ForgetStep DEF Driver, Loads
    <2>2. ASSUME NEW u \in User, Begin(u) \/ Register(u) \/ Crash(u) PROVE IInv'
        BY <2>2, BeginStep, ForgetStep
    <2>3. CASE UNCHANGED vars
        <3>1. UNCHANGED <<pc, msg, err, got, late, ext0, txbuf, devCtrl, busy, status, job, last>>
            BY <2>3 DEF vars, callVars, engineVars
        <3>2. Shape' /\ OneCall'
            BY <3>1 DEF IInv, Shape, OneCall
        <3>3. ASSUME NEW u \in User PROVE UserInv(u)'
            <4>1. UserInv(u) /\ Meant(u)' = Meant(u)
                BY <3>1, MeantStays DEF IInv
            <4> QED
                BY <3>1, <4>1 DEF UserInv, CallInv, Loaded, InEngine, Executed, Succeeds
        <3> QED
            BY <3>2, <3>3 DEF IInv
    <2> QED
        BY <2>1, <2>2, <2>3, EngineEndsStep DEF Next
<1> QED
    BY <1>1, InitIInv, PTL DEF Spec

\* The access that the engine works on for a user is the one its caller means,
\* whatever other calls left in the registers before they failed.
THEOREM OwnAccessOnly == Spec => []OwnAccess
<1>1. IInv => OwnAccess
    BY DEF IInv, UserInv, InEngine, OwnAccess
<1> QED
    BY <1>1, Invariance, PTL

\* A call that started its access on an idle engine and returns success has had
\* it executed, and what it read is the answer to it.
THEOREM SuccessIsReal == Spec => []SuccessMeansExecuted
<1>1. IInv => SuccessMeansExecuted
    BY DEF IInv, UserInv, Executed, Succeeds, Shape, SuccessMeansExecuted
<1> QED
    BY <1>1, Invariance, PTL
=============================================================================
