-------------------------- MODULE DriverLifeProofs --------------------------
(***************************************************************************)
(* Two drivers over loads, boots and removals.                             *)
(*                                                                         *)
(* PowerSeq: the files list rails as they were while the file was read,    *)
(* and the delayed work starts in time, for any number of rails, names and *)
(* lines.                                                                  *)
(*                                                                         *)
(* GpioReboot: which reboots initialise pins, for any number of blocks,    *)
(* any parameters, and loads and failures without a bound.                 *)
(***************************************************************************)
EXTENDS GpioReboot, PowerSeq, FiniteSetTheorems, WellFoundedInduction, TLAPS

-----------------------------------------------------------------------------
(* PowerSeq.  Induction, with a set in the place of a predicate.           *)

LEMMA SetInduction ==
    ASSUME NEW P, P \subseteq Nat, 0 \in P, \A n \in P : n + 1 \in P
    PROVE  P = Nat
<1> SUFFICES ASSUME Nat \ P # {} PROVE FALSE
    OBVIOUS
<1>1. \E n \in Nat \ P : \A m \in Nat \ P : ~(<<m, n>> \in OpToRel(<, Nat))
    BY WFMin, NatLessThanWellFounded, Zenon
<1>2. PICK n \in Nat \ P : \A m \in Nat \ P : ~(<<m, n>> \in OpToRel(<, Nat))
    BY <1>1
<1>3. \A m \in Nat \ P : ~(m < n)
    BY <1>2 DEF OpToRel
<1>4. n \in Nat \ P
    BY <1>2
<1>5. n # 0 /\ n - 1 \in Nat /\ n - 1 < n /\ (n - 1) + 1 = n
    BY <1>4
<1>6. n - 1 \in P
    BY <1>3, <1>5
<1> QED
    BY <1>4, <1>5, <1>6

-----------------------------------------------------------------------------
(* The loop of _show_rails: its recursive function, over the bits d of a   *)
(* register whose rails have the names from "from" on.                     *)

PrintBit(d, names, from, bits, s) ==
    IF bits - 1 \in d /\ names[from + bits] # ""
    THEN Append(s, Line(bits - 1, names[from + bits])) ELSE s

LoopEq(d, names, from, before, g) ==
    g = [bits \in Nat |-> IF bits = 0 THEN before
                          ELSE PrintBit(d, names, from, bits, g[bits - 1])]

Loop(d, names, from, before) == CHOOSE g : LoopEq(d, names, from, before, g)

LEMMA PrintedIs ==
    ASSUME NEW index, NEW from, NEW before
    PROVE  Printed(index, from, before)
             = Loop(reader.data[index], priv.names, from, before)[priv.num[index]]
BY DEF Printed, Loop, LoopEq, PrintBit

\* It exists: it is put together from what it is for the first n bits.
LoopsTo(d, names, from, before, n, g) ==
    /\ g[0] = before
    /\ \A k \in 1..n : g[k] = PrintBit(d, names, from, k, g[k - 1])

LEMMA LoopsAgree ==
    ASSUME NEW d, NEW names, NEW from, NEW before, NEW n \in Nat, NEW g, NEW h,
           LoopsTo(d, names, from, before, n, g), LoopsTo(d, names, from, before, n, h)
    PROVE  \A k \in 0..n : g[k] = h[k]
<1> DEFINE P == {k \in Nat : k <= n => g[k] = h[k]}
<1>1. 0 \in P
    BY DEF LoopsTo
<1>2. ASSUME NEW k \in P PROVE k + 1 \in P
    <2> SUFFICES ASSUME k + 1 <= n PROVE g[k + 1] = h[k + 1]
        OBVIOUS
    <2>1. k \in Nat /\ k + 1 \in 1..n /\ k <= n /\ (k + 1) - 1 = k
        OBVIOUS
    <2>2. g[k] = h[k]
        BY <2>1
    <2>3. /\ g[k + 1] = PrintBit(d, names, from, k + 1, g[(k + 1) - 1])
          /\ h[k + 1] = PrintBit(d, names, from, k + 1, h[(k + 1) - 1])
        BY <2>1 DEF LoopsTo
    <2> QED
        BY <2>1, <2>2, <2>3
<1> HIDE DEF P
<1>3. P = Nat
    BY <1>1, <1>2, SetInduction DEF P
<1> QED
    BY <1>3 DEF P

LEMMA LoopsExist ==
    ASSUME NEW d, NEW names, NEW from, NEW before
    PROVE  \A n \in Nat : \E g : LoopsTo(d, names, from, before, n, g)
<1> DEFINE P == {n \in Nat : \E g : LoopsTo(d, names, from, before, n, g)}
<1>1. 0 \in P
    <2>1. LoopsTo(d, names, from, before, 0, [k \in {0} |-> before])
        BY DEF LoopsTo
    <2> QED
        BY <2>1
<1>2. ASSUME NEW n \in P PROVE n + 1 \in P
    <2>1. PICK g : LoopsTo(d, names, from, before, n, g)
        BY <1>2
    <2> DEFINE more == PrintBit(d, names, from, n + 1, g[n])
               h == [k \in 0..(n + 1) |-> IF k = n + 1 THEN more ELSE g[k]]
    <2>2. n \in Nat
        BY <1>2
    <2> HIDE DEF more
    <2>3. h[0] = before
        BY <2>1, <2>2 DEF LoopsTo
    <2>4. ASSUME NEW k \in 1..(n + 1) PROVE h[k] = PrintBit(d, names, from, k, h[k - 1])
        <3>1. CASE k = n + 1
            <4>1. k - 1 = n /\ n \in 0..(n + 1) /\ n # n + 1 /\ k \in 0..(n + 1)
                BY <2>2, <3>1
            <4>2. h[k] = more /\ h[k - 1] = g[n]
                BY <3>1, <4>1
            <4> QED
                BY <3>1, <4>2 DEF more
        <3>2. CASE k # n + 1
            <4>1. k \in 1..n /\ k \in 0..(n + 1) /\ k - 1 \in 0..(n + 1) /\ k - 1 # n + 1
                BY <2>2, <2>4, <3>2
            <4>2. g[k] = PrintBit(d, names, from, k, g[k - 1])
                BY <2>1, <4>1 DEF LoopsTo
            <4>3. h[k] = g[k] /\ h[k - 1] = g[k - 1]
                BY <3>2, <4>1
            <4> QED
                BY <4>2, <4>3
        <3> QED
            BY <3>1, <3>2
    <2>5. LoopsTo(d, names, from, before, n + 1, h)
        <3> HIDE DEF h
        <3> QED
            BY <2>3, <2>4 DEF LoopsTo
    <2> QED
        BY <2>2, <2>5
<1> HIDE DEF P
<1>3. P = Nat
    BY <1>1, <1>2, SetInduction DEF P
<1> QED
    BY <1>3 DEF P

LEMMA LoopExists ==
    ASSUME NEW d, NEW names, NEW from, NEW before
    PROVE  \E g : LoopEq(d, names, from, before, g)
<1> DEFINE pick(n) == CHOOSE g : LoopsTo(d, names, from, before, n, g)
           all == [k \in Nat |-> pick(k)[k]]
<1>1. \A n \in Nat : LoopsTo(d, names, from, before, n, pick(n))
    BY LoopsExist
<1> HIDE DEF pick
<1>2. all[0] = before
    BY <1>1 DEF LoopsTo
<1>3. ASSUME NEW k \in Nat, k # 0
      PROVE  all[k] = PrintBit(d, names, from, k, all[k - 1])
    <2>1. k - 1 \in Nat /\ k \in 1..k /\ k - 1 \in 0..(k - 1)
        BY <1>3
    <2>2. /\ LoopsTo(d, names, from, before, k, pick(k))
          /\ LoopsTo(d, names, from, before, k - 1, pick(k - 1))
        BY <1>1, <2>1
    <2>3. LoopsTo(d, names, from, before, k - 1, pick(k))
        BY <2>2 DEF LoopsTo
    <2>4. pick(k)[k - 1] = pick(k - 1)[k - 1]
        BY <2>1, <2>2, <2>3, LoopsAgree
    <2>5. pick(k)[k] = PrintBit(d, names, from, k, pick(k)[k - 1])
        BY <2>1, <2>2 DEF LoopsTo
    <2>6. all[k] = pick(k)[k] /\ all[k - 1] = pick(k - 1)[k - 1]
        BY <2>1
    <2> QED
        BY <2>4, <2>5, <2>6
<1>4. LoopEq(d, names, from, before, all)
    <2>1. \A k \in Nat : all[k] = IF k = 0 THEN before
                                  ELSE PrintBit(d, names, from, k, all[k - 1])
        BY <1>2, <1>3
    <2>2. all = [k \in Nat |-> all[k]]
        OBVIOUS
    <2> HIDE DEF all
    <2> QED
        BY <2>1, <2>2 DEF LoopEq
<1> QED
    BY <1>4

LEMMA LoopIs ==
    ASSUME NEW d, NEW names, NEW from, NEW before
    PROVE  /\ Loop(d, names, from, before)[0] = before
           /\ \A n \in Nat : Loop(d, names, from, before)[n + 1]
                 = PrintBit(d, names, from, n + 1, Loop(d, names, from, before)[n])
<1> DEFINE g == Loop(d, names, from, before)
<1>1. LoopEq(d, names, from, before, g)
    BY LoopExists DEF Loop
<1> HIDE DEF g
<1>2. g[0] = before
    BY <1>1 DEF LoopEq
<1>3. ASSUME NEW n \in Nat PROVE g[n + 1] = PrintBit(d, names, from, n + 1, g[n])
    <2>1. n + 1 \in Nat /\ n + 1 # 0 /\ (n + 1) - 1 = n
        OBVIOUS
    <2> QED
        BY <1>1, <2>1 DEF LoopEq
<1> QED
    BY <1>2, <1>3 DEF g

-----------------------------------------------------------------------------
(* Ordered lists of rails.                                                 *)

Orders(order, S) ==
    /\ IsFiniteSet(S)
    /\ order \in [1..Cardinality(S) -> S]
    /\ InOrder(order)

Listing(order) == [k \in DOMAIN order |-> LineOf(order[k])]

\* One more rail, higher than all others, is one more line.
LEMMA OneMoreRail ==
    ASSUME NEW S, S \subseteq Nat, NEW order, Orders(order, S), NEW x \in Nat, \A r \in S : r < x
    PROVE  \E longer : /\ Orders(longer, S \cup {x})
                       /\ Listing(longer) = Append(Listing(order), LineOf(x))
<1> DEFINE n == Cardinality(S)
           longer == [k \in 1..(n + 1) |-> IF k = n + 1 THEN x ELSE order[k]]
<1>1. x \notin S
    OBVIOUS
<1>2. n \in Nat /\ IsFiniteSet(S \cup {x}) /\ Cardinality(S \cup {x}) = n + 1
    BY <1>1, FS_CardinalityType, FS_AddElement DEF Orders
<1> HIDE DEF n
<1>3. order \in [1..n -> S] /\ InOrder(order)
    BY DEF Orders, n
<1>4. Orders(longer, S \cup {x})
    <2>1. longer \in [1..(n + 1) -> S \cup {x}]
        BY <1>2, <1>3
    <2>2. ASSUME NEW i \in 1..(n + 1), NEW j \in 1..(n + 1), i < j
          PROVE  longer[i] < longer[j]
        <3>1. i \in 1..n /\ longer[i] = order[i] /\ order[i] \in S
            BY <1>2, <1>3, <2>2
        <3>2. CASE j = n + 1
            BY <3>1, <3>2
        <3>3. CASE j # n + 1
            <4>1. j \in 1..n /\ longer[j] = order[j]
                BY <1>2, <2>2, <3>3
            <4> QED
                BY <1>3, <2>2, <3>1, <4>1 DEF InOrder
        <3> QED
            BY <3>2, <3>3
    <2> HIDE DEF longer
    <2> QED
        BY <1>2, <2>1, <2>2 DEF Orders, InOrder
<1>5. Listing(longer) = Append(Listing(order), LineOf(x))
    <2> DEFINE T == {LineOf(r) : r \in S \cup {x}}
    <2>1. DOMAIN order = 1..n /\ DOMAIN longer = 1..(n + 1)
        BY <1>3
    <2>2. Listing(order) \in [1..n -> T] /\ LineOf(x) \in T
        BY <1>3, <2>1 DEF Listing
    <2> HIDE DEF T
    <2>3. Listing(order) \in Seq(T) /\ Len(Listing(order)) = n
        BY <1>2, <2>2
    <2> DEFINE app == Append(Listing(order), LineOf(x))
    <2>4. /\ app \in Seq(T) /\ Len(app) = n + 1
          /\ \A k \in 1..n : app[k] = Listing(order)[k]
          /\ app[n + 1] = LineOf(x)
        BY <2>2, <2>3
    <2> HIDE DEF app
    <2>5. ASSUME NEW k \in 1..(n + 1) PROVE LineOf(longer[k]) = app[k]
        <3>1. CASE k = n + 1
            BY <2>4, <3>1
        <3>2. CASE k # n + 1
            <4>1. k \in 1..n /\ longer[k] = order[k]
                BY <1>2, <3>2
            <4> QED
                BY <2>1, <2>4, <4>1 DEF Listing
        <3> QED
            BY <3>1, <3>2
    <2> HIDE DEF longer
    <2>6. Listing(longer) = [k \in 1..(n + 1) |-> LineOf(longer[k])]
        BY <2>1 DEF Listing
    <2>7. app = [k \in 1..(n + 1) |-> app[k]]
        BY <1>2, <2>4
    <2> QED
        BY <2>5, <2>6, <2>7 DEF app
<1> QED
    BY <1>4, <1>5

\* The rails of a register that its first n bits have shown.
ShownOf(d, from, n) == {r \in from..(from + n - 1) : r - from \in d /\ priv.names[r + 1] # ""}

Below(S, x) == S \subseteq Nat /\ \A r \in S : r < x

\* What the loop over a register makes of the lines of the rails S.
Adds(d, from, limit, S, order) ==
    \E longer : /\ Orders(longer, S \cup ShownOf(d, from, limit))
                /\ Loop(d, priv.names, from, Listing(order))[limit] = Listing(longer)

\* It adds the lines of its own rails.
LEMMA LoopLists ==
    ASSUME NEW d, NEW from, from = 0 \/ from = RegBits, NEW limit \in 0..RegBits,
           NEW S, Below(S, from), NEW order, Orders(order, S)
    PROVE  Adds(d, from, limit, S, order)
<1> DEFINE g == Loop(d, priv.names, from, Listing(order))
           Good(n) == \E longer : /\ Orders(longer, S \cup ShownOf(d, from, n))
                                  /\ g[n] = Listing(longer)
           P == {n \in Nat : n <= RegBits => Good(n)}
<1>1. /\ g[0] = Listing(order)
      /\ \A n \in Nat : g[n + 1] = PrintBit(d, priv.names, from, n + 1, g[n])
    BY LoopIs
<1> HIDE DEF g
<1>2. RegBits \in Nat /\ from \in Nat
    BY PowerSeqAssumption
<1>3. Good(0)
    <2>1. S \cup ShownOf(d, from, 0) = S
        <3>1. from..(from + 0 - 1) = {}
            BY <1>2
        <3> QED
            BY <3>1 DEF ShownOf
    <2> QED
        BY <1>1, <2>1
<1>4. ASSUME NEW n \in Nat, Good(n), n + 1 <= RegBits PROVE Good(n + 1)
    <2>1. PICK longer : Orders(longer, S \cup ShownOf(d, from, n)) /\ g[n] = Listing(longer)
        BY <1>4
    <2> DEFINE x == from + n
    <2>2. x \in Nat /\ x - from = n /\ x + 1 = from + (n + 1)
        BY <1>2
    <2>3. g[n + 1] = IF n \in d /\ priv.names[x + 1] # ""
                     THEN Append(g[n], Line(n, priv.names[x + 1])) ELSE g[n]
        <3>1. (n + 1) - 1 = n
            OBVIOUS
        <3> QED
            BY <1>1, <2>2, <3>1 DEF PrintBit
    <2>4. LineOf(x) = Line(n, priv.names[x + 1])
        BY <1>2, <1>4, <2>2 DEF LineOf, Line
    <2>5. from..(from + (n + 1) - 1) = (from..(from + n - 1)) \cup {x}
        BY <1>2
    <2> HIDE DEF x
    <2>6. CASE n \in d /\ priv.names[x + 1] # ""
        <3>1. S \cup ShownOf(d, from, n + 1) = (S \cup ShownOf(d, from, n)) \cup {x}
            BY <2>2, <2>5, <2>6 DEF ShownOf
        <3> DEFINE T == S \cup ShownOf(d, from, n)
        <3>2. ASSUME NEW r \in T PROVE r \in Nat /\ r < x
            <4>1. r \in S \/ r \in from..(from + n - 1)
                BY DEF ShownOf, Below
            <4>2. r \in Nat /\ (r < from \/ r <= from + n - 1)
                BY <1>2, <4>1 DEF Below
            <4> QED
                BY <1>2, <4>2 DEF x
        <3>3. Orders(longer, T)
            BY <2>1
        <3> HIDE DEF T
        <3>4. PICK more : /\ Orders(more, T \cup {x})
                          /\ Listing(more) = Append(Listing(longer), LineOf(x))
            BY <2>2, <3>2, <3>3, OneMoreRail
        <3>5. Orders(more, S \cup ShownOf(d, from, n + 1))
            BY <3>1, <3>4 DEF T
        <3>6. g[n + 1] = Listing(more)
            BY <2>1, <2>3, <2>4, <2>6, <3>4
        <3> QED
            BY <3>5, <3>6
    <2>7. CASE ~(n \in d /\ priv.names[x + 1] # "")
        <3>1. ShownOf(d, from, n + 1) = ShownOf(d, from, n)
            BY <2>2, <2>5, <2>7 DEF ShownOf
        <3> QED
            BY <2>1, <2>3, <2>7, <3>1
    <2> QED
        BY <2>6, <2>7
<1> HIDE DEF Good
<1>5. 0 \in P /\ \A n \in P : n + 1 \in P
    BY <1>2, <1>3, <1>4
<1> HIDE DEF P
<1>6. P = Nat
    BY <1>5, SetInduction DEF P
<1>7. limit \in P /\ limit <= RegBits
    BY <1>2, <1>6
<1> QED
    BY <1>7 DEF P, Good, g, Adds

LEMMA NoLines == Orders(<<>>, {}) /\ Listing(<<>>) = <<>>
<1>1. Cardinality({}) = 0 /\ IsFiniteSet({})
    BY FS_EmptySet
<1>2. <<>> \in [1..0 -> {}] /\ DOMAIN <<>> = {}
    OBVIOUS
<1>3. [k \in {} |-> LineOf(<<>>[k])] = <<>>
    OBVIOUS
<1> QED
    BY <1>1, <1>2, <1>3 DEF Orders, InOrder, Listing

-----------------------------------------------------------------------------
(* The invariant.                                                          *)

\* Only a full first register is followed by a second.
Counted ==
    /\ priv.num[1] \in 0..RegBits /\ priv.num[2] \in 0..RegBits
    /\ priv.num[2] > 0 => priv.num[1] = RegBits

PseqShape ==
    /\ device \in {"unbound", "bound", "removing"}
    /\ on \subseteq Rails
    /\ reader \in [pc : {"idle", "first", "second", "show", "shown"}, invert : BOOLEAN,
                   data : [1..2 -> SUBSET Bits], out : {reader.out}]
    /\ device = "unbound" => reader.pc = "idle"
    /\ device # "unbound" => Counted

\* What has been read of a register was so, and what was not read was not.
Fits(index, from) ==
    \A b \in Bits : IF b \in reader.data[index] THEN from + b \in Was ELSE from + b \in WasNot

ReadInv ==
    /\ reader.pc # "idle" => on \subseteq seen.on /\ Rails \ on \subseteq seen.off
    /\ reader.pc = "second" => priv.num[2] > 0
    /\ reader.pc \in {"second", "show"} => Fits(1, 0)
    /\ reader.pc = "show" /\ priv.num[2] > 0 => Fits(2, RegBits)

\* Remove cancels a work that has not started.
WorkInv == work = "scheduled" => device = "bound"

PseqInv == PseqShape /\ ReadInv /\ RailsShown /\ WorkInv

LEMMA NumRailsIs ==
    ASSUME NEW n \in NumRails
    PROVE  /\ NumRailsOf(n)[1] \in 0..RegBits /\ NumRailsOf(n)[2] \in 0..RegBits
           /\ NumRailsOf(n)[2] > 0 => NumRailsOf(n)[1] = RegBits
BY PowerSeqAssumption DEF NumRailsOf

LEMMA NobodyReads ==
    /\ NoReader \in [pc : {"idle"}, invert : BOOLEAN, data : [1..2 -> SUBSET Bits],
                     out : {NoReader.out}]
    /\ NoReader.pc = "idle"
BY DEF NoReader

LEMMA InitPseqInv == PseqInit => PseqInv
BY NobodyReads DEF PseqInit, PseqInv, PseqShape, ReadInv, RailsShown, WorkInv, Rails

\* Who reads no more counts on nothing.
LEMMA LeaveKeeps ==
    ASSUME PseqInv, Leave, UNCHANGED <<device, priv, work, on>>
    PROVE  PseqInv'
<1>1. reader' = NoReader
    BY DEF Leave
<1>2. PseqShape'
    BY <1>1, NobodyReads DEF PseqInv, PseqShape, Counted
<1> QED
    BY <1>1, <1>2, NobodyReads DEF PseqInv, ReadInv, RailsShown, WorkInv

\* The rails change; what was seen is still seen.
LEMMA SequenceKeeps ==
    ASSUME PseqInv, Sequence
    PROVE  PseqInv'
<1>1. PICK r \in Rails :
        /\ on' = IF r \in on THEN on \ {r} ELSE on \cup {r}
        /\ seen' = IF reader.pc = "idle" THEN seen
                   ELSE [on |-> seen.on \cup on', off |-> seen.off \cup (Rails \ on')]
        /\ UNCHANGED <<device, priv, work, orphans, reader>>
    BY DEF Sequence
<1>2. PseqShape' /\ WorkInv'
    BY <1>1 DEF PseqInv, PseqShape, Counted, WorkInv
<1>3. CASE reader.pc = "idle"
    BY <1>1, <1>2, <1>3 DEF PseqInv, ReadInv, RailsShown
<1>4. CASE reader.pc # "idle"
    <2>1. /\ seen.on \subseteq seen'.on /\ seen.off \subseteq seen'.off
          /\ on' \subseteq seen'.on /\ Rails \ on' \subseteq seen'.off
        BY <1>1, <1>4
    <2>2. ReadInv'
        BY <1>1, <2>1 DEF PseqInv, ReadInv, Fits, Was, WasNot
    <2>3. RailsShown'
        <3> SUFFICES ASSUME reader.pc = "shown" PROVE RailsShown'
            BY <1>1 DEF RailsShown
        <3>1. PICK rails : /\ rails \subseteq Mine \cap Was
                           /\ Mine \ WasNot \subseteq rails /\ Lists(reader.out, rails)
            BY DEF PseqInv, RailsShown
        <3>2. Was \subseteq Was' /\ WasNot \subseteq WasNot'
            BY <1>1, <2>1 DEF Was, WasNot
        <3>3. Lists(reader.out, rails)' /\ Mine' = Mine
            BY <1>1, <3>1 DEF Lists, LineOf, InOrder, Mine
        <3>4. rails \subseteq (Mine \cap Was)' /\ (Mine \ WasNot)' \subseteq rails
            BY <3>1, <3>2, <3>3
        <3> QED
            BY <3>3, <3>4 DEF RailsShown
    <2> QED
        BY <1>2, <2>2, <2>3 DEF PseqInv
<1> QED
    BY <1>3, <1>4

\* Probe, the work and the removal leave a reader and its registers alone.
LEMMA DeviceKeeps ==
    ASSUME PseqInv,
           PseqProbe \/ StartWork \/ _probe_status \/ OrphanReads \/ PseqRemove \/ Release
    PROVE  PseqInv'
<1>1. CASE PseqProbe
    <2>1. /\ device = "unbound" /\ device' = "bound"
          /\ \E n \in NumRails : priv'.num = NumRailsOf(n)
          /\ UNCHANGED <<on, reader, seen>>
        BY <1>1 DEF PseqProbe
    <2>2. Counted' /\ reader.pc = "idle"
        BY <2>1, NumRailsIs DEF Counted, PseqInv, PseqShape
    <2> QED
        BY <2>1, <2>2 DEF PseqInv, PseqShape, ReadInv, RailsShown, WorkInv
<1>2. CASE StartWork \/ _probe_status \/ OrphanReads \/ PseqRemove
    <2>1. /\ UNCHANGED <<priv, on, reader, seen>>
          /\ device' = device \/ (device = "bound" /\ device' = "removing")
          /\ work' = "scheduled" => work = "scheduled" /\ device' = device
        BY <1>2 DEF StartWork, _probe_status, OrphanReads, PseqRemove, Running
    <2>2. PseqShape' /\ WorkInv'
        BY <2>1 DEF PseqInv, PseqShape, Counted, WorkInv
    <2>3. ReadInv' /\ RailsShown'
        <3>1. /\ Mine' = Mine /\ Was' = Was /\ WasNot' = WasNot
              /\ \A r : LineOf(r)' = LineOf(r)
            BY <2>1 DEF Mine, Was, WasNot, LineOf
        <3>2. ReadInv'
            BY <2>1, <3>1 DEF PseqInv, ReadInv, Fits
        <3>3. \A out, rails : Lists(out, rails)' <=> Lists(out, rails)
            BY <2>1, <3>1 DEF Lists
        <3>4. RailsShown'
            BY <2>1, <3>1, <3>3 DEF PseqInv, RailsShown
        <3> QED
            BY <3>2, <3>4
    <2> QED
        BY <2>2, <2>3 DEF PseqInv
<1>3. CASE Release
    <2>1. /\ device' = "unbound" /\ reader.pc = "idle" /\ UNCHANGED <<on, reader, seen>>
          /\ device = "removing" /\ (work' = "scheduled" => work = "scheduled")
        BY <1>3 DEF Release
    <2> QED
        BY <2>1 DEF PseqInv, PseqShape, ReadInv, RailsShown, WorkInv
<1> QED
    BY <1>1, <1>2, <1>3

LEMMA ShowBeginKeeps ==
    ASSUME PseqInv, ShowBegin
    PROVE  PseqInv'
<1>1. PICK invert \in BOOLEAN : reader' = [NoReader EXCEPT !.pc = "first", !.invert = invert]
    BY DEF ShowBegin
<1>2. reader' = [pc |-> "first", invert |-> invert, data |-> <<{}, {}>>, out |-> <<>>]
    BY <1>1 DEF NoReader
<1>3. /\ seen' = [on |-> on, off |-> Rails \ on] /\ device # "unbound"
      /\ UNCHANGED <<device, priv, work, orphans, on>>
    BY DEF ShowBegin
<1>4. PseqShape'
    BY <1>2, <1>3 DEF PseqInv, PseqShape, Counted
<1> QED
    BY <1>2, <1>3, <1>4 DEF PseqInv, ReadInv, RailsShown, WorkInv

\* One register is read, as it is now.
From(index) == IF index = 1 THEN 0 ELSE RegBits
OnBits(index) == {b \in Bits : From(index) + b \in on}

LEMMA RegisterRead ==
    ASSUME PseqInv, reader.pc \in {"first", "second"},
           NEW index \in 1..2, NEW next \in {"second", "show"},
           reader' = [reader EXCEPT !.pc = next, !.data[index] = Inverted(OnBits(index))],
           UNCHANGED <<device, priv, work, orphans, on, seen>>,
           index = 1 => (next = "second" <=> priv.num[2] > 0),
           index = 2 => reader.pc = "second" /\ next = "show"
    PROVE  PseqInv'
<1> DEFINE bits == OnBits(index)
           from == From(index)
<1>1. /\ reader \in [pc : {"idle", "first", "second", "show", "shown"}, invert : BOOLEAN,
                     data : [1..2 -> SUBSET Bits], out : {reader.out}]
      /\ reader.data \in [1..2 -> SUBSET Bits]
    BY DEF PseqInv, PseqShape
<1>2. Inverted(bits) \in SUBSET Bits
    BY DEF Inverted, OnBits
<1> HIDE DEF bits, from
<1>3. /\ reader'.pc = next /\ reader'.invert = reader.invert /\ reader'.out = reader.out
      /\ reader'.data = [reader.data EXCEPT ![index] = Inverted(bits)]
      /\ reader' \in [pc : {"second", "show"}, invert : BOOLEAN,
                      data : [1..2 -> SUBSET Bits], out : {reader.out}]
    BY <1>1, <1>2 DEF bits
<1>4. /\ reader'.data[index] = Inverted(bits)
      /\ index = 2 => reader'.data[1] = reader.data[1]
    <2>1. reader.data \in [1..2 -> SUBSET Bits] /\ index \in {1, 2} /\ 1 \in 1..2 /\ 1 # 2
        BY <1>1
    <2>2. reader'.data = [reader.data EXCEPT ![index] = Inverted(bits)]
        BY <1>3
    <2> QED
        BY <2>1, <2>2
<1>5. PseqShape'
    BY <1>3 DEF PseqInv, PseqShape, Counted
<1>6. Fits(index, from)'
    <2> SUFFICES ASSUME NEW b \in Bits
                 PROVE  IF b \in Inverted(bits) THEN from + b \in Was' ELSE from + b \in WasNot'
        BY <1>4 DEF Fits
    <2>1. from + b \in Rails
        BY PowerSeqAssumption DEF Bits, Rails, from, From
    <2>2. on \subseteq seen.on /\ Rails \ on \subseteq seen.off
        BY DEF PseqInv, ReadInv
    <2>3. IF from + b \in on THEN from + b \in seen.on ELSE from + b \in seen.off
        BY <2>1, <2>2
    <2>4. Was' = Was /\ WasNot' = WasNot
        BY <1>3 DEF Was, WasNot
    <2>5. b \in Inverted(bits) <=> IF reader.invert THEN from + b \notin on ELSE from + b \in on
        BY DEF Inverted, bits, OnBits, from
    <2> QED
        BY <2>3, <2>4, <2>5 DEF Was, WasNot
<1>7. index = 2 => Fits(1, 0)'
    BY <1>3, <1>4 DEF PseqInv, ReadInv, Fits, Was, WasNot
<1>8. ReadInv'
    <2>1. on' \subseteq seen'.on /\ Rails \ on' \subseteq seen'.off
        BY DEF PseqInv, ReadInv
    <2>2. reader'.pc = "second" => priv'.num[2] > 0
        BY <1>3
    <2>3. Fits(1, 0)'
        BY <1>6, <1>7 DEF from, From
    <2>4. reader'.pc = "show" /\ priv'.num[2] > 0 => Fits(2, RegBits)'
        BY <1>3, <1>6 DEF from, From
    <2> QED
        BY <1>3, <2>1, <2>2, <2>3, <2>4 DEF ReadInv
<1>9. RailsShown' /\ WorkInv'
    BY <1>3 DEF PseqInv, RailsShown, WorkInv
<1> QED
    BY <1>5, <1>8, <1>9 DEF PseqInv

LEMMA ReadKeeps ==
    ASSUME PseqInv, ReadFirst \/ ReadSecond
    PROVE  PseqInv'
<1>1. CASE Leave
    BY <1>1, LeaveKeeps DEF ReadFirst, ReadSecond
<1>2. CASE ReadFirst /\ ~Leave
    <2> DEFINE next == IF priv.num[2] > 0 THEN "second" ELSE "show"
    <2>1. on \cap Bits = OnBits(1)
        BY PowerSeqAssumption DEF Bits, OnBits, From
    <2>2. /\ reader.pc = "first" /\ UNCHANGED <<device, priv, work, orphans, on, seen>>
          /\ reader' = [reader EXCEPT !.pc = next, !.data[1] = Inverted(OnBits(1))]
        BY <1>2, <2>1 DEF ReadFirst
    <2>3. next \in {"second", "show"} /\ (next = "second" <=> priv.num[2] > 0)
        OBVIOUS
    <2> HIDE DEF next
    <2> QED
        BY <2>2, <2>3, RegisterRead, 1 \in 1..2, 1 # 2
<1>3. CASE ReadSecond /\ ~Leave
    <2>1. {r - RegBits : r \in on \cap Second} = OnBits(2)
        <3>1. ASSUME NEW r \in on \cap Second PROVE r - RegBits \in OnBits(2)
            <4>1. PICK b \in Bits : r = b + RegBits
                BY DEF Second
            <4>2. r - RegBits = b /\ RegBits + b = r
                BY <4>1, PowerSeqAssumption DEF Bits
            <4> QED
                BY <4>2 DEF OnBits, From
        <3>2. ASSUME NEW b \in OnBits(2) PROVE b \in {r - RegBits : r \in on \cap Second}
            <4>1. b + RegBits \in on \cap Second /\ (b + RegBits) - RegBits = b
                BY PowerSeqAssumption DEF Bits, Second, OnBits, From
            <4> QED
                BY <4>1
        <3> QED
            BY <3>1, <3>2
    <2>2. /\ reader.pc = "second" /\ UNCHANGED <<device, priv, work, orphans, on, seen>>
          /\ reader' = [reader EXCEPT !.pc = "show", !.data[2] = Inverted(OnBits(2))]
        BY <1>3, <2>1 DEF ReadSecond
    <2> QED
        BY <2>2, RegisterRead, 2 \in 1..2, 1 # 2
<1> QED
    BY <1>1, <1>2, <1>3

\* The lines are those of the rails that the registers showed.
LEMMA ShowKeeps ==
    ASSUME PseqInv, _show_rails
    PROVE  PseqInv'
<1> DEFINE one == priv.num[1]
           two == priv.num[2]
           first == Printed(1, 0, <<>>)
           both == Printed(2, one, first)
           ofFirst == {r \in 0..(one - 1) : r \in reader.data[1]}
           ofSecond == {r \in one..(one + two - 1) : r - one \in reader.data[2]}
           rails == ofFirst \cup ofSecond
           shown == {r \in rails : priv.names[r + 1] # ""}
<1>1. /\ reader' = [reader EXCEPT !.pc = "shown", !.out = UpTo(both)]
      /\ UNCHANGED <<device, priv, work, orphans, on, seen>>
      /\ reader.pc = "show"
    BY DEF _show_rails
<1>2. /\ one \in 0..RegBits /\ two \in 0..RegBits /\ (two > 0 => one = RegBits)
      /\ RegBits \in Nat /\ RegBits > 0
    BY <1>1, PowerSeqAssumption DEF PseqInv, PseqShape, Counted
<1> HIDE DEF one, two
<1>3. PICK order1 : /\ Orders(order1, ShownOf(reader.data[1], 0, one))
                    /\ first = Listing(order1)
    <2>1. PICK longer : /\ Orders(longer, {} \cup ShownOf(reader.data[1], 0, one))
                        /\ Loop(reader.data[1], priv.names, 0, Listing(<<>>))[one] = Listing(longer)
        <3>1. Below({}, 0) /\ Orders(<<>>, {})
            BY NoLines DEF Below
        <3>2. Adds(reader.data[1], 0, one, {}, <<>>)
            BY <1>2, <3>1, LoopLists
        <3> QED
            BY <3>2 DEF Adds
    <2> QED
        BY <2>1, NoLines, PrintedIs DEF one
<1>4. shown = ShownOf(reader.data[1], 0, one) \cup ShownOf(reader.data[2], one, two)
    <2>1. 0..(0 + one - 1) = 0..(one - 1) /\ \A r \in 0..(one - 1) : r - 0 = r
        BY <1>2
    <2> QED
        BY <2>1 DEF ShownOf
<1>5. PICK order : Orders(order, shown) /\ both = Listing(order)
    <2>1. both = Loop(reader.data[2], priv.names, one, first)[two]
        BY PrintedIs DEF two
    <2>2. CASE two = 0
        <3>1. both = first
            BY <2>1, <2>2, LoopIs
        <3>2. ShownOf(reader.data[2], one, two) = {}
            <4>1. one..(one + two - 1) = {}
                BY <1>2, <2>2
            <4> QED
                BY <4>1 DEF ShownOf
        <3> QED
            BY <1>3, <1>4, <3>1, <3>2
    <2>3. CASE two # 0
        <3> DEFINE S == ShownOf(reader.data[1], 0, one)
        <3>1. one = RegBits
            BY <1>2, <2>3
        <3>2. ASSUME NEW r \in S PROVE r \in Nat /\ r < one
            <4>1. r \in 0..(0 + one - 1)
                BY DEF ShownOf
            <4> QED
                BY <1>2, <4>1
        <3>3. Orders(order1, S)
            BY <1>3
        <3> HIDE DEF S
        <3>4. \E longer : /\ Orders(longer, S \cup ShownOf(reader.data[2], one, two))
                          /\ Loop(reader.data[2], priv.names, one, Listing(order1))[two] = Listing(longer)
            <4>1. Below(S, one)
                BY <3>2 DEF Below
            <4>2. Adds(reader.data[2], one, two, S, order1)
                BY <1>2, <3>1, <3>3, <4>1, LoopLists
            <4> QED
                BY <4>2 DEF Adds
        <3> QED
            BY <1>3, <1>4, <2>1, <3>4 DEF S
    <2> QED
        BY <2>2, <2>3
<1>6. Lists(UpTo(both), rails)
    BY <1>5 DEF Lists, Orders, Listing
<1> HIDE DEF both, first, shown
<1>7. /\ reader'.pc = "shown" /\ reader'.invert = reader.invert /\ reader'.out = UpTo(both)
      /\ reader' \in [pc : {"shown"}, invert : BOOLEAN, data : [1..2 -> SUBSET Bits],
                      out : {UpTo(both)}]
    BY <1>1 DEF PseqInv, PseqShape
<1>8. PseqShape' /\ ReadInv' /\ WorkInv'
    BY <1>1, <1>7 DEF PseqInv, PseqShape, Counted, ReadInv, WorkInv
<1>9. ASSUME NEW r \in Mine PROVE IF r \in rails THEN r \in Was ELSE r \in WasNot
    <2>1. r \in 0..(one + two - 1)
        BY DEF Mine, one, two
    <2>2. CASE r < one
        <3>1. r \in 0..(one - 1) /\ r \in Bits /\ 0 + r = r /\ r \notin ofSecond
            BY <1>2, <2>1, <2>2 DEF Bits
        <3>2. Fits(1, 0)
            BY <1>1 DEF PseqInv, ReadInv
        <3> QED
            BY <3>1, <3>2 DEF Fits
    <2>3. CASE r >= one
        <3>1. /\ one = RegBits /\ two > 0 /\ r - one \in Bits /\ RegBits + (r - one) = r
              /\ r \in one..(one + two - 1) /\ r \notin ofFirst
            BY <1>2, <2>1, <2>3 DEF Bits
        <3>2. Fits(2, RegBits)
            BY <1>1, <3>1 DEF PseqInv, ReadInv, two
        <3> QED
            BY <3>1, <3>2 DEF Fits
    <2> QED
        BY <1>2, <2>1, <2>2, <2>3
<1>10. rails \subseteq Mine
    BY <1>2 DEF Mine, one, two
<1> HIDE DEF rails
<1>11. PICK R : R \subseteq Mine \cap Was /\ Mine \ WasNot \subseteq R /\ Lists(UpTo(both), R)
    BY <1>6, <1>9, <1>10
<1>12. Mine' = Mine /\ Was' = Was /\ WasNot' = WasNot
    BY <1>1, <1>7 DEF Mine, Was, WasNot
<1>13. Lists(reader.out, R)'
    <2>1. Lists(UpTo(both), R) /\ priv' = priv /\ reader'.out = UpTo(both)
        BY <1>1, <1>7, <1>11
    <2> QED
        BY <2>1 DEF Lists, LineOf
<1>14. RailsShown'
    BY <1>11, <1>12, <1>13 DEF RailsShown
<1> QED
    BY <1>8, <1>14 DEF PseqInv

(* RailsShown: a file lists the rails of the device that were in the state *)
(* it is about at some time of the read, each by its own name (_show_rails *)
(* and _read_reg in cisco-fpga-pseq.c).                                    *)
THEOREM RailsAsTheyWere == PseqSpec => []RailsShown
<1>1. PseqInv /\ [PseqNext]_pseqVars => PseqInv'
    <2> SUFFICES ASSUME PseqInv, [PseqNext]_pseqVars PROVE PseqInv'
        OBVIOUS
    <2>1. CASE PseqProbe \/ StartWork \/ _probe_status \/ OrphanReads \/ PseqRemove \/ Release
        BY <2>1, DeviceKeeps
    <2>2. CASE Sequence
        BY <2>2, SequenceKeeps
    <2>3. CASE ShowBegin
        BY <2>3, ShowBeginKeeps
    <2>4. CASE ReadFirst \/ ReadSecond
        BY <2>4, ReadKeeps
    <2>5. CASE _show_rails
        BY <2>5, ShowKeeps
    <2>6. CASE ShowEnd
        BY <2>6, LeaveKeeps DEF ShowEnd
    <2>7. CASE UNCHANGED pseqVars
        <3>1. UNCHANGED <<device, priv, work, orphans, on, reader, seen>>
            BY <2>7 DEF pseqVars
        <3>2. PseqShape' /\ WorkInv' /\ ReadInv'
            BY <3>1 DEF PseqInv, PseqShape, Counted, WorkInv, ReadInv, Fits, Was, WasNot
        <3>3. RailsShown'
            BY <3>1 DEF PseqInv, RailsShown, Mine, Was, WasNot, Lists, LineOf
        <3> QED
            BY <3>2, <3>3 DEF PseqInv
    <2> QED
        BY <2>1, <2>2, <2>3, <2>4, <2>5, <2>6, <2>7 DEF PseqNext
<1>2. PseqInv => RailsShown
    BY DEF PseqInv
<1> QED
    BY <1>1, <1>2, InitPseqInv, PTL DEF PseqSpec

(* NeverStartsLate: cancel_delayed_work in cisco_fpga_pseq_remove is enough *)
(* to keep the work from starting on a device that goes away.              *)
THEOREM WorkStartsInTime == PseqSpec => NeverStartsLate
<1>1. WorkInv /\ [PseqNext]_pseqVars => WorkInv'
    BY DEF WorkInv, PseqNext, pseqVars, PseqProbe, StartWork, _probe_status, OrphanReads,
           PseqRemove, Release, Sequence, ShowBegin, ReadFirst, ReadSecond, _show_rails, ShowEnd,
           Running
<1>2. WorkInv /\ [PseqNext]_pseqVars
        => [work \notin Running /\ work' \in Running => device = "bound"]_pseqVars
    BY DEF WorkInv, PseqNext, pseqVars, PseqProbe, StartWork, _probe_status, OrphanReads,
           PseqRemove, Release, Sequence, ShowBegin, ReadFirst, ReadSecond, _show_rails, ShowEnd,
           Running
<1>3. PseqInit => WorkInv
    BY DEF PseqInit, WorkInv
<1> QED
    BY <1>1, <1>2, <1>3, PTL DEF PseqSpec, NeverStartsLate

-----------------------------------------------------------------------------
(* GpioReboot.                                                             *)

USE DEF UNSET, COLD_REBOOT, FAST_REBOOT, WARM_REBOOT, MAX_REBOOT_TYPE

Early == {"absent", "range", "reset", "check", "read"}

(* Blocks are probed only while the module is loaded, and before the first *)
(* load of a boot the scratch registers are what the boot found in them.   *)
BootInv ==
    /\ loaded = FALSE => \A b \in Block : pc[b] = "absent"
    /\ loads = 0 => loaded = FALSE /\ sw1 = asked

(* A block's request is cleared before the block is bound.                 *)
Requested(b) ==
    /\ pc[b] \in PC \ {"absent", "announce", "pins", "bound"} => wanted[b] = UNSET
    /\ pc[b] \in {"announce", "pins", "bound"} => sw1[b] = wanted[b]

RequestInv == faults = 0 => \A b \in Block : Requested(b)

(* Where a lone probe is tells what m_reboot_type is.  Once pins have been *)
(* initialised or kept it is decided, and stays so.                        *)
Decided == m_reboot_type \in Type \ {UNSET}

TypeKnown(b) ==
    /\ pc[b] = "reset" => m_reboot_type >= MAX_REBOOT_TYPE
    /\ pc[b] \in {"check", "default"} => m_reboot_type \in Type
    /\ pc[b] \in {"read", "cold"} => m_reboot_type = UNSET
    /\ pc[b] \in {"clear", "announce", "pins"} => Decided

DecisionInv ==
    overlapped = FALSE =>
        /\ \A b, c \in Probing : b = c
        /\ \A b \in Block : TypeKnown(b)
        /\ \A b \in Block :
              /\ "written" \in pins[b] => m_reboot_type = COLD_REBOOT
              /\ "kept" \in pins[b] => Decided /\ m_reboot_type # COLD_REBOOT

(* A first load with nothing asked for: until the type is decided, no      *)
(* block has got further than reading its scratch register.                *)
NothingAsked ==
    /\ param = UNSET /\ faults = 0 /\ overlapped = FALSE /\ loads = 1
    /\ \A c \in Block : asked[c] = UNSET

ColdInv ==
    NothingAsked =>
        /\ m_reboot_type \in {UNSET, COLD_REBOOT}
        /\ m_reboot_type = UNSET =>
              \A b \in Block : sw1[b] = UNSET /\ pc[b] \in Early \cup {"default", "cold"}
        /\ \A b \in Block :
              /\ pins[b] \subseteq {"written"}
              /\ pc[b] = "bound" => pins[b] # {}

(* A first load with a fast or warm reboot asked for everywhere: likewise, *)
(* and a probe that reads its scratch register reads what was asked for.   *)
WarmAsked ==
    /\ param = UNSET \/ (param >= MAX_REBOOT_TYPE /\ overlapped = FALSE)
    /\ faults = 0 /\ loads = 1
    /\ \A c \in Block : asked[c] \in {FAST_REBOOT, WARM_REBOOT}

Fresh == \A b \in Block : sw1[b] = asked[b] /\ pc[b] \in Early

WarmInv ==
    WarmAsked =>
        /\ m_reboot_type \in {FAST_REBOOT, WARM_REBOOT} \/ Fresh
        /\ m_reboot_type # COLD_REBOOT
        /\ m_reboot_type >= MAX_REBOOT_TYPE =>
              /\ param >= MAX_REBOOT_TYPE
              /\ \A b \in Block : pc[b] \in {"absent", "range", "reset"}
        /\ \A b \in Block :
              /\ pc[b] = "reset" => m_reboot_type >= MAX_REBOOT_TYPE
              /\ pc[b] = "read" => sw1[b] = asked[b]
              /\ pc[b] # "cold"
              /\ pins[b] \subseteq {"kept"}
              /\ pc[b] = "bound" => pins[b] # {}

IInv == TypeOK /\ BootInv /\ RequestInv /\ DecisionInv /\ ColdInv /\ WarmInv

-----------------------------------------------------------------------------
Cases(b) == Probe(b) \/ ProbeStep(b) \/ Unbind(b) \/ \E t \in Type : Request(b, t)

LEMMA NextCases ==
    ASSUME [Next]_vars
    PROVE  \/ Load \/ Unload \/ Reboot
           \/ \E b \in Block : Cases(b)
           \/ UNCHANGED vars
BY DEF Next, Cases

LEMMA Bounds ==
    ASSUME TypeOK
    PROVE  /\ faults \in Nat /\ loads \in Nat /\ FaultBudget \in Nat /\ MaxLoads \in Nat
           /\ m_reboot_type \in Nat /\ param \in Nat /\ Params \subseteq Nat
BY ParamsAssumption, BoundsAssumption DEF TypeOK, Type

LEMMA FaultsType ==
    ASSUME TypeOK, Ok \/ Fail
    PROVE  faults' \in 0..FaultBudget /\ (faults' = 0 => faults = 0 /\ ~Fail)
BY Bounds DEF TypeOK, Ok, Fail

LEMMA TypeStep == TypeOK /\ [Next]_vars => TypeOK'
<1> SUFFICES ASSUME TypeOK, [Next]_vars PROVE TypeOK'
    OBVIOUS
<1> USE DEF PC, Type, history, Goto
<1>1. CASE Load
    <2>1. loads' \in 0..MaxLoads /\ pins' \in [Block -> SUBSET {"written", "kept", "failed"}]
        BY <1>1, Bounds DEF Load, TypeOK
    <2>2. /\ loaded' = TRUE /\ overlapped' = FALSE
          /\ param' \in Params /\ m_reboot_type' \in Params
          /\ UNCHANGED <<sw1, pc, asked, wanted, faults>>
        BY <1>1 DEF Load
    <2> QED
        BY <2>1, <2>2 DEF TypeOK
<1>2. CASE Unload \/ Reboot
    <2>1. loads' \in 0..MaxLoads /\ loaded' = FALSE /\ overlapped' \in BOOLEAN
        <3>1. loads' \in {loads, 0} /\ loaded' = FALSE /\ overlapped' \in {overlapped, FALSE}
            BY <1>2 DEF Unload, Reboot
        <3>2. loads' \in 0..MaxLoads
            BY <3>1, Bounds DEF TypeOK
        <3>3. overlapped' \in BOOLEAN
            BY <3>1, Zenon DEF TypeOK
        <3> QED
            BY <3>1, <3>2, <3>3
    <2>2. /\ param' \in Params /\ m_reboot_type' \in Type \cup Params
          /\ pc' \in [Block -> PC] /\ asked' \in [Block -> Type]
          /\ UNCHANGED <<sw1, wanted, faults>>
        BY <1>2, ParamsAssumption DEF Unload, Reboot, TypeOK
    <2>3. pins' \in [Block -> SUBSET {"written", "kept", "failed"}]
        BY <1>2 DEF Unload, Reboot, TypeOK
    <2> QED
        BY <2>1, <2>2, <2>3 DEF TypeOK
<1>3. ASSUME NEW b \in Block, Probe(b) PROVE TypeOK'
    <2>1. overlapped' \in BOOLEAN
        BY <1>3 DEF Probe, TypeOK
    <2> QED
        BY <1>3, <2>1 DEF Probe, TypeOK
<1>4. ASSUME NEW b \in Block, ProbeStep(b) PROVE TypeOK'
    <2>1. CASE CheckRange(b) \/ ResetType(b) \/ Check(b) \/ Default(b) \/ SetCold(b) \/ Announce(b)
        BY <2>1 DEF CheckRange, ResetType, Check, Default, SetCold, Announce, TypeOK
    <2>2. CASE ReadType(b)
        BY <2>2, FaultsType DEF ReadType, TypeOK
    <2>3. CASE ClearScratch(b)
        BY <2>3, FaultsType DEF ClearScratch, TypeOK
    <2>4. CASE InitPin(b)
        BY <2>4, FaultsType DEF InitPin, TypeOK
    <2>5. CASE EndProbe(b)
        BY <2>5, FaultsType DEF EndProbe, TypeOK
    <2> QED
        BY <1>4, <2>1, <2>2, <2>3, <2>4, <2>5 DEF ProbeStep
<1>5. ASSUME NEW b \in Block, Unbind(b) PROVE TypeOK'
    BY <1>5 DEF Unbind, TypeOK
<1>6. ASSUME NEW b \in Block, NEW t \in Type, Request(b, t) PROVE TypeOK'
    BY <1>6 DEF Request, TypeOK
<1>7. CASE UNCHANGED vars
    BY <1>7 DEF vars, TypeOK
<1> QED
    BY <1>1, <1>2, <1>3, <1>4, <1>5, <1>6, <1>7, NextCases DEF Cases

\* What a step of one block leaves alone.
LEMMA OneBlock ==
    ASSUME TypeOK, NEW b \in Block, Cases(b)
    PROVE  /\ UNCHANGED <<loaded, param, asked, loads>>
           /\ pc[b] # "absent" \/ loaded = TRUE
           /\ faults' = 0 => faults = 0 /\ ~Fail
           /\ overlapped' = FALSE => overlapped = FALSE
           /\ \A c \in Block \ {b} :
                 pc'[c] = pc[c] /\ sw1'[c] = sw1[c] /\ pins'[c] = pins[c]
                 /\ wanted'[c] = wanted[c]
<1> USE DEF history, Goto
<1>0. loaded \in BOOLEAN /\ overlapped \in BOOLEAN
    BY DEF TypeOK
<1>1. CASE Probe(b)
    BY <1>0, <1>1, FaultsType DEF Probe, TypeOK, Ok
<1>2. CASE Unbind(b) \/ \E t \in Type : Request(b, t)
    BY <1>0, <1>2, FaultsType DEF Unbind, Request, TypeOK, Ok
<1>3. CASE ProbeStep(b)
    <2>1. CASE CheckRange(b) \/ ResetType(b) \/ Check(b) \/ Default(b) \/ SetCold(b) \/ Announce(b)
        BY <1>0, <2>1, FaultsType DEF CheckRange, ResetType, Check, Default, SetCold, Announce,
                                      TypeOK, Ok
    <2>2. CASE ReadType(b) \/ ClearScratch(b)
        BY <1>0, <2>2, FaultsType DEF ReadType, ClearScratch, TypeOK
    <2>3. CASE InitPin(b) \/ EndProbe(b)
        BY <1>0, <2>3, FaultsType DEF InitPin, EndProbe, TypeOK
    <2> QED
        BY <1>3, <2>1, <2>2, <2>3 DEF ProbeStep
<1> QED
    BY <1>1, <1>2, <1>3 DEF Cases

-----------------------------------------------------------------------------
LEMMA BootStep == TypeOK /\ BootInv /\ [Next]_vars => BootInv'
<1> SUFFICES ASSUME TypeOK, BootInv, [Next]_vars PROVE BootInv'
    OBVIOUS
<1>1. CASE Load
    BY <1>1, Bounds DEF Load, BootInv
<1>2. CASE Unload \/ Reboot
    BY <1>2 DEF Unload, Reboot, BootInv, history
<1>3. ASSUME NEW b \in Block, Cases(b) PROVE BootInv'
    <2>1. loaded = TRUE
        BY <1>3, OneBlock DEF BootInv, TypeOK
    <2> QED
        BY <1>3, <2>1, OneBlock DEF BootInv
<1>4. CASE UNCHANGED vars
    BY <1>4 DEF vars, history, BootInv
<1> QED
    BY <1>1, <1>2, <1>3, <1>4, NextCases

LEMMA RequestStep == TypeOK /\ BootInv /\ RequestInv /\ [Next]_vars => RequestInv'
<1> SUFFICES ASSUME TypeOK, BootInv, RequestInv, [Next]_vars, faults' = 0, NEW b \in Block
             PROVE  Requested(b)'
    BY DEF RequestInv
<1>1. CASE Load
    BY <1>1 DEF Load, RequestInv, BootInv, Requested
<1>2. CASE Unload \/ Reboot
    BY <1>2 DEF Unload, Reboot, Requested
<1>3. ASSUME NEW c \in Block, c # b, Cases(c) PROVE Requested(b)'
    BY <1>3, OneBlock DEF RequestInv, Requested
<1>4. ASSUME Cases(b) PROVE Requested(b)'
    <2>1. faults = 0 /\ ~Fail /\ Requested(b)
        BY <1>4, OneBlock DEF RequestInv
    <2> USE <2>1 DEF TypeOK, Goto, history, Requested, PC
    <2>2. CASE Probe(b)
        BY <2>2 DEF Probe
    <2>3. CASE Unbind(b) \/ \E t \in Type : Request(b, t)
        BY <2>3 DEF Unbind, Request
    <2>4. CASE CheckRange(b) \/ ResetType(b) \/ Check(b) \/ Default(b) \/ SetCold(b) \/ Announce(b)
        BY <2>4 DEF CheckRange, ResetType, Check, Default, SetCold, Announce
    <2>5. CASE ReadType(b) \/ ClearScratch(b)
        BY <2>5 DEF ReadType, ClearScratch
    <2>6. CASE InitPin(b) \/ EndProbe(b)
        BY <2>6 DEF InitPin, EndProbe
    <2> QED
        BY <1>4, <2>2, <2>3, <2>4, <2>5, <2>6 DEF Cases, ProbeStep
<1>5. CASE UNCHANGED vars
    BY <1>5 DEF vars, history, RequestInv, Requested
<1> QED
    BY <1>1, <1>2, <1>3, <1>4, <1>5, NextCases

LEMMA DecisionStep == TypeOK /\ BootInv /\ DecisionInv /\ [Next]_vars => DecisionInv'
<1> SUFFICES ASSUME TypeOK, BootInv, DecisionInv, [Next]_vars, overlapped' = FALSE
             PROVE  DecisionInv'
    BY DEF DecisionInv
<1> USE DEF DecisionInv, TypeKnown, Decided, Type
<1>1. CASE Load \/ Reboot
    <2>1. \A b \in Block : pc'[b] = "absent" /\ pins'[b] = {}
        BY <1>1 DEF Load, Reboot, BootInv, TypeOK
    <2> QED
        BY <2>1 DEF Probing
<1>2. CASE Unload
    <2>1. \A b \in Block : pc'[b] = "absent"
        BY <1>2 DEF Unload
    <2>2. UNCHANGED <<m_reboot_type, pins>> /\ overlapped = FALSE
        BY <1>2 DEF Unload, history
    <2> QED
        BY <2>1, <2>2 DEF Probing
<1>3. ASSUME NEW b \in Block, Cases(b) PROVE DecisionInv'
    <2>1. overlapped = FALSE
        BY <1>3, OneBlock
    <2>2. \A c \in Block \ {b} : pc'[c] = pc[c] /\ pins'[c] = pins[c]
        BY <1>3, OneBlock
    <2>3. CASE Probe(b)
        <3>1. /\ Probing = {} /\ pc'[b] = "range" /\ pins'[b] = {}
              /\ m_reboot_type' = m_reboot_type
            BY <2>3 DEF Probe, Goto, TypeOK
        <3> QED
            BY <2>1, <2>2, <3>1 DEF Probing
    <2>4. CASE Unbind(b) \/ \E t \in Type : Request(b, t)
        <3>1. /\ pc[b] = "bound" /\ pc'[b] \in {"absent", "bound"}
              /\ pins' = pins /\ m_reboot_type' = m_reboot_type
            BY <2>4 DEF Unbind, Request, Goto, history, TypeOK
        <3> QED
            BY <2>1, <2>2, <3>1 DEF Probing
    <2>5. CASE ProbeStep(b)
        <3>1. b \in Probing
            BY <2>5 DEF ProbeStep, CheckRange, ResetType, Check, ReadType, Default, SetCold,
                        ClearScratch, Announce, InitPin, EndProbe, Goto, Probing
        <3>2. \A c \in Block \ {b} : pc'[c] \in {"absent", "bound"}
            BY <2>1, <2>2, <3>1 DEF Probing
        <3>3. m_reboot_type \in Nat
            BY Bounds
        <3>4. CASE CheckRange(b) \/ Check(b) \/ Default(b) \/ ClearScratch(b) \/ Announce(b)
            <4>1. pins' = pins /\ m_reboot_type' = m_reboot_type
                BY <3>4 DEF CheckRange, Check, Default, ClearScratch, Announce, history
            <4>2. TypeKnown(b)'
                BY <2>1, <3>3, <3>4 DEF CheckRange, Check, Default, ClearScratch, Announce, Goto,
                                        TypeOK, history
            <4> QED
                BY <2>1, <3>2, <4>1, <4>2 DEF Probing
        <3>5. CASE ResetType(b) \/ ReadType(b) \/ SetCold(b)
            <4>1. /\ pins' = pins
                  /\ pc[b] \in {"reset", "read", "cold"}
                BY <3>5 DEF ResetType, ReadType, SetCold, history, Goto
            <4>2. \A c \in Block : "written" \notin pins[c] /\ "kept" \notin pins[c]
                BY <2>1, <3>3, <4>1
            <4>3. TypeKnown(b)'
                BY <2>1, <3>5 DEF ResetType, ReadType, SetCold, Goto, TypeOK
            <4> QED
                BY <3>2, <4>1, <4>2, <4>3 DEF Probing
        <3>6. CASE InitPin(b)
            <4>1. /\ pc' = pc /\ pc[b] = "pins" /\ m_reboot_type' = m_reboot_type
                  /\ "written" \in pins'[b] => m_reboot_type = COLD_REBOOT \/ "written" \in pins[b]
                  /\ "kept" \in pins'[b] => m_reboot_type # COLD_REBOOT \/ "kept" \in pins[b]
                BY <3>6 DEF InitPin, TypeOK
            <4> QED
                BY <2>1, <2>2, <4>1 DEF Probing
        <3>7. CASE EndProbe(b)
            <4>1. /\ pc'[b] \in {"bound", "absent"} /\ pins' = pins
                  /\ m_reboot_type' = m_reboot_type
                BY <3>7 DEF EndProbe, Goto, history, TypeOK
            <4> QED
                BY <2>1, <3>2, <4>1 DEF Probing
        <3> QED
            BY <2>5, <3>4, <3>5, <3>6, <3>7 DEF ProbeStep
    <2> QED
        BY <1>3, <2>3, <2>4, <2>5 DEF Cases
<1>4. CASE UNCHANGED vars
    BY <1>4 DEF vars, history, Probing
<1> QED
    BY <1>1, <1>2, <1>3, <1>4, NextCases

-----------------------------------------------------------------------------
\* A boot's first load starts with what the boot found in the scratch registers.
LEMMA FirstLoad ==
    ASSUME TypeOK, BootInv, Load, loads' = 1
    PROVE  /\ m_reboot_type' = param' /\ sw1' = asked'
           /\ \A b \in Block : pc'[b] = "absent" /\ pins'[b] = {}
BY Bounds DEF Load, BootInv

LEMMA ColdStep ==
    TypeOK /\ BootInv /\ DecisionInv /\ ColdInv /\ [Next]_vars => ColdInv'
<1> SUFFICES ASSUME TypeOK, BootInv, DecisionInv, ColdInv, [Next]_vars, NothingAsked'
             PROVE  ColdInv'
    BY DEF ColdInv
<1> USE DEF ColdInv, NothingAsked, Early
<1>1. CASE Load
    BY <1>1, FirstLoad
<1>2. CASE Unload
    BY <1>2 DEF Unload, history
<1>3. CASE Reboot
    BY <1>3 DEF Reboot
<1>4. ASSUME NEW b \in Block, Cases(b) PROVE ColdInv'
    <2>1. NothingAsked /\ ~Fail /\ TypeKnown(b)
        BY <1>4, OneBlock DEF DecisionInv
    <2>2. \A c \in Block \ {b} : pc'[c] = pc[c] /\ sw1'[c] = sw1[c] /\ pins'[c] = pins[c]
        BY <1>4, OneBlock
    <2>3. CASE Probe(b) \/ Unbind(b)
        <3>1. /\ pc'[b] \in {"range", "absent"} /\ sw1' = sw1 /\ m_reboot_type' = m_reboot_type
              /\ pins'[b] \subseteq pins[b]
            BY <2>3 DEF Probe, Unbind, Goto, history, TypeOK
        <3> QED
            BY <2>1, <2>2, <3>1
    <2>4. CASE \E t \in Type : Request(b, t)
        <3>1. pc[b] = "bound" /\ pc' = pc /\ m_reboot_type' = m_reboot_type /\ pins' = pins
            BY <2>4 DEF Request
        <3> QED
            BY <2>1, <3>1
    <2>5. CASE CheckRange(b) \/ Check(b) \/ Default(b) \/ Announce(b)
        <3>1. /\ sw1' = sw1 /\ m_reboot_type' = m_reboot_type /\ pins' = pins
              /\ pc'[b] # "bound"
              /\ m_reboot_type = UNSET => pc'[b] \in Early \cup {"cold"}
            BY <2>1, <2>5 DEF CheckRange, Check, Default, Announce, Goto, history, TypeOK
        <3> QED
            BY <2>1, <2>2, <3>1
    <2>6. CASE ResetType(b)
        BY <2>1, <2>6 DEF ResetType, Goto, TypeKnown
    <2>7. CASE ReadType(b)
        <3>1. /\ pc[b] = "read" /\ pc'[b] = "default" /\ sw1' = sw1 /\ pins' = pins
              /\ m_reboot_type' = sw1[b]
            BY <2>1, <2>7 DEF ReadType, Goto, history, TypeOK
        <3>2. m_reboot_type = UNSET /\ sw1[b] = UNSET
            BY <2>1, <3>1 DEF TypeKnown
        <3> QED
            BY <2>1, <2>2, <3>1, <3>2
    <2>8. CASE SetCold(b)
        <3>1. pc'[b] = "clear" /\ m_reboot_type' = COLD_REBOOT /\ pins' = pins
            BY <2>8 DEF SetCold, Goto, history, TypeOK
        <3> QED
            BY <2>1, <2>2, <3>1
    <2>9. CASE ClearScratch(b)
        <3>1. /\ pc[b] = "clear" /\ pc'[b] = "announce" /\ m_reboot_type' = m_reboot_type
              /\ pins' = pins
            BY <2>9 DEF ClearScratch, Goto, history, TypeOK
        <3>2. m_reboot_type # UNSET
            BY <2>1, <3>1
        <3> QED
            BY <2>1, <2>2, <3>1, <3>2
    <2>10. CASE InitPin(b)
        <3>1. m_reboot_type = COLD_REBOOT
            BY <2>1, <2>10 DEF InitPin
        <3>2. /\ pc' = pc /\ sw1' = sw1 /\ m_reboot_type' = m_reboot_type
              /\ pins'[b] = pins[b] \cup {"written"}
            BY <2>1, <2>10, <3>1 DEF InitPin, TypeOK
        <3> QED
            BY <2>1, <2>2, <3>1, <3>2
    <2>11. CASE EndProbe(b)
        <3>1. /\ pc[b] = "pins" /\ pc'[b] = "bound" /\ pins[b] # {} /\ pins' = pins
              /\ m_reboot_type' = m_reboot_type
            BY <2>1, <2>11 DEF EndProbe, Goto, history, TypeOK
        <3>2. m_reboot_type # UNSET
            BY <2>1, <3>1
        <3> QED
            BY <2>1, <2>2, <3>1, <3>2
    <2> QED
        BY <1>4, <2>3, <2>4, <2>5, <2>6, <2>7, <2>8, <2>9, <2>10, <2>11 DEF Cases, ProbeStep
<1>5. CASE UNCHANGED vars
    BY <1>5 DEF vars, history
<1> QED
    BY <1>1, <1>2, <1>3, <1>4, <1>5, NextCases

LEMMA WarmStep ==
    TypeOK /\ BootInv /\ DecisionInv /\ WarmInv /\ [Next]_vars => WarmInv'
<1> SUFFICES ASSUME TypeOK, BootInv, DecisionInv, WarmInv, [Next]_vars, WarmAsked'
             PROVE  WarmInv'
    BY DEF WarmInv
<1> USE DEF WarmInv, WarmAsked, Fresh, Early
<1>1. CASE Load
    BY <1>1, FirstLoad, Bounds
<1>2. CASE Unload
    <2>1. \A b \in Block : pc'[b] = "absent"
        BY <1>2 DEF Unload
    <2> QED
        BY <1>2, <2>1 DEF Unload, history
<1>3. CASE Reboot
    BY <1>3 DEF Reboot
<1>4. ASSUME NEW b \in Block, Cases(b) PROVE WarmInv'
    <2>1. WarmAsked /\ ~Fail
        BY <1>4, OneBlock
    <2>2. \A c \in Block \ {b} : pc'[c] = pc[c] /\ sw1'[c] = sw1[c] /\ pins'[c] = pins[c]
        BY <1>4, OneBlock
    <2>12. asked' = asked /\ param' = param
        BY <1>4, OneBlock
    <2>13. m_reboot_type \in Nat
        BY Bounds
    <2>3. CASE Probe(b) \/ Unbind(b)
        <3>1. /\ pc[b] \in {"absent", "bound"}
              /\ pc'[b] \in {"range", "absent"} /\ sw1' = sw1 /\ m_reboot_type' = m_reboot_type
              /\ pins'[b] \subseteq pins[b]
            BY <2>3 DEF Probe, Unbind, Goto, history, TypeOK
        <3> QED
            BY <2>1, <2>2, <2>12, <3>1
    <2>4. CASE \E t \in Type : Request(b, t)
        <3>1. pc[b] = "bound" /\ pc' = pc /\ m_reboot_type' = m_reboot_type /\ pins' = pins
            BY <2>4 DEF Request
        <3> QED
            BY <2>1, <2>2, <2>12, <3>1
    <2>5. CASE CheckRange(b) \/ Check(b) \/ Default(b) \/ Announce(b)
        <3>1. /\ sw1' = sw1 /\ m_reboot_type' = m_reboot_type /\ pins' = pins
              /\ pc'[b] \notin {"bound", "cold"}
              /\ pc'[b] = "reset" <=> m_reboot_type >= MAX_REBOOT_TYPE
              /\ pc'[b] = "read" => m_reboot_type = UNSET
              /\ m_reboot_type \notin {FAST_REBOOT, WARM_REBOOT} => pc'[b] \in Early
            BY <2>1, <2>5, <2>13 DEF CheckRange, Check, Default, Announce, Goto, history, TypeOK
        <3> QED
            BY <2>1, <2>2, <2>12, <3>1
    <2>6. CASE ResetType(b)
        <3>1. /\ pc[b] = "reset" /\ pc'[b] = "check" /\ sw1' = sw1 /\ m_reboot_type' = UNSET
              /\ pins' = pins
            BY <2>6 DEF ResetType, Goto, history, TypeOK
        <3>2. Fresh /\ m_reboot_type >= MAX_REBOOT_TYPE
            BY <2>1, <3>1
        <3>3. overlapped = FALSE
            BY <2>1, <3>2 DEF TypeOK
        <3>4. \A c \in Block \ {b} : pc[c] \in {"absent", "bound"}
            BY <3>1, <3>3 DEF DecisionInv, Probing
        <3> QED
            BY <2>1, <2>2, <2>12, <3>1, <3>2, <3>4
    <2>7. CASE ReadType(b)
        <3>1. /\ pc[b] = "read" /\ pc'[b] = "default" /\ sw1' = sw1 /\ pins' = pins
              /\ m_reboot_type' = sw1[b]
            BY <2>1, <2>7 DEF ReadType, Goto, history, TypeOK
        <3>2. m_reboot_type' \in {FAST_REBOOT, WARM_REBOOT}
            BY <2>1, <3>1
        <3>3. \A c \in Block : pc[c] # "reset"
            BY <2>1, <3>1
        <3> QED
            BY <2>1, <2>2, <2>12, <3>1, <3>2, <3>3
    <2>8. CASE SetCold(b)
        BY <2>1, <2>8 DEF SetCold, Goto
    <2>9. CASE ClearScratch(b)
        <3>1. /\ pc[b] = "clear" /\ pc'[b] = "announce" /\ m_reboot_type' = m_reboot_type
              /\ pins' = pins
            BY <2>9 DEF ClearScratch, Goto, history, TypeOK
        <3>2. m_reboot_type \in {FAST_REBOOT, WARM_REBOOT}
            BY <2>1, <3>1
        <3> QED
            BY <2>1, <2>2, <2>12, <3>1, <3>2
    <2>10. CASE InitPin(b)
        <3>1. m_reboot_type # COLD_REBOOT
            BY <2>1
        <3>2. /\ pc' = pc /\ sw1' = sw1 /\ m_reboot_type' = m_reboot_type
              /\ pins'[b] = pins[b] \cup {"kept"}
            BY <2>1, <2>10, <3>1 DEF InitPin, TypeOK
        <3> QED
            BY <2>1, <2>2, <2>12, <2>10, <3>1, <3>2 DEF InitPin
    <2>11. CASE EndProbe(b)
        <3>1. /\ pc[b] = "pins" /\ pc'[b] = "bound" /\ pins[b] # {} /\ pins' = pins
              /\ sw1' = sw1 /\ m_reboot_type' = m_reboot_type
            BY <2>1, <2>11 DEF EndProbe, Goto, history, TypeOK
        <3>2. m_reboot_type \in {FAST_REBOOT, WARM_REBOOT}
            BY <2>1, <3>1
        <3> QED
            BY <2>1, <2>2, <2>12, <3>1, <3>2
    <2> QED
        BY <1>4, <2>3, <2>4, <2>5, <2>6, <2>7, <2>8, <2>9, <2>10, <2>11 DEF Cases, ProbeStep
<1>5. CASE UNCHANGED vars
    BY <1>5 DEF vars, history
<1> QED
    BY <1>1, <1>2, <1>3, <1>4, <1>5, NextCases

-----------------------------------------------------------------------------
LEMMA Invariance == Spec => []IInv
<1>1. Init => IInv
    <2> SUFFICES ASSUME Init PROVE IInv
        OBVIOUS
    <2>1. TypeOK
        <3>1. loads \in 0..MaxLoads /\ faults \in 0..FaultBudget
            BY BoundsAssumption DEF Init
        <3>2. loaded \in BOOLEAN /\ overlapped \in BOOLEAN
            BY DEF Init
        <3>3. pins \in [Block -> SUBSET {"written", "kept", "failed"}]
            BY DEF Init
        <3> QED
            BY <3>1, <3>2, <3>3, ParamsAssumption DEF Init, TypeOK, Type, PC
    <2>2. BootInv /\ RequestInv
        BY DEF Init, BootInv, RequestInv, Requested
    <2>3. DecisionInv
        BY DEF Init, DecisionInv, TypeKnown, Probing
    <2>4. ColdInv /\ WarmInv
        BY DEF Init, ColdInv, NothingAsked, WarmInv, WarmAsked
    <2> QED
        BY <2>1, <2>2, <2>3, <2>4 DEF IInv
<1>2. IInv /\ [Next]_vars => IInv'
    BY TypeStep, BootStep, RequestStep, DecisionStep, ColdStep, WarmStep DEF IInv
<1> QED
    BY <1>1, <1>2, PTL DEF Spec

\* All blocks of one load initialise their pins, or none does, unless probes
\* overlapped: the type that the first block decides on is the type for all.
THEOREM OneDecisionForAll == Spec => []OneDecision
<1>1. ASSUME IInv, ~overlapped PROVE ~\E b, c \in Block : "written" \in pins[b] /\ "kept" \in pins[c]
    <2>1. overlapped = FALSE
        BY <1>1 DEF IInv, TypeOK
    <2> QED
        BY <1>1, <2>1 DEF IInv, DecisionInv
<1>2. IInv => OneDecision
    BY <1>1 DEF OneDecision
<1> QED
    BY <1>2, Invariance, PTL

\* A boot that found no request initialises the pins of every block that its
\* first load binds.
THEOREM ColdBoot == Spec => []ColdBootInitialises
<1>1. ASSUME IInv, NEW b \in Bound, param = UNSET, faults = 0, ~overlapped,
             asked = [c \in Block |-> UNSET], loads = 1
      PROVE  pins[b] = {"written"}
    <2>1. overlapped = FALSE
        BY <1>1 DEF IInv, TypeOK
    <2>2. b \in Block /\ pc[b] = "bound" /\ NothingAsked
        BY <1>1, <2>1 DEF Bound, NothingAsked
    <2>3. pins[b] \subseteq {"written"} /\ pins[b] # {}
        BY <1>1, <2>2 DEF IInv, ColdInv
    <2> QED
        BY <2>3
<1>2. IInv => ColdBootInitialises
    BY <1>1 DEF ColdBootInitialises
<1> QED
    BY <1>2, Invariance, PTL

\* A boot that found a fast or warm request in every block leaves all pins of
\* its first load alone, also if probes overlap.
THEOREM WarmBoot == Spec => []WarmBootKeeps
<1>1. ASSUME IInv, NEW b \in Bound,
             param = UNSET \/ (param >= MAX_REBOOT_TYPE /\ ~overlapped),
             faults = 0, loads = 1, \A c \in Block : asked[c] \in {FAST_REBOOT, WARM_REBOOT}
      PROVE  pins[b] = {"kept"}
    <2>1. overlapped \in BOOLEAN
        BY <1>1 DEF IInv, TypeOK
    <2>2. b \in Block /\ pc[b] = "bound" /\ WarmAsked
        BY <1>1, <2>1 DEF Bound, WarmAsked
    <2>3. pins[b] \subseteq {"kept"} /\ pins[b] # {}
        BY <1>1, <2>2 DEF IInv, WarmInv
    <2> QED
        BY <2>3
<1>2. IInv => WarmBootKeeps
    BY <1>1 DEF WarmBootKeeps
<1> QED
    BY <1>2, Invariance, PTL

\* What a bound block's scratch register says was asked for after the block
\* was probed: no request holds for a second reboot.
THEOREM OneReboot == Spec => []RequestIsForNextBoot
<1>1. IInv => RequestIsForNextBoot
    BY DEF IInv, RequestInv, Requested, RequestIsForNextBoot, Bound
<1> QED
    BY <1>1, Invariance, PTL

=============================================================================
