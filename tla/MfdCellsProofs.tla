--------------------------- MODULE MfdCellsProofs ---------------------------
(***************************************************************************)
(* MfdCells: the buffers are large enough, the two passes agree about the  *)
(* interrupt block, and the cells are those of the whole ROM, for any ROM, *)
(* table of known blocks, firmware and filter.                             *)
(***************************************************************************)
EXTENDS MfdCells, FiniteSetTheorems, WellFoundedInduction, TLAPS

-----------------------------------------------------------------------------
(* Induction, with a set in the place of a predicate.                      *)

LEMMA LeastNatural ==
    ASSUME NEW T, T \subseteq Nat, T # {}
    PROVE  \E x \in T : \A y \in T : x <= y
<1>1. \E x \in T : \A y \in T : ~(<<y, x>> \in OpToRel(<, Nat))
    BY WFMin, NatLessThanWellFounded, Zenon
<1>2. PICK x \in T : \A y \in T : ~(<<y, x>> \in OpToRel(<, Nat))
    BY <1>1
<1>3. \A y \in T : ~(y < x)
    BY <1>2 DEF OpToRel
<1> QED
    BY <1>3

LEMMA SetInduction ==
    ASSUME NEW P, P \subseteq Nat, 0 \in P, \A n \in P : n + 1 \in P
    PROVE  P = Nat
<1> SUFFICES ASSUME Nat \ P # {} PROVE FALSE
    OBVIOUS
<1>1. PICK n \in Nat \ P : \A m \in Nat \ P : n <= m
    BY LeastNatural
<1>2. n # 0 /\ n - 1 \in Nat /\ ~(n <= n - 1)
    BY <1>1
<1>3. n - 1 \in P
    BY <1>1, <1>2
<1> QED
    BY <1>1, <1>3

-----------------------------------------------------------------------------
(* Sequences whose elements have no type of interest.                      *)

IsSeq(s) == \E S : s \in Seq(S)

LEMMA AppendIs ==
    ASSUME NEW s, IsSeq(s), NEW e
    PROVE  /\ IsSeq(Append(s, e)) /\ IsSeq(s)
           /\ Len(s) \in Nat /\ DOMAIN s = 1..Len(s)
           /\ Len(Append(s, e)) = Len(s) + 1
           /\ Append(s, e)[Len(s) + 1] = e
           /\ \A k \in 1..Len(s) : Append(s, e)[k] = s[k]
<1>1. PICK S : s \in Seq(S)
    BY DEF IsSeq
<1>2. s \in Seq(S \cup {e})
    BY <1>1
<1>3. Append(s, e) \in Seq(S \cup {e})
    BY <1>2
<1> QED
    BY <1>2, <1>3 DEF IsSeq

LEMMA LenIs ==
    ASSUME NEW s, IsSeq(s)
    PROVE  Len(s) \in Nat /\ DOMAIN s = 1..Len(s)
BY DEF IsSeq

\* A function over the domain of a sequence is a sequence as long.
LEMMA SameLength ==
    ASSUME NEW s, IsSeq(s), NEW r, r = [k \in DOMAIN s |-> r[k]]
    PROVE  IsSeq(r) /\ Len(r) = Len(s) /\ DOMAIN r = DOMAIN s
<1> DEFINE R == {r[k] : k \in 1..Len(s)}
<1>1. Len(s) \in Nat /\ DOMAIN s = 1..Len(s)
    BY LenIs
<1>2. r \in [1..Len(s) -> R]
    BY <1>1
<1>3. r \in Seq(R)
    BY <1>1, <1>2
<1>4. IsSeq(r)
    BY <1>3 DEF IsSeq
<1> QED
    BY <1>1, <1>2, <1>3, <1>4

-----------------------------------------------------------------------------
(* The table: a row that is matched is one of it, or has no interrupt.     *)

FewIrqs(blk) == blk.irqs \subseteq Nat /\ \A p, q \in blk.irqs : p = q

LEMMA MatchFewIrqs ==
    ASSUME NEW id, NEW f
    PROVE  FewIrqs(BlkMatch(id, f))
<1> DEFINE hits == {k \in DOMAIN Blks : Blks[k].id = id /\ f \in Blks[k].filter}
<1>1. CASE hits # {}
    <2>1. DOMAIN Blks \subseteq Nat
        BY MfdAssumption
    <2>2. \E k \in hits : \A l \in hits : k <= l
        BY <1>1, <2>1, LeastNatural
    <2>3. (CHOOSE k \in hits : \A l \in hits : k <= l) \in hits
        BY <2>2
    <2> QED
        BY <1>1, <2>3, MfdAssumption DEF BlkMatch, FewIrqs
<1>2. CASE hits = {}
    BY <1>2 DEF BlkMatch, FewIrqs
<1> QED
    BY <1>1, <1>2

LEMMA CellIrqs ==
    ASSUME NEW blk, FewIrqs(blk), NEW a, NEW id
    PROVE  LET irqs == CellOf(blk, a, id).irqs
           IN IsFiniteSet(irqs) /\ Cardinality(irqs) \in {0, 1}
<1> DEFINE irqs == {q \in blk.irqs : q < maxIrqs}
<1>1. CellOf(blk, a, id).irqs = irqs
    BY DEF CellOf
<1>2. \A p, q \in irqs : p = q
    BY DEF FewIrqs
<1>3. CASE irqs = {}
    BY <1>1, <1>3, FS_EmptySet
<1>4. CASE irqs # {}
    <2>1. PICK q : irqs = {q}
        BY <1>2, <1>4
    <2>2. IsFiniteSet({q}) /\ Cardinality({q}) = 1
        BY FS_Singleton
    <2> HIDE DEF irqs
    <2> QED
        BY <1>1, <2>1, <2>2
<1> QED
    BY <1>3, <1>4

-----------------------------------------------------------------------------
(* The buffers.  Every pass of the loop uses up one cell, or the place of  *)
(* the interrupt block's resource, and a cell two resources.               *)

Taken == IF meta.intr = None THEN 0 ELSE 1

Shape ==
    /\ rom \in Roms
    /\ i \in Nat
    /\ count \in Nat
    /\ meta = [cells |-> meta.cells, intr |-> meta.intr, res |-> meta.res,
               names |-> meta.names]
    /\ IsSeq(meta.cells)
    /\ meta.res \in Nat /\ meta.names \in Nat
    /\ Cells(count) \in Nat

\* A ROM that is admitted has fewer blocks than the table has places.
Admitted ==
    phase \in {"irqs", "info", "blocks", "ids", "done", "BUG"} =>
        /\ rom.good /\ rom.id = Info /\ ~(rom.maj < 6)
        /\ count = rom.count
        /\ Counted => Cells(count) = count + 1 /\ count + 1 < TableSize
        /\ ~Counted => Cells(count) = 0

Untouched == meta = [cells |-> <<>>, intr |-> None, res |-> 0, names |-> 0]

Room ==
    /\ Len(meta.cells) <= Cells(count)
    /\ meta.res <= 2 * Cells(count)
    /\ meta.names <= Len(meta.cells)
    /\ phase \in {"open", "irqs", "info"} => Untouched
    /\ phase = "open" => count = 0 /\ i = 0
    /\ phase = "info" => i = 0
    /\ phase = "irqs" => i <= count
    /\ phase = "blocks" =>
          /\ i >= 1 /\ (i <= count \/ i = 1)
          /\ Len(meta.cells) + Taken <= i
          /\ meta.res <= 2 * Len(meta.cells) + Taken

FitInv == Shape /\ Admitted /\ Room

-----------------------------------------------------------------------------
LEMMA FewCells ==
    ASSUME NEW n \in 0..(CountMod - 1)
    PROVE  /\ Cells(n) \in Nat
           /\ n = CountMod - 1 => Cells(n) = 0
           /\ n # CountMod - 1 => Cells(n) = n + 1
<1>1. CountMod \in Nat /\ CountMod >= 2
    BY MfdAssumption
<1>2. CASE n = CountMod - 1
    <2>1. (n + 1) % CountMod = 0
        BY <1>1, <1>2
    <2> QED
        BY <1>2, <2>1 DEF Cells
<1>3. CASE n # CountMod - 1
    <2>1. n + 1 \in 0..(CountMod - 1)
        BY <1>1, <1>3
    <2>2. (n + 1) % CountMod = n + 1
        BY <1>1, <2>1
    <2> QED
        BY <1>1, <1>3, <2>2 DEF Cells
<1> QED
    BY <1>2, <1>3

LEMMA InitFitInv == Init => FitInv
<1> SUFFICES ASSUME Init PROVE FitInv
    OBVIOUS
<1>1. /\ rom \in Roms /\ phase = "open" /\ count = 0 /\ i = 0 /\ Untouched
    BY DEF Init, Untouched
<1>2. CountMod \in Nat /\ CountMod >= 2
    BY MfdAssumption
<1>3. Cells(0) = 1
    BY <1>2, FewCells
<1>4. IsSeq(<<>>) /\ Len(<<>>) = 0
    <2>1. <<>> \in Seq({})
        OBVIOUS
    <2> QED
        BY <2>1 DEF IsSeq
<1>5. meta.cells = <<>> /\ meta.res = 0 /\ meta.names = 0
    BY <1>1 DEF Untouched
<1>6. Shape
    BY <1>1, <1>3, <1>4, <1>5 DEF Shape, Untouched
<1>7. Room
    BY <1>1, <1>3, <1>4, <1>5 DEF Room
<1> QED
    BY <1>1, <1>6, <1>7 DEF FitInv, Admitted

\* What _fwnode_config does to the cells: nothing, or one more.
LEMMA ConfigIs ==
    ASSUME Shape, NEW blk, FewIrqs(blk), NEW id, FwnodeConfig(blk, id)
    PROVE  \/ /\ meta' = meta
              /\ Len(meta.cells) >= Cells(count) \/ blk.name = None \/ Ignored(off, id)
           \/ /\ Len(meta.cells) < Cells(count) /\ blk.name # None /\ ~Ignored(off, id)
              /\ \E r \in Nat, n \in Nat :
                    /\ meta' = [cells |-> Append(meta.cells, CellOf(blk, off, id)),
                                intr |-> meta.intr, res |-> r, names |-> n]
                    /\ r <= meta.res + 2 /\ n <= meta.names + 1
<1> DEFINE cell == CellOf(blk, off, id)
<1>1. Len(meta.cells) \in Nat
    BY LenIs DEF Shape
<1>2. Cardinality(cell.irqs) \in {0, 1}
    BY CellIrqs
<1>3. CASE Len(meta.cells) >= Cells(count) \/ blk.name = None \/ Ignored(off, id)
    BY <1>3 DEF FwnodeConfig
<1>4. CASE ~(Len(meta.cells) >= Cells(count) \/ blk.name = None \/ Ignored(off, id))
    <2> DEFINE r == meta.res + 1 + Cardinality(cell.irqs)
               n == meta.names + (IF cell.suffix = None THEN 0 ELSE 1)
    <2>1. meta' = [meta EXCEPT !.cells = Append(@, cell), !.res = r, !.names = n]
        BY <1>4 DEF FwnodeConfig
    <2>2. r \in Nat /\ n \in Nat /\ r <= meta.res + 2 /\ n <= meta.names + 1
        BY <1>2 DEF Shape
    <2> HIDE DEF r, n, cell
    <2>3. meta' = [cells |-> Append(meta.cells, cell), intr |-> meta.intr, res |-> r, names |-> n]
        BY <2>1 DEF Shape
    <2>4. Len(meta.cells) < Cells(count)
        BY <1>1, <1>4 DEF Shape
    <2> QED
        BY <1>4, <2>2, <2>3, <2>4 DEF cell
<1> QED
    BY <1>3, <1>4

\* One more cell, in a pass of its own.
LEMMA OneMoreFits ==
    ASSUME FitInv, NEW blk, FewIrqs(blk), NEW id, FwnodeConfig(blk, id), Advance,
           UNCHANGED <<inputs, count>>, phase' = "blocks",
           phase = "info" \/ (phase = "blocks" /\ i < count)
    PROVE  FitInv'
<1> USE DEF FitInv
<1>1. i' = i + 1 /\ i \in Nat /\ count \in Nat /\ Len(meta.cells) \in Nat /\ Cells(count) \in Nat
      /\ UNCHANGED <<rom, count>> /\ meta.res \in Nat /\ meta.names \in Nat
    BY LenIs DEF Shape, Advance, inputs
<1>2. /\ Cells(count)' = Cells(count) /\ Counted' = Counted
      /\ phase \in {"info", "blocks"}
    BY <1>1 DEF Cells, Counted
<1>3. Admitted'
    BY <1>1, <1>2 DEF Admitted
<1>4. Len(meta.cells) + Taken <= i /\ meta.res <= 2 * Len(meta.cells) + Taken
      /\ meta.names <= Len(meta.cells) /\ Taken \in {0, 1}
      /\ Len(meta.cells) <= Cells(count) /\ meta.res <= 2 * Cells(count)
    <2>1. CASE phase = "info"
        <3>1. meta.cells = <<>> /\ meta.intr = None /\ meta.res = 0 /\ meta.names = 0 /\ i = 0
            BY <2>1 DEF Room, Untouched
        <3> QED
            BY <1>1, <3>1 DEF Taken
    <2>2. CASE phase = "blocks"
        BY <2>2 DEF Room, Taken
    <2> QED
        BY <1>2, <2>1, <2>2
<1>5. i + 1 <= count \/ i + 1 = 1
    BY <1>1 DEF Room
<1>6. CASE meta' = meta
    <2>1. Shape'
        BY <1>1, <1>2, <1>6 DEF Shape
    <2>2. Room'
        BY <1>1, <1>2, <1>4, <1>5, <1>6 DEF Room, Taken, Shape
    <2> QED
        BY <1>3, <2>1, <2>2
<1>7. CASE /\ Len(meta.cells) < Cells(count)
           /\ \E r \in Nat, n \in Nat :
                    /\ meta' = [cells |-> Append(meta.cells, CellOf(blk, off, id)),
                                intr |-> meta.intr, res |-> r, names |-> n]
                    /\ r <= meta.res + 2 /\ n <= meta.names + 1
    <2>1. PICK r \in Nat, n \in Nat :
                    /\ meta' = [cells |-> Append(meta.cells, CellOf(blk, off, id)),
                                intr |-> meta.intr, res |-> r, names |-> n]
                    /\ r <= meta.res + 2 /\ n <= meta.names + 1
        BY <1>7
    <2>2. /\ meta'.cells = Append(meta.cells, CellOf(blk, off, id)) /\ meta'.intr = meta.intr
          /\ meta'.res = r /\ meta'.names = n
        BY <2>1
    <2>3. IsSeq(meta'.cells) /\ Len(meta'.cells) = Len(meta.cells) + 1
        BY <2>2, AppendIs DEF Shape
    <2>4. Shape'
        BY <1>1, <1>2, <2>1, <2>2, <2>3 DEF Shape
    <2>5. Taken' = Taken
        BY <2>2 DEF Taken
    <2>6. r <= 2 * Cells(count)
        <3>1. Cells(count) = count + 1
            BY <1>1, <1>2, <1>7 DEF Admitted
        <3>2. i + 1 <= count \/ i = 0
            BY <1>1, <1>5
        <3> QED
            BY SMTT(40), <1>1, <1>4, <2>1, <3>1, <3>2
    <2> DEFINE len == Len(meta.cells)
    <2>b. Taken' \in Nat
        BY DEF Taken
    <2>a. /\ len \in Nat /\ len < Cells(count) /\ Len(meta'.cells) = len + 1
          /\ meta'.names <= meta.names + 1 /\ meta'.res <= meta.res + 2
          /\ meta'.names \in Nat /\ meta'.res \in Nat /\ Taken' \in {0, 1}
          /\ len + Taken' <= i /\ meta.res <= 2 * len + Taken' /\ meta.names <= len
        BY <1>1, <1>4, <1>7, <2>1, <2>2, <2>3, <2>5
    <2> HIDE DEF len
    <2>7. /\ Len(meta'.cells) <= Cells(count)
          /\ meta'.names <= Len(meta'.cells)
          /\ i' >= 1 /\ (i' <= count \/ i' = 1)
          /\ Len(meta'.cells) + Taken' <= i'
          /\ meta'.res <= 2 * Len(meta'.cells) + Taken'
        <3>1. i' = i + 1 /\ i \in Nat /\ count \in Nat /\ count' = count /\ Cells(count) \in Nat
            BY <1>1
        <3>2. i' >= 1 /\ (i' <= count \/ i' = 1)
            BY <1>5, <3>1
        <3>3. Len(meta'.cells) <= Cells(count) /\ Len(meta'.cells) + Taken' <= i'
            <4>1. Len(meta'.cells) = len + 1 /\ len \in Nat /\ len < Cells(count)
                BY <2>a
            <4>2. Len(meta'.cells) <= Cells(count)
                BY <3>1, <4>1
            <4>3. len + Taken' <= i /\ Taken' \in {0, 1}
                BY <2>a
            <4>4. \A a, b, c, d \in Nat : c = a + 1 /\ a + b <= d => c + b <= d + 1
                OBVIOUS
            <4>5. Len(meta'.cells) \in Nat
                BY <4>1
            <4>6. Len(meta'.cells) + Taken' <= i'
                BY <2>b, <3>1, <4>1, <4>3, <4>4, <4>5
            <4> QED
                BY <4>2, <4>6
        <3>4. meta'.names <= Len(meta'.cells)
            BY <1>1, <2>a
        <3>5. meta'.res <= 2 * Len(meta'.cells) + Taken'
            BY SMTT(40), <1>1, <2>a
        <3> QED
            BY <3>2, <3>3, <3>4, <3>5
    <2>8. Room'
        BY <1>1, <1>2, <2>2, <2>6, <2>7 DEF Room
    <2> QED
        BY <1>3, <2>4, <2>8
<1> QED
    BY <1>6, <1>7, ConfigIs

LEMMA NextFitInv == FitInv /\ [Next]_vars => FitInv'
<1> SUFFICES ASSUME FitInv, [Next]_vars PROVE FitInv'
    OBVIOUS
<1> USE DEF FitInv
<1>0. /\ i \in Nat /\ count \in Nat /\ Len(meta.cells) \in Nat /\ Cells(count) \in Nat
      /\ rom \in Roms /\ None \notin Nat
    BY LenIs, MfdAssumption DEF Shape
<1>1. ASSUME UNCHANGED <<rom, count, meta>>,
             i' \in Nat, phase' \notin {"irqs", "blocks"},
             phase' = "open" => phase = "open" /\ i' = i,
             phase' = "info" => phase \in {"irqs", "info"} /\ i' = 0,
             phase' \in {"ids", "done", "BUG"} => phase \in {"ids", "done", "BUG", "blocks"}
      PROVE  FitInv'
    <2>1. Cells(count)' = Cells(count) /\ Counted' = Counted
        BY <1>1 DEF Cells, Counted
    <2>2. Shape'
        BY <1>1, <2>1 DEF Shape
    <2>3. Admitted'
        BY <1>1, <2>1 DEF Admitted
    <2>4. Untouched' = Untouched /\ Len(meta.cells)' = Len(meta.cells)
        BY <1>1 DEF Untouched
    <2>5. Room'
        BY <1>0, <1>1, <2>1, <2>4 DEF Room
    <2> QED
        BY <2>2, <2>3, <2>5
<1>2. ASSUME UNCHANGED <<rom, count, meta>>, phase' = phase,
             i' = i \/ (i' = i + 1 /\ i < count /\ phase \in {"irqs", "blocks"})
      PROVE  FitInv'
    <2>1. Cells(count)' = Cells(count) /\ Counted' = Counted
        BY <1>2 DEF Cells, Counted
    <2>2. Shape'
        BY <1>0, <1>2, <2>1 DEF Shape
    <2>3. Admitted'
        BY <1>2, <2>1 DEF Admitted
    <2>4. Room'
        <3>1. Untouched' = Untouched /\ Taken' = Taken
            BY <1>2 DEF Untouched, Taken
        <3>2. Len(meta.cells)' = Len(meta.cells) /\ Taken \in {0, 1}
            BY <1>2 DEF Taken
        <3>3. CASE i' = i
            BY <1>2, <2>1, <3>1, <3>2, <3>3 DEF Room
        <3>4. CASE i' = i + 1 /\ i < count /\ phase \in {"irqs", "blocks"}
            BY <1>0, <1>2, <2>1, <3>1, <3>2, <3>4 DEF Room
        <3> QED
            BY <1>2, <3>3, <3>4
    <2> QED
        BY <2>2, <2>3, <2>4
<1>3. ASSUME NEW err \in {"EIO", "ENODEV", "EINVAL", "ENXIO"}, Fail(err) PROVE FitInv'
    BY <1>0, <1>1, <1>3 DEF Fail, inputs
<1>4. CASE Open
    <2>1. CASE phase' \in {"EIO", "ENODEV", "EINVAL", "ENXIO"}
        <3>1. UNCHANGED <<rom, count, meta, i>>
            BY <1>4, <2>1 DEF Open, Fail, inputs
        <3> QED
            BY <1>0, <1>1, <2>1, <3>1
    <2>2. CASE phase' = "irqs"
        <3> DEFINE n == IF rom.maj < 6 THEN TableSize - 1 ELSE rom.count
        <3>1. /\ phase = "open" /\ rom.good /\ rom.id = Info /\ Cells(n) < TableSize
              /\ count' = n /\ UNCHANGED <<rom, i, meta>>
            BY <1>4, <2>2 DEF Open, Fail, inputs
        <3>2. TableSize \in Nat \ {0} /\ CountMod \in Nat /\ TableSize < CountMod
              /\ rom.count \in 0..(CountMod - 1)
            BY <1>0, MfdAssumption
        <3>3. ~(rom.maj < 6)
            <4>1. ASSUME rom.maj < 6 PROVE FALSE
                <5>1. n = TableSize - 1 /\ n \in 0..(CountMod - 1) /\ n # CountMod - 1
                    BY <3>2, <4>1
                <5>2. Cells(n) = TableSize
                    <6> HIDE DEF n
                    <6> QED
                        BY <3>2, <5>1, FewCells
                <5> QED
                    BY <3>1, <3>2, <5>2
            <4> QED
                BY <4>1
        <3>4. n = rom.count
            BY <3>3
        <3>5. n \in 0..(CountMod - 1) /\ count' = n /\ Cells(n) < TableSize
            BY <3>1, <3>2, <3>4
        <3>6. Untouched /\ i = 0
            BY <3>1 DEF Room
        <3> HIDE DEF n
        <3>7. Cells(count)' = Cells(n) /\ Cells(n) \in Nat
            BY <3>1, <3>5, FewCells DEF Cells
        <3>8. Shape'
            BY <1>0, <3>1, <3>5, <3>7 DEF Shape
        <3>9. Admitted'
            BY <3>1, <3>2, <3>3, <3>4, <3>5, <3>7, FewCells DEF Admitted, Counted
        <3>10. meta.cells = <<>> /\ meta.res = 0 /\ meta.names = 0
            BY <3>6 DEF Untouched
        <3>11. Room'
            BY <2>2, <3>1, <3>5, <3>6, <3>7, <3>10 DEF Room, Untouched
        <3> QED
            BY <3>8, <3>9, <3>11
    <2> QED
        BY <1>4, <2>1, <2>2 DEF Open, Fail
<1>5. CASE SetupMaxIrqs
    <2>1. CASE Fail("EIO")
        BY <1>3, <2>1
    <2>2. CASE phase = "irqs" /\ phase' = "info" /\ i' = 0 /\ UNCHANGED <<rom, count, meta>>
        BY <1>1, <2>2
    <2>3. CASE phase = "irqs" /\ phase' = phase /\ i' = i + 1 /\ i < count
               /\ UNCHANGED <<rom, count, meta>>
        BY <1>2, <2>3
    <2> QED
        BY <1>0, <1>5, <2>1, <2>2, <2>3 DEF SetupMaxIrqs, Configured, inputs
<1>6. CASE ConfigInfo
    <2>1. /\ FwnodeConfig(BlkMatch(rom.id, filter), rom.id) /\ Advance
          /\ UNCHANGED <<inputs, count>> /\ phase = "info" /\ phase' = "blocks"
        BY <1>6 DEF ConfigInfo
    <2>2. FewIrqs(BlkMatch(rom.id, filter))
        BY MatchFewIrqs
    <2> QED
        <3> HIDE DEF FitInv
        <3> QED
            BY <2>1, <2>2, OneMoreFits
<1>7. CASE ConfigBlock
    BY <1>7, MatchFewIrqs, OneMoreFits DEF ConfigBlock, inputs
<1>8. CASE SkipBad
    BY <1>2, <1>8 DEF SkipBad, Advance, inputs
<1>9. CASE ConfigIntr
    <2>1. phase = "blocks" /\ i < count /\ UNCHANGED <<rom, count>>
        BY <1>9 DEF ConfigIntr, inputs
    <2>2. CASE meta' = meta /\ phase' = phase /\ i' = i + 1
        BY <1>2, <2>1, <2>2
    <2>3. CASE meta' = meta /\ phase' = "BUG" /\ i' = i
        BY <1>0, <1>1, <2>1, <2>3
    <2>4. CASE /\ Len(meta.cells) < Cells(count) /\ meta.intr = None
               /\ meta' = [meta EXCEPT !.intr = i, !.res = @ + 1]
               /\ phase' = phase /\ i' = i + 1
        <3>1. meta' = [cells |-> meta.cells, intr |-> i, res |-> meta.res + 1,
                       names |-> meta.names]
            BY <2>4 DEF Shape
        <3>2. Cells(count)' = Cells(count) /\ Counted' = Counted
            BY <2>1 DEF Cells, Counted
        <3>a. /\ meta'.cells = meta.cells /\ meta'.res = meta.res + 1
              /\ meta'.names = meta.names /\ meta'.intr = i
            BY <3>1
        <3>b. meta.res \in Nat /\ meta.names \in Nat /\ IsSeq(meta.cells)
            BY DEF Shape
        <3>c. meta' = [cells |-> meta'.cells, intr |-> meta'.intr, res |-> meta'.res,
                       names |-> meta'.names]
            BY <3>1, <3>a
        <3>3. Shape'
            BY <1>0, <2>1, <2>4, <3>2, <3>a, <3>b, <3>c DEF Shape
        <3>4. Admitted'
            BY <2>1, <2>4, <3>2 DEF Admitted
        <3>5. Taken' = 1 /\ Taken = 0
            BY <1>0, <2>4, <3>1 DEF Taken
        <3>6. Cells(count) = count + 1
            BY <1>0, <2>1, <2>4 DEF Admitted
        <3>7. /\ Len(meta.cells) + Taken <= i /\ meta.res <= 2 * Len(meta.cells) + Taken
              /\ meta.names <= Len(meta.cells) /\ Len(meta.cells) <= Cells(count)
              /\ meta.res \in Nat
            BY <2>1 DEF Room, Shape
        <3>8. /\ Len(meta'.cells) <= Cells(count)
              /\ meta'.res <= 2 * Cells(count) /\ meta'.names <= Len(meta'.cells)
              /\ i' >= 1 /\ i' <= count
              /\ Len(meta'.cells) + Taken' <= i'
              /\ meta'.res <= 2 * Len(meta'.cells) + Taken'
            BY SMTT(40), <1>0, <2>1, <2>4, <3>5, <3>6, <3>7, <3>a
        <3>9. Room'
            BY <2>1, <2>4, <3>2, <3>8 DEF Room
        <3> QED
            BY <3>3, <3>4, <3>9
    <2> QED
        BY <1>0, <1>9, <2>2, <2>3, <2>4 DEF ConfigIntr, Advance
<1>10. CASE ReadFails
    BY <1>3, <1>10 DEF ReadFails
<1>11. CASE AtTail
    BY <1>1, <1>11 DEF AtTail, inputs
<1>12. CASE AdjustIds
    <2>1. phase = "ids" /\ UNCHANGED <<rom, count>>
        BY <1>12 DEF AdjustIds, inputs
    <2>2. CASE phase' = "done" /\ UNCHANGED <<i, meta>>
        BY <1>0, <1>1, <2>1, <2>2
    <2>3. CASE ~(phase' = "done" /\ UNCHANGED <<i, meta>>)
        <3> DEFINE cell == meta.cells[i + 1]
                   dups == {j \in (i + 2)..Len(meta.cells) : SameDevice(meta.cells[j], cell)}
                   alike == IF dups = {} THEN {} ELSE dups \cup {i + 1}
                   r == [j \in DOMAIN meta.cells |->
                          IF j \in alike THEN [meta.cells[j] EXCEPT !.id = AutoId] ELSE meta.cells[j]]
        <3>0. ~(i >= Len(meta.cells))
            BY <1>12, <2>3 DEF AdjustIds
        <3>1. meta' = [meta EXCEPT !.cells = r] /\ i' = i + 1 /\ phase' = phase
            BY <1>12, <3>0 DEF AdjustIds
        <3>2. r = [j \in DOMAIN meta.cells |-> r[j]]
            OBVIOUS
        <3> HIDE DEF r
        <3>4. meta' = [cells |-> r, intr |-> meta.intr, res |-> meta.res, names |-> meta.names]
            BY <3>1 DEF Shape
        <3>a. /\ meta'.cells = r /\ meta'.intr = meta.intr /\ meta'.res = meta.res
              /\ meta'.names = meta.names
            BY <3>4
        <3>5. IsSeq(r) /\ Len(r) = Len(meta.cells)
            BY <3>2, SameLength DEF Shape
        <3>6. Cells(count)' = Cells(count) /\ Counted' = Counted
            BY <2>1 DEF Cells, Counted
        <3>7. Shape'
            BY <1>0, <2>1, <3>1, <3>4, <3>5, <3>6, <3>a DEF Shape
        <3>8. Admitted'
            BY <2>1, <3>1, <3>6 DEF Admitted
        <3>9. Room'
            BY <2>1, <3>1, <3>5, <3>6, <3>a DEF Room
        <3> QED
            BY <3>7, <3>8, <3>9
    <2> QED
        BY <2>2, <2>3
<1>13. CASE UNCHANGED vars
    BY <1>2, <1>13 DEF vars
<1> QED
    BY <1>4, <1>5, <1>6, <1>7, <1>8, <1>9, <1>10, <1>11, <1>12, <1>13 DEF Next

\* Cells, resources and names stay inside the buffers that were sized from the
\* ROM's number of blocks, for any ROM, table of blocks, firmware and failing
\* reads; a number of all ones, which wraps to buffers without room, is accepted
\* and nothing is built for it.  The table of offsets is read inside its bounds
\* for every other number; of that one nothing is said here.
THEOREM BuffersNeverOverrun == Spec => []BuffersFit
<1>1. FitInv => BuffersFit
    <2> SUFFICES ASSUME FitInv PROVE BuffersFit
        OBVIOUS
    <2>1. Len(meta.cells) \in Nat
        BY LenIs DEF FitInv, Shape
    <2>2. TableSize \in Nat
        BY MfdAssumption
    <2> QED
        BY <2>1, <2>2 DEF FitInv, Shape, Admitted, Room, BuffersFit
<1> QED
    BY <1>1, InitFitInv, NextFitInv, PTL DEF Spec

-----------------------------------------------------------------------------
(* Where blocks start: the recursive function has a value.                 *)

SizeIn(r, k) == IF r.maj < 6 THEN 16 ELSE r.size[k]
StartEq(r, g) == g = [k \in Nat |-> IF k = 0 THEN 0 ELSE g[k - 1] + SizeIn(r, k - 1)]
StartIn(r) == CHOOSE g : StartEq(r, g)

\* The start of blocks up to n.
Begins(r, n, g) == g[0] = 0 /\ \A k \in 1..n : g[k] = g[k - 1] + SizeIn(r, k - 1)

LEMMA BeginsAgree ==
    ASSUME NEW r, NEW n \in Nat, NEW g, NEW h, Begins(r, n, g), Begins(r, n, h)
    PROVE  \A k \in 0..n : g[k] = h[k]
<1> DEFINE P == {k \in Nat : k <= n => g[k] = h[k]}
<1>1. 0 \in P
    BY DEF Begins
<1>2. ASSUME NEW k \in P PROVE k + 1 \in P
    <2> SUFFICES ASSUME k + 1 <= n PROVE g[k + 1] = h[k + 1]
        OBVIOUS
    <2>1. k \in Nat /\ k + 1 \in 1..n /\ k <= n /\ (k + 1) - 1 = k
        OBVIOUS
    <2>2. g[k] = h[k]
        BY <2>1
    <2>3. g[k + 1] = g[k] + SizeIn(r, k) /\ h[k + 1] = h[k] + SizeIn(r, k)
        BY <2>1 DEF Begins
    <2> QED
        BY <2>2, <2>3
<1> HIDE DEF P
<1>3. P = Nat
    BY <1>1, <1>2, SetInduction DEF P
<1> QED
    BY <1>3 DEF P

LEMMA BeginsExist ==
    ASSUME NEW r
    PROVE  \A n \in Nat : \E g : Begins(r, n, g)
<1> DEFINE P == {n \in Nat : \E g : Begins(r, n, g)}
<1>1. 0 \in P
    <2>1. Begins(r, 0, [k \in {0} |-> 0])
        BY DEF Begins
    <2> QED
        BY <2>1
<1>2. ASSUME NEW n \in P PROVE n + 1 \in P
    <2>1. PICK g : Begins(r, n, g)
        BY <1>2
    <2> DEFINE h == [k \in 0..(n + 1) |-> IF k = n + 1 THEN g[n] + SizeIn(r, n) ELSE g[k]]
    <2>2. n \in Nat
        BY <1>2
    <2>3. h[0] = 0
        BY <2>1, <2>2 DEF Begins
    <2>4. ASSUME NEW k \in 1..(n + 1) PROVE h[k] = h[k - 1] + SizeIn(r, k - 1)
        <3>1. CASE k = n + 1
            <4>1. k - 1 = n /\ n \in 0..(n + 1) /\ n # n + 1 /\ k \in 0..(n + 1)
                BY <2>2, <3>1
            <4> QED
                BY <3>1, <4>1
        <3>2. CASE k # n + 1
            <4>1. k \in 1..n /\ k \in 0..(n + 1) /\ k - 1 \in 0..(n + 1) /\ k - 1 # n + 1
                BY <2>2, <2>4, <3>2
            <4>2. g[k] = g[k - 1] + SizeIn(r, k - 1)
                BY <2>1, <4>1 DEF Begins
            <4> QED
                BY <3>2, <4>1, <4>2
        <3> QED
            BY <3>1, <3>2
    <2>5. Begins(r, n + 1, h)
        <3> HIDE DEF h
        <3> QED
            BY <2>3, <2>4 DEF Begins
    <2> QED
        BY <2>2, <2>5
<1> HIDE DEF P
<1>3. P = Nat
    BY <1>1, <1>2, SetInduction DEF P
<1> QED
    BY <1>3 DEF P

LEMMA StartExists ==
    ASSUME NEW r
    PROVE  \E g : StartEq(r, g)
<1> DEFINE pick(n) == CHOOSE g : Begins(r, n, g)
           all == [k \in Nat |-> pick(k)[k]]
<1>1. \A n \in Nat : Begins(r, n, pick(n))
    BY BeginsExist
<1> HIDE DEF pick
<1>2. all[0] = 0
    BY <1>1 DEF Begins
<1>3. ASSUME NEW k \in Nat, k # 0 PROVE all[k] = all[k - 1] + SizeIn(r, k - 1)
    <2>1. k - 1 \in Nat /\ k \in 1..k /\ k - 1 \in 0..(k - 1)
        BY <1>3
    <2>2. Begins(r, k, pick(k)) /\ Begins(r, k - 1, pick(k - 1))
        BY <1>1, <2>1
    <2>3. Begins(r, k - 1, pick(k))
        BY <2>2 DEF Begins
    <2>4. pick(k)[k - 1] = pick(k - 1)[k - 1]
        BY <2>1, <2>2, <2>3, BeginsAgree
    <2>5. pick(k)[k] = pick(k)[k - 1] + SizeIn(r, k - 1)
        BY <2>1, <2>2 DEF Begins
    <2> QED
        BY <2>1, <2>4, <2>5
<1>4. StartEq(r, all)
    <2>1. \A k \in Nat : all[k] = IF k = 0 THEN 0 ELSE all[k - 1] + SizeIn(r, k - 1)
        BY <1>2, <1>3
    <2>2. all = [k \in Nat |-> all[k]]
        OBVIOUS
    <2> HIDE DEF all
    <2> QED
        BY <2>1, <2>2 DEF StartEq
<1> QED
    BY <1>4

LEMMA StartOfIs ==
    /\ StartOf = StartIn(rom)
    /\ rom' = rom => StartOf' = StartOf
<1>1. StartOf = StartIn(rom)
    BY DEF StartOf, StartIn, StartEq, SizeOf, SizeIn
<1>2. StartOf' = StartIn(rom')
    BY DEF StartOf, StartIn, StartEq, SizeOf, SizeIn
<1> QED
    BY <1>1, <1>2

\* The first block starts at 0, and each other where the one before it ends.
LEMMA Starts ==
    /\ StartOf[0] = 0
    /\ \A k \in Nat : StartOf[k + 1] = StartOf[k] + SizeOf(k)
<1>1. StartEq(rom, StartOf)
    BY StartOfIs, StartExists DEF StartIn
<1> DEFINE g == StartOf
<1>2. StartEq(rom, g)
    BY <1>1
<1> HIDE DEF g
<1>3. g[0] = 0 /\ \A k \in Nat : g[k + 1] = g[k] + SizeIn(rom, k)
    BY <1>2 DEF StartEq
<1> QED
    BY <1>3 DEF g, SizeIn, SizeOf

-----------------------------------------------------------------------------
(* The two passes.  Where the first one stops, and what the second one has *)
(* made of the blocks it has been through.                                 *)

Ends(l) == rom.head[l].id \in {Intr, TailId}
TailAt(l) == rom.head[l].good /\ rom.head[l].id = TailId

Scanned ==
    \/ /\ maxIrqs = 0
       /\ \E e \in 0..count :
             /\ e = count \/ rom.head[e].id = TailId
             /\ \A l \in 0..(e - 1) : ~Ends(l)
    \/ \E e \in 0..(count - 1) :
          /\ rom.head[e].id = Intr
          /\ maxIrqs = IrqLimit(rom.head[e])
          /\ \A l \in 0..(e - 1) : ~Ends(l)

Passed(e) ==
    /\ meta.intr = None \/ meta.intr \in 1..(e - 1)
    /\ \A l \in 1..(e - 1) :
          /\ ~TailAt(l)
          /\ Counted => (IsIntr(l, StartOf[l]) <=> meta.intr = l)
          /\ meta.intr = l => IsIntr(l, StartOf[l])

Stopped(e) == e >= 1 /\ (e >= count \/ TailAt(e)) /\ (e <= count \/ e = 1) /\ Passed(e)

PassInv ==
    /\ phase \in {"open", "info"} => off = 0
    /\ phase \in {"irqs", "blocks"} => off = StartOf[i]
    /\ phase = "irqs" => \A l \in 0..(i - 1) : ~Ends(l)
    /\ phase \in {"info", "blocks", "ids", "done"} => Scanned
    /\ phase = "blocks" => Passed(i)
    /\ phase \in {"ids", "done"} => \E e \in Nat : Stopped(e)
    /\ phase = "BUG" => Cardinality(IntrBlocks) >= 2

-----------------------------------------------------------------------------
LEMMA RomFrozen ==
    ASSUME rom' = rom
    PROVE  /\ StartOf' = StartOf
           /\ Counted' = Counted
           /\ \A k : SizeOf(k)' = SizeOf(k) /\ Ends(k)' = Ends(k) /\ TailAt(k)' = TailAt(k)
           /\ \A k, a : IsIntr(k, a)' = IsIntr(k, a)
<1>1. StartOf' = StartOf
    BY StartOfIs
<1> QED
    BY <1>1 DEF Counted, SizeOf, Ends, TailAt, IsIntr

LEMMA PassFrozen ==
    ASSUME rom' = rom, count' = count, meta'.intr = meta.intr
    PROVE  /\ \A e : Passed(e)' = Passed(e) /\ Stopped(e)' = Stopped(e)
           /\ maxIrqs' = maxIrqs => Scanned' = Scanned
<1>1. \A e : Passed(e)' = Passed(e)
    BY RomFrozen DEF Passed
<1>2. \A e : Stopped(e)' = Stopped(e)
    BY <1>1, RomFrozen DEF Stopped
<1>3. maxIrqs' = maxIrqs => Scanned' = Scanned
    BY RomFrozen DEF Scanned
<1> QED
    BY <1>1, <1>2, <1>3

\* A block that is before the tail.
LEMMA BeforeTail ==
    ASSUME FitInv, phase = "blocks", i < count, Passed(i), ~TailAt(i)
    PROVE  1..i \subseteq Before
<1>1. i \in Nat /\ i >= 1 /\ count \in Nat
    BY DEF FitInv, Shape, Room
<1>2. \A l \in 1..i : ~TailAt(l)
    BY <1>1 DEF Passed
<1>3. ASSUME NEW k \in 1..i PROVE k \in Before
    <2>1. k \in 1..(count - 1) /\ \A l \in 1..k : l \in 1..i
        BY <1>1
    <2> QED
        BY <1>2, <2>1 DEF Before, TailAt
<1> QED
    BY <1>3

LEMMA TwoIntrs ==
    ASSUME FitInv, PassInv, phase = "blocks", i < count, IsIntr(i, off), meta.intr # None
    PROVE  Cardinality(IntrBlocks) >= 2
<1>1. i \in Nat /\ i >= 1 /\ count \in Nat /\ off = StartOf[i] /\ Passed(i)
    BY DEF FitInv, Shape, Room, PassInv
<1>2. PICK k : k = meta.intr /\ k \in 1..(i - 1) /\ IsIntr(k, StartOf[k])
    BY <1>1 DEF Passed
<1>3. ~TailAt(i)
    BY DEF IsIntr, TailAt, Intr, TailId
<1>4. i \in IntrBlocks /\ k \in IntrBlocks
    <2>1. i \in Before /\ k \in Before /\ i # 0 /\ k # 0
        BY <1>1, <1>2, <1>3, BeforeTail
    <2> QED
        BY <1>1, <1>2, <2>1 DEF IntrBlocks
<1>5. IsFiniteSet(IntrBlocks)
    <2>1. IntrBlocks \in SUBSET (1..(count - 1))
        BY DEF IntrBlocks, Before
    <2>2. IsFiniteSet(1..(count - 1))
        BY <1>1, FS_Interval
    <2> QED
        BY <2>1, <2>2, FS_Subset
<1>6. IsFiniteSet({k}) /\ Cardinality({k}) = 1
    BY FS_Singleton
<1>7. Cardinality({k} \cup {i}) = 2
    <2>1. i \notin {k}
        BY <1>1, <1>2
    <2> QED
        BY <1>6, <2>1, FS_AddElement
<1>8. {k} \cup {i} \in SUBSET IntrBlocks
    BY <1>4
<1>9. Cardinality({k} \cup {i}) <= Cardinality(IntrBlocks)
    BY <1>5, <1>8, FS_Subset
<1>10. Cardinality(IntrBlocks) \in Nat
    BY <1>5, FS_CardinalityType
<1> QED
    BY <1>7, <1>9, <1>10

\* One more block in the second pass.
LEMMA PassesOn ==
    ASSUME FitInv, PassInv, phase = "blocks", i < count, Advance,
           UNCHANGED <<rom, count, maxIrqs>>, phase' = "blocks", ~TailAt(i),
           \/ /\ meta'.intr = meta.intr
              /\ Counted => ~IsIntr(i, off)
           \/ meta'.intr = i /\ meta.intr = None /\ IsIntr(i, off)
    PROVE  PassInv'
<1>1. i \in Nat /\ i >= 1 /\ i' = i + 1 /\ off = StartOf[i] /\ Passed(i) /\ Scanned
      /\ off' = off + SizeOf(i)
    BY DEF FitInv, Shape, Room, PassInv, Advance
<1>2. off' = StartOf[i]' /\ off' = StartOf'[i']
    BY <1>1, Starts, RomFrozen
<1>3. Scanned'
    BY <1>1, RomFrozen DEF Scanned
<1>4. None \notin Nat
    BY MfdAssumption
<1>5. Passed(i)'
    <2>1. meta'.intr = None \/ meta'.intr \in 1..i
        BY <1>1 DEF Passed
    <2>2. ASSUME NEW l \in 1..i
          PROVE  /\ ~TailAt(l)
                 /\ Counted => (IsIntr(l, StartOf[l]) <=> meta'.intr = l)
                 /\ meta'.intr = l => IsIntr(l, StartOf[l])
        <3>1. CASE l = i
            BY <1>1, <1>4, <3>1 DEF Passed
        <3>2. CASE l # i
            <4>1. l \in 1..(i - 1)
                BY <1>1, <3>2
            <4>2. /\ ~TailAt(l)
                  /\ Counted => (IsIntr(l, StartOf[l]) <=> meta.intr = l)
                  /\ meta.intr = l => IsIntr(l, StartOf[l])
                BY <1>1, <4>1 DEF Passed
            <4> QED
                BY <1>1, <1>4, <3>2, <4>2
        <3> QED
            BY <3>1, <3>2
    <2>3. i' - 1 = i
        BY <1>1
    <2> QED
        BY <2>1, <2>2, <2>3, RomFrozen DEF Passed
<1> QED
    BY <1>2, <1>3, <1>5 DEF PassInv

LEMMA NextPassInv ==
    ASSUME FitInv, PassInv, [Next]_vars
    PROVE  PassInv'
<1>0. i \in Nat /\ count \in Nat /\ None \notin Nat
    BY MfdAssumption DEF FitInv, Shape
<1>1. ASSUME NEW err \in {"EIO", "ENODEV", "EINVAL", "ENXIO"}, phase' = err PROVE PassInv'
    BY <1>1 DEF PassInv
<1>2. CASE Open
    <2>1. CASE phase' \in {"EIO", "ENODEV", "EINVAL", "ENXIO"}
        BY <1>1, <2>1
    <2>2. CASE phase' = "irqs"
        <3>1. i' = i /\ off' = off /\ rom' = rom /\ i = 0 /\ off = 0
            BY <1>2, <2>2 DEF Open, Fail, inputs, FitInv, Room, PassInv
        <3>2. \A l \in 0..(i' - 1) : FALSE
            BY <3>1
        <3>3. off' = StartOf'[i']
            BY <3>1, Starts, RomFrozen
        <3> QED
            BY <2>2, <3>2, <3>3 DEF PassInv
    <2> QED
        BY <1>2, <2>1, <2>2 DEF Open, Fail
<1>3. CASE SetupMaxIrqs
    <2>1. CASE Fail("EIO")
        BY <1>1, <2>1 DEF Fail
    <2>2. /\ phase = "irqs" /\ i <= count /\ off = StartOf[i]
          /\ \A l \in 0..(i - 1) : ~Ends(l)
        BY <1>3 DEF SetupMaxIrqs, Fail, FitInv, Room, PassInv
    <2>3. CASE (i >= count \/ rom.head[i].id = TailId) /\ Configured(0) /\ UNCHANGED <<rom, count, meta>>
        <3>1. phase' = "info" /\ off' = 0 /\ maxIrqs' = 0
            BY <2>3 DEF Configured
        <3>2. i \in 0..count /\ (i = count \/ rom.head[i].id = TailId)
            BY <1>0, <2>2, <2>3
        <3>3. Scanned'
            BY <2>2, <2>3, <3>1, <3>2, RomFrozen DEF Scanned
        <3> QED
            BY <3>1, <3>3 DEF PassInv
    <2>4. CASE /\ ~(i >= count) /\ rom.head[i].id = Intr /\ Configured(IrqLimit(rom.head[i]))
               /\ UNCHANGED <<rom, count, meta>>
        <3>1. phase' = "info" /\ off' = 0 /\ maxIrqs' = IrqLimit(rom.head[i])
            BY <2>4 DEF Configured
        <3>2. i \in 0..(count - 1)
            BY <1>0, <2>4
        <3>3. Scanned'
            BY <2>2, <2>4, <3>1, <3>2, RomFrozen DEF Scanned
        <3> QED
            BY <3>1, <3>3 DEF PassInv
    <2>5. CASE /\ ~Ends(i) /\ i' = i + 1 /\ off' = off + SizeOf(i) /\ UNCHANGED phase
               /\ UNCHANGED <<rom, count, meta>>
        <3>1. off' = StartOf'[i']
            BY <1>0, <2>2, <2>5, Starts, RomFrozen
        <3>2. \A l \in 0..(i' - 1) : ~Ends(l)
            BY <1>0, <2>2, <2>5
        <3> QED
            BY <2>2, <2>5, <3>1, <3>2, RomFrozen DEF PassInv
    <2> QED
        BY <1>3, <2>1, <2>3, <2>4, <2>5 DEF SetupMaxIrqs, Ends, inputs
<1>4. CASE ConfigInfo
    <2>1. /\ phase = "info" /\ phase' = "blocks" /\ UNCHANGED <<rom, count, maxIrqs>>
          /\ FwnodeConfig(BlkMatch(rom.id, filter), rom.id)
          /\ i' = i + 1 /\ off' = off + SizeOf(i)
        BY <1>4 DEF ConfigInfo, Advance, inputs
    <2>2. i = 0 /\ off = 0 /\ meta.intr = None /\ Scanned /\ Shape
        BY <2>1 DEF FitInv, Room, Untouched, PassInv
    <2>3. meta'.intr = None
        BY <2>1, <2>2, MatchFewIrqs, ConfigIs
    <2>4. off' = StartOf'[i']
        BY <2>1, <2>2, Starts, RomFrozen
    <2>5. Passed(i)'
        BY <2>1, <2>2, <2>3 DEF Passed
    <2>6. Scanned'
        BY <2>1, <2>2, RomFrozen DEF Scanned
    <2> QED
        BY <2>1, <2>4, <2>5, <2>6 DEF PassInv
<1>5. CASE ConfigBlock
    <2>1. /\ phase = "blocks" /\ phase' = "blocks" /\ UNCHANGED <<rom, count, maxIrqs>>
          /\ i < count /\ Advance /\ rom.head[i].good /\ rom.head[i].id \notin {Intr, TailId}
          /\ FwnodeConfig(BlkMatch(rom.head[i].id, filter), rom.head[i].id)
        BY <1>5 DEF ConfigBlock, inputs
    <2>2. ~TailAt(i) /\ ~IsIntr(i, off)
        BY <2>1 DEF TailAt, IsIntr
    <2>3. meta'.intr = meta.intr
        BY <2>1, MatchFewIrqs, ConfigIs DEF FitInv
    <2> QED
        BY <2>1, <2>2, <2>3, PassesOn
<1>6. CASE SkipBad
    <2>1. /\ phase = "blocks" /\ phase' = "blocks" /\ UNCHANGED <<rom, count, maxIrqs, meta>>
          /\ i < count /\ Advance /\ ~rom.head[i].good /\ ~IsIntr(i, off)
        BY <1>6 DEF SkipBad, inputs
    <2>2. ~TailAt(i)
        BY <2>1 DEF TailAt
    <2> QED
        BY <2>1, <2>2, PassesOn
<1>7. CASE ConfigIntr
    <2>1. /\ phase = "blocks" /\ UNCHANGED <<rom, count, maxIrqs>> /\ i < count /\ IsIntr(i, off)
        BY <1>7 DEF ConfigIntr, inputs
    <2>2. ~TailAt(i)
        BY <2>1 DEF TailAt, IsIntr, Intr, TailId
    <2>3. CASE Len(meta.cells) >= Cells(count) /\ Advance /\ UNCHANGED <<phase, meta>>
        <3>1. ~Counted
            BY <1>0, <2>1, <2>3, LenIs DEF FitInv, Shape, Admitted, Room, Taken
        <3> QED
            BY <2>1, <2>2, <2>3, <3>1, PassesOn
    <2>4. CASE meta.intr # None /\ phase' = "BUG" /\ UNCHANGED <<i, off, meta>>
        <3>1. Cardinality(IntrBlocks) >= 2
            BY <2>1, <2>4, TwoIntrs
        <3>2. IntrBlocks' = IntrBlocks
            BY <2>1, RomFrozen DEF IntrBlocks, Before
        <3> QED
            BY <2>4, <3>1, <3>2 DEF PassInv
    <2>5. CASE /\ meta.intr = None /\ meta' = [meta EXCEPT !.intr = i, !.res = @ + 1]
               /\ Advance /\ UNCHANGED phase
        <3>1. meta'.intr = i
            BY <2>5 DEF FitInv, Shape
        <3> QED
            BY <2>1, <2>2, <2>5, <3>1, PassesOn
    <2> QED
        BY <1>7, <2>3, <2>4, <2>5 DEF ConfigIntr
<1>8. CASE ReadFails
    BY <1>1, <1>8 DEF ReadFails, Fail
<1>9. CASE AtTail
    <2>1. /\ phase = "blocks" /\ phase' = "ids" /\ UNCHANGED <<rom, count, maxIrqs, meta>>
          /\ i >= count \/ TailAt(i)
        BY <1>9 DEF AtTail, inputs, TailAt
    <2>2. Passed(i) /\ Scanned /\ i >= 1 /\ (i <= count \/ i = 1)
        BY <2>1 DEF PassInv, FitInv, Room
    <2>3. Stopped(i)
        BY <2>1, <2>2 DEF Stopped
    <2>4. \E e \in Nat : Stopped(e)'
        BY <1>0, <2>1, <2>3, PassFrozen
    <2>5. Scanned'
        BY <2>1, <2>2, PassFrozen
    <2> QED
        BY <2>1, <2>4, <2>5 DEF PassInv
<1>10. CASE AdjustIds
    <2>1. /\ phase = "ids" /\ phase' \in {"ids", "done"} /\ UNCHANGED <<rom, count, maxIrqs>>
          /\ meta'.intr = meta.intr
        BY <1>10 DEF AdjustIds, inputs, FitInv, Shape
    <2>2. PICK e \in Nat : Stopped(e)
        BY <2>1 DEF PassInv
    <2>3. Stopped(e)' /\ Scanned'
        BY <2>1, <2>2, PassFrozen DEF PassInv
    <2> QED
        BY <2>1, <2>3 DEF PassInv
<1>11. CASE UNCHANGED vars
    <2>1. UNCHANGED <<rom, count, maxIrqs, meta, phase, i, off>>
        BY <1>11 DEF vars
    <2>2. /\ \A e : Passed(e)' = Passed(e) /\ Stopped(e)' = Stopped(e)
          /\ Scanned' = Scanned
        BY <2>1, PassFrozen
    <2>3. IntrBlocks' = IntrBlocks
        BY <2>1, RomFrozen DEF IntrBlocks, Before
    <2>4. Passed(i)' = Passed(i)
        BY <2>1, RomFrozen DEF Passed
    <2> QED
        BY <2>1, <2>2, <2>3, <2>4, RomFrozen DEF PassInv
<1> QED
    BY <1>2, <1>3, <1>4, <1>5, <1>6, <1>7, <1>8, <1>9, <1>10, <1>11 DEF Next

LEMMA InitPassInv == Init => PassInv
BY Starts DEF Init, PassInv

\* What the two passes saw is the same, if every header before the tail answers.
LEMMA PassesAgree ==
    ASSUME FitInv, PassInv
    PROVE  IrqsAgree
<1>1. ASSUME phase = "done", Counted, \A k \in Before : rom.head[k].good
      PROVE  maxIrqs = IF meta.intr = None THEN 0 ELSE IrqLimit(rom.head[meta.intr])
    <2>1. count \in Nat /\ None \notin Nat /\ rom.head[0].id = Info /\ Scanned
        BY <1>1, MfdAssumption DEF FitInv, Shape, Admitted, PassInv
    <2>2. PICK e \in Nat : Stopped(e)
        BY <1>1 DEF PassInv
    <2>3. ASSUME NEW l \in 1..(e - 1) PROVE l \in Before /\ l < count /\ rom.head[l].good
        <3>1. l \in 1..(count - 1)
            BY <2>1, <2>2 DEF Stopped
        <3>2. \A k \in 1..l : ~TailAt(k)
            BY <2>2 DEF Stopped, Passed
        <3>3. l \in Before
            BY <3>1, <3>2 DEF Before, TailAt
        <3> QED
            BY <1>1, <2>1, <3>1, <3>3
    <2>4. \A l \in 1..(e - 1) : rom.head[l].id # TailId /\ (rom.head[l].id = Intr <=> meta.intr = l)
        BY <1>1, <2>2, <2>3 DEF Stopped, Passed, TailAt, IsIntr
    <2>5. e >= count \/ rom.head[e].id = TailId
        BY <2>2 DEF Stopped, TailAt
    <2>6. meta.intr = None \/ meta.intr \in 1..(e - 1)
        BY <2>2 DEF Stopped, Passed
    <2>7. CASE /\ maxIrqs = 0
               /\ \E s \in 0..count :
                     /\ s = count \/ rom.head[s].id = TailId
                     /\ \A l \in 0..(s - 1) : ~Ends(l)
        <3>1. PICK s \in 0..count : /\ s = count \/ rom.head[s].id = TailId
                                    /\ \A l \in 0..(s - 1) : ~Ends(l)
            BY <2>7
        <3>2. ASSUME meta.intr # None PROVE FALSE
            <4>1. PICK k \in 1..(e - 1) : meta.intr = k /\ rom.head[k].id = Intr /\ k < count
                BY <2>3, <2>4, <2>6, <3>2
            <4>2. ~(k \in 0..(s - 1))
                BY <3>1, <4>1 DEF Ends
            <4>3. s <= k /\ s # count /\ rom.head[s].id = TailId
                BY <2>1, <3>1, <4>1, <4>2
            <4>4. s # 0
                BY <2>1, <4>3 DEF Info, TailId
            <4>5. s \in 1..(e - 1)
                BY <2>1, <4>1, <4>3, <4>4
            <4> QED
                BY <2>4, <4>3, <4>5
        <3> QED
            BY <2>7, <3>2
    <2>8. CASE \E s \in 0..(count - 1) :
                  /\ rom.head[s].id = Intr
                  /\ maxIrqs = IrqLimit(rom.head[s])
                  /\ \A l \in 0..(s - 1) : ~Ends(l)
        <3>1. PICK s \in 0..(count - 1) :
                  /\ rom.head[s].id = Intr
                  /\ maxIrqs = IrqLimit(rom.head[s])
                  /\ \A l \in 0..(s - 1) : ~Ends(l)
            BY <2>8
        <3>2. s # 0
            BY <2>1, <3>1 DEF Info, Intr
        <3>3. s < e
            <4>1. CASE e >= count
                BY <2>1, <3>1, <4>1
            <4>2. CASE rom.head[e].id = TailId
                <5>1. e # s
                    BY <3>1, <4>2 DEF Intr, TailId
                <5>2. ~(e \in 0..(s - 1))
                    BY <3>1, <4>2 DEF Ends
                <5> QED
                    BY <2>1, <3>1, <5>1, <5>2
            <4> QED
                BY <2>5, <4>1, <4>2
        <3>4. s \in 1..(e - 1)
            BY <2>1, <3>2, <3>3
        <3>5. meta.intr = s
            BY <2>4, <3>1, <3>4
        <3> QED
            BY <2>1, <3>1, <3>4, <3>5
    <2> QED
        BY <2>1, <2>7, <2>8 DEF Scanned
<1> QED
    BY <1>1 DEF IrqsAgree, PassInv

\* The two passes over the headers agree about the interrupt block if every
\* header before the tail answers, and the machine is only stopped for a ROM
\* that has two of them.
THEOREM PassesAgreeOnIrqs == Spec => []IrqsAgree
<1>1. Init => FitInv /\ PassInv
    BY InitFitInv, InitPassInv
<1>2. FitInv /\ PassInv /\ [Next]_vars => FitInv' /\ PassInv'
    BY NextFitInv, NextPassInv
<1> QED
    BY <1>1, <1>2, PassesAgree, PTL DEF Spec

-----------------------------------------------------------------------------
(* The ids.  Of n cells the first j have been compared with all after them *)
(* by the loop; orig is what the cells were before it.                     *)

IsCell(c) == c = [name |-> c.name, suffix |-> c.suffix, id |-> c.id, start |-> c.start,
                  irqs |-> c.irqs]

Renumbered(c) == [c EXCEPT !.id = AutoId]

Twins(orig, c, d) == c # d /\ SameDevice(orig[c], orig[d])

Adjusted(orig, cells, n, j) ==
    /\ cells = [c \in 1..n |-> cells[c]]
    /\ \A c \in 1..n :
          /\ IsCell(orig[c])
          /\ \/ cells[c] = orig[c]
             \/ /\ cells[c] = Renumbered(orig[c])
                /\ \E d \in 1..n : Twins(orig, c, d) /\ (c <= j \/ d <= j)
          /\ \A d \in 1..n : c <= j /\ Twins(orig, c, d) =>
                cells[c].id = AutoId /\ cells[d].id = AutoId

LEMMA RenumberedIs ==
    ASSUME NEW c, IsCell(c)
    PROVE  /\ IsCell(Renumbered(c))
           /\ Renumbered(c).name = c.name /\ Renumbered(c).suffix = c.suffix
           /\ Renumbered(c).start = c.start /\ Renumbered(c).id = AutoId
           /\ c.id = AutoId => Renumbered(c) = c
<1>1. Renumbered(c) = [name |-> c.name, suffix |-> c.suffix, id |-> AutoId, start |-> c.start,
                       irqs |-> c.irqs]
    BY DEF IsCell, Renumbered
<1>2. c.id = AutoId => Renumbered(c) = c
    BY <1>1 DEF IsCell
<1> QED
    BY <1>1, <1>2 DEF IsCell

\* What the loop does with the cell at j + 1.
Alike(cells, n, j) ==
    LET dups == {k \in (j + 2)..n : SameDevice(cells[k], cells[j + 1])}
    IN IF dups = {} THEN {} ELSE dups \cup {j + 1}

Compared(cells, n, j) ==
    [k \in 1..n |-> IF k \in Alike(cells, n, j) THEN Renumbered(cells[k]) ELSE cells[k]]

LEMMA CompareOne ==
    ASSUME NEW n \in Nat, NEW j \in Nat, j < n, NEW orig, NEW cells,
           Adjusted(orig, cells, n, j)
    PROVE  Adjusted(orig, Compared(cells, n, j), n, j + 1)
<1> DEFINE a == j + 1
           new == Compared(cells, n, j)
           alike == Alike(cells, n, j)
<1>1. a \in 1..n /\ \A c \in 1..n : (c <= j + 1 <=> c <= j \/ c = a) /\ ~(a <= j)
    OBVIOUS
<1>2. ASSUME NEW c \in 1..n
      PROVE  /\ IsCell(orig[c]) /\ IsCell(cells[c])
             /\ cells[c].name = orig[c].name /\ cells[c].suffix = orig[c].suffix
             /\ cells[c] = orig[c] \/ (cells[c] = Renumbered(orig[c]) /\ cells[c].id = AutoId)
    BY RenumberedIs DEF Adjusted
<1>3. ASSUME NEW c \in 1..n
      PROVE  /\ c \in alike => /\ new[c] = Renumbered(cells[c]) /\ new[c].id = AutoId
                               /\ SameDevice(cells[c], cells[a])
             /\ c \notin alike => new[c] = cells[c]
             /\ cells[c].id = AutoId => new[c] = cells[c]
    <2>1. c \in alike => new[c] = Renumbered(cells[c])
        BY DEF Compared
    <2>2. c \notin alike => new[c] = cells[c]
        BY DEF Compared
    <2>3. c \in alike => SameDevice(cells[c], cells[a])
        BY DEF Alike, SameDevice
    <2> QED
        BY <1>2, <2>1, <2>2, <2>3, RenumberedIs
<1>4. \A c, d \in 1..n : Twins(orig, c, d) => Twins(orig, d, c)
    BY DEF Twins, SameDevice
<1>5. \A c, d, b \in 1..n : Twins(orig, c, d) /\ Twins(orig, d, b) /\ c # b => Twins(orig, c, b)
    BY DEF Twins, SameDevice
<1>6. CASE cells[a].id = AutoId
    <2>1. ASSUME NEW c \in 1..n PROVE new[c] = cells[c]
        <3>1. c \in alike => cells[c].id = AutoId
            BY <1>3, <1>6 DEF SameDevice
        <3> QED
            BY <1>3, <3>1
    <2>2. new = cells
        <3>1. new = [c \in 1..n |-> new[c]]
            BY DEF Compared
        <3>2. cells = [c \in 1..n |-> cells[c]]
            BY DEF Adjusted
        <3> HIDE DEF new
        <3> QED
            BY <2>1, <3>1, <3>2
    <2>3. ASSUME NEW d \in 1..n, Twins(orig, a, d)
          PROVE  cells[d].id = AutoId
        <3>1. CASE orig[a].id = AutoId
            BY <1>1, <1>2, <2>3, <3>1 DEF Twins, SameDevice
        <3>2. CASE orig[a].id # AutoId
            <4>1. cells[a] # orig[a]
                BY <1>6, <3>2
            <4>2. PICK b \in 1..n : Twins(orig, a, b) /\ b <= j
                BY <1>1, <4>1 DEF Adjusted
            <4>3. CASE b = d
                BY <1>1, <1>4, <4>2, <4>3 DEF Adjusted
            <4>4. CASE b # d
                <5>1. Twins(orig, b, d)
                    BY <1>1, <1>4, <1>5, <2>3, <4>2, <4>4
                <5> QED
                    BY <4>2, <5>1 DEF Adjusted
            <4> QED
                BY <4>3, <4>4
        <3> QED
            BY <3>1, <3>2
    <2>4. Adjusted(orig, cells, n, j + 1)
        BY <1>1, <1>6, <2>3 DEF Adjusted
    <2> HIDE DEF new
    <2> QED
        BY <2>2, <2>4 DEF new
<1>7. CASE cells[a].id # AutoId
    <2>1. cells[a] = orig[a]
        BY <1>1, <1>2, <1>7
    <2>2. ASSUME NEW c \in 1..n, Twins(orig, a, c)
          PROVE  c > a /\ cells[c] = orig[c]
        <3>1. ~(c <= j)
            BY <1>1, <1>4, <1>7, <2>2 DEF Adjusted
        <3>2. c > a
            BY <1>1, <2>2, <3>1 DEF Twins
        <3>3. ASSUME cells[c] # orig[c] PROVE FALSE
            <4>1. PICK d \in 1..n : Twins(orig, c, d) /\ d <= j
                BY <3>1, <3>3 DEF Adjusted
            <4>2. d # a
                BY <1>1, <4>1
            <4>3. Twins(orig, d, a)
                BY <1>1, <1>4, <1>5, <2>2, <4>1, <4>2
            <4> QED
                BY <1>1, <1>7, <4>1, <4>3 DEF Adjusted
        <3> QED
            BY <3>2, <3>3
    <2>3. ASSUME NEW c \in 1..n, Twins(orig, a, c)
          PROVE  c \in alike /\ a \in alike
        <3>1. c \in (j + 2)..n
            BY <2>2, <2>3
        <3>2. SameDevice(cells[c], cells[a])
            BY <2>1, <2>2, <2>3 DEF Twins, SameDevice
        <3> QED
            BY <3>1, <3>2 DEF Alike
    <2>4. ASSUME NEW c \in alike
          PROVE  /\ c \in 1..n /\ cells[c] = orig[c]
                 /\ \E d \in 1..n : Twins(orig, c, d) /\ (c <= j + 1 \/ d <= j + 1)
        <3>1. ASSUME NEW k \in (j + 2)..n, SameDevice(cells[k], cells[a])
              PROVE  k \in 1..n /\ k # a /\ cells[k] = orig[k] /\ Twins(orig, k, a)
            <4>1. k \in 1..n /\ k # a
                OBVIOUS
            <4>2. cells[k].id # AutoId
                BY <1>7, <3>1 DEF SameDevice
            <4>3. cells[k] = orig[k]
                BY <1>2, <4>1, <4>2
            <4> QED
                BY <2>1, <3>1, <4>1, <4>3 DEF Twins
        <3>2. CASE c = a
            <4>1. PICK k \in (j + 2)..n : SameDevice(cells[k], cells[a])
                BY <2>4, <3>2 DEF Alike
            <4>2. k \in 1..n /\ Twins(orig, a, k)
                BY <1>1, <1>4, <3>1, <4>1
            <4> QED
                BY <1>1, <2>1, <3>2, <4>2
        <3>3. CASE c # a
            <4>1. c \in (j + 2)..n /\ SameDevice(cells[c], cells[a])
                BY <2>4, <3>3 DEF Alike
            <4>2. c \in 1..n /\ cells[c] = orig[c] /\ Twins(orig, c, a)
                BY <3>1, <4>1
            <4> QED
                BY <1>1, <4>2
        <3> QED
            BY <3>2, <3>3
    <2>5. new = [c \in 1..n |-> new[c]]
        BY DEF Compared
    <2> HIDE DEF new, alike
    <2>6. ASSUME NEW c \in 1..n
          PROVE  \/ new[c] = orig[c]
                 \/ /\ new[c] = Renumbered(orig[c])
                    /\ \E d \in 1..n : Twins(orig, c, d) /\ (c <= j + 1 \/ d <= j + 1)
        <3>1. CASE c \in alike
            BY <1>3, <2>4, <3>1
        <3>2. CASE c \notin alike
            <4>1. new[c] = cells[c]
                BY <1>3, <3>2
            <4>2. CASE cells[c] = orig[c]
                BY <4>1, <4>2
            <4>3. CASE cells[c] # orig[c]
                <5>1. PICK d \in 1..n : Twins(orig, c, d) /\ (c <= j \/ d <= j)
                    BY <4>3 DEF Adjusted
                <5>2. cells[c] = Renumbered(orig[c])
                    BY <4>3 DEF Adjusted
                <5> QED
                    BY <1>1, <4>1, <5>1, <5>2
            <4> QED
                BY <4>2, <4>3
        <3> QED
            BY <3>1, <3>2
    <2>7. ASSUME NEW c \in 1..n, NEW d \in 1..n, c <= j + 1, Twins(orig, c, d)
          PROVE  new[c].id = AutoId /\ new[d].id = AutoId
        <3>1. CASE c = a
            BY <1>3, <2>3, <2>7, <3>1
        <3>2. CASE c # a
            <4>1. c <= j
                BY <1>1, <2>7, <3>2
            <4>2. cells[c].id = AutoId /\ cells[d].id = AutoId
                BY <2>7, <4>1 DEF Adjusted
            <4> QED
                BY <1>3, <4>2
        <3> QED
            BY <3>1, <3>2
    <2>8. Adjusted(orig, new, n, j + 1)
        BY <1>2, <2>5, <2>6, <2>7 DEF Adjusted
    <2> QED
        BY <2>8 DEF new
<1> QED
    BY <1>6, <1>7

-----------------------------------------------------------------------------
(* The cells.  src is the block that each of n cells stands for: all those *)
(* of K, in order.                                                         *)

Match(src, n, K) ==
    /\ src \in [1..n -> K]
    /\ \A k \in K : \E c \in 1..n : src[c] = k
    /\ \A c, d \in 1..n : c < d => src[c] < src[d]

KeptBefore(e) == {k \in Kept : k < e}

Devices(src, n) == [c \in 1..n |-> Device(src[c])]

CellsInv ==
    /\ phase = "blocks" /\ Counted =>
          \E src : /\ Match(src, Len(meta.cells), KeptBefore(i))
                   /\ meta.cells = Devices(src, Len(meta.cells))
    /\ phase \in {"ids", "done"} /\ Counted =>
          \E src : /\ Match(src, Len(meta.cells), Kept)
                   /\ Adjusted(Devices(src, Len(meta.cells)), meta.cells, Len(meta.cells), i)
    /\ phase = "done" => i >= Len(meta.cells)

-----------------------------------------------------------------------------
ChildAtIn(ch, a) ==
    LET hits == {k \in DOMAIN ch : ch[k].adr = a}
    IN IF hits = {} THEN None ELSE CHOOSE k \in hits : \A l \in hits : k <= l

LEMMA ChildAtIs ==
    /\ \A a : ChildAt(a) = ChildAtIn(child, a)
    /\ \A a : ChildAt(a)' = ChildAtIn(child', a)
BY DEF ChildAt, ChildAtIn

LEMMA DeviceFrozen ==
    ASSUME UNCHANGED <<inputs, count>>
    PROVE  /\ Kept' = Kept /\ \A e : KeptBefore(e)' = KeptBefore(e)
           /\ maxIrqs' = maxIrqs =>
                /\ \A k : Device(k)' = Device(k)
                /\ \A src, n : Devices(src, n)' = Devices(src, n)
<1>1. rom' = rom /\ filter' = filter /\ child' = child /\ count' = count
    BY DEF inputs
<1>2. \A a : ChildAt(a)' = ChildAt(a)
    BY <1>1, ChildAtIs
<1>3. \A a, id : Ignored(a, id)' = Ignored(a, id)
    BY <1>1, <1>2 DEF Ignored
<1>4. Before' = Before
    BY <1>1 DEF Before
<1>5. Kept' = Kept
    BY <1>1, <1>3, <1>4, RomFrozen DEF Kept
<1>6. ASSUME maxIrqs' = maxIrqs, NEW k PROVE Device(k)' = Device(k)
    <2>1. \A blk, a, id : CellOf(blk, a, id)' = CellOf(blk, a, id)
        BY <1>1, <1>2, <1>6 DEF CellOf
    <2> QED
        BY <1>1, <2>1, RomFrozen DEF Device
<1>7. ASSUME maxIrqs' = maxIrqs, NEW src, NEW n PROVE Devices(src, n)' = Devices(src, n)
    BY <1>6, <1>7 DEF Devices
<1> QED
    BY <1>5, <1>6, <1>7 DEF KeptBefore

LEMMA KeptAreNumbers == Kept \subseteq Nat
<1>1. Before \subseteq Nat
    BY DEF Before
<1> QED
    BY <1>1 DEF Kept

\* Block i is kept just when _fwnode_config makes a cell of it.
LEMMA KeptNow ==
    ASSUME FitInv, PassInv, phase = "blocks", i < count, ~TailAt(i)
    PROVE  i \in Kept <=> /\ rom.head[i].good /\ rom.head[i].id # Intr
                          /\ BlkMatch(rom.head[i].id, filter).name # None
                          /\ ~Ignored(off, rom.head[i].id)
<1>1. Passed(i) /\ off = StartOf[i] /\ i \in Nat /\ i >= 1
    BY DEF PassInv, FitInv, Shape, Room
<1>2. i \in Before
    BY <1>1, BeforeTail
<1> QED
    BY <1>1, <1>2 DEF Kept

LEMMA GrowMatch ==
    ASSUME NEW n \in Nat, NEW e \in Nat, NEW K, K \subseteq Nat, \A k \in K : k < e,
           NEW src, Match(src, n, K)
    PROVE  Match([c \in 1..(n + 1) |-> IF c = n + 1 THEN e ELSE src[c]], n + 1, K \cup {e})
<1> DEFINE new == [c \in 1..(n + 1) |-> IF c = n + 1 THEN e ELSE src[c]]
<1>1. \A c \in 1..(n + 1) : c = n + 1 \/ c \in 1..n
    OBVIOUS
<1>2. \A c \in 1..n : new[c] = src[c] /\ src[c] \in K /\ c \in 1..(n + 1)
    BY DEF Match
<1>3. new[n + 1] = e /\ n + 1 \in 1..(n + 1)
    OBVIOUS
<1>4. new \in [1..(n + 1) -> K \cup {e}]
    BY <1>1, <1>2
<1> HIDE DEF new
<1>5. \A k \in K \cup {e} : \E c \in 1..(n + 1) : new[c] = k
    BY <1>2, <1>3 DEF Match
<1>6. ASSUME NEW c \in 1..(n + 1), NEW d \in 1..(n + 1), c < d PROVE new[c] < new[d]
    <2>1. c \in 1..n
        BY <1>6
    <2>2. CASE d = n + 1
        BY <1>2, <1>3, <2>1, <2>2
    <2>3. CASE d \in 1..n
        BY <1>2, <1>6, <2>1, <2>3 DEF Match
    <2> QED
        BY <1>1, <2>2, <2>3
<1>7. Match(new, n + 1, K \cup {e})
    BY <1>4, <1>5, <1>6 DEF Match
<1> QED
    BY <1>7 DEF new

LEMMA GrowCells ==
    ASSUME NEW cells, IsSeq(cells), NEW src, cells = Devices(src, Len(cells)), NEW e
    PROVE  Append(cells, Device(e)) =
               Devices([c \in 1..(Len(cells) + 1) |-> IF c = Len(cells) + 1 THEN e ELSE src[c]],
                       Len(cells) + 1)
<1> DEFINE n == Len(cells)
           new == [c \in 1..(n + 1) |-> IF c = n + 1 THEN e ELSE src[c]]
           more == Append(cells, Device(e))
<1>1. n \in Nat /\ Len(more) = n + 1 /\ more[n + 1] = Device(e) /\ IsSeq(more)
      /\ \A k \in 1..n : more[k] = cells[k]
    BY AppendIs
<1>2. more = [c \in 1..(n + 1) |-> more[c]]
    <2>1. PICK S : more \in Seq(S)
        BY <1>1 DEF IsSeq
    <2> HIDE DEF more
    <2> QED
        BY <1>1, <2>1
<1> HIDE DEF more
<1>3. ASSUME NEW c \in 1..(n + 1) PROVE more[c] = Device(new[c])
    <2>1. CASE c = n + 1
        BY <1>1, <2>1
    <2>2. CASE c # n + 1
        <3>1. c \in 1..n
            BY <1>1, <2>2
        <3>2. cells[c] = Device(src[c])
            BY <3>1 DEF Devices
        <3>3. new[c] = src[c]
            BY <2>2
        <3> HIDE DEF new, n
        <3> QED
            BY <1>1, <3>1, <3>2, <3>3
    <2> QED
        BY <2>1, <2>2
<1>4. Devices(new, n + 1) = [c \in 1..(n + 1) |-> Device(new[c])]
    BY DEF Devices
<1>5. more = Devices(new, n + 1)
    <2> HIDE DEF new, n
    <2> QED
        BY <1>2, <1>3, <1>4
<1> QED
    BY <1>5 DEF more

Built == \E src : /\ Match(src, Len(meta.cells), KeptBefore(i))
                  /\ meta.cells = Devices(src, Len(meta.cells))

LEMMA BuiltOn ==
    ASSUME FitInv, Built, UNCHANGED <<inputs, count, maxIrqs>>, i' = i + 1,
           \/ meta'.cells = meta.cells /\ i \notin Kept
           \/ meta'.cells = Append(meta.cells, Device(i)) /\ i \in Kept
    PROVE  Built'
<1> DEFINE n == Len(meta.cells)
<1>1. i \in Nat /\ IsSeq(meta.cells) /\ n \in Nat
    BY LenIs DEF FitInv, Shape
<1>2. PICK src : Match(src, n, KeptBefore(i)) /\ meta.cells = Devices(src, n)
    BY DEF Built
<1>3. /\ KeptBefore(i') = IF i \in Kept THEN KeptBefore(i) \cup {i} ELSE KeptBefore(i)
      /\ KeptBefore(i) \subseteq Nat
    <2>1. \A k \in Kept : k \in Nat /\ (k < i + 1 <=> k < i \/ k = i)
        BY <1>1, KeptAreNumbers
    <2> QED
        BY <2>1 DEF KeptBefore
<1>4. KeptBefore(i)' = KeptBefore(i')
    BY DeviceFrozen
<1>5. \A s, m : Devices(s, m)' = Devices(s, m)
    BY DeviceFrozen
<1>6. CASE meta'.cells = meta.cells /\ i \notin Kept
    <2>1. Match(src, Len(meta'.cells), KeptBefore(i)') /\ meta'.cells = Devices(src, n)'
        BY <1>2, <1>3, <1>4, <1>5, <1>6
    <2> QED
        BY <1>6, <2>1 DEF Built
<1>7. CASE meta'.cells = Append(meta.cells, Device(i)) /\ i \in Kept
    <2> DEFINE new == [c \in 1..(n + 1) |-> IF c = n + 1 THEN i ELSE src[c]]
    <2>1. Len(meta'.cells) = n + 1
        BY <1>1, <1>7, AppendIs
    <2>2. Match(new, n + 1, KeptBefore(i) \cup {i})
        <3>1. \A k \in KeptBefore(i) : k < i
            BY DEF KeptBefore
        <3> HIDE DEF n
        <3> QED
            BY <1>1, <1>2, <1>3, <3>1, GrowMatch
    <2>3. meta'.cells = Devices(new, n + 1)
        BY <1>1, <1>2, <1>7, GrowCells
    <2> HIDE DEF new, n
    <2>4. KeptBefore(i)' = KeptBefore(i) \cup {i}
        BY <1>3, <1>4, <1>7
    <2>5. PICK s, m : s = new /\ m = n + 1
        OBVIOUS
    <2>6. m = Len(meta'.cells) /\ Match(s, m, KeptBefore(i)')
        BY <2>1, <2>2, <2>4, <2>5
    <2>7. meta'.cells = Devices(s, m)'
        BY <1>5, <2>3, <2>5
    <2> QED
        BY <2>6, <2>7 DEF Built
<1> QED
    BY <1>6, <1>7

LEMMA InitBuilt ==
    ASSUME FitInv, phase = "info"
    PROVE  Built
<1>1. meta.cells = <<>> /\ i = 0 /\ Len(meta.cells) = 0
    BY DEF FitInv, Room, Untouched
<1>2. KeptBefore(0) = {}
    <2>1. \A k \in Kept : ~(k < 0)
        BY KeptAreNumbers
    <2> QED
        BY <2>1 DEF KeptBefore
<1> DEFINE src == [c \in 1..0 |-> 0]
<1>3. Match(src, 0, {})
    BY DEF Match
<1>4. meta.cells = Devices(src, 0)
    BY <1>1 DEF Devices
<1> QED
    BY <1>1, <1>2, <1>3, <1>4 DEF Built

\* At the tail every block that is kept has been built.
LEMMA AllKept ==
    ASSUME NEW e \in Nat, Stopped(e), count \in Nat
    PROVE  KeptBefore(e) = Kept
<1>1. ASSUME NEW k \in Kept PROVE k < e
    <2>1. k = 0 \/ (k \in 1..(count - 1) /\ \A l \in 1..k : ~TailAt(l))
        BY DEF Kept, Before, TailAt
    <2>2. e >= 1 /\ (e >= count \/ TailAt(e))
        BY DEF Stopped
    <2>3. CASE k = 0
        BY <2>2, <2>3
    <2>4. CASE k \in 1..(count - 1) /\ \A l \in 1..k : ~TailAt(l)
        <3>1. ASSUME e <= k PROVE FALSE
            <4>1. e \in 1..k /\ ~(e >= count)
                BY <2>2, <2>4, <3>1
            <4> QED
                BY <2>2, <2>4, <4>1
        <3> QED
            BY <2>4, <3>1
    <2> QED
        BY <2>1, <2>3, <2>4
<1> QED
    BY <1>1 DEF KeptBefore

\* Before the ids are compared every cell is as it was built.
LEMMA InitAdjusted ==
    ASSUME NEW src, NEW n \in Nat
    PROVE  Adjusted(Devices(src, n), Devices(src, n), n, 0)
<1>1. \A k : IsCell(Device(k))
    BY DEF Device, CellOf, IsCell
<1>2. \A c \in 1..n : IsCell(Devices(src, n)[c])
    BY <1>1 DEF Devices
<1>3. Devices(src, n) = [c \in 1..n |-> Devices(src, n)[c]]
    BY DEF Devices
<1> QED
    BY <1>2, <1>3 DEF Adjusted

LEMMA ConfigCells ==
    ASSUME FitInv, NEW blk, FewIrqs(blk), NEW id, FwnodeConfig(blk, id), Counted,
           phase \in {"info", "blocks"}, phase = "blocks" => i < count
    PROVE  IF blk.name # None /\ ~Ignored(off, id)
           THEN meta'.cells = Append(meta.cells, CellOf(blk, off, id))
           ELSE meta'.cells = meta.cells
<1>1. Cells(count) = count + 1 /\ Len(meta.cells) \in Nat /\ count \in Nat /\ i \in Nat
    BY LenIs DEF FitInv, Shape, Admitted
<1>2. Len(meta.cells) < Cells(count)
    <2>1. CASE phase = "info"
        <3>1. Len(meta.cells) = 0
            BY <2>1 DEF FitInv, Room, Untouched
        <3> QED
            BY <1>1, <3>1
    <2>2. CASE phase = "blocks"
        <3>1. Len(meta.cells) + Taken <= i /\ Taken \in {0, 1}
            BY <2>2 DEF FitInv, Room, Taken
        <3> QED
            BY <1>1, <2>2, <3>1
    <2> QED
        BY <2>1, <2>2
<1>3. CASE /\ meta' = meta
           /\ Len(meta.cells) >= Cells(count) \/ blk.name = None \/ Ignored(off, id)
    BY <1>1, <1>2, <1>3
<1>4. CASE /\ blk.name # None /\ ~Ignored(off, id)
           /\ \E r \in Nat, m \in Nat :
                 meta' = [cells |-> Append(meta.cells, CellOf(blk, off, id)),
                          intr |-> meta.intr, res |-> r, names |-> m]
    BY <1>4
<1> QED
    BY <1>3, <1>4, ConfigIs DEF FitInv

LEMMA NextCellsInv ==
    ASSUME FitInv, PassInv, CellsInv, [Next]_vars
    PROVE  CellsInv'
<1>0. i \in Nat /\ count \in Nat /\ Len(meta.cells) \in Nat /\ IsSeq(meta.cells)
      /\ DOMAIN meta.cells = 1..Len(meta.cells)
    BY LenIs DEF FitInv, Shape
<1>1. ASSUME phase' \notin {"blocks", "ids", "done"} PROVE CellsInv'
    BY <1>1 DEF CellsInv
<1>2. phase = "blocks" /\ Counted => Built
    BY DEF CellsInv, Built
<1>3. phase' = "blocks" /\ (Counted' => Built') => CellsInv'
    BY DEF CellsInv, Built
<1>4. CASE Open
    BY <1>1, <1>4 DEF Open, Fail
<1>5. CASE SetupMaxIrqs
    BY <1>1, <1>5 DEF SetupMaxIrqs, Configured, Fail, CellsInv
<1>6. CASE ConfigInfo
    <2>1. /\ phase = "info" /\ phase' = "blocks" /\ UNCHANGED <<inputs, count, maxIrqs>>
          /\ FwnodeConfig(BlkMatch(rom.id, filter), rom.id) /\ i' = i + 1
        BY <1>6 DEF ConfigInfo, Advance
    <2>2. i = 0 /\ off = 0 /\ off = StartOf[0]
        BY <2>1, Starts DEF FitInv, Room, PassInv
    <2>3. rom.head[0].good /\ rom.head[0].id = rom.id /\ rom.id # Intr
        BY <2>1, MfdAssumption DEF FitInv, Shape, Admitted, Info, Intr
    <2>4. 0 \in Kept <=> BlkMatch(rom.id, filter).name # None /\ ~Ignored(off, rom.id)
        BY <2>2, <2>3 DEF Kept, Before
    <2>5. Device(0) = CellOf(BlkMatch(rom.id, filter), off, rom.id)
        BY <2>2, <2>3 DEF Device
    <2>6. ASSUME Counted PROVE Built'
        <3>1. IF 0 \in Kept THEN meta'.cells = Append(meta.cells, Device(0))
                            ELSE meta'.cells = meta.cells
            BY <2>1, <2>4, <2>5, <2>6, MatchFewIrqs, ConfigCells
        <3> QED
            BY <2>1, <2>2, <3>1, InitBuilt, BuiltOn
    <2> QED
        BY <1>3, <2>1, <2>6, RomFrozen DEF inputs
<1>7. CASE ConfigBlock
    <2>1. /\ phase = "blocks" /\ phase' = "blocks" /\ UNCHANGED <<inputs, count, maxIrqs>>
          /\ FwnodeConfig(BlkMatch(rom.head[i].id, filter), rom.head[i].id) /\ i' = i + 1
          /\ i < count /\ rom.head[i].good /\ rom.head[i].id \notin {Intr, TailId}
        BY <1>7 DEF ConfigBlock, Advance
    <2>2. ~TailAt(i) /\ off = StartOf[i]
        BY <2>1 DEF TailAt, PassInv
    <2>3. i \in Kept <=> /\ BlkMatch(rom.head[i].id, filter).name # None
                         /\ ~Ignored(off, rom.head[i].id)
        BY <2>1, <2>2, KeptNow
    <2>4. Device(i) = CellOf(BlkMatch(rom.head[i].id, filter), off, rom.head[i].id)
        BY <2>2 DEF Device
    <2>5. ASSUME Counted PROVE Built'
        <3>1. IF i \in Kept THEN meta'.cells = Append(meta.cells, Device(i))
                            ELSE meta'.cells = meta.cells
            BY <2>1, <2>3, <2>4, <2>5, MatchFewIrqs, ConfigCells
        <3> QED
            BY <1>2, <2>1, <2>5, <3>1, BuiltOn
    <2> QED
        BY <1>3, <2>1, <2>5, RomFrozen DEF inputs
<1>8. ASSUME phase = "blocks", phase' = "blocks", UNCHANGED <<inputs, count, maxIrqs>>,
             i' = i + 1, i < count, meta'.cells = meta.cells, ~TailAt(i),
             rom.head[i].good => rom.head[i].id = Intr
      PROVE  CellsInv'
    <2>1. i \notin Kept
        BY <1>8, KeptNow
    <2>2. Counted => Built'
        BY <1>2, <1>8, <2>1, BuiltOn
    <2> QED
        BY <1>3, <1>8, <2>2, RomFrozen DEF inputs
<1>9. CASE SkipBad
    BY <1>8, <1>9 DEF SkipBad, Advance, TailAt
<1>10. CASE ConfigIntr
    <2>1. CASE phase' = "BUG"
        BY <1>1, <2>1
    <2>2. CASE phase' # "BUG"
        <3>1. /\ phase = "blocks" /\ phase' = "blocks" /\ UNCHANGED <<inputs, count, maxIrqs>>
              /\ i' = i + 1 /\ i < count /\ IsIntr(i, off)
            BY <1>10, <2>2 DEF ConfigIntr, Advance
        <3>2. meta'.cells = meta.cells
            BY <1>10, <2>2 DEF ConfigIntr, FitInv, Shape
        <3>3. ~TailAt(i) /\ (rom.head[i].good => rom.head[i].id = Intr)
            BY <3>1 DEF IsIntr, TailAt, Intr, TailId
        <3> QED
            BY <1>8, <3>1, <3>2, <3>3
    <2> QED
        BY <2>1, <2>2
<1>11. CASE ReadFails
    BY <1>1, <1>11 DEF ReadFails, Fail
<1>12. CASE AtTail
    <2>1. /\ phase = "blocks" /\ phase' = "ids" /\ UNCHANGED <<inputs, count, maxIrqs, meta>>
          /\ i' = 0 /\ (i >= count \/ TailAt(i))
        BY <1>12 DEF AtTail, TailAt
    <2>2. Stopped(i)
        BY <2>1 DEF PassInv, FitInv, Room, Stopped
    <2>3. KeptBefore(i) = Kept
        BY <1>0, <2>2, AllKept
    <2>4. Counted' = Counted /\ Kept' = Kept /\ \A s, m : Devices(s, m)' = Devices(s, m)
        BY <2>1, DeviceFrozen, RomFrozen DEF inputs
    <2>5. ASSUME Counted
          PROVE  \E src : /\ Match(src, Len(meta.cells), Kept)
                          /\ Adjusted(Devices(src, Len(meta.cells)), meta.cells, Len(meta.cells), 0)
        <3>1. PICK src : /\ Match(src, Len(meta.cells), Kept)
                         /\ meta.cells = Devices(src, Len(meta.cells))
            BY <1>2, <2>1, <2>3, <2>5 DEF Built
        <3>2. Adjusted(Devices(src, Len(meta.cells)), Devices(src, Len(meta.cells)),
                       Len(meta.cells), 0)
            BY <1>0, InitAdjusted
        <3> QED
            BY <3>1, <3>2
    <2> QED
        BY <2>1, <2>4, <2>5 DEF CellsInv
<1>13. CASE AdjustIds
    <2> DEFINE n == Len(meta.cells)
    <2>1. /\ phase = "ids" /\ UNCHANGED <<inputs, count, maxIrqs>>
        BY <1>13 DEF AdjustIds
    <2>2. Counted' = Counted /\ Kept' = Kept /\ \A s, m : Devices(s, m)' = Devices(s, m)
        BY <2>1, DeviceFrozen, RomFrozen DEF inputs
    <2>3. CASE i >= Len(meta.cells)
        <3>1. phase' = "done" /\ UNCHANGED <<i, meta>>
            BY <1>13, <2>3 DEF AdjustIds
        <3> QED
            BY <2>1, <2>2, <2>3, <3>1 DEF CellsInv
    <2>4. CASE ~(i >= Len(meta.cells))
        <3>1. phase' = "ids" /\ i' = i + 1 /\ meta'.cells = Compared(meta.cells, n, i)
            BY <1>0, <1>13, <2>4 DEF AdjustIds, Compared, Alike, Renumbered, FitInv, Shape
        <3>2. Len(meta'.cells) = n
            <4>1. meta'.cells = [k \in DOMAIN meta.cells |-> meta'.cells[k]]
                BY <1>0, <3>1 DEF Compared
            <4> QED
                BY <1>0, <4>1, SameLength
        <3>3. ASSUME Counted
              PROVE  \E src : Match(src, n, Kept) /\ Adjusted(Devices(src, n), meta'.cells, n, i + 1)
            <4>1. PICK src : Match(src, n, Kept) /\ Adjusted(Devices(src, n), meta.cells, n, i)
                BY <2>1, <3>3 DEF CellsInv
            <4>2. i < n
                BY <1>0, <2>4
            <4>3. Adjusted(Devices(src, n), Compared(meta.cells, n, i), n, i + 1)
                <5> HIDE DEF n
                <5> QED
                    BY <1>0, <4>1, <4>2, CompareOne DEF n
            <4> QED
                BY <3>1, <4>1, <4>3
        <3> QED
            BY <2>2, <3>1, <3>2, <3>3 DEF CellsInv
    <2> QED
        BY <2>3, <2>4
<1>14. CASE UNCHANGED vars
    <2>1. UNCHANGED <<inputs, count, maxIrqs, meta, phase, i, off>>
        BY <1>14 DEF vars, inputs
    <2>2. /\ Counted' = Counted /\ Kept' = Kept /\ \A s, m : Devices(s, m)' = Devices(s, m)
          /\ \A e : KeptBefore(e)' = KeptBefore(e)
        BY <2>1, DeviceFrozen, RomFrozen DEF inputs
    <2>3. KeptBefore(i)' = KeptBefore(i)
        BY <2>1, <2>2
    <2> QED
        BY <2>1, <2>2, <2>3 DEF CellsInv
<1> QED
    BY <1>4, <1>5, <1>6, <1>7, <1>9, <1>10, <1>11, <1>12, <1>13, <1>14 DEF Next

-----------------------------------------------------------------------------
\* Blocks are where their numbers say, one after another.
LEMMA StartsGrow ==
    ASSUME rom \in Roms, ~(rom.maj < 6)
    PROVE  \A l \in Nat : l <= TableSize =>
               StartOf[l] \in Nat /\ \A k \in 0..(l - 1) : StartOf[k] < StartOf[l]
<1> DEFINE P == {l \in Nat : l <= TableSize =>
                    StartOf[l] \in Nat /\ \A k \in 0..(l - 1) : StartOf[k] \in Nat /\ StartOf[k] < StartOf[l]}
<1>1. 0 \in P
    BY Starts
<1>2. ASSUME NEW l \in P PROVE l + 1 \in P
    <2> SUFFICES ASSUME l + 1 <= TableSize
                 PROVE  /\ StartOf[l + 1] \in Nat
                        /\ \A k \in 0..((l + 1) - 1) :
                              StartOf[k] \in Nat /\ StartOf[k] < StartOf[l + 1]
        OBVIOUS
    <2>1. TableSize \in Nat
        BY MfdAssumption
    <2>2. l \in 0..(TableSize - 1) /\ l \in Nat /\ l <= TableSize
        BY <2>1
    <2>3. SizeOf(l) \in Nat /\ SizeOf(l) > 0
        BY <2>2, MfdAssumption DEF SizeOf
    <2>4. StartOf[l + 1] = StartOf[l] + SizeOf(l)
        BY <2>2, Starts
    <2>5. StartOf[l] \in Nat /\ \A k \in 0..(l - 1) :
                                       StartOf[k] \in Nat /\ StartOf[k] < StartOf[l]
        BY <2>2
    <2>6. ASSUME NEW k \in 0..((l + 1) - 1) 
          PROVE  StartOf[k] \in Nat /\ StartOf[k] < StartOf[l + 1]
        <3>1. CASE k = l
            BY <2>3, <2>4, <2>5, <3>1
        <3>2. CASE k # l
            <4>1. k \in 0..(l - 1) /\ k \in Nat /\ k <= TableSize
                BY <2>1, <2>2, <3>2
            <4>2. StartOf[k] \in Nat /\ StartOf[k] < StartOf[l]
                BY <2>5, <4>1
            <4> QED
                BY <2>3, <2>4, <2>5, <4>2
        <3> QED
            BY <3>1, <3>2
    <2> QED
        BY <2>3, <2>4, <2>5, <2>6
<1> HIDE DEF P
<1>3. P = Nat
    BY <1>1, <1>2, SetInduction DEF P
<1> QED
    BY <1>3 DEF P

LEMMA CellsFromInv ==
    ASSUME FitInv, PassInv, CellsInv
    PROVE  CellsMatch
<1> SUFFICES ASSUME phase = "done", Counted
             PROVE  /\ {meta.cells[c] : c \in DOMAIN meta.cells} = {Wanted(k) : k \in Kept}
                    /\ \A c, d \in DOMAIN meta.cells :
                          c < d => meta.cells[c].start < meta.cells[d].start
    BY DEF CellsMatch
<1> DEFINE n == Len(meta.cells)
<1>1. n \in Nat /\ DOMAIN meta.cells = 1..n /\ i \in Nat /\ i >= n /\ count \in Nat
      /\ rom \in Roms /\ ~(rom.maj < 6) /\ count + 1 < TableSize /\ TableSize \in Nat
    BY LenIs, MfdAssumption DEF FitInv, Shape, Admitted, CellsInv
<1>2. PICK src : Match(src, n, Kept) /\ Adjusted(Devices(src, n), meta.cells, n, i)
    BY DEF CellsInv
<1> DEFINE orig == Devices(src, n)
           cells == meta.cells
<1> HIDE DEF n
<1>3. ASSUME NEW c \in 1..n
      PROVE  /\ orig[c] = Device(src[c]) /\ src[c] \in Kept /\ IsCell(orig[c])
             /\ cells[c] = orig[c] \/ cells[c] = Renumbered(orig[c])
             /\ cells[c] # orig[c] => \E d \in 1..n : Twins(orig, c, d)
             /\ \A d \in 1..n : Twins(orig, c, d) => cells[c].id = AutoId
             /\ cells[c].start = StartOf[src[c]]
    <2>1. orig[c] = Device(src[c]) /\ src[c] \in Kept
        BY <1>2 DEF Devices, Match
    <2>2. /\ IsCell(orig[c])
          /\ cells[c] = orig[c] \/ cells[c] = Renumbered(orig[c])
          /\ cells[c] # orig[c] => \E d \in 1..n : Twins(orig, c, d)
        BY <1>2 DEF Adjusted
    <2>3. c <= i
        BY <1>1
    <2>4. \A d \in 1..n : Twins(orig, c, d) => cells[c].id = AutoId
        BY <1>2, <2>3 DEF Adjusted
    <2>5. orig[c].start = StartOf[src[c]]
        BY <2>1 DEF Device, CellOf
    <2>6. cells[c].start = orig[c].start
        BY <2>2, RenumberedIs
    <2> QED
        BY <2>1, <2>2, <2>4, <2>5, <2>6
<1>4. ASSUME NEW c \in 1..n, NEW d \in 1..n
      PROVE  c # d => src[c] # src[d]
    <2>1. \A k \in Kept : ~(k < k)
        BY KeptAreNumbers
    <2>2. c < d \/ d < c \/ c = d
        BY <1>1
    <2> QED
        BY <1>2, <1>3, <2>1, <2>2 DEF Match
<1>5. ASSUME NEW c \in 1..n PROVE cells[c] = Wanted(src[c])
    <2>1. (\E l \in Kept \ {src[c]} : SameDevice(Device(l), Device(src[c])))
             <=> \E d \in 1..n : Twins(orig, c, d)
        <3>1. ASSUME NEW l \in Kept \ {src[c]}, SameDevice(Device(l), Device(src[c]))
              PROVE  \E d \in 1..n : Twins(orig, c, d)
            <4>1. PICK d \in 1..n : src[d] = l
                BY <1>2 DEF Match
            <4>2. Twins(orig, c, d)
                BY <1>3, <3>1, <4>1 DEF Twins, SameDevice
            <4> QED
                BY <4>2
        <3>2. ASSUME NEW d \in 1..n, Twins(orig, c, d)
              PROVE  \E l \in Kept \ {src[c]} : SameDevice(Device(l), Device(src[c]))
            <4>1. src[d] \in Kept \ {src[c]}
                BY <1>3, <1>4, <3>2 DEF Twins
            <4>2. SameDevice(Device(src[d]), Device(src[c]))
                BY <1>3, <3>2 DEF Twins, SameDevice
            <4> QED
                BY <4>1, <4>2
        <3> QED
            BY <3>1, <3>2
    <2>2. CASE \E d \in 1..n : Twins(orig, c, d)
        <3>1. Wanted(src[c]) = Renumbered(orig[c])
            BY <1>3, <2>1, <2>2 DEF Wanted, Renumbered
        <3>2. cells[c].id = AutoId
            BY <1>3, <2>2
        <3>3. cells[c] = Renumbered(orig[c])
            BY <1>3, <3>2, RenumberedIs
        <3> QED
            BY <3>1, <3>3
    <2>3. CASE ~\E d \in 1..n : Twins(orig, c, d)
        <3>1. Wanted(src[c]) = orig[c]
            BY <1>3, <2>1, <2>3 DEF Wanted
        <3>2. cells[c] = orig[c]
            BY <1>3, <2>3
        <3> QED
            BY <3>1, <3>2
    <2> QED
        BY <2>2, <2>3
<1>6. {cells[c] : c \in 1..n} = {Wanted(k) : k \in Kept}
    <2>1. \A k \in Kept : \E c \in 1..n : src[c] = k
        BY <1>2 DEF Match
    <2> HIDE DEF cells
    <2> QED
        BY <1>3, <1>5, <2>1
<1>7. ASSUME NEW c \in 1..n, NEW d \in 1..n, c < d PROVE cells[c].start < cells[d].start
    <2>1. src[c] < src[d] /\ src[c] \in Kept /\ src[d] \in Kept
        BY <1>2, <1>3, <1>7 DEF Match
    <2>2. src[c] \in Nat /\ src[d] \in Nat
        BY <2>1, KeptAreNumbers
    <2>3. src[d] <= TableSize
        <3>1. src[d] \in {0} \cup 1..(count - 1)
            BY <2>1 DEF Kept, Before
        <3> QED
            BY <1>1, <3>1
    <2>4. src[c] \in 0..(src[d] - 1)
        BY <2>1, <2>2
    <2>5. StartOf[src[c]] < StartOf[src[d]]
        BY <1>1, <2>2, <2>3, <2>4, StartsGrow
    <2> QED
        BY <1>3, <2>5
<1> QED
    BY <1>1, <1>6, <1>7

\* The cells are those of the blocks before the tail that answer, are known to
\* the filter and not ignored by the firmware, each at its own offset and in
\* order, and only those that would collide are numbered by the kernel.
THEOREM CellsAreTheRoms == Spec => []CellsMatch
<1>1. Init => FitInv /\ PassInv /\ CellsInv
    BY InitFitInv, InitPassInv DEF Init, CellsInv
<1>2. FitInv /\ PassInv /\ CellsInv /\ [Next]_vars => FitInv' /\ PassInv' /\ CellsInv'
    BY NextFitInv, NextPassInv, NextCellsInv
<1> QED
    BY <1>1, <1>2, CellsFromInv, PTL DEF Spec

=============================================================================
