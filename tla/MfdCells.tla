------------------------------ MODULE MfdCells ------------------------------
(***************************************************************************)
(* cisco_fpga_mfd_cells: from the information ROM and the block headers of *)
(* an FPGA to the cells (platform devices) that are created for it.        *)
(*                                                                         *)
(* The ROM is fixed for a behaviour and every register read may fail.  The *)
(* loops are stepped through, one header at a time, so that the bounds of  *)
(* the buffers can be stated at each of them.  A name is a value; a suffix *)
(* is kept beside the name it is appended to.                              *)
(***************************************************************************)
EXTENDS Integers, Sequences, FiniteSets

CONSTANTS
    Blks,        \* cisco_fpga_blks: known ids, in order
    Unknown,     \* its last rows: the name of an unknown block, by filter
    Roms,        \* the ROMs the FPGA may hold
    Firmware,    \* the firmware nodes of the device and below it
    Filters,     \* what the caller may ask for
    TableSize,   \* ARRAY_SIZE(block_offset): 256
    CountMod,    \* 2^32: num_blocks is a u32
    LegacyOff,   \* 0x20000, where old interrupt blocks have no magic
    None,        \* nothing: no name, no resource, no property
    AutoId       \* PLATFORM_DEVID_AUTO

\* The ids with a meaning of their own, and the interrupts a block may have.
Info == 35
Intr == 38
TailId == 255
MaxIrqsLtV8 == 10
MaxIrqsV8 == 12

\* A row has one interrupt at most.  The ROM is block 0, and no block is empty.
ASSUME MfdAssumption ==
    /\ TableSize \in Nat \ {0} /\ CountMod \in Nat /\ TableSize < CountMod
    /\ LegacyOff \in Nat
    /\ None \notin Nat
    /\ Blks \in Seq({Blks[k] : k \in DOMAIN Blks})
    /\ \A k \in DOMAIN Blks :
          /\ Blks[k].id # 0 /\ Blks[k].irqs \subseteq Nat
          /\ \A p, q \in Blks[k].irqs : p = q
    /\ \A rom \in Roms :
          /\ rom.count \in 0..(CountMod - 1)
          /\ rom.good /\ rom.id = Info => rom.head[0].good /\ rom.head[0].id = Info
          /\ \A k \in 0..(TableSize - 1) : rom.size[k] \in Nat \ {0}

VARIABLES
    rom,     \* magic, version, count of blocks, their headers and sizes
    filter,  \* the caller's filter
    child,   \* meta->child: what the firmware says about offsets
    phase,   \* the part of the function that runs, or how it has ended
    count,   \* info.num_blocks, as the function uses it
    i,       \* the loop's index
    off,     \* absoff of that index
    maxIrqs, \* meta->max_irqs
    meta     \* cells built, intr, resources and names used up

vars == <<rom, filter, child, phase, count, i, off, maxIrqs, meta>>
inputs == <<rom, filter, child>>

-----------------------------------------------------------------------------
(* The table of known blocks.                                              *)

\* cisco_fpga_blk_match: the first row of the id that the filter admits, or
\* the row for unknown blocks, which has no name where they are to be skipped.
BlkMatch(id, f) ==
    LET hits == {k \in DOMAIN Blks : Blks[k].id = id /\ f \in Blks[k].filter}
    IN IF hits # {}
       THEN Blks[CHOOSE k \in hits : \A l \in hits : k <= l]
       ELSE [id |-> id, name |-> Unknown[f], irqs |-> {}, uio |-> TRUE]

\* The children of the device that have an address (_init_metadata).
First(a, b, c) == IF a # None THEN a ELSE IF b # None THEN b ELSE c

ChildOf(node, parent) ==
    [adr |-> node.adr,
     id |-> First(node.devid, parent.devid, AutoId),
     name |-> node.name,
     suffix |-> IF node.name = None THEN parent.suffix ELSE None,
     ignore |-> node.ignore,
     block |-> node.block]

Children(fw) ==
    LET named == SelectSeq(fw.nodes, LAMBDA n : n.adr # None)
    IN [k \in DOMAIN named |-> ChildOf(named[k], fw.parent)]

-----------------------------------------------------------------------------
\* The size of block k: the table of a new ROM, 0x1000 bytes for an old one.
SizeOf(k) == IF rom.maj < 6 THEN 16 ELSE rom.size[k]

Fail(err) == phase' = err /\ UNCHANGED <<inputs, count, i, off, maxIrqs, meta>>

\* Read the ROM, size the buffers, read the table of offsets.
\* num_blocks has the width of a u32 when the ROM's own cell is added to it.
Cells(n) == (n + 1) % CountMod

Open_Slip ==
    /\ phase = "open"
    /\ LET n == IF rom.maj < 6 THEN TableSize - 1 ELSE rom.count
       IN IF rom.good /\ rom.id = Info
          THEN /\ count' = n
               /\ phase' = "irqs"
               /\ UNCHANGED <<inputs, i, off, maxIrqs, meta>>
          ELSE Fail("ENODEV")

Open ==
    /\ phase = "open"
    /\ LET n == IF rom.maj < 6 THEN TableSize - 1 ELSE rom.count
       IN \/ Fail("EIO")
          \/ ~rom.good /\ Fail("ENODEV")
          \/ rom.good /\ Cells(n) >= TableSize /\ Fail("EINVAL")
          \/ /\ rom.good /\ Cells(n) < TableSize
             /\ rom.id # Info
             /\ Fail("ENXIO")
          \/ /\ rom.good /\ Cells(n) < TableSize
             /\ rom.id = Info
             /\ count' = n
             /\ phase' = "irqs"
             /\ UNCHANGED <<inputs, i, off, maxIrqs, meta>>

-----------------------------------------------------------------------------
(* _setup_max_irqs.  The magic number it tests is the ROM's, read before,  *)
(* so a header is believed whatever its own magic.                         *)

IrqLimit(head) == IF head.maj < 8 THEN MaxIrqsLtV8 ELSE MaxIrqsV8

Configured(max) ==
    /\ maxIrqs' = max
    /\ phase' = "info"
    /\ i' = 0
    /\ off' = 0

\* A mutated form: the tail block does not end the search.
SetupMaxIrqs_Slip ==
    /\ phase = "irqs"
    /\ IF i >= count THEN Configured(0)
       ELSE IF rom.head[i].id = Intr THEN Configured(IrqLimit(rom.head[i]))
       ELSE i' = i + 1 /\ off' = off + SizeOf(i) /\ UNCHANGED <<phase, maxIrqs>>
    /\ UNCHANGED <<inputs, count, meta>>

SetupMaxIrqs ==
    \/ phase = "irqs" /\ i < count /\ Fail("EIO")
    \/ /\ phase = "irqs"
       /\ IF i >= count \/ rom.head[i].id = TailId THEN Configured(0)
          ELSE IF rom.head[i].id = Intr THEN Configured(IrqLimit(rom.head[i]))
          ELSE i' = i + 1 /\ off' = off + SizeOf(i) /\ UNCHANGED <<phase, maxIrqs>>
       /\ UNCHANGED <<inputs, count, meta>>

-----------------------------------------------------------------------------
(* _fwnode_config: one cell, or the interrupt block's resource.            *)

ChildAt(a) ==
    LET hits == {k \in DOMAIN child : child[k].adr = a}
    IN IF hits = {} THEN None ELSE CHOOSE k \in hits : \A l \in hits : k <= l

Ignored(a, id) ==
    LET k == ChildAt(a)
    IN k # None /\ (child[k].ignore \/ (child[k].block # None /\ child[k].block # id))

CellOf(blk, a, id) ==
    LET k == ChildAt(a)
    IN [name |-> IF k # None /\ child[k].name # None THEN child[k].name ELSE blk.name,
        suffix |-> IF k = None THEN None ELSE child[k].suffix,
        id |-> IF k = None \/ blk.uio \/ blk.id = 0 THEN AutoId ELSE child[k].id,
        start |-> a,
        irqs |-> {q \in blk.irqs : q < maxIrqs}]

FwnodeConfig(blk, id) ==
    IF Len(meta.cells) >= Cells(count) \/ blk.name = None \/ Ignored(off, id)
    THEN UNCHANGED meta
    ELSE LET cell == CellOf(blk, off, id)
         IN meta' = [meta EXCEPT !.cells = Append(@, cell),
                                 !.res = @ + 1 + Cardinality(cell.irqs),
                                 !.names = @ + (IF cell.suffix = None THEN 0 ELSE 1)]

Advance == i' = i + 1 /\ off' = off + SizeOf(i)

\* The ROM is block 0 and has a cell of its own.
ConfigInfo ==
    /\ phase = "info"
    /\ FwnodeConfig(BlkMatch(rom.id, filter), rom.id)
    /\ Advance
    /\ phase' = "blocks"
    /\ UNCHANGED <<inputs, count, maxIrqs>>

\* An interrupt block: by its id, or by its place when it has no magic.
IsIntr(k, a) ==
    LET h == rom.head[k]
    IN IF h.good THEN h.id = Intr ELSE rom.maj >= 6 /\ a = LegacyOff

\* There can only be one: BUG_ON stops the machine.
ConfigIntr ==
    /\ phase = "blocks"
    /\ i < count
    /\ IsIntr(i, off)
    /\ IF Len(meta.cells) >= Cells(count)
       THEN Advance /\ UNCHANGED <<phase, meta>>
       ELSE IF meta.intr # None
       THEN phase' = "BUG" /\ UNCHANGED <<i, off, meta>>
       ELSE /\ meta' = [meta EXCEPT !.intr = i, !.res = @ + 1]
            /\ Advance
            /\ UNCHANGED phase
    /\ UNCHANGED <<inputs, count, maxIrqs>>

\* A block that does not answer with the magic number is passed over.
SkipBad ==
    /\ phase = "blocks"
    /\ i < count
    /\ ~rom.head[i].good
    /\ ~IsIntr(i, off)
    /\ Advance
    /\ UNCHANGED <<inputs, phase, count, maxIrqs, meta>>

ConfigBlock ==
    /\ phase = "blocks"
    /\ i < count
    /\ rom.head[i].good
    /\ rom.head[i].id \notin {Intr, TailId}
    /\ FwnodeConfig(BlkMatch(rom.head[i].id, filter), rom.head[i].id)
    /\ Advance
    /\ UNCHANGED <<inputs, phase, count, maxIrqs>>

ReadFails ==
    /\ phase = "blocks"
    /\ i < count
    /\ Fail("EIO")

AtTail ==
    /\ phase = "blocks"
    /\ i >= count \/ (rom.head[i].good /\ rom.head[i].id = TailId)
    /\ phase' = "ids"
    /\ i' = 0
    /\ UNCHANGED <<inputs, count, off, maxIrqs, meta>>

\* Cells of the same name and id would collide as devices: all of them get an
\* id of the kernel's choosing.  The loop compares each cell with those after it.
SameDevice(c, d) == c.name = d.name /\ c.suffix = d.suffix /\ c.id = d.id

\* A mutated form: the cell that others are compared with keeps its id.
AdjustIds_Slip ==
    /\ phase = "ids"
    /\ IF i >= Len(meta.cells)
       THEN phase' = "done" /\ UNCHANGED <<i, meta>>
       ELSE LET cell == meta.cells[i + 1]
                dups == {j \in (i + 2)..Len(meta.cells) : SameDevice(meta.cells[j], cell)}
            IN /\ meta' = [meta EXCEPT !.cells = [j \in DOMAIN @ |->
                             IF j \in dups THEN [@[j] EXCEPT !.id = AutoId] ELSE @[j]]]
               /\ i' = i + 1
               /\ UNCHANGED phase
    /\ UNCHANGED <<inputs, count, off, maxIrqs>>

AdjustIds ==
    /\ phase = "ids"
    /\ IF i >= Len(meta.cells)
       THEN phase' = "done" /\ UNCHANGED <<i, meta>>
       ELSE LET cell == meta.cells[i + 1]
                dups == {j \in (i + 2)..Len(meta.cells) : SameDevice(meta.cells[j], cell)}
                alike == IF dups = {} THEN {} ELSE dups \cup {i + 1}
            IN /\ meta' = [meta EXCEPT !.cells = [j \in DOMAIN @ |->
                             IF j \in alike THEN [@[j] EXCEPT !.id = AutoId] ELSE @[j]]]
               /\ i' = i + 1
               /\ UNCHANGED phase
    /\ UNCHANGED <<inputs, count, off, maxIrqs>>

Init ==
    /\ rom \in Roms
    /\ filter \in Filters
    /\ \E fw \in Firmware : child = Children(fw)
    /\ phase = "open"
    /\ count = 0
    /\ i = 0
    /\ off = 0
    /\ maxIrqs = 0
    /\ meta = [cells |-> <<>>, intr |-> None, res |-> 0, names |-> 0]

Next ==
    \/ Open
    \/ SetupMaxIrqs
    \/ ConfigInfo
    \/ ConfigIntr
    \/ SkipBad
    \/ ConfigBlock
    \/ ReadFails
    \/ AtTail
    \/ AdjustIds

Spec == Init /\ [][Next]_vars

-----------------------------------------------------------------------------
(* What the result should be, from the whole ROM at once.                  *)

\* Where a block starts.
StartOf[k \in Nat] == IF k = 0 THEN 0 ELSE StartOf[k - 1] + SizeOf(k - 1)

\* The ROM itself and the blocks before the tail.
Before == {0} \cup {k \in 1..(count - 1) :
             \A l \in 1..k : ~(rom.head[l].good /\ rom.head[l].id = TailId)}

IntrBlocks == {k \in Before \ {0} : IsIntr(k, StartOf[k])}

\* The blocks that become devices, and those devices before ids are adjusted.
Kept == {k \in Before :
           /\ rom.head[k].good
           /\ rom.head[k].id # Intr
           /\ BlkMatch(rom.head[k].id, filter).name # None
           /\ ~Ignored(StartOf[k], rom.head[k].id)}

Device(k) == CellOf(BlkMatch(rom.head[k].id, filter), StartOf[k], rom.head[k].id)

Wanted(k) ==
    IF \E l \in Kept \ {k} : SameDevice(Device(l), Device(k))
    THEN [Device(k) EXCEPT !.id = AutoId] ELSE Device(k)

\* A number of blocks that is not all ones.  That one is accepted, as with the
\* ROM's own cell it wraps to none, and then bounds no loop.
Counted == rom.count # CountMod - 1

\* The cells are those of the blocks before the tail that answer, are known to
\* the filter and not ignored by the firmware, each at its own offset and in
\* order; the id the firmware gives is kept unless another cell of the same
\* name has it too, in which case all of these are numbered by the kernel.
CellsMatch ==
    phase = "done" /\ Counted =>
        /\ {meta.cells[c] : c \in DOMAIN meta.cells} = {Wanted(k) : k \in Kept}
        /\ \A c, d \in DOMAIN meta.cells : c < d => meta.cells[c].start < meta.cells[d].start

\* Whatever the ROM, the cells, resources and names stay inside the buffers
\* that were sized from its number of blocks: also for a number of all ones,
\* where they have no room and nothing is built.  The table of offsets is read
\* inside its bounds for every other number; for that one the loops end only at
\* a tail block, an interrupt block (in the first pass) or a failing read,
\* which may lie behind the table.
BuffersFit ==
    /\ Len(meta.cells) <= Cells(count)
    /\ meta.res <= 2 * Cells(count)
    /\ meta.names <= Cells(count)
    /\ phase \in {"irqs", "blocks"} /\ i < count /\ Counted => i < TableSize

\* Two passes over the headers agree: as long as every header before the tail
\* answers, the number of interrupt lines is that of the interrupt block the
\* second pass finds, and none without one; the machine is only stopped for a
\* ROM with two interrupt blocks.
IrqsAgree ==
    /\ phase = "done" /\ Counted /\ (\A k \in Before : rom.head[k].good) =>
          maxIrqs = IF meta.intr = None THEN 0 ELSE IrqLimit(rom.head[meta.intr])
    /\ phase = "BUG" => Cardinality(IntrBlocks) >= 2

=============================================================================
