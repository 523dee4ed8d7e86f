------------------------------ MODULE PowerSeq ------------------------------
(***************************************************************************)
(* The power sequencer, cisco-fpga-pseq.c: the driver's life from probe to *)
(* the release of its memory, the delayed work that reports the status     *)
(* once, and the files that list rails from one or two registers.          *)
(*                                                                         *)
(* The files of enabled, disabled, good, bad and over-voltage rails run    *)
(* the same code on one pair of registers or another, inverted or not;     *)
(* there is one pair here.  One action is one register access.             *)
(*                                                                         *)
(* The specification's names begin with Pseq, so that a module may extend  *)
(* this one together with another driver's.                                *)
(***************************************************************************)
EXTENDS Naturals, Sequences, FiniteSets

CONSTANTS
    RegBits,    \* 32: rails of a register
    NumRails,   \* values of the property num-rails, None where it is absent
    Names,      \* rail names: sequences of a name, "" or None
    Entries,    \* id_entry->driver_data: [active, override]
    Platform,   \* mfd_cell->platform_data: BOOLEAN, or None
    X86,        \* __x86_64__: the status is reported by a delayed work
    PageLines,  \* lines that fit PAGE_SIZE
    None

Rails == 0..(2 * RegBits - 1)

ASSUME PowerSeqAssumption ==
    /\ RegBits \in Nat \ {0} /\ PageLines \in Nat
    /\ NumRails \subseteq Nat \cup {None}
    \* char *rail_names[64], for two registers of 32 bits
    /\ \A names \in Names : DOMAIN names = 1..(2 * RegBits)
    /\ X86 \in BOOLEAN

VARIABLES
    device,   \* "unbound", "bound", "removing": remove has run, devres has not
    priv,     \* struct cisco_fpga_pseq: active, num_rails, rail_names
    work,     \* priv->work: "idle", "scheduled", or the register it reads next
    orphans,  \* works still running on memory that is freed
    on,       \* the bits of the register pair
    reader,   \* a task in a show function
    seen      \* history: what the rails were while it was there

pseqVars == <<device, priv, work, orphans, on, reader, seen>>

NoPriv == [active |-> FALSE, num |-> <<0, 0>>, names |-> <<>>]
NoReader == [pc |-> "idle", invert |-> FALSE, data |-> <<{}, {}>>, out |-> <<>>]
Running == {"power_good0", "gen_stat"}
Bits == 0..(RegBits - 1)

-----------------------------------------------------------------------------
(* Probe, the delayed work, and remove.                                    *)

\* Which of the three sources decides; "standby" overrules them.
Active(entry, pdata, standby) ==
    /\ ~standby
    /\ IF entry # None /\ entry.override THEN entry.active
       ELSE IF pdata # None THEN pdata
       ELSE IF entry # None THEN entry.active
       ELSE TRUE

NumRailsOf(property) ==
    LET asked == IF property = None THEN RegBits ELSE property
        val == IF asked > 2 * RegBits THEN 2 * RegBits ELSE asked
    IN IF val > RegBits THEN <<RegBits, val - RegBits>> ELSE <<val, 0>>

\* Without a delayed work the probe reports the status itself.
PseqProbe ==
    /\ device = "unbound"
    /\ device' = "bound"
    /\ \E e \in Entries, p \in Platform, s \in BOOLEAN, n \in NumRails, names \in Names :
          priv' = [active |-> Active(e, p, s), num |-> NumRailsOf(n),
                   names |-> [k \in DOMAIN names |->
                                IF k <= NumRailsOf(n)[1] + NumRailsOf(n)[2]
                                THEN names[k] ELSE None]]
    /\ work' = IF X86 THEN "scheduled" ELSE "idle"
    /\ UNCHANGED <<orphans, on, reader, seen>>

\* The work's timer fires: _probe_status starts ...
StartWork ==
    /\ work = "scheduled"
    /\ work' = "power_good0"
    /\ UNCHANGED <<device, priv, orphans, on, reader, seen>>

\* ... and reads two registers, both whatever the first read gives.
_probe_status ==
    /\ work \in Running
    /\ work' = IF work = "power_good0" THEN "gen_stat" ELSE "idle"
    /\ UNCHANGED <<device, priv, orphans, on, reader, seen>>

OrphanReads ==
    /\ orphans # {}
    /\ \E o \in orphans :
          orphans' = IF o = "power_good0" THEN (orphans \ {o}) \cup {"gen_stat"}
                                          ELSE orphans \ {o}
    /\ UNCHANGED <<device, priv, work, on, reader, seen>>

\* A mutated form: the work is not cancelled.
PseqRemove_Slip ==
    /\ device = "bound"
    /\ device' = "removing"
    /\ UNCHANGED <<priv, work, orphans, on, reader, seen>>

\* cancel_delayed_work: a work that has started is not waited for.
PseqRemove ==
    /\ device = "bound"
    /\ device' = "removing"
    /\ work' = IF work = "scheduled" THEN "idle" ELSE work
    /\ UNCHANGED <<priv, orphans, on, reader, seen>>

\* devres: the removal of the files waits for their readers; then the memory
\* goes, with the work_struct in it.
Release ==
    /\ device = "removing"
    /\ reader.pc = "idle"
    /\ device' = "unbound"
    /\ priv' = NoPriv
    /\ IF work \in Running
       THEN orphans' = orphans \cup {work} /\ work' = "idle"
       ELSE UNCHANGED <<orphans, work>>
    /\ UNCHANGED <<on, reader, seen>>

-----------------------------------------------------------------------------
(* The files.                                                              *)

Second == {b + RegBits : b \in Bits}

\* The bits the FPGA sets while it sequences the rails.
Sequence ==
    \E r \in Rails :
        /\ on' = IF r \in on THEN on \ {r} ELSE on \cup {r}
        /\ seen' = IF reader.pc = "idle" THEN seen
                   ELSE [on |-> seen.on \cup on', off |-> seen.off \cup (Rails \ on')]
        /\ UNCHANGED <<device, priv, work, orphans, reader>>

ShowBegin ==
    /\ device # "unbound"
    /\ reader.pc = "idle"
    /\ \E invert \in BOOLEAN : reader' = [NoReader EXCEPT !.pc = "first", !.invert = invert]
    /\ seen' = [on |-> on, off |-> Rails \ on]
    /\ UNCHANGED <<device, priv, work, orphans, on>>

Leave ==
    /\ reader' = NoReader
    /\ seen' = [on |-> {}, off |-> {}]

Inverted(bits) == IF reader.invert THEN Bits \ bits ELSE bits

\* _read_reg, first register.
ReadFirst ==
    /\ reader.pc = "first"
    /\ \/ Leave
       \/ /\ reader' = [reader EXCEPT !.pc = IF priv.num[2] > 0 THEN "second" ELSE "show",
                                      !.data[1] = Inverted(on \cap Bits)]
          /\ UNCHANGED seen
    /\ UNCHANGED <<device, priv, work, orphans, on>>

\* A mutated form: the second register is not inverted.
ReadSecond_Slip ==
    /\ reader.pc = "second"
    /\ \/ Leave
       \/ /\ reader' = [reader EXCEPT !.pc = "show",
                                      !.data[2] = {r - RegBits : r \in on \cap Second}]
          /\ UNCHANGED seen
    /\ UNCHANGED <<device, priv, work, orphans, on>>

ReadSecond ==
    /\ reader.pc = "second"
    /\ \/ Leave
       \/ /\ reader' = [reader EXCEPT !.pc = "show",
                                      !.data[2] = Inverted({r - RegBits : r \in on \cap Second})]
          /\ UNCHANGED seen
    /\ UNCHANGED <<device, priv, work, orphans, on>>

\* _show_rails: what the loop over the bits of a register adds to the buffer.
\* The names start at the pointer that the registers before have moved on; an
\* empty name prints nothing.
Line(bit, name) == IF name = None THEN <<"bit", bit>> ELSE <<"name", name>>

Printed(index, from, before) ==
    LET after[bits \in Nat] ==
          IF bits = 0 THEN before
          ELSE IF bits - 1 \in reader.data[index] /\ priv.names[from + bits] # ""
               THEN Append(after[bits - 1], Line(bits - 1, priv.names[from + bits]))
               ELSE after[bits - 1]
    IN after[priv.num[index]]

UpTo(lines) == SubSeq(lines, 1, IF Len(lines) < PageLines THEN Len(lines) ELSE PageLines)

_show_rails ==
    /\ reader.pc = "show"
    /\ reader' = [reader EXCEPT !.pc = "shown",
                                !.out = UpTo(Printed(2, priv.num[1], Printed(1, 0, <<>>)))]
    /\ UNCHANGED <<device, priv, work, orphans, on, seen>>

ShowEnd ==
    /\ reader.pc = "shown"
    /\ Leave
    /\ UNCHANGED <<device, priv, work, orphans, on>>

PseqInit ==
    /\ device = "unbound"
    /\ priv = NoPriv
    /\ work = "idle"
    /\ orphans = {}
    /\ on = {}
    /\ reader = NoReader
    /\ seen = [on |-> {}, off |-> {}]

PseqNext ==
    \/ PseqProbe \/ StartWork \/ _probe_status \/ OrphanReads \/ PseqRemove \/ Release
    \/ Sequence \/ ShowBegin \/ ReadFirst \/ ReadSecond \/ _show_rails \/ ShowEnd

PseqSpec == PseqInit /\ [][PseqNext]_pseqVars

-----------------------------------------------------------------------------
\* The lines of these rails, lowest first: each by the name it has in the whole
\* device, or by its bit; those with an empty name are hidden.
LineOf(r) ==
    IF priv.names[r + 1] = None THEN <<"bit", IF r < RegBits THEN r ELSE r - RegBits>>
                                ELSE <<"name", priv.names[r + 1]>>

InOrder(order) == \A i, j \in DOMAIN order : i < j => order[i] < order[j]

Lists(out, rails) ==
    LET shown == {r \in rails : priv.names[r + 1] # ""}
    IN \E order \in [1..Cardinality(shown) -> shown] :
          InOrder(order) /\ out = UpTo([k \in DOMAIN order |-> LineOf(order[k])])

\* The rails of the device; those that have been in the state the file is about
\* at some time while it was read, and those that have been out of it.
Mine   == 0..(priv.num[1] + priv.num[2] - 1)
Was    == IF reader.invert THEN seen.off ELSE seen.on
WasNot == IF reader.invert THEN seen.on ELSE seen.off

(* A file lists, in order and each by its own name, the rails of the       *)
(* device in the state it is about, as far as the page holds them.  The    *)
(* two registers are read one after the other, so the list need not be one *)
(* moment's, but no rail is listed, or left out, that was not in that      *)
(* state, or out of it, at some time while the file was read.              *)
RailsShown ==
    reader.pc = "shown" =>
        \E rails \in SUBSET (Mine \cap Was) :
            Mine \ WasNot \subseteq rails /\ Lists(reader.out, rails)

(* The work never starts on a device that is being removed or is gone.  It *)
(* may go on there if it had started before: remove does not wait for it.  *)
NeverStartsLate ==
    [][work \notin Running /\ work' \in Running => device = "bound"]_pseqVars

=============================================================================
