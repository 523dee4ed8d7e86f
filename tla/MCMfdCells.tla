----------------------------- MODULE MCMfdCells -----------------------------
(* ROMs of up to five blocks: the ROM's own and any mixture of known and    *)
(* unknown, interrupt, tail and silent ones; one offset that the firmware   *)
(* describes in several ways.                                              *)
EXTENDS MfdCells

CONSTANTS info, gpio, wdt, uio, given

Row(id, name, irqs, f) ==
    [id |-> id, name |-> name, irqs |-> irqs, filter |-> f, uio |-> FALSE]

SomeBlks == <<Row(33, wdt, {1}, {"pci"}), Row(33, wdt, {}, {"regmap"}),
              Row(35, info, {}, {"regmap", "passive"}),
              Row(37, gpio, {11}, {"pci"}), Row(37, gpio, {}, {"regmap"})>>
UnknownRows == [f \in {"pci", "regmap", "passive"} |-> IF f = "passive" THEN None ELSE uio]

Head0 == [good |-> TRUE, id |-> Info, maj |-> 6]
Good(id) == [good |-> TRUE, id |-> id, maj |-> 8]
Heads == {Good(33), Good(37), Good(TailId), Good(Intr),
          [good |-> TRUE, id |-> Intr, maj |-> 7],
          [good |-> FALSE, id |-> TailId, maj |-> 63],
          [good |-> FALSE, id |-> 200, maj |-> 0]}

Sizes == [k \in 0..5 |-> 1]
Rom(n, maj, heads) ==
    [good |-> TRUE, maj |-> maj, id |-> Info, count |-> n, size |-> Sizes,
     head |-> [k \in 0..5 |-> IF k = 0 THEN Head0
                              ELSE IF k \in DOMAIN heads THEN heads[k] ELSE Good(TailId)]]

SomeRoms ==
    {Rom(4, 6, h) : h \in [1..3 -> Heads]}
    \cup {Rom(n, 6, h) : n \in {0, 1, 5, 15}, h \in [1..1 -> Heads]}
    \cup {Rom(8, 6, [k \in 1..5 |-> Good(33)])}
    \cup {Rom(4, 5, h) : h \in [1..1 -> Heads]}
    \cup {[Rom(2, 6, h) EXCEPT !.id = 7] : h \in [1..1 -> Heads]}
    \cup {[Rom(2, 6, h) EXCEPT !.good = FALSE] : h \in [1..1 -> Heads]}

Node(a, devid, name, ignore, block) ==
    [adr |-> a, devid |-> devid, name |-> name, ignore |-> ignore, block |-> block]
Fw(devid, suffix, nodes) == [parent |-> [devid |-> devid, suffix |-> suffix], nodes |-> nodes]

SomeFirmware ==
    {Fw(None, None, <<>>),
     Fw(3, None, <<Node(1, None, None, FALSE, None), Node(2, None, None, FALSE, None),
                   Node(3, None, None, FALSE, None)>>),
     Fw(None, "-p", <<Node(1, 4, given, FALSE, None), Node(None, 4, None, FALSE, None),
                      Node(2, 4, given, FALSE, 37), Node(3, 4, None, TRUE, None)>>),
     Fw(3, "-p", <<Node(1, None, None, TRUE, None), Node(1, 4, given, FALSE, None),
                   Node(2, 4, None, FALSE, None), Node(3, None, None, FALSE, 33)>>)}
=============================================================================
