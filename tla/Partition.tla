----------------------------- MODULE Partition -----------------------------
(***************************************************************************)
(* The partitions of a disk in the boot loader (boot/device/block/part):   *)
(* the master boot record with its extended partitions (mbr.c) and the     *)
(* GUID table (gpt.c), tried in this order when a disk is probed (ata.c).  *)
(* A disk holds only the sectors the tables are in.                        *)
(***************************************************************************)
EXTENDS Integers, Sequences, SequencesExt

CONSTANTS
    PerSector,   \* entries of a GUID table in a sector: 4
    Layouts      \* how disks may be partitioned (see Build)

VARIABLES
    layout,      \* how the disk was partitioned
    table,       \* the driver that took it, "none" or "unprobed"
    parts        \* the partitions that were probed, in order

ptvars == <<layout, table, parts>>

Part(base, count) == [base |-> base, limit |-> base + count - 1]
Nothing == [type |-> "none", base |-> 0, count |-> 0]
Entry(type, base, count) == [type |-> type, base |-> base, count |-> count]
Record(entries) == [kind |-> "mbr",
                    entries |-> [i \in 1..4 |-> IF i <= Len(entries)
                                                THEN entries[i] ELSE Nothing]]

----------------------------------------------------------------------------
(* What a partitioning tool writes.  A logical partition is behind a record *)
(* of its own; the record says where the next one is, counted from the      *)
(* beginning of the extended partition.                                     *)

MbrDisk(l) ==
    LET ext == l.extended
        n == Len(l.logical)
        Log(i) == <<Entry("data", 1, l.logical[i].count)>> \o
                  (IF i < n THEN <<Entry("ext", l.logical[i + 1].at - ext, 1)>>
                   ELSE <<>>)
        prim == [i \in DOMAIN l.primary |->
                   Entry("data", l.primary[i].base, l.primary[i].count)]
        recs == {0} \cup {l.logical[i].at : i \in 1..n}
    IN  [a \in recs |->
           IF a = 0 THEN Record(prim \o (IF n = 0 THEN <<>>
                                        ELSE <<Entry("ext", ext, 1)>>))
           ELSE Record(Log(CHOOSE i \in 1..n : l.logical[i].at = a))]

GptDisk(l) ==
    LET n == Len(l.primary)
        E(k) == IF k <= n THEN Entry("data", l.primary[k].base,
                                     l.primary[k].count) ELSE Nothing
        sectors == 1 + (n \div PerSector)
    IN  [a \in {0, 1} \cup {1 + j : j \in 1..sectors} |->
           CASE a = 0 -> Record(<<Entry("gpt", 1, 1)>>)
             [] a = 1 -> [kind |-> "gpt", count |-> sectors * PerSector,
                          list |-> 2]
             [] OTHER -> [kind |-> "entries",
                          entries |-> [i \in 1..PerSector |->
                                         E((a - 2) * PerSector + i)]]]

Build(l) == IF l.scheme = "mbr" THEN MbrDisk(l) ELSE GptDisk(l)

Expected(l) ==
    [i \in DOMAIN l.primary |-> Part(l.primary[i].base, l.primary[i].count)]
    \o [i \in DOMAIN l.logical |-> Part(l.logical[i].at + 1,
                                        l.logical[i].count)]

----------------------------------------------------------------------------

Failed(parts_) == [ok |-> FALSE, parts |-> parts_]
Done(parts_) == [ok |-> TRUE, parts |-> parts_]

RECURSIVE register_partitions(_, _)
\* The entries of the record at base, in order; an extended one is another
\* record, whose numbers count from itself.
register_partitions(disk, base) ==
    IF base \notin DOMAIN disk \/ disk[base].kind # "mbr"
         \/ disk[base].entries[1].type = "gpt"
      THEN Failed(<<>>)
      ELSE LET s[i \in 0..4] ==
                 IF i = 0 THEN Done(<<>>)
                 ELSE LET r == s[i-1]
                          e == disk[base].entries[i]
                      IN  CASE ~r.ok \/ e.type = "none" -> r
                            [] r.ok /\ e.type = "ext" ->
                                 LET x == register_partitions(disk,
                                                              base + e.base)
                                 IN  [x EXCEPT !.parts = r.parts \o @]
                            [] OTHER -> Done(Append(r.parts,
                                            Part(base + e.base, e.count)))
           IN  s[4]

\* Mutant: the next sector is not read.
same_sector(disk, hdr, k) == disk[hdr.list].entries[1 + (k % PerSector)]

\* The k-th entry: offset goes on by the size of an entry, and to the next
\* sector at the end of one.
EntryAt(disk, hdr, k) ==
    disk[hdr.list + (k \div PerSector)].entries[1 + (k % PerSector)]

\* The entries up to the first that is empty, over as many sectors as needed.
gpt_partitions(disk) ==
    IF 0 \notin DOMAIN disk \/ disk[0].kind # "mbr"
         \/ disk[0].entries[1].type # "gpt"
         \/ disk[disk[0].entries[1].base].kind # "gpt"
      THEN Failed(<<>>)
      ELSE LET hdr == disk[disk[0].entries[1].base]
               At(k) == EntryAt(disk, hdr, k)
               used == {k \in 0..(hdr.count - 1) :
                          \A j \in 0..k : At(j).type # "none"}
           IN  Done([k \in 1..(IF used = {} THEN 0 ELSE 1 + CHOOSE m \in used :
                                 \A j \in used : j <= m) |->
                       Part(At(k - 1).base, At(k - 1).count)])

\* The partitions of a table that fails are removed again.
ProbeDisk ==
    LET disk == Build(layout)
        m == register_partitions(disk, 0)
        g == gpt_partitions(disk)
    IN  /\ table = "unprobed"
        /\ table' = CASE m.ok -> "mbr" [] ~m.ok /\ g.ok -> "gpt"
                      [] OTHER -> "none"
        /\ parts' = CASE m.ok -> m.parts [] ~m.ok /\ g.ok -> g.parts
                      [] OTHER -> <<>>
        /\ UNCHANGED layout

PtInit ==
    /\ layout \in Layouts
    /\ table = "unprobed"
    /\ parts = <<>>

PtNext == ProbeDisk

----------------------------------------------------------------------------

\* The partitions that are found are those that were made, in the order of
\* the table, with up to two logical ones and any number of entries of a GUID
\* table (mbr.c:65-117, gpt.c:141-172).  (A third logical partition is looked
\* for in the wrong place, an empty entry of a GUID table ends it.)
PartitionsFound ==
    table # "unprobed" => table = layout.scheme /\ parts = Expected(layout)
=============================================================================
