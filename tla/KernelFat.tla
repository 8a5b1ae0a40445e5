----------------------------- MODULE KernelFat ------------------------------
(***************************************************************************)
(* The FAT driver of the kernel: recognising and mounting a volume, and    *)
(* reading and writing the entries of its tables.  Blocks are fetched from *)
(* the block device and released again; a block fetched and not released   *)
(* stays in memory for ever.  The functions on entries have no callers     *)
(* yet, and mount does not store the structure they look up in fs->data:   *)
(* they are given the structure mount has built.  The other operations on  *)
(* files and directories are still empty in the code.                      *)
(*                                                                         *)
(* r is threaded through a function: the references to blocks, the bytes   *)
(* of the tables, and the status.  bad holds the blocks that cannot be     *)
(* fetched.                                                                *)
(***************************************************************************)
EXTENDS Integers, Sequences, FiniteSets

CONSTANTS
    KVolumes,    \* boot sectors: see ReadInfo
    BlockBytes,  \* bytes in a block
    KEntries,    \* entries of a table that are touched
    KValues,     \* values that are written
    KFats,       \* numbers of tables that are asked for
    Blocks,      \* bounds: blocks that are looked at,
    FatCopies,   \*   numbers of the tables of a volume,
    LastByte,    \*   the last byte of a table,
    MaxWrites    \*   writes in a behaviour

\* The tables have room for the entries.
ASSUME KernelFatAssumption ==
    /\ KEntries \subseteq Nat /\ KValues \subseteq Nat /\ KFats \subseteq Int
    /\ LastByte \in Nat /\ \A e \in KEntries : 4 * e + 3 <= LastByte
    /\ \A b \in KVolumes :
         /\ b.fat_count \in Nat
         /\ \A f \in KFats : f \in 0..(b.fat_count - 1) => f \in FatCopies

VARIABLES
    kvol,     \* the volume
    refs,     \* blocks -> references
    table,    \* <<table, byte>> -> byte
    kdata,    \* what mount found out, or NoInfo
    devdata,  \* whose structure dev->data points to
    live,     \* structures allocated: file systems, their data, directories
    entries,  \* what the tables should hold: <<table, entry>> -> value
    answer,   \* the last answer
    writes

kfvars ==
    <<kvol, refs, table, kdata, devdata, live, entries, answer, writes>>

MAX12 == 4084
MAX16 == 65524
MAX32 == 268435446
END12 == 4095
END16 == 65535
END32 == 268435455
INVALID == "invalid value"

----------------------------------------------------------------------------
(* fetch and release of the block device *)

fetch(r, bad, block) ==
    IF block \in bad THEN [r EXCEPT !.st = "io"]
    ELSE [r EXCEPT !.st = "ok", !.refs[block] = @ + 1]
release(r, block) == [r EXCEPT !.refs[block] = @ - 1]

----------------------------------------------------------------------------
(* Mounting *)

RootSectors(b) == (b.root_entries * 32 + BlockBytes - 1) \div BlockBytes
DataBegin(b) == b.reserved + b.fat_count * b.fat_size
KClusters(b) == (b.total - DataBegin(b) - RootSectors(b)) \div b.spc
KType(b) == CASE KClusters(b) <= MAX12 -> 12
              [] KClusters(b) > MAX12 /\ KClusters(b) <= MAX16 -> 16
              [] OTHER -> 32

\* Both blocks are released on every way out.
ReadInfo(r, bad, b) ==
    LET p == fetch(r, bad, 0)
        f == fetch(p, bad, b.fsinfo)
        Back(x, st) == [release(x, 0) EXCEPT !.st = st]
    IN  CASE p.st # "ok" -> p
          [] p.st = "ok" /\ ~(b.signature /\ b.fs_type) -> Back(p, "signature")
          [] p.st = "ok" /\ b.signature /\ b.fs_type /\ KType(b) # 32 ->
               Back(p, "ok")
          [] OTHER ->
               IF f.st # "ok" THEN Back(f, "io")
               ELSE Back(release(f, b.fsinfo),
                         IF b.fsinfo_ok THEN "ok" ELSE "signature")

kfat_probe(r, bad, b) == ReadInfo(r, bad, b)

NoInfo == [type |-> 0, reserved |-> 0, fat_size |-> 0, fat_count |-> 0]
\* poor says which allocation fails.  The structure goes to dev->data instead
\* of fs->data, over the data of the device's own driver, and stays there
\* when it is freed after a failure.
kfat_mount(r, bad, b, poor) ==
    LET m == ReadInfo(r, bad, b)
        done == poor = "none" /\ m.st = "ok"
    IN  [r |-> IF poor = "none" THEN m ELSE r,
         info |-> IF ~done THEN NoInfo
                  ELSE [type |-> KType(b), reserved |-> b.reserved,
                        fat_size |-> b.fat_size, fat_count |-> b.fat_count],
         made |-> IF done THEN 1 ELSE 0,
         dev |-> CASE done -> "fat"
                   [] poor = "none" /\ ~done -> "freed"
                   [] OTHER -> devdata]

\* Frees what fs->data points to, which is not what mount has allocated.
kfat_unmount(l) == [l EXCEPT !.fs = @ - 1]

open_root_dir(l, poor) == IF poor = "none" THEN [l EXCEPT !.dir = @ + 1] ELSE l
close_dir(l) == [l EXCEPT !.dir = @ - 1]

----------------------------------------------------------------------------
(* Entries of the tables *)

Block(d, fat, sector) == d.reserved + fat * d.fat_size + sector
Bad(d, fat, entry, max) == entry > max \/ fat < 0 \/ fat >= d.fat_count

\* The block with the entry, and the next one if the entry is in both.
fetch12(r, bad, d, fat, entry) ==
    LET at == entry + entry \div 2
        sector == at \div BlockBytes
        a == fetch(r, bad, Block(d, fat, sector))
        b == fetch(a, bad, Block(d, fat, sector + 1))
        two == at % BlockBytes = BlockBytes - 1
    IN  CASE a.st # "ok" -> a
          [] a.st = "ok" /\ two /\ b.st # "ok" ->
               [release(b, Block(d, fat, sector)) EXCEPT !.st = "io"]
          [] a.st = "ok" /\ two /\ b.st = "ok" ->
               release(release(b, Block(d, fat, sector + 1)),
                       Block(d, fat, sector))
          [] OTHER -> release(a, Block(d, fat, sector))

read_fat_entry12(r, bad, d, fat, entry) ==
    LET at == entry + entry \div 2
        f == fetch12(r, bad, d, fat, entry)
        lo == r.table[<<fat, at>>]
        hi == r.table[<<fat, at + 1>>]
    IN  IF Bad(d, fat, entry, MAX12) THEN [r |-> [r EXCEPT !.st = INVALID],
                                           value |-> 0]
        ELSE [r |-> f, value |-> IF f.st # "ok" THEN 0
                                 ELSE IF entry % 2 = 1
                                 THEN lo \div 16 + 16 * hi
                                 ELSE lo + 256 * (hi % 16)]

\* One block holds the entry.
fetch_one(r, bad, block) ==
    LET a == fetch(r, bad, block)
    IN  IF a.st = "ok" THEN release(a, block) ELSE a

read_fat_entry16(r, bad, d, fat, entry) ==
    LET f == fetch_one(r, bad, Block(d, fat, entry \div (BlockBytes \div 2)))
        B(i) == r.table[<<fat, 2 * entry + i>>]
    IN  IF Bad(d, fat, entry, MAX16) THEN [r |-> [r EXCEPT !.st = INVALID],
                                           value |-> 0]
        ELSE [r |-> f, value |-> IF f.st # "ok" THEN 0 ELSE B(0) + 256 * B(1)]

read_fat_entry32(r, bad, d, fat, entry) ==
    LET f == fetch_one(r, bad, Block(d, fat, entry \div (BlockBytes \div 4)))
        B(i) == r.table[<<fat, 4 * entry + i>>]
    IN  IF Bad(d, fat, entry, MAX32) THEN [r |-> [r EXCEPT !.st = INVALID],
                                           value |-> 0]
        ELSE [r |-> f, value |-> IF f.st # "ok" THEN 0
                                 ELSE B(0) + 256 * B(1) + 65536 * B(2)
                                      + 16777216 * (B(3) % 16)]

\* Mutant: the first byte is written before the second block is fetched.
write_early(r, bad, d, fat, entry, value) ==
    LET at == entry + entry \div 2
        a == fetch(r, bad, Block(d, fat, at \div BlockBytes))
        f == fetch12(r, bad, d, fat, entry)
        odd == entry % 2 = 1
        low(x) == IF odd THEN (x % 16) + 16 * (value % 16) ELSE value % 256
    IN  IF value > END12 \/ Bad(d, fat, entry, MAX12)
        THEN [r EXCEPT !.st = INVALID]
        ELSE IF a.st # "ok" THEN a
        ELSE IF f.st # "ok" THEN [f EXCEPT !.table[<<fat, at>>] = low(@)]
        ELSE [f EXCEPT
                !.table[<<fat, at>>] = low(@),
                !.table[<<fat, at + 1>>] =
                   IF odd THEN value \div 16
                   ELSE 16 * (@ \div 16) + value \div 256]

\* The half of a byte that belongs to the neighbour stays as it is.
write_fat_entry12(r, bad, d, fat, entry, value) ==
    LET at == entry + entry \div 2
        f == fetch12(r, bad, d, fat, entry)
        odd == entry % 2 = 1
    IN  IF value > END12 \/ Bad(d, fat, entry, MAX12)
        THEN [r EXCEPT !.st = INVALID]
        ELSE IF f.st # "ok" THEN f
        ELSE [f EXCEPT
                !.table[<<fat, at + 1>>] =
                   IF odd THEN value \div 16
                   ELSE 16 * (@ \div 16) + value \div 256,
                !.table[<<fat, at>>] =
                   IF odd THEN (@ % 16) + 16 * (value % 16)
                   ELSE value % 256]

\* Byte i of a number, from the lowest.
Byte(x, i) == (x \div <<1, 256, 65536, 16777216>>[i + 1]) % 256

write_fat_entry16(r, bad, d, fat, entry, value) ==
    LET f == fetch_one(r, bad, Block(d, fat, entry \div (BlockBytes \div 2)))
    IN  IF value > END16 \/ Bad(d, fat, entry, MAX16)
        THEN [r EXCEPT !.st = INVALID]
        ELSE IF f.st # "ok" THEN f
        ELSE [f EXCEPT !.table[<<fat, 2 * entry>>] = Byte(value, 0),
                       !.table[<<fat, 2 * entry + 1>>] = Byte(value, 1)]

write_fat_entry32(r, bad, d, fat, entry, value) ==
    LET f == fetch_one(r, bad, Block(d, fat, entry \div (BlockBytes \div 4)))
    IN  IF value > END32 \/ Bad(d, fat, entry, MAX32)
        THEN [r EXCEPT !.st = INVALID]
        ELSE IF f.st # "ok" THEN f
        ELSE [f EXCEPT
                !.table[<<fat, 4 * entry>>] = Byte(value, 0),
                !.table[<<fat, 4 * entry + 1>>] = Byte(value, 1),
                !.table[<<fat, 4 * entry + 2>>] = Byte(value, 2),
                !.table[<<fat, 4 * entry + 3>>] =
                   16 * (@ \div 16) + (Byte(value, 3) % 16)]

read_fat_entry(r, bad, d, fat, entry) ==
    CASE d.type = 12 -> read_fat_entry12(r, bad, d, fat, entry)
      [] d.type = 16 -> read_fat_entry16(r, bad, d, fat, entry)
      [] OTHER -> read_fat_entry32(r, bad, d, fat, entry)

write_fat_entry(r, bad, d, fat, entry, value) ==
    CASE d.type = 12 -> write_fat_entry12(r, bad, d, fat, entry, value)
      [] d.type = 16 -> write_fat_entry16(r, bad, d, fat, entry, value)
      [] OTHER -> write_fat_entry32(r, bad, d, fat, entry, value)

----------------------------------------------------------------------------

\* The four upper bits of a FAT32 entry are not the driver's.
FirstByte(b, i) == IF KType(b) = 32 /\ i % 4 = 3 THEN 160 ELSE 0

Registers == [refs |-> refs, table |-> table, st |-> "ok"]

KfInit ==
    /\ kvol \in KVolumes
    /\ refs = [l \in Blocks |-> 0]
    /\ table = [x \in FatCopies \X (0..LastByte) |-> FirstByte(kvol, x[2])]
    /\ kdata = NoInfo /\ devdata = "device"
    /\ live = [fs |-> 0, data |-> 0, dir |-> 0]
    /\ entries = [x \in FatCopies \X KEntries |-> 0]
    /\ answer = [asked |-> <<0, 0>>, ok |-> FALSE, value |-> 0]
    /\ writes = 0

KFaults == {{}} \cup {{l} : l \in kvol.faulty}

KProbe(bad) ==
    /\ kdata = NoInfo
    /\ refs' = kfat_probe(Registers, bad, kvol).refs
    /\ UNCHANGED <<kvol, table, kdata, devdata, live, entries, answer,
                   writes>>

KMount(bad, poor) ==
    LET m == kfat_mount(Registers, bad, kvol, poor)
    IN  /\ kdata = NoInfo /\ live.data = 0
        /\ refs' = m.r.refs /\ kdata' = m.info /\ devdata' = m.dev
        /\ live' = [live EXCEPT !.fs = @ + m.made, !.data = @ + m.made]
        /\ UNCHANGED <<kvol, table, entries, answer, writes>>

KUnmount ==
    /\ kdata # NoInfo /\ live.dir = 0
    /\ kdata' = NoInfo /\ live' = kfat_unmount(live)
    /\ answer' = [answer EXCEPT !.ok = FALSE]
    /\ UNCHANGED <<kvol, refs, table, devdata, entries, writes>>

KRootDir(poor) ==
    /\ kdata # NoInfo
    /\ live' = IF live.dir = 0 THEN open_root_dir(live, poor)
               ELSE close_dir(live)
    /\ UNCHANGED <<kvol, refs, table, kdata, devdata, entries, answer, writes>>

KRead(fat, entry, bad) ==
    LET g == read_fat_entry(Registers, bad, kdata, fat, entry)
    IN  /\ kdata # NoInfo
        /\ refs' = g.r.refs
        /\ answer' = [asked |-> <<fat, entry>>, ok |-> g.r.st = "ok",
                      value |-> g.value]
        /\ UNCHANGED <<kvol, table, kdata, devdata, live, entries, writes>>

KWrite(fat, entry, value, bad) ==
    LET g == write_fat_entry(Registers, bad, kdata, fat, entry, value)
    IN  /\ kdata # NoInfo /\ writes < MaxWrites
        /\ writes' = writes + 1
        /\ refs' = g.refs /\ table' = g.table
        /\ entries' = IF g.st = "ok"
                      THEN [entries EXCEPT ![<<fat, entry>>] = value]
                      ELSE entries
        /\ answer' = [answer EXCEPT !.ok = FALSE]
        /\ UNCHANGED <<kvol, kdata, devdata, live>>

KfNext ==
    \/ \E bad \in KFaults : KProbe(bad)
    \/ \E bad \in KFaults, poor \in {"none", "fs", "data"} :
         KMount(bad, poor)
    \/ KUnmount
    \/ \E poor \in {"none", "dir"} : KRootDir(poor)
    \/ \E fat \in KFats, e \in KEntries, bad \in KFaults : KRead(fat, e, bad)
    \/ \E fat \in KFats, e \in KEntries, x \in KValues, bad \in KFaults :
         KWrite(fat, e, x, bad)

KfSpec == KfInit /\ [][KfNext]_kfvars

----------------------------------------------------------------------------
(* The entry as the format has it: 3, 4 or 7 digits of 4 bits, the entries *)
(* of 3 digits without a gap, those of 7 digits in places of 8.            *)
Weight(i) == <<1, 16, 256, 4096, 65536, 1048576, 16777216>>[i + 1]
Digit(fat, i) == (table[<<fat, i \div 2>>] \div Weight(i % 2)) % 16
Holds(fat, entry, value) ==
    LET place == IF kdata.type = 12 THEN 3 ELSE kdata.type \div 4
        used == IF kdata.type = 32 THEN 7 ELSE place
    IN  /\ value \in 0..(16 * Weight(used - 1) - 1)
        /\ \A i \in 0..(used - 1) :
             Digit(fat, place * entry + i) = (value \div Weight(i)) % 16

(* Every table holds exactly what was written to it: writing an entry       *)
(* changes no neighbour, not even the one in the same byte, and happens     *)
(* completely or not at all when one of its two blocks cannot be fetched;   *)
(* an entry that is read has its last value; the bits of FAT32 that are not *)
(* the driver's stay; and no call leaves a block fetched or a file system   *)
(* half made, wherever it fails.                                            *)
TablesKept ==
    /\ \A l \in Blocks : refs[l] = 0
    /\ live.fs = (IF kdata = NoInfo THEN 0 ELSE 1)
    /\ kdata # NoInfo =>
         /\ \A x \in DOMAIN entries : Holds(x[1], x[2], entries[x])
         /\ kdata.type = 32 =>
              \A x \in DOMAIN entries : Digit(x[1], 8 * x[2] + 7) = 10
         /\ answer.ok => answer.value = entries[answer.asked]
=============================================================================
