------------------------------- MODULE Files --------------------------------
(***************************************************************************)
(* Files of the boot loader: the list of mounted file systems, the FAT,    *)
(* ISO 9660 and AFS drivers over a block device that can fail, and fopen,  *)
(* fread, fseek and fclose on top of them.                                 *)
(*                                                                         *)
(* A volume is a record with its block size (512 or 2048 in the code), its *)
(* kind of boot sector, its sectors, and the files that were put on it.    *)
(* A sector has SectorSize bytes, or as many directory entries as fit in.  *)
(* A driver's data is threaded through its functions as a record s with    *)
(* the status st of the last call, like the structures in the code.        *)
(***************************************************************************)
EXTENDS Integers, Sequences, SequencesExt, FiniteSets

CONSTANTS
    Volumes,      \* the volumes
    SectorSize,   \* bytes in a sector
    EntrySize,    \* bytes of a directory entry (32 in the code)
    IsoEntries,   \* directory entries that fit in a sector of ISO 9660
    Paths,        \* the paths that are opened, as sequences of elements
    Reads,        \* pairs of size and count for fread
    Seeks         \* pairs of offset and origin for fseek

VARIABLES
    vol,      \* the volume in the drive
    fs_list,  \* mounted file systems: [name, drv, ok]; not ok after a failure
    data,     \* the driver's data of the mounted file system
    file,     \* the open file, or NoFile
    heard,    \* what the last call delivered
    told,     \* what it should have delivered
    want,     \* the bytes of the open file and the caller's position in it
    torn      \* a read that failed half-way has left its traces in the buffer

fivars == <<vol, fs_list, data, file, heard, told, want, torn>>

OK == "ok"
EIO == "io error"
END_OF_LIST == "end of list"

FAT12_MAX_CLUSTER == 4084
FAT16_MAX_CLUSTER == 65524
FAT32_MAX_CLUSTER == 268435446

NoEntry == [kind |-> "end", base |-> "", ext |-> "", cluster |-> 0,
            size |-> 0, frag |-> "", index |-> 0, last |-> FALSE]
Sector(v, lba) == IF lba \in DOMAIN v.sectors THEN v.sectors[lba]
                  ELSE [bytes |-> [i \in 1..SectorSize |-> 0],
                        ents |-> <<>>, head |-> "none"]
PerSector == SectorSize \div EntrySize
Ents(v, lba) == LET e == Sector(v, lba).ents
                IN  [i \in 1..PerSector |-> IF i <= Len(e) THEN e[i]
                                            ELSE NoEntry]
Over(old, new) == new \o SubSeq(old, Len(new) + 1, Len(old))

\* status = f(); if (!CHECK_SUCCESS(status)) goto has_error;
OnSuccess(s, F(_)) == IF s.st = OK THEN F(s) ELSE s

----------------------------------------------------------------------------
(* FAT: the buffers *)

\* One sector of the table; bad holds the sectors that cannot be read.
read_fat(v, s, bad, fat_sector) ==
    LET lba == s.reserved + fat_sector
    IN  CASE s.fatbuf_lba = lba -> [s EXCEPT !.st = OK]
          [] s.fatbuf_lba # lba /\ lba \in bad -> [s EXCEPT !.st = EIO]
          [] OTHER -> [s EXCEPT !.st = OK, !.fatbuf_lba = lba,
                                !.fatbuf = Sector(v, lba).bytes]

fatcluster_to_sector(s, cluster) ==
    (cluster - 2) * s.spc + s.data_begin
    + (IF s.type = "fat32" THEN 0 ELSE s.root_sectors)

\* The sectors that the device delivers before one of them fails.
Delivered(lba, count, bad) ==
    LET failing == {i \in 0..(count - 1) : lba + i \in bad}
    IN  IF failing = {} THEN count
        ELSE CHOOSE i \in failing : \A j \in failing : i <= j

\* Sectors into the buffer, the rest of which stays as it was; when the
\* device fails the buffer is still said to hold what it held before.
FillBuffer(v, s, bad, lba, count) ==
    LET bytes(n) == FlattenSeq([i \in 1..n |-> Sector(v, lba + i - 1).bytes])
        ents(n) == FlattenSeq([i \in 1..n |-> Ents(v, lba + i - 1)])
        Fill(n) == [s EXCEPT !.bytes = Over(@, bytes(n)),
                             !.ents = Over(@, ents(n)),
                             !.torn = @ \/ (n < count /\ n > 0),
                             !.st = IF n = count THEN OK ELSE EIO,
                             !.databuf_lba = IF n = count THEN lba ELSE @]
    IN  Fill(Delivered(lba, count, bad))

read_sector(v, s, bad, lba) ==
    IF s.databuf_lba = lba THEN [s EXCEPT !.st = OK]
    ELSE FillBuffer(v, s, bad, lba, 1)

\* Mutant: the buffer is not asked which cluster it holds.
any_cluster(v, s, bad, cluster) ==
    IF s.databuf_lba # -1 THEN [s EXCEPT !.st = OK]
    ELSE FillBuffer(v, s, bad, fatcluster_to_sector(s, cluster), s.spc)

read_cluster(v, s, bad, cluster) ==
    LET lba == fatcluster_to_sector(s, cluster)
    IN  IF s.databuf_lba = lba THEN [s EXCEPT !.st = OK]
        ELSE FillBuffer(v, s, bad, lba, s.spc)

----------------------------------------------------------------------------
(* FAT: the chain of clusters.  s.cluster is the cluster in question. *)

Beyond(s, max) == IF s.st = OK /\ s.cluster > max
                  THEN [s EXCEPT !.st = END_OF_LIST] ELSE s

\* An entry has one and a half bytes and may lie in two sectors.
next_cluster12(v, s, bad) ==
    LET at == s.cluster + s.cluster \div 2
        i == at % SectorSize
        Entry(lo, hi) == IF s.cluster % 2 = 1 THEN lo \div 16 + 16 * hi
                         ELSE lo + 256 * (hi % 16)
    IN  OnSuccess(read_fat(v, s, bad, at \div SectorSize), LAMBDA a :
          OnSuccess(IF i = SectorSize - 1
                    THEN read_fat(v, a, bad, at \div SectorSize + 1) ELSE a,
            LAMBDA b :
              Beyond([b EXCEPT !.cluster =
                        Entry(a.fatbuf[i + 1],
                              b.fatbuf[((i + 1) % SectorSize) + 1])],
                     FAT12_MAX_CLUSTER)))

next_cluster16(v, s, bad) ==
    LET per == SectorSize \div 2
        i == 2 * (s.cluster % per)
    IN  OnSuccess(read_fat(v, s, bad, s.cluster \div per), LAMBDA a :
          Beyond([a EXCEPT !.cluster = a.fatbuf[i + 1]
                                       + 256 * a.fatbuf[i + 2]],
                 FAT16_MAX_CLUSTER))

\* The four upper bits of an entry do not belong to it.
next_cluster32(v, s, bad) ==
    LET per == SectorSize \div 4
        i == 4 * (s.cluster % per)
    IN  OnSuccess(read_fat(v, s, bad, s.cluster \div per), LAMBDA a :
          Beyond([a EXCEPT !.cluster =
                    a.fatbuf[i + 1] + 256 * a.fatbuf[i + 2]
                    + 65536 * a.fatbuf[i + 3]
                    + 16777216 * (a.fatbuf[i + 4] % 16)],
                 FAT32_MAX_CLUSTER))

MaxCluster(s) == CASE s.type = "fat12" -> FAT12_MAX_CLUSTER
                   [] s.type = "fat16" -> FAT16_MAX_CLUSTER
                   [] OTHER -> FAT32_MAX_CLUSTER

\* The cluster that many entries further on.
get_next_cluster(v, s0, bad, cluster, count) ==
    LET Step(s) == CASE s.type = "fat12" -> next_cluster12(v, s, bad)
                     [] s.type = "fat16" -> next_cluster16(v, s, bad)
                     [] OTHER -> next_cluster32(v, s, bad)
    IN  IF cluster > MaxCluster(s0) THEN [s0 EXCEPT !.st = "invalid"]
        ELSE FoldLeft(LAMBDA s, k : OnSuccess(s, Step),
                      [s0 EXCEPT !.st = OK, !.cluster = cluster],
                      [k \in 1..count |-> k])

----------------------------------------------------------------------------
(* FAT: directories.  s.dir is the open directory. *)

get_sfn_filename(e) ==
    <<e.base>> \o (IF e.ext = "" THEN <<>> ELSE <<".", e.ext>>)

\* The fragments of a long name come last one first, each with its number.
get_lfn_filename(e, name) ==
    LET n == IF e.last THEN e.index ELSE Len(name)
    IN  [i \in 1..n |-> IF i = e.index THEN e.frag
                        ELSE IF i <= Len(name) THEN name[i] ELSE "?"]

\* The block that holds the entry at the cursor of the directory.
FetchEntries(v, s, bad, is_root, per) ==
    IF is_root
    THEN IF s.dir.index \div per >= s.root_sectors
         THEN [s EXCEPT !.st = END_OF_LIST]
         ELSE read_sector(v, s, bad, s.data_begin + s.dir.index \div per)
    ELSE OnSuccess(IF s.dir.index >= per
                   THEN get_next_cluster(v, s, bad, s.dir.current, 1)
                   ELSE [s EXCEPT !.st = OK, !.cluster = s.dir.current],
           LAMBDA a :
             OnSuccess(read_cluster(v, [a EXCEPT !.dir.index =
                                          IF @ >= per THEN 0 ELSE @],
                                    bad, a.cluster), LAMBDA b :
               [b EXCEPT !.dir.current = b.cluster]))

\* The entry handed out is taken at the index itself, which in a root
\* directory of several sectors is beyond the sector that was searched.
EntryAt(s, index) == IF index < Len(s.ents) THEN s.ents[index + 1]
                     ELSE [NoEntry EXCEPT !.kind = "file", !.base = "?"]

IsRoot(s) == s.type # "fat32" /\ s.dir.head = 0
EntriesPerBlock(s) == IF IsRoot(s) THEN PerSector ELSE s.spc * PerSector

\* One entry of the block that is in the buffer.
LookAt(s, e) ==
    LET next == [s EXCEPT !.dir.index = @ + 1]
        given == EntryAt(s, s.dir.index)
    IN  CASE e.kind = "end" -> [s EXCEPT !.st = END_OF_LIST]
          [] e.kind = "deleted" -> next
          [] e.kind = "lfn" -> [next EXCEPT !.lfn = get_lfn_filename(e, s.lfn)]
          [] e.kind = "label" -> [next EXCEPT !.lfn = <<>>]
          [] OTHER -> [next EXCEPT !.st = "found", !.dir.entry = given,
                         !.dir.name = IF s.lfn # <<>> THEN s.lfn
                                      ELSE get_sfn_filename(given)]

RECURSIVE NextEntry(_, _, _)
NextEntry(v, s, bad) ==
    LET per == EntriesPerBlock(s)
    IN  OnSuccess(FetchEntries(v, s, bad, IsRoot(s), per), LAMBDA f :
          OnSuccess(LookAt(f, f.ents[(f.dir.index % per) + 1]), LAMBDA g :
            NextEntry(v, g, bad)))

iter_directory(v, s, bad) == NextEntry(v, [s EXCEPT !.lfn = <<>>], bad)

fat_rewind_directory(s) ==
    [s EXCEPT !.dir.current = s.dir.head, !.dir.index = 0,
              !.dir.entry = NoEntry]

----------------------------------------------------------------------------
(* ISO 9660: the buffer is one sector, a directory is read from the sector *)
(* it begins in.  At the end of a sector it is the beginning of the        *)
(* directory that moves on, not the sector that is read.                   *)

iso_read_sector(v, s, bad, lba) ==
    CASE s.databuf_lba = lba -> [s EXCEPT !.st = OK]
      [] s.databuf_lba # lba /\ lba \in bad -> [s EXCEPT !.st = EIO]
      [] OTHER -> [s EXCEPT !.st = OK, !.databuf_lba = lba,
                            !.bytes = Sector(v, lba).bytes,
                            !.ents = Sector(v, lba).ents]

iso_iter_directory(v, s, bad) ==
    LET Take(a, e, full) ==
          IF e.kind = "end" THEN [a EXCEPT !.st = END_OF_LIST]
          ELSE [a EXCEPT !.st = "found", !.dir.entry = e,
                         !.dir.name = get_sfn_filename(e),
                         !.dir.index = IF full THEN 0 ELSE @ + 1,
                         !.dir.head = IF full THEN @ + 1 ELSE @]
    IN  OnSuccess(iso_read_sector(v, s, bad, s.dir.current), LAMBDA a :
          Take(a, IF a.dir.index < Len(a.ents) THEN a.ents[a.dir.index + 1]
                  ELSE NoEntry, a.dir.index + 1 >= IsoEntries))

iso_rewind_directory(s) ==
    [s EXCEPT !.dir.current = s.dir.head, !.dir.index = 0,
              !.dir.entry = NoEntry]

----------------------------------------------------------------------------
(* Both drivers *)

Iso(s) == s.type = "iso9660"

\* The first entry of that name; any failure reads as "not found".
RECURSIVE NextNamed(_, _, _, _)
NextNamed(v, s, bad, name) ==
    LET Compare(n) ==
          CASE n.st # "found" -> [n EXCEPT !.st = "not found"]
            [] n.st = "found" /\ n.dir.name = name -> [n EXCEPT !.st = OK]
            [] OTHER -> NextNamed(v, n, bad, name)
    IN  Compare(IF Iso(s) THEN iso_iter_directory(v, s, bad)
                ELSE iter_directory(v, s, bad))

match_name(v, s, bad, name) ==
    NextNamed(v, IF Iso(s) THEN iso_rewind_directory(s)
                 ELSE fat_rewind_directory(s), bad, name)

NewDir(s, head, is_root) ==
    [s EXCEPT !.st = OK,
              !.dir = [head |-> head, current |-> head, index |-> 0,
                       root |-> is_root, entry |-> NoEntry, name |-> <<>>]]

fat_open_root_directory(s) ==
    NewDir(s, IF s.type = "fat32" THEN s.root_cluster ELSE 0, TRUE)
iso_open_root_directory(s) == NewDir(s, s.rootdir_lba, TRUE)
open_root_directory(s) == IF Iso(s) THEN iso_open_root_directory(s)
                          ELSE fat_open_root_directory(s)

Dots == {<<".">>, <<"..">>}
IfDirectory(a, Enter(_)) ==
    IF a.dir.entry.kind # "dir" THEN [a EXCEPT !.st = "wrong type"]
    ELSE Enter(a)

\* A FAT directory entry with cluster 0 means the root, for which the driver
\* uses root_cluster even where no one has given it a value.
fat_open_directory(v, s, bad, name) ==
    LET Enter(a, at) == NewDir(a, IF at = 0 THEN a.root_cluster ELSE at,
                               at = 0)
    IN  IF s.dir.root /\ name \in Dots THEN fat_open_root_directory(s)
        ELSE OnSuccess(match_name(v, s, bad, name), LAMBDA a :
               IfDirectory(a, LAMBDA b : Enter(b, b.dir.entry.cluster)))

iso_open_directory(v, s, bad, name) ==
    IF s.dir.head = s.rootdir_lba /\ name \in Dots
    THEN iso_open_root_directory(s)
    ELSE OnSuccess(match_name(v, s, bad, name), LAMBDA a :
           IfDirectory(a, LAMBDA b : NewDir(b, b.dir.entry.cluster, FALSE)))

open_directory(v, s, bad, name) ==
    IF Iso(s) THEN iso_open_directory(v, s, bad, name)
    ELSE fat_open_directory(v, s, bad, name)

NoFile == [open |-> FALSE, head |-> 0, current |-> 0, cursor |-> 0,
           size |-> 0, astray |-> FALSE]
fat_open(s) ==
    [open |-> TRUE, head |-> s.dir.entry.cluster,
     current |-> s.dir.entry.cluster, cursor |-> 0, size |-> s.dir.entry.size,
     astray |-> FALSE]
iso_open(s) ==
    [open |-> TRUE, head |-> s.dir.entry.cluster, current |-> 0, cursor |-> 0,
     size |-> s.dir.entry.size, astray |-> FALSE]

\* The file of that name in the open directory.
open(v, s, bad, name) ==
    LET Result(a, f) == [s |-> a, f |-> f]
        Open(a) ==
          CASE a.st # OK -> Result(a, NoFile)
            [] a.st = OK /\ a.dir.entry.kind = "dir" ->
                 Result([a EXCEPT !.st = "wrong type"], NoFile)
            [] OTHER -> Result(a, IF Iso(a) THEN iso_open(a) ELSE fat_open(a))
    IN  Open(match_name(v, s, bad, name))

Least(a, b) == IF a < b THEN a ELSE b

\* The reads of a call: round after round until one fails or nothing is left.
\* Every round but the first and the last takes a sector at least.
ReadRounds(s0, f0, length, Round(_)) ==
    LET Begin == [s |-> s0, f |-> f0, out |-> <<>>, st |-> OK, stop |-> FALSE,
                  len |-> Least(length, f0.size - f0.cursor)]
    IN  IF f0.cursor >= f0.size
        THEN [Begin EXCEPT !.len = 0, !.st = "end of file", !.stop = TRUE]
        ELSE FoldLeft(LAMBDA r, k : IF r.len > 0 /\ r.st = OK /\ ~r.stop
                                    THEN Round(r) ELSE r,
                      Begin, [k \in 1..(length \div SectorSize + 2) |-> k])
Copied(r, s, off, n) ==
    [r EXCEPT !.len = @ - n, !.s = s, !.f.cursor = @ + n,
              !.out = @ \o SubSeq(s.bytes, off + 1, off + n)]

\* One cluster after the other.  At the end of a cluster the next one is
\* looked up at once; that this fails ends the loop and is no failure, even
\* if the cursor has gone on and the cluster has not: the file is astray.
fat_read(v, s0, f0, bad, length) ==
    LET size == SectorSize * s0.spc
        Onward(r, b) ==
          [r EXCEPT !.s = b, !.stop = b.st # OK,
                    !.f.current = IF b.st \in {OK, END_OF_LIST}
                                  THEN b.cluster ELSE @,
                    !.f.astray = @ \/ b.st \notin {OK, END_OF_LIST}]
        Piece(r, a, off, n) ==
          CASE a.st # OK -> [r EXCEPT !.s = a, !.st = EIO]
            [] a.st = OK /\ off + n < size -> Copied(r, a, off, n)
            [] OTHER -> Onward(Copied(r, a, off, n),
                               get_next_cluster(v, a, bad, r.f.current, 1))
        Round(r) ==
          LET off == r.f.cursor % size
          IN  Piece(r, read_cluster(v, r.s, bad, r.f.current), off,
                    Least(size - off, r.len))
    IN  ReadRounds(s0, f0, length, Round)

iso_read(v, s0, f0, bad, length) ==
    LET Piece(r, a, off, n) ==
          IF a.st # OK THEN [r EXCEPT !.s = a, !.st = EIO]
          ELSE Copied(r, a, off, n)
        Round(r) ==
          LET off == r.f.cursor % SectorSize
          IN  Piece(r, iso_read_sector(v, r.s, bad, r.f.head
                                         + r.f.cursor \div SectorSize),
                    off, Least(SectorSize - off, r.len))
    IN  ReadRounds(s0, f0, length, Round)

SeekTarget(f, offset, origin) ==
    Least(f.size, offset + CASE origin = "set" -> 0
                             [] origin = "cur" -> f.cursor
                             [] origin = "end" -> f.size)

\* The chain is followed from the first cluster.  Behind the last byte of a
\* last cluster that is full there is no cluster, and the call fails.
fat_seek(v, s, f, bad, to) ==
    LET Arrive(a) ==
          IF a.st # OK THEN [s |-> a, f |-> f, st |-> a.st]
          ELSE [s |-> a, st |-> OK,
                f |-> [f EXCEPT !.current = a.cluster, !.cursor = to,
                                !.astray = FALSE]]
    IN  IF to < 0 THEN [s |-> s, f |-> f, st |-> "invalid"]
        ELSE Arrive(get_next_cluster(v, s, bad, f.head,
                                     to \div (SectorSize * s.spc)))

iso_seek(s, f, to) ==
    IF to < 0 THEN [s |-> s, f |-> f, st |-> "invalid"]
    ELSE [s |-> s, f |-> [f EXCEPT !.cursor = to], st |-> OK]

----------------------------------------------------------------------------
(* Probing and mounting.  What malloc hands out is not cleared: the number *)
(* of the buffered sector of the table and the root cluster of FAT12 and   *)
(* FAT16 are what was there before.                                        *)

ClusterCount(b) ==
    LET root == (b.root_entries * EntrySize + SectorSize - 1) \div SectorSize
    IN  (b.total - (b.reserved + b.fats * b.fat_size) - root) \div b.spc

fat_probe(v, bad) ==
    /\ v.block = 512 /\ 0 \notin bad
    /\ v.bpb.signature /\ v.bpb.fs_type
    /\ ClusterCount(v.bpb) > FAT16_MAX_CLUSTER =>
         v.bpb.fsinfo \notin bad /\ Sector(v, v.bpb.fsinfo).head = "fsinfo"

NoDir == [head |-> 0, current |-> 0, index |-> 0, root |-> FALSE,
          entry |-> NoEntry, name |-> <<>>]
NoData == [type |-> "none", st |-> OK, reserved |-> 0, spc |-> 1,
           root_sectors |-> 0, data_begin |-> 0, root_cluster |-> 0,
           rootdir_lba |-> 0, fatbuf_lba |-> -1, fatbuf |-> <<>>,
           databuf_lba |-> -1, bytes |-> <<>>, ents |-> <<>>, cluster |-> 0,
           lfn |-> <<>>, dir |-> NoDir, torn |-> FALSE, lucky |-> TRUE]

\* lucky: the memory of the new data looks as if it had been cleared.  A
\* volume of type FAT32 whose second sector fails is left mounted.
fat_mount(v, bad, lucky) ==
    LET b == v.bpb
        n == ClusterCount(b)
        type == CASE n <= FAT12_MAX_CLUSTER -> "fat12"
                  [] n > FAT12_MAX_CLUSTER /\ n <= FAT16_MAX_CLUSTER -> "fat16"
                  [] OTHER -> "fat32"
        zeroes == [i \in 1..SectorSize |-> 0]
    IN  [mounted |-> v.block = 512 /\ 0 \notin bad /\ b.signature /\ b.fs_type,
         status |-> IF type = "fat32" /\ b.fsinfo \in bad THEN EIO ELSE OK,
         data |->
           [NoData EXCEPT
              !.type = type, !.reserved = b.reserved, !.spc = b.spc,
              !.root_sectors = (b.root_entries * EntrySize + SectorSize - 1)
                               \div SectorSize,
              !.data_begin = b.reserved + b.fats * b.fat_size,
              !.root_cluster = CASE type = "fat32" -> b.root_cluster
                                 [] type # "fat32" /\ lucky -> 0
                                 [] OTHER -> 9,
              !.fatbuf_lba = IF lucky THEN -1 ELSE b.reserved,
              !.fatbuf = [i \in 1..SectorSize |-> 255], !.lucky = lucky,
              !.bytes = FlattenSeq([i \in 1..b.spc |-> zeroes]),
              !.ents = [i \in 1..(b.spc * PerSector) |-> NoEntry]]]

\* The volume descriptors from sector 16 up to the terminator.
LastDescriptor(v, bad) ==
    CHOOSE l \in 16..30 :
      /\ l \in bad \/ Sector(v, l).head \in {"none", "term"}
      /\ \A k \in 16..(l - 1) : k \notin bad
                                /\ Sector(v, k).head \in {"pvd", "svd"}
Descriptors(v, bad) ==
    LET l == LastDescriptor(v, bad)
    IN  l \notin bad /\ Sector(v, l).head = "term"
Primary(v, bad) == {l \in 16..LastDescriptor(v, bad) :
                      Sector(v, l).head = "pvd"}

iso9660_probe(v, bad) ==
    v.block = 2048 /\ Descriptors(v, bad) /\ Primary(v, bad) # {}

iso9660_mount(v, bad) ==
    [mounted |-> /\ v.block = 2048 /\ Descriptors(v, bad)
                 /\ Primary(v, bad) # {} /\ v.pathtbl \notin bad,
     status |-> OK,
     data |-> [NoData EXCEPT !.type = "iso9660", !.rootdir_lba = v.rootdir,
                             !.databuf_lba = v.pathtbl]]

afs_probe(v, bad) ==
    v.block = 512 /\ 0 \notin bad /\ Sector(v, 0).head = "afs"

\* The first sector of the root block and then the whole of it.
afs_mount(v, bad) ==
    [mounted |-> /\ v.block = 512 /\ 0 \notin bad /\ Sector(v, 0).head = "afs"
                 /\ \A i \in 0..(v.bpb.spc - 1) : v.bpb.reserved + i \notin bad,
     status |-> OK,
     data |-> [NoData EXCEPT !.type = "afs", !.reserved = v.bpb.reserved,
                             !.spc = v.bpb.spc, !.databuf_lba = 0]]

\* Every operation on the files of an AFS volume is STATUS_UNIMPLEMENTED.
afs_operation(s) == [s EXCEPT !.st = "unimplemented"]

filesystem_find(list, name) == \E i \in DOMAIN list : list[i].name = name
filesystem_create(list, name) == Append(list, [name |-> name, ok |-> TRUE])
\* The first one is never taken out of the list, although its data is gone.
filesystem_remove(list) ==
    IF Len(list) > 1 THEN Front(list)
    ELSE [list EXCEPT ![1].ok = FALSE]

driver_list == <<"fat", "iso9660", "afs">>

\* Each driver in turn, until one mounts the volume.
filesystem_auto_mount(v, list0, name, bad, lucky) ==
    LET Probe(d) == CASE d = "fat" -> fat_probe(v, bad)
                      [] d = "iso9660" -> iso9660_probe(v, bad)
                      [] d = "afs" -> afs_probe(v, bad)
        Mount(d) == CASE d = "fat" -> fat_mount(v, bad, lucky)
                      [] d = "iso9660" -> iso9660_mount(v, bad)
                      [] d = "afs" -> afs_mount(v, bad)
        Try(r, d, m) ==
          IF r.done \/ ~Probe(d) \/ filesystem_find(r.list, name) THEN r
          ELSE IF m.mounted
          THEN [list |-> filesystem_create(r.list, name),
                done |-> m.status = OK, data |-> m.data]
          ELSE [r EXCEPT !.list = filesystem_remove(filesystem_create(@, name))]
    IN  FoldLeft(LAMBDA r, d : Try(r, d, Mount(d)),
                 [list |-> list0, done |-> FALSE, data |-> NoData],
                 driver_list)

----------------------------------------------------------------------------
(* What the callers of the C library see *)

Silence == [call |-> "none", ok |-> TRUE, bytes |-> <<>>, clean |-> TRUE]
NoWish == [bytes |-> <<>>, pos |-> 0]
FiInit == /\ vol \in Volumes
          /\ fs_list = <<>> /\ data = NoData /\ file = NoFile
          /\ heard = Silence /\ told = Silence /\ want = NoWish /\ torn = FALSE

\* The sectors that fail during one call.
Faults == {{}} \cup {{l} : l \in vol.faulty}

AutoMount(bad, lucky) ==
    /\ data.type = "none"
    /\ \E r \in {filesystem_auto_mount(vol, fs_list, "boot", bad, lucky)} :
         /\ fs_list' = r.list
         /\ data' = r.data
    /\ UNCHANGED <<vol, file, heard, told, want, torn>>

\* The directories on the way, without empty elements and ".".
fopen(v, s0, path, bad) ==
    LET Walk(s, x) ==
          IF x \in {<<>>, <<".">>} THEN s
          ELSE OnSuccess(s, LAMBDA d : open_directory(v, d, bad, x))
        OpenIn(s) == IF s.st # OK \/ Last(path) = <<>>
                     THEN [s |-> s, f |-> NoFile]
                     ELSE open(v, s, bad, Last(path))
    IN  IF s0.type = "afs" THEN [s |-> afs_operation(s0), f |-> NoFile]
        ELSE OpenIn(FoldLeft(Walk, open_root_directory(s0), Front(path)))

\* The file that a path means.
Resolve(path) ==
    FoldLeft(LAMBDA p, x : CASE x \in {<<>>, <<".">>} -> p
                             [] x = <<"..">> -> IF p = <<>> THEN p ELSE Front(p)
                             [] OTHER -> Append(p, x), <<>>, path)
Names(path) == Resolve(path) \in DOMAIN vol.files /\ Last(path) # <<>>

Fopen(path, bad) ==
    /\ data.type # "none" /\ ~file.open
    /\ \E r \in {fopen(vol, data, path, bad)} :
         /\ data' = [r.s EXCEPT !.dir = NoDir, !.lfn = <<>>, !.cluster = 0,
                                !.st = OK]
         /\ file' = r.f
         /\ heard' = [call |-> "fopen", ok |-> r.f.open, bytes |-> <<>>,
                      clean |-> bad = {}]
         /\ torn' = (torn \/ r.s.torn)
    /\ told' = [heard' EXCEPT !.ok = Names(path) /\ data.type # "afs"]
    /\ want' = [NoWish EXCEPT !.bytes = IF told'.ok
                                        THEN vol.files[Resolve(path)] ELSE <<>>]
    /\ UNCHANGED <<vol, fs_list>>

\* Elements one by one, up to the first that cannot be read.
fread(v, s0, f0, bad, size, count) ==
    LET Read(s, f) == IF Iso(s) THEN iso_read(v, s, f, bad, size)
                      ELSE fat_read(v, s, f, bad, size)
        After(r, q) == [s |-> q.s, f |-> q.f, st |-> q.st,
                        out |-> IF q.st = OK THEN r.out \o q.out ELSE r.out]
    IN  FoldLeft(LAMBDA r, k : OnSuccess(r, LAMBDA p : After(p, Read(p.s, p.f))),
                 [s |-> s0, f |-> f0, out |-> <<>>, st |-> OK],
                 [k \in 1..count |-> k])

Fread(size, count, bad) ==
    /\ file.open
    /\ told' = [call |-> "fread", ok |-> TRUE, clean |-> bad = {},
                bytes |-> SubSeq(want.bytes, want.pos + 1,
                                 Least(want.pos + size * count,
                                       Len(want.bytes)))]
    /\ \E r \in {fread(vol, data, file, bad, size, count)} :
         /\ data' = [r.s EXCEPT !.cluster = 0, !.st = OK]
         /\ file' = r.f
         /\ heard' = [told' EXCEPT !.bytes = r.out]
         /\ torn' = (torn \/ r.s.torn)
    /\ want' = [want EXCEPT !.pos = IF bad = {} THEN @ + Len(told'.bytes)
                                    ELSE file'.cursor]
    /\ UNCHANGED <<vol, fs_list>>

Fseek(offset, origin, bad) ==
    LET to == SeekTarget(file, offset, origin)
        size == Len(want.bytes)
        aim == offset + CASE origin = "set" -> 0 [] origin = "cur" -> want.pos
                          [] origin = "end" -> size
        full == /\ ~Iso(data) /\ size > 0 /\ aim >= size
                /\ size % (data.spc * SectorSize) = 0
    IN  /\ file.open
        /\ \E r \in {IF Iso(data) THEN iso_seek(data, file, to)
                     ELSE fat_seek(vol, data, file, bad, to)} :
             /\ data' = [r.s EXCEPT !.cluster = 0, !.st = OK]
             /\ file' = r.f
             /\ heard' = [call |-> "fseek", ok |-> r.st = OK, bytes |-> <<>>,
                          clean |-> bad = {}]
        /\ told' = [heard' EXCEPT !.ok = aim >= 0 /\ ~full]
        /\ want' = [want EXCEPT !.pos = IF heard'.ok THEN Least(aim, size)
                                        ELSE @]
        /\ UNCHANGED <<vol, fs_list, torn>>

Fclose == /\ file.open
          /\ file' = NoFile /\ heard' = Silence /\ told' = Silence
          /\ want' = NoWish
          /\ UNCHANGED <<vol, fs_list, data, torn>>

FiNext == \/ \E bad \in Faults, lucky \in BOOLEAN : AutoMount(bad, lucky)
          \/ \E path \in Paths, bad \in Faults : Fopen(path, bad)
          \/ \E r \in Reads, bad \in Faults : Fread(r[1], r[2], bad)
          \/ \E k \in Seeks, bad \in Faults : Fseek(k[1], k[2], bad)
          \/ Fclose

----------------------------------------------------------------------------

(* What fopen finds, what fread delivers and where fseek goes are what the  *)
(* files on the volume say: whatever the fragmentation of a chain, the size *)
(* of a table entry and its position across sectors, and whatever was in    *)
(* the buffers of the driver before.  When a sector cannot be read, what is *)
(* delivered is right as far as it goes, then and afterwards.  Excepted are *)
(* the cases that the code gets wrong: a buffer or a cursor left behind by  *)
(* a failed read, memory that was not cleared, a seek behind a full last    *)
(* cluster, and entries of a root directory beyond its first sector.        *)
FilesRead ==
    ~torn /\ ~file.astray /\ data.lucky =>
      /\ heard.clean => heard = told
      /\ IsPrefix(heard.bytes, told.bytes)
      /\ file.open => file.cursor = want.pos
=============================================================================
