-------------------------------- MODULE Pma --------------------------------
(***************************************************************************)
(* The kernel's physical memory allocator (kernel/mm/pma.c): how           *)
(* mm_pma_init builds the frame bitmap out of what the boot loader reports,*)
(* and allocation and release of runs of frames after it.                  *)
(*                                                                         *)
(* The memory map is in whole frames.  A frame is named by its pfn in the  *)
(* boot information and by its index from pma_base_pfn in the bitmap.      *)
(***************************************************************************)
EXTENDS Integers, Sequences, FiniteSets

CONSTANTS
    PAGE_SIZE,     \* bytes in a frame
    LowPfn,        \* frames below are conventional memory: 0x100
    ListMax,       \* room in pma_bitmap_pfn_list: 64
    MemoryMaps,    \* memory maps: sequences of [base, size, free]
    FrameLists,    \* unavailable frames as the boot loader lists them
    MaxCount       \* bound on the frames asked for or given back at once

\* A PC's map begins with conventional memory at address 0.
ASSUME PmaAssumption ==
    /\ PAGE_SIZE \in Nat \ {0}
    /\ LowPfn \in Nat
    /\ ListMax \in Nat
    /\ MaxCount \in Nat
    /\ \A mm \in MemoryMaps :
          /\ mm \in Seq([base : Nat, size : Nat \ {0}, free : BOOLEAN])
          /\ Len(mm) > 0 /\ mm[1].base = 0 /\ mm[1].free
    /\ \A uf \in FrameLists : uf \in Seq(Nat)

\* The boot loader takes the frames it lists from free memory.
ASSUME FrameListsAssumption ==
    \A mm \in MemoryMaps, uf \in FrameLists : \A k \in 1..Len(uf) :
        \E j \in 1..Len(mm) :
            mm[j].free /\ uf[k] \in mm[j].base..(mm[j].base + mm[j].size - 1)

VARIABLES
    mment, ufent,          \* the boot information
    byte0,                 \* the low two bits of the byte at address 0
    phase,                 \* "boot", "up", "hang" (for(;;)) or "panic"
    pma_base_pfn, pma_limit_pfn,
    pma_bitmap,            \* pma_bitmap[i]: state of frame pma_base_pfn + i
    pma_bitmap_pfn_list,   \* the frames that hold the bitmap
    pma_free_frames, pma_available_frames

bootinfo == <<mment, ufent, byte0>>
layout   == <<pma_base_pfn, pma_limit_pfn, pma_bitmap_pfn_list>>
vars     == <<bootinfo, layout, phase, pma_bitmap, pma_free_frames,
              pma_available_frames>>

pma_frame_desc_count == pma_limit_pfn - pma_base_pfn + 1

Indices == 0..(pma_frame_desc_count - 1)

FramesIn(state) == {i \in Indices : pma_bitmap[i] = state}

----------------------------------------------------------------------------

CeilDiv(a, b) == (a + b - 1) \div b

\* Frames that the bitmap of n two-bit descriptors fills.
BitmapFrames(n) == CeilDiv(CeilDiv(n, 4), PAGE_SIZE)

Smaller(a, b) == IF a < b THEN a ELSE b

\* Mutant: the search goes on at the unavailable frame itself.
search_from_unavailable(list, first, last, needed) ==
    LET room == Smaller(needed, ListMax)
        s[i \in 0..Len(ufent)] ==
          IF i = 0 THEN [base |-> first, list |-> list]
          ELSE LET p == s[i-1]
                   u == ufent[i]
                   n == Smaller(u - p.base, room - Len(p.list))
               IN  IF u < p.base \/ p.base > last \/ Len(p.list) >= room
                     THEN p
                     ELSE [base |-> u,
                           list |-> p.list \o [k \in 1..n |-> p.base + k - 1]]
    IN  s[Len(ufent)].list

\* The frames between p.base and the unavailable frame u join the list, until
\* there are enough; last only stops the search.
TakeBefore(p, u, last, room) ==
    LET n == Smaller(u - p.base, room - Len(p.list))
    IN  IF u < p.base \/ p.base > last \/ Len(p.list) >= room THEN p
        ELSE [base |-> u + 1,
              list |-> p.list \o [k \in 1..n |-> p.base + k - 1]]

\* Go through the list of unavailable frames and add the frames in between to
\* list, from first on.
pma_allocate_bitmap_frame(list, first, last, needed) ==
    LET s[i \in 0..Len(ufent)] ==
          IF i = 0 THEN [base |-> first, list |-> list]
          ELSE TakeBefore(s[i-1], ufent[i], last, Smaller(needed, ListMax))
    IN  s[Len(ufent)].list

\* The bitmap goes to free memory above conventional memory.
Upper(e) == e.free /\ e.base >= LowPfn

TakeFrom(list, e, needed) ==
    IF ~Upper(e) THEN list
    ELSE pma_allocate_bitmap_frame(list, e.base, e.base + e.size, needed)

BitmapList(needed) ==
    LET l[i \in 0..Len(mment)] ==
          IF i = 0 THEN <<>> ELSE TakeFrom(l[i-1], mment[i], needed)
    IN  l[Len(mment)]

\* Mutant: the highest frame of the memory is passed over.
marked_below_limit(base, limit) ==
    {ufent[i] : i \in {j \in 1..Len(ufent) :
        /\ ufent[j] >= base
        /\ \A k \in 1..j : ufent[k] <= limit}} \ {limit}

\* The unavailable frames that are marked: the loop stops at the first one
\* that is above the limit.
UnavailableMarked(base, limit) ==
    {ufent[i] : i \in {j \in 1..Len(ufent) :
        /\ ufent[j] >= base
        /\ \A k \in 1..j : ufent[k] <= limit}}

EntryLast(i) == mment[i].base + mment[i].size - 1

\* The free entry that reaches highest.
HighestFree(j) ==
    /\ mment[j].free
    /\ \A i \in 1..Len(mment) : mment[i].free => EntryLast(i) <= EntryLast(j)

(***************************************************************************)
(* While it unmaps the lower area pma_bitmap_init calls                    *)
(* mm_pma_unmark_reserved for frame 0, since it clears the entry before    *)
(* reading the frame from it, and before pma_bitmap points to the bitmap:  *)
(* the state of the frame comes from the byte at address 0, and if that    *)
(* looks reserved the counters grow by one frame.                          *)
(***************************************************************************)
CountedTwice == IF byte0 = 2 THEN 1 ELSE 0

\* The memory from frame base to frame limit, of which the frames in marked
\* are reserved.
SetUp(base, limit, marked) ==
    LET n == limit - base + 1
    IN  /\ pma_bitmap' = [i \in 0..(n-1) |-> IF i \in marked THEN "RESERVED"
                                                           ELSE "FREE"]
        /\ pma_free_frames' = n + CountedTwice - Cardinality(marked)
        /\ pma_available_frames' = n + CountedTwice - Cardinality(marked)

mm_pma_init(j) ==
    LET base   == mment[1].base
        limit  == EntryLast(j)
        needed == BitmapFrames(limit - base + 1)
        list   == BitmapList(needed)
        marked == {i \in 0..(limit - base) :
                     \/ \E k \in 1..Len(list) : list[k] = base + i
                     \/ base + i \in UnavailableMarked(base, limit)}
    IN  /\ phase = "boot"
        /\ HighestFree(j)
        /\ pma_base_pfn' = base
        /\ pma_limit_pfn' = limit
        /\ pma_bitmap_pfn_list' = list
        /\ \/ /\ Len(list) < needed
              /\ phase' = "hang"
              /\ UNCHANGED <<pma_bitmap, pma_free_frames,
                             pma_available_frames>>
           \/ /\ Len(list) >= needed
              /\ phase' = "up"
              /\ SetUp(base, limit, marked)
        /\ UNCHANGED bootinfo

----------------------------------------------------------------------------

\* count free frames from index s on, none of them in conventional memory.
FreeRun(s, count) ==
    \A i \in s..(s + count - 1) :
        i \in Indices /\ pma_bitmap[i] = "FREE" /\ pma_base_pfn + i >= LowPfn

\* The search of mm_pma_allocate_frame finds the first such run.
FirstFit(s, count) ==
    /\ FreeRun(s, count)
    /\ \A r \in 0..(s-1) : ~FreeRun(r, count)

\* Mutant: the frame after the run is counted as taken too.
allocate_counts_one_more(s, count) ==
    /\ phase = "up"
    /\ FirstFit(s, count)
    /\ pma_bitmap' = [i \in Indices |-> IF i \in s..(s + count - 1)
                        THEN "ALLOCATED" ELSE pma_bitmap[i]]
    /\ pma_free_frames' = pma_free_frames - count - 1
    /\ UNCHANGED <<bootinfo, layout, phase, pma_available_frames>>

mm_pma_allocate_frame(s, count) ==
    /\ phase = "up"
    /\ FirstFit(s, count)
    /\ pma_bitmap' = [i \in Indices |-> IF i \in s..(s + count - 1)
                        THEN "ALLOCATED" ELSE pma_bitmap[i]]
    /\ pma_free_frames' = pma_free_frames - count
    /\ UNCHANGED <<bootinfo, layout, phase, pma_available_frames>>

\* Mutant: only reserved frames are refused.
freed_before_reserved(s, count, n) ==
    /\ \A i \in s..(s + n - 1) : pma_bitmap[i] # "RESERVED"
    /\ n < count => pma_bitmap[s + n] = "RESERVED"

\* How many of the count frames from index s on the loop of
\* mm_pma_free_frame gives back before it meets one that is not allocated.
FreedBeforeError(s, count, n) ==
    /\ \A i \in s..(s + n - 1) : pma_bitmap[i] = "ALLOCATED"
    /\ n < count => pma_bitmap[s + n] # "ALLOCATED"

\* A run that is not all in range, or not all allocated, is a panic: in the
\* second case after the frames before the first bad one were given back.
mm_pma_free_frame(pfn, count) ==
    LET s == pfn - pma_base_pfn
    IN  /\ phase = "up"
        /\ \/ /\ pfn < pma_base_pfn \/ pfn + count > pma_limit_pfn + 1
              /\ phase' = "panic"
              /\ UNCHANGED <<pma_bitmap, pma_free_frames>>
           \/ /\ pfn >= pma_base_pfn /\ pfn + count <= pma_limit_pfn + 1
              /\ \E n \in 0..count :
                    /\ FreedBeforeError(s, count, n)
                    /\ phase' = IF n = count THEN "up" ELSE "panic"
                    /\ pma_bitmap' = [i \in Indices |->
                          IF i \in s..(s + n - 1) THEN "FREE"
                                                ELSE pma_bitmap[i]]
                    /\ pma_free_frames' = pma_free_frames + n
        /\ UNCHANGED <<bootinfo, layout, pma_available_frames>>

----------------------------------------------------------------------------

Init ==
    /\ mment \in MemoryMaps
    /\ ufent \in FrameLists
    /\ byte0 \in 0..3
    /\ phase = "boot"
    /\ pma_base_pfn = 0 /\ pma_limit_pfn = 0
    /\ pma_bitmap = [i \in 0..0 |-> "FREE"]
    /\ pma_bitmap_pfn_list = <<>>
    /\ pma_free_frames = 0 /\ pma_available_frames = 0

Next ==
    \/ \E j \in 1..Len(mment) : mm_pma_init(j)
    \/ \E s \in Indices, count \in 1..MaxCount :
          mm_pma_allocate_frame(s, count)
    \/ \E pfn \in 0..(pma_limit_pfn + 1), count \in 1..MaxCount :
          mm_pma_free_frame(pfn, count)

Spec == Init /\ [][Next]_vars

----------------------------------------------------------------------------

Running == phase \in {"up", "panic"}

\* Every variable of pma.c holds a value of its type; once the allocator is
\* set up the bitmap has a descriptor for each frame from pma_base_pfn to
\* pma_limit_pfn and the counters are not negative (pma.c:32-39).
TypeOK ==
    /\ mment \in MemoryMaps
    /\ ufent \in FrameLists
    /\ byte0 \in 0..3
    /\ phase \in {"boot", "up", "hang", "panic"}
    /\ pma_base_pfn = 0
    /\ pma_limit_pfn \in Nat
    /\ Running =>
         /\ pma_bitmap \in [Indices -> {"FREE", "ALLOCATED", "RESERVED"}]
         /\ pma_free_frames \in Nat
         /\ pma_available_frames \in Nat

\* The counters that mm_pma_get_free_frame_count and
\* mm_pma_get_available_frame_count report are the number of free frames and
\* of frames that are not reserved, after any sequence of allocations and
\* releases and a release that fails half-way, apart from the one frame that
\* pma_bitmap_init may count twice (pma.c:77-80, 103-104, 197, 284, 304).
CountersExact ==
    Running =>
      /\ pma_free_frames = Cardinality(FramesIn("FREE")) + CountedTwice
      /\ pma_available_frames =
            Cardinality(Indices \ FramesIn("RESERVED")) + CountedTwice

\* No frame that holds the bitmap, or that the boot loader lists as in use,
\* is ever handed out or given back, whatever the order of the list, and no
\* frame of conventional memory is handed out (pma.c:224-235, 260, 301).
ProtectedFrames ==
    Running => \A i \in Indices :
        /\ pma_bitmap[i] = "ALLOCATED" => pma_base_pfn + i >= LowPfn
        /\ \A k \in 1..Len(pma_bitmap_pfn_list) :
              pma_base_pfn + i = pma_bitmap_pfn_list[k] =>
                  pma_bitmap[i] = "RESERVED"
        /\ \A k \in 1..Len(ufent) :
              pma_base_pfn + i = ufent[k] => pma_bitmap[i] = "RESERVED"

Ascending == \A i, j \in 1..Len(ufent) : i < j => ufent[i] < ufent[j]

\* If the boot loader lists the unavailable frames in ascending order, the
\* bitmap is big enough, its frames are distinct, and none of them is
\* unavailable (pma.c:43-61, 152-168).
BitmapClearOfBoot ==
    Running /\ Ascending =>
        LET list == pma_bitmap_pfn_list
        IN  /\ Len(list) * PAGE_SIZE * 4 >= pma_frame_desc_count
            /\ \A i, j \in 1..Len(list) : i < j => list[i] < list[j]
            /\ \A i \in 1..Len(list), k \in 1..Len(ufent) :
                  list[i] # ufent[k]

\* Mutant: a frame in use does not reset the count of free frames.
scan_without_reset(count) ==
    LET s[i \in 0..pma_frame_desc_count] ==
          IF i = 0 THEN [free_count |-> 0, alloc_start_idx |-> 0]
          ELSE LET p == s[i-1]
                   on == p.free_count < count /\ pma_base_pfn + i - 1 >= LowPfn
               IN  IF ~on \/ pma_bitmap[i-1] # "FREE" THEN p
                   ELSE [free_count |-> p.free_count + 1,
                         alloc_start_idx |-> IF p.free_count = 0 THEN i - 1
                                             ELSE p.alloc_start_idx]
    IN  s[pma_frame_desc_count]

\* The search loop of mm_pma_allocate_frame: free_count and alloc_start_idx
\* after the descriptors before i, unless the loop was left earlier.
Scan(count) ==
    LET s[i \in 0..pma_frame_desc_count] ==
          IF i = 0 THEN [free_count |-> 0, alloc_start_idx |-> 0]
          ELSE LET p == s[i-1]
                   on == p.free_count < count /\ pma_base_pfn + i - 1 >= LowPfn
               IN  IF ~on THEN p
                   ELSE IF pma_bitmap[i-1] # "FREE"
                     THEN [p EXCEPT !.free_count = 0]
                   ELSE [free_count |-> p.free_count + 1,
                         alloc_start_idx |-> IF p.free_count = 0 THEN i - 1
                                             ELSE p.alloc_start_idx]
    IN  s[pma_frame_desc_count]

\* The search loop fails only when there is no run of count free frames above
\* conventional memory, and else returns the start of the first such run
\* (pma.c:256-280).
ScanFindsFirstFit ==
    Running => \A count \in 1..MaxCount :
        LET r == Scan(count)
        IN  IF r.free_count < count
              THEN \A s \in Indices : ~FreeRun(s, count)
              ELSE FirstFit(r.alloc_start_idx, count)

\* Memory that is handed out is free memory of the boot loader's memory map,
\* in which each other type of entry is memory not to be used (pma.c:123-135).
HandedOutIsFreeMemory ==
    Running => \A i \in FramesIn("ALLOCATED") :
        \E j \in 1..Len(mment) :
            mment[j].free /\ pma_base_pfn + i \in mment[j].base..EntryLast(j)
=============================================================================
