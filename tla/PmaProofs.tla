----------------------------- MODULE PmaProofs -----------------------------
(***************************************************************************)
(* The physical memory allocator keeps its counters exact and never hands  *)
(* out a protected frame, for every memory map, list of unavailable frames *)
(* and size of request.                                                    *)
(*                                                                         *)
(* The invariant is the conjunction of the two with the types.  The        *)
(* counters are compared with the cardinality of the set of free frames:   *)
(* an allocation takes an interval of free frames out of that set, and a   *)
(* release, complete or not, adds one of allocated frames to it.           *)
(***************************************************************************)
EXTENDS Pma, Foundations, SequenceTheorems

IInv == TypeOK /\ CountersExact /\ ProtectedFrames

----------------------------------------------------------------------------

\* The first n of count frames are in range when all of them are.
LEMMA RunInRange ==
    ASSUME NEW base \in Nat, NEW limit \in Nat, NEW pfn \in Nat,
           NEW count \in Nat, NEW n \in 0..count,
           pfn >= base, pfn + count <= limit + 1
    PROVE  /\ pfn - base \in Nat /\ n \in Nat
           /\ \A i \in (pfn - base)..((pfn - base) + n - 1) :
                 i \in 0..((limit - base + 1) - 1)
  OBVIOUS

USE PmaAssumption

\* The elements of a sequence.
LEMMA SeqElement ==
    ASSUME NEW S, NEW seq \in Seq(S), NEW i \in 1..Len(seq)
    PROVE  seq[i] \in S
  OBVIOUS

\* The entries of a memory map and of a list of unavailable frames.
LEMMA BootInfoTypes ==
    ASSUME TypeOK
    PROVE  /\ \A j \in 1..Len(mment) :
                 /\ mment[j].base \in Nat
                 /\ mment[j].size \in Nat \ {0}
                 /\ EntryLast(j) \in Nat
           /\ \A k \in 1..Len(ufent) : ufent[k] \in Nat
           /\ Len(ufent) \in Nat
<1> DEFINE Entries == [base : Nat, size : Nat \ {0}, free : BOOLEAN]
<1>1. mment \in Seq(Entries) /\ ufent \in Seq(Nat)
  BY DEF TypeOK
<1> HIDE DEF Entries
<1>2. ASSUME NEW j \in 1..Len(mment)
      PROVE  /\ mment[j].base \in Nat
             /\ mment[j].size \in Nat \ {0}
  <2>1. mment[j] \in Entries
    BY <1>1, SeqElement
  <2> QED
    BY <2>1 DEF Entries
<1>3. \A k \in 1..Len(ufent) : ufent[k] \in Nat
  BY <1>1, SeqElement
<1> QED
  BY <1>1, <1>2, <1>3 DEF EntryLast

\* The length of a run of descriptors.
LEMMA RunLength ==
    ASSUME NEW s \in Int, NEW n \in Nat
    PROVE  /\ IsFiniteSet(s..(s + n - 1))
           /\ Cardinality(s..(s + n - 1)) = n
<1>1. s + n - 1 \in Int
  OBVIOUS
<1>2. /\ IsFiniteSet(s..(s + n - 1))
      /\ Cardinality(s..(s + n - 1)) =
           IF s > s + n - 1 THEN 0 ELSE (s + n - 1) - s + 1
  BY <1>1, FS_Interval
<1> QED
  BY <1>2

\* Of the descriptors 0 to last those that are marked, and the others.
LEMMA Unmarked ==
    ASSUME NEW last \in Nat, NEW M \in SUBSET (0..last)
    PROVE  /\ Cardinality(M) \in Nat
           /\ Cardinality((0..last) \ M) \in Nat
           /\ Cardinality((0..last) \ M) = last + 1 - Cardinality(M)
<1> DEFINE R == 0..last
<1>1. IsFiniteSet(R) /\ Cardinality(R) = last + 1
  BY FS_Interval
<1>2. M \subseteq R
  OBVIOUS
<1> HIDE DEF R
<1>3. Cardinality(M) \in Nat
  BY <1>1, <1>2, FS_Subset, FS_CardinalityType, ZenonT(60)
<1>4. /\ IsFiniteSet(R \ M)
      /\ Cardinality(R \ M) = Cardinality(R) - Cardinality(R \cap M)
  BY <1>1, FS_Difference, ZenonT(60)
<1>5. R \cap M = M
  BY <1>2, ZenonT(60)
<1>6. Cardinality(R \ M) \in Nat
  BY <1>4, FS_CardinalityType
<1>7. Cardinality(R \ M) = last + 1 - Cardinality(M)
  <2>1. Cardinality(R \ M) = Cardinality(R) - Cardinality(M)
    BY <1>4, <1>5, Zenon
  <2> QED
    BY <1>1, <1>3, <2>1
<1> QED
  BY <1>3, <1>6, <1>7 DEF R

\* The sets of frames in each state are finite.
LEMMA FiniteFrames ==
    ASSUME TypeOK, NEW state
    PROVE  /\ IsFiniteSet(Indices)
           /\ IsFiniteSet(FramesIn(state))
           /\ Cardinality(FramesIn(state)) \in Nat
           /\ IsFiniteSet(Indices \ FramesIn(state))
           /\ Cardinality(Indices \ FramesIn(state)) \in Nat
<1>1. IsFiniteSet(Indices)
  <2>1. pma_frame_desc_count - 1 \in Int
    BY DEF pma_frame_desc_count, TypeOK
  <2> QED
    BY <2>1, FS_Interval DEF Indices
<1>2. FramesIn(state) \subseteq Indices
  BY DEF FramesIn
<1>3. IsFiniteSet(FramesIn(state)) /\ IsFiniteSet(Indices \ FramesIn(state))
  BY <1>1, <1>2, FS_Subset
<1> QED
  BY <1>1, <1>3, FS_CardinalityType

----------------------------------------------------------------------------

\* mm_pma_init sets the counters to the number of frames it leaves free, and
\* marks every frame of the bitmap and of the boot loader's list.
LEMMA InitStep ==
    ASSUME IInv, NEW j \in 1..Len(mment), mm_pma_init(j)
    PROVE  IInv'
<1> DEFINE base   == mment[1].base
           limit  == EntryLast(j)
           needed == BitmapFrames(limit - base + 1)
           list   == BitmapList(needed)
           marked == {i \in 0..(limit - base) :
                       \/ \E k \in 1..Len(list) : list[k] = base + i
                       \/ base + i \in UnavailableMarked(base, limit)}
<1>1. /\ HighestFree(j)
      /\ phase = "boot"
      /\ pma_base_pfn' = base
      /\ pma_limit_pfn' = limit
      /\ pma_bitmap_pfn_list' = list
      /\ UNCHANGED bootinfo
      /\ \/ phase' = "hang"
         \/ phase' = "up" /\ SetUp(base, limit, marked)
  BY DEF mm_pma_init
<1>2. TypeOK
  BY DEF IInv
<1>4. base = 0 /\ limit \in Nat
  BY <1>2, BootInfoTypes DEF TypeOK
<1> HIDE DEF base, limit, needed, list
<1>5. CASE phase' = "hang"
  BY <1>1, <1>4, <1>5 DEF IInv, TypeOK, CountersExact, ProtectedFrames,
      Running, bootinfo
<1>6. CASE phase' = "up" /\ SetUp(base, limit, marked)
  <2>1. /\ pma_bitmap' = [i \in 0..limit |-> IF i \in marked THEN "RESERVED"
                                                          ELSE "FREE"]
        /\ pma_free_frames' = limit + 1 + CountedTwice - Cardinality(marked)
        /\ pma_available_frames' =
             limit + 1 + CountedTwice - Cardinality(marked)
    BY <1>4, <1>6 DEF SetUp
  <2>2. Indices' = 0..limit
    BY <1>1, <1>4 DEF Indices, pma_frame_desc_count
  <2>3. marked \subseteq 0..limit
    BY <1>4
  <2> HIDE DEF marked
  <2> DEFINE rest == (0..limit) \ marked
  <2>5. /\ Cardinality(marked) \in Nat
        /\ Cardinality(rest) \in Nat
        /\ Cardinality(rest) = limit + 1 - Cardinality(marked)
    BY <1>4, <2>3, Unmarked, ZenonT(60)
  <2>6. FramesIn("FREE")' = rest
    BY <2>1, <2>2, <2>3 DEF FramesIn
  <2>7. (Indices \ FramesIn("RESERVED"))' = rest
    BY <2>1, <2>2, <2>3 DEF FramesIn
  <2> HIDE DEF rest
  <2>8. CountedTwice' = CountedTwice /\ CountedTwice \in Nat
    BY <1>1 DEF CountedTwice, bootinfo
  <2>9. CountersExact'
    <3>1. pma_free_frames' = Cardinality(rest) + CountedTwice'
      BY <1>4, <2>1, <2>5, <2>8
    <3>2. pma_available_frames' = Cardinality(rest) + CountedTwice'
      BY <1>4, <2>1, <2>5, <2>8
    <3> QED
      BY <2>6, <2>7, <3>1, <3>2, ZenonT(60) DEF CountersExact
  <2>10. TypeOK'
    <3>1. pma_free_frames' \in Nat /\ pma_available_frames' \in Nat
      BY <2>1, <2>5, <2>8, <1>4
    <3>2. pma_bitmap' \in [Indices' -> {"FREE", "ALLOCATED", "RESERVED"}]
      BY <2>1, <2>2
    <3> QED
      BY <1>1, <1>4, <1>6, <3>1, <3>2 DEF IInv, TypeOK, bootinfo, Running
  <2>11. ProtectedFrames'
    <3> SUFFICES ASSUME NEW i \in 0..limit
                 PROVE  /\ pma_bitmap'[i] # "ALLOCATED"
                        /\ \A k \in 1..Len(list) :
                              i = list[k] => i \in marked
                        /\ \A k \in 1..Len(ufent) :
                              i = ufent[k] => i \in marked
      BY <1>1, <1>4, <2>1, <2>2 DEF ProtectedFrames, bootinfo
    <3>1. pma_bitmap'[i] # "ALLOCATED"
      BY <2>1
    <3>2. ASSUME NEW k \in 1..Len(list), i = list[k] PROVE i \in marked
      BY <1>4, <3>2 DEF marked
    <3>3. ASSUME NEW k \in 1..Len(ufent), i = ufent[k] PROVE i \in marked
      <4>1. \A h \in 1..Len(ufent) : ufent[h] <= limit
        <5> TAKE h \in 1..Len(ufent)
        <5>1. PICK m \in 1..Len(mment) :
                  mment[m].free /\ ufent[h] \in mment[m].base..EntryLast(m)
          BY <1>2, FrameListsAssumption, ZenonT(60) DEF TypeOK, EntryLast
        <5>2. EntryLast(m) <= limit
          BY <1>1, <5>1 DEF HighestFree, limit
        <5> QED
          BY <5>1, <5>2, <1>2, <1>4, BootInfoTypes
      <4>2. k \in Nat /\ \A g \in 1..k : g \in 1..Len(ufent)
        BY <1>2, BootInfoTypes
      <4>3. i \in UnavailableMarked(base, limit)
        BY <4>1, <4>2, <3>3, <1>4 DEF UnavailableMarked
      <4> QED
        BY <4>3, <1>4 DEF marked
    <3> QED
      BY <3>1, <3>2, <3>3
  <2> QED
    BY <2>9, <2>10, <2>11 DEF IInv
<1> QED
  BY <1>1, <1>5, <1>6

\* An allocation takes count frames out of the free ones and no other step
\* changes: the counters stay exact and no protected frame is free to take.
LEMMA AllocateStep ==
    ASSUME IInv, NEW s \in Indices, NEW count \in 1..MaxCount,
           mm_pma_allocate_frame(s, count)
    PROVE  IInv'
<1> DEFINE run == s..(s + count - 1)
<1>1. /\ phase = "up" /\ FreeRun(s, count)
      /\ pma_bitmap' = [i \in Indices |-> IF i \in run THEN "ALLOCATED"
                                          ELSE pma_bitmap[i]]
      /\ pma_free_frames' = pma_free_frames - count
      /\ UNCHANGED <<bootinfo, layout, phase, pma_available_frames>>
  BY DEF mm_pma_allocate_frame, FirstFit
<1>2. Indices' = Indices /\ UNCHANGED <<mment, ufent, pma_base_pfn,
                                        pma_limit_pfn, pma_bitmap_pfn_list>>
  BY <1>1 DEF Indices, pma_frame_desc_count, layout, bootinfo
<1>3. /\ run \subseteq FramesIn("FREE")
      /\ \A i \in run : pma_base_pfn + i >= LowPfn
  BY <1>1 DEF FreeRun, FramesIn
<1>4. s \in Int /\ count \in Nat
  BY DEF Indices
<1>5. IsFiniteSet(run) /\ Cardinality(run) = count
  BY <1>4, RunLength, ZenonT(60)
<1> HIDE DEF run
<1>6. /\ TypeOK
      /\ Running
      /\ pma_bitmap \in [Indices -> {"FREE", "ALLOCATED", "RESERVED"}]
      /\ pma_available_frames \in Nat
      /\ pma_free_frames = Cardinality(FramesIn("FREE")) + CountedTwice
      /\ pma_available_frames =
            Cardinality(Indices \ FramesIn("RESERVED")) + CountedTwice
  BY <1>1 DEF IInv, TypeOK, CountersExact, Running
<1> DEFINE free == FramesIn("FREE")
<1>7. FramesIn("FREE")' = free \ run
  BY <1>1, <1>2, <1>6 DEF FramesIn
<1>8. FramesIn("RESERVED")' = FramesIn("RESERVED")
  BY <1>1, <1>2, <1>3, <1>6 DEF FramesIn
<1>9. IsFiniteSet(free) /\ Cardinality(free) \in Nat
  BY <1>6, FiniteFrames, ZenonT(60)
<1>10. Cardinality(free \ run) \in Nat
  <2>1. IsFiniteSet(free \ run)
    BY <1>9, FS_Difference, ZenonT(60)
  <2> QED
    BY <2>1, FS_CardinalityType
<1>11. Cardinality(free \ run) = Cardinality(free) - count
  <2>1. free \cap run = run
    BY <1>3
  <2>2. Cardinality(free \ run) =
            Cardinality(free) - Cardinality(free \cap run)
    BY <1>9, FS_Difference, ZenonT(60)
  <2> QED
    BY <2>1, <2>2, <1>5, Zenon
<1>12. CountedTwice' = CountedTwice /\ CountedTwice \in Nat
  BY <1>1 DEF CountedTwice, bootinfo
<1> HIDE DEF free
<1>13. pma_free_frames' = Cardinality(free \ run) + CountedTwice
  <2>1. pma_free_frames = Cardinality(free) + CountedTwice
    BY <1>6 DEF free
  <2> QED
    BY <2>1, <1>1, <1>4, <1>9, <1>11, <1>12
<1>14. CountersExact'
  <2>1. (Indices \ FramesIn("RESERVED"))' = Indices \ FramesIn("RESERVED")
    BY <1>2, <1>8
  <2> QED
    BY <1>1, <1>6, <1>7, <1>12, <1>13, <2>1, ZenonT(60) DEF CountersExact
<1>15. TypeOK'
  <2>1. pma_free_frames' \in Nat
    BY <1>10, <1>12, <1>13
  <2>2. pma_bitmap' \in [Indices -> {"FREE", "ALLOCATED", "RESERVED"}]
    BY <1>1, <1>6
  <2> QED
    BY <1>1, <1>2, <1>6, <2>1, <2>2 DEF TypeOK, Running, bootinfo, layout
<1>16. ProtectedFrames'
  <2> SUFFICES ASSUME NEW i \in Indices
               PROVE  /\ pma_bitmap'[i] = "ALLOCATED" =>
                            pma_base_pfn + i >= LowPfn
                      /\ pma_bitmap[i] = "RESERVED" =>
                            pma_bitmap'[i] = "RESERVED"
    BY <1>2, <1>6 DEF IInv, ProtectedFrames
  <2>1. CASE i \in run
    BY <1>1, <1>3, <2>1 DEF FramesIn
  <2>2. CASE i \notin run
    BY <1>1, <1>6, <2>2 DEF IInv, ProtectedFrames
  <2> QED
    BY <2>1, <2>2
<1> QED
  BY <1>14, <1>15, <1>16 DEF IInv

\* A release adds to the free frames those that it gives back, also when it
\* ends in a panic, and a reserved frame is not among them.
LEMMA FreeStep ==
    ASSUME IInv, NEW pfn \in 0..(pma_limit_pfn + 1), NEW count \in 1..MaxCount,
           mm_pma_free_frame(pfn, count)
    PROVE  IInv'
<1>1. /\ phase = "up" /\ phase' \in {"up", "panic"}
      /\ UNCHANGED <<bootinfo, layout, pma_available_frames>>
  BY DEF mm_pma_free_frame
<1>2. Indices' = Indices /\ UNCHANGED <<mment, ufent, pma_base_pfn,
                                        pma_limit_pfn, pma_bitmap_pfn_list>>
  BY <1>1 DEF Indices, pma_frame_desc_count, layout, bootinfo
<1>3. /\ TypeOK
      /\ Running /\ Running'
      /\ pma_bitmap \in [Indices -> {"FREE", "ALLOCATED", "RESERVED"}]
      /\ pma_available_frames \in Nat
      /\ pma_free_frames \in Nat
      /\ pma_free_frames = Cardinality(FramesIn("FREE")) + CountedTwice
      /\ pma_available_frames =
            Cardinality(Indices \ FramesIn("RESERVED")) + CountedTwice
  BY <1>1 DEF IInv, TypeOK, CountersExact, Running
<1>4. CountedTwice' = CountedTwice /\ CountedTwice \in Nat
  BY <1>1 DEF CountedTwice, bootinfo
<1>5. CASE UNCHANGED <<pma_bitmap, pma_free_frames>>
  <2>1. FramesIn("FREE")' = FramesIn("FREE")
    BY <1>2, <1>5 DEF FramesIn
  <2>2. (Indices \ FramesIn("RESERVED"))' = Indices \ FramesIn("RESERVED")
    BY <1>2, <1>5 DEF FramesIn
  <2>3. CountersExact'
    BY <1>1, <1>3, <1>4, <1>5, <2>1, <2>2, ZenonT(60) DEF CountersExact
  <2>4. TypeOK'
    BY <1>1, <1>2, <1>3, <1>5 DEF TypeOK, bootinfo, layout
  <2>5. ProtectedFrames'
    BY <1>2, <1>3, <1>5 DEF IInv, ProtectedFrames
  <2> QED
    BY <2>3, <2>4, <2>5 DEF IInv
<1>6. ASSUME NEW s \in Nat, NEW n \in Nat,
             \A i \in s..(s + n - 1) :
                i \in Indices /\ pma_bitmap[i] = "ALLOCATED",
             pma_bitmap' = [i \in Indices |-> IF i \in s..(s + n - 1)
                              THEN "FREE" ELSE pma_bitmap[i]],
             pma_free_frames' = pma_free_frames + n
      PROVE  IInv'
  <2> DEFINE run == s..(s + n - 1)
             free == FramesIn("FREE")
  <2>1. IsFiniteSet(run) /\ Cardinality(run) = n
    <3>1. s \in Int
      OBVIOUS
    <3> QED
      BY <3>1, RunLength, Zenon
  <2>2. /\ run \subseteq Indices
        /\ \A i \in run : pma_bitmap[i] = "ALLOCATED"
        /\ pma_bitmap' = [i \in Indices |-> IF i \in run THEN "FREE"
                                            ELSE pma_bitmap[i]]
    BY <1>6, SMTT(30)
  <2> HIDE DEF run
  <2>3. FramesIn("FREE")' = free \cup run
    BY <1>2, <2>2 DEF FramesIn
  <2>4. FramesIn("RESERVED")' = FramesIn("RESERVED")
    BY <1>2, <2>2 DEF FramesIn
  <2>5. IsFiniteSet(free) /\ Cardinality(free) \in Nat
    BY <1>3, FiniteFrames, ZenonT(60)
  <2>6. free \cap run = {}
    BY <2>2 DEF FramesIn
  <2> HIDE DEF free
  <2>7. Cardinality(free \cup run) = Cardinality(free) + n
    <3>1. Cardinality(free \cup run) =
            Cardinality(free) + Cardinality(run) - Cardinality(free \cap run)
      BY <2>1, <2>5, FS_Union
    <3>2. Cardinality(free \cap run) = 0
      BY <2>6, FS_EmptySet, ZenonT(60)
    <3> QED
      BY <3>1, <3>2, <2>1, <2>5
  <2>8. pma_free_frames' = Cardinality(free \cup run) + CountedTwice
    <3>1. pma_free_frames = Cardinality(free) + CountedTwice
      BY <1>3 DEF free
    <3> QED
      BY <3>1, <1>4, <1>6, <2>5, <2>7
  <2>9. CountersExact'
    <3>1. (Indices \ FramesIn("RESERVED"))' = Indices \ FramesIn("RESERVED")
      BY <1>2, <2>4
    <3> QED
      BY <1>1, <1>3, <1>4, <2>3, <2>8, <3>1, ZenonT(60) DEF CountersExact
  <2>10. TypeOK'
    <3>1. pma_free_frames' \in Nat
      BY <1>3, <1>6
    <3>2. pma_bitmap' \in [Indices -> {"FREE", "ALLOCATED", "RESERVED"}]
      BY <1>3, <2>2
    <3> QED
      BY <1>1, <1>2, <1>3, <3>1, <3>2 DEF TypeOK, bootinfo, layout
  <2>11. ProtectedFrames'
    <3> SUFFICES ASSUME NEW i \in Indices
                 PROVE  /\ pma_bitmap'[i] = "ALLOCATED" =>
                              pma_bitmap[i] = "ALLOCATED"
                        /\ pma_bitmap[i] = "RESERVED" =>
                              pma_bitmap'[i] = "RESERVED"
      BY <1>2, <1>3 DEF IInv, ProtectedFrames
    <3> QED
      BY <2>2
  <2> QED
    BY <2>9, <2>10, <2>11 DEF IInv
<1>7. CASE /\ pfn >= pma_base_pfn /\ pfn + count <= pma_limit_pfn + 1
           /\ ~UNCHANGED <<pma_bitmap, pma_free_frames>>
  <2> DEFINE s == pfn - pma_base_pfn
  <2>1. PICK n \in 0..count :
            /\ FreedBeforeError(s, count, n)
            /\ pma_bitmap' = [i \in Indices |-> IF i \in s..(s + n - 1)
                                THEN "FREE" ELSE pma_bitmap[i]]
            /\ pma_free_frames' = pma_free_frames + n
    BY <1>7 DEF mm_pma_free_frame
  <2>2. /\ s \in Nat /\ n \in Nat
        /\ \A i \in s..(s + n - 1) : i \in Indices
    <3>1. pma_base_pfn \in Nat /\ pma_limit_pfn \in Nat
      BY <1>3 DEF TypeOK
    <3>2. pfn \in Nat /\ count \in Nat
      BY <3>1
    <3> QED
      BY <1>7, <3>1, <3>2, RunInRange DEF Indices, pma_frame_desc_count
  <2> HIDE DEF s
  <2>3. \A i \in s..(s + n - 1) : pma_bitmap[i] = "ALLOCATED"
    BY <2>1 DEF FreedBeforeError
  <2> QED
    BY <1>6, <2>1, <2>2, <2>3, ZenonT(60)
<1> QED
  BY <1>5, <1>7, <1>3 DEF mm_pma_free_frame, TypeOK

----------------------------------------------------------------------------
(* The search loop of mm_pma_allocate_frame.                                *)

\* A frame that a run may contain, and count frames from r on that are not
\* such a run.
Usable(b, j) == b[j] = "FREE" /\ j >= LowPfn
NoRun(b, r, count) == \E j \in r..(r + count - 1) : ~Usable(b, j)

ScanState == [free_count : Nat, alloc_start_idx : Nat]

\* One round of the loop, at descriptor i - 1.
ScanRound(b, count, p, i) ==
    IF ~(p.free_count < count /\ i - 1 >= LowPfn) THEN p
    ELSE IF b[i-1] # "FREE" THEN [p EXCEPT !.free_count = 0]
    ELSE [free_count |-> p.free_count + 1,
          alloc_start_idx |-> IF p.free_count = 0 THEN i - 1
                              ELSE p.alloc_start_idx]

\* What is known when the loop has seen the descriptors before i: the current
\* run, fc frames from st on, is as long as it can be, and no run of count
\* frames ends before it.
ScanInv(b, count, i, fc, st) ==
    /\ fc \in Nat /\ st \in Nat /\ fc <= count /\ fc <= i
    /\ fc > 0 => st + fc <= i /\ \A j \in st..(st + fc - 1) : Usable(b, j)
    /\ fc < count =>
          /\ fc > 0 => st + fc = i
          /\ fc < i => ~Usable(b, i - fc - 1)
          /\ \A r \in Nat : r + count <= i => NoRun(b, r, count)
    /\ fc = count => \A r \in 0..(st - 1) : NoRun(b, r, count)

\* A frame that cannot be used ends the run; one that can makes it longer.
LEMMA RunEnds ==
    ASSUME NEW b, NEW count \in Nat \ {0}, NEW i \in Nat, NEW fc, NEW st,
           ScanInv(b, count, i, fc, st), fc < count, ~Usable(b, i),
           NEW st2 \in Nat
    PROVE  ScanInv(b, count, i + 1, 0, st2)
<1>1. ASSUME NEW r \in Nat, r + count <= i + 1 PROVE NoRun(b, r, count)
  <2>1. CASE r + count <= i
    BY <2>1 DEF ScanInv
  <2>2. CASE r + count = i + 1
    <3>1. i \in r..(r + count - 1)
      BY <2>2
    <3> QED
      BY <3>1 DEF NoRun
  <2> QED
    BY <1>1, <2>1, <2>2
<1>2. (i + 1) - 0 - 1 = i
  OBVIOUS
<1> QED
  BY <1>1, <1>2 DEF ScanInv

\* One more usable frame makes the run longer.
LEMMA RunGrows ==
    ASSUME NEW b, NEW count \in Nat \ {0}, NEW i \in Nat, NEW fc, NEW st,
           ScanInv(b, count, i, fc, st), fc < count, Usable(b, i)
    PROVE  ScanInv(b, count, i + 1, fc + 1, IF fc = 0 THEN i ELSE st)
<1> DEFINE s == IF fc = 0 THEN i ELSE st
           f == fc + 1
<1>1. /\ fc \in Nat /\ st \in Nat /\ fc <= count /\ fc <= i
      /\ fc > 0 => st + fc = i /\ \A j \in st..(st + fc - 1) : Usable(b, j)
      /\ fc < i => ~Usable(b, i - fc - 1)
      /\ \A r \in Nat : r + count <= i => NoRun(b, r, count)
  BY DEF ScanInv
<1>2. /\ s \in Nat /\ s = i - fc /\ f \in Nat /\ s + f = i + 1
      /\ f <= count /\ f <= i + 1
  <2>1. fc \in Nat /\ st \in Nat /\ fc <= i /\ (fc > 0 => st + fc = i)
    BY <1>1
  <2>2. s = i - fc
    BY <2>1
  <2> HIDE DEF s
  <2> QED
    BY <2>1, <2>2
<1>3. ASSUME NEW j \in s..(s + f - 1) PROVE Usable(b, j)
  <2>1. CASE j = i
    BY <2>1
  <2>2. CASE j # i
    <3>1. fc > 0 /\ j \in st..(st + fc - 1)
      BY <1>1, <1>2, <2>2
    <3> QED
      BY <1>1, <3>1
  <2> QED
    BY <2>1, <2>2
<1>4. f < i + 1 => ~Usable(b, (i + 1) - f - 1)
  <2>1. (i + 1) - f - 1 = i - fc - 1 /\ (f < i + 1 => fc < i)
    BY <1>1
  <2> HIDE DEF f
  <2> QED
    BY <1>1, <2>1
<1>5. ASSUME NEW r \in Nat, r + count <= i + 1, f < count
      PROVE  NoRun(b, r, count)
  <2>1. CASE r + count <= i
    BY <1>1, <2>1
  <2>2. CASE r + count = i + 1
    <3>1. fc < i /\ i - fc - 1 \in r..(r + count - 1)
      BY <1>1, <1>5, <2>2
    <3> QED
      BY <1>1, <3>1 DEF NoRun
  <2> QED
    BY <1>5, <2>1, <2>2
<1>6. ASSUME NEW r \in 0..(s - 1), f = count PROVE NoRun(b, r, count)
  <2>1. r \in Nat /\ r + count <= i
    BY <1>1, <1>2, <1>6
  <2> QED
    BY <1>1, <2>1
<1> HIDE DEF s, f
<1>7. ScanInv(b, count, i + 1, f, s)
  BY <1>2, <1>3, <1>4, <1>5, <1>6 DEF ScanInv
<1> QED
  BY <1>7 DEF s, f

\* A round of the loop keeps what is known.
LEMMA ScanRoundKeeps ==
    ASSUME NEW b, NEW count \in Nat \ {0}, NEW i \in Nat, NEW p \in ScanState,
           ScanInv(b, count, i, p.free_count, p.alloc_start_idx),
           NEW q, q = ScanRound(b, count, p, i + 1)
    PROVE  ScanInv(b, count, i + 1, q.free_count, q.alloc_start_idx)
<1> DEFINE fc == p.free_count
           st == p.alloc_start_idx
<1>1. /\ fc \in Nat /\ st \in Nat /\ LowPfn \in Nat /\ (i + 1) - 1 = i
      /\ ScanInv(b, count, i, fc, st) /\ fc <= count
  BY DEF ScanInv, ScanState
<1>2. CASE fc = count
  <2>1. q = p
    BY <1>1, <1>2 DEF ScanRound
  <2> HIDE DEF fc, st
  <2>2. /\ fc <= i /\ fc > 0 /\ st + fc <= i
        /\ \A j \in st..(st + fc - 1) : Usable(b, j)
        /\ \A r \in 0..(st - 1) : NoRun(b, r, count)
    BY <1>1, <1>2 DEF ScanInv
  <2>3. fc <= i + 1 /\ st + fc <= i + 1 /\ ~(fc < count)
    BY <1>1, <1>2, <2>2
  <2>4. ScanInv(b, count, i + 1, fc, st)
    BY <1>1, <2>2, <2>3 DEF ScanInv
  <2> QED
    BY <2>1, <2>4 DEF fc, st
<1>3. CASE fc < count /\ ~Usable(b, i)
  <2>1. i < LowPfn => fc = 0
    <3> HIDE DEF fc, st
    <3>1. ASSUME i < LowPfn, fc > 0 PROVE FALSE
      <4>1. st + fc = i /\ \A j \in st..(st + fc - 1) : Usable(b, j)
        BY <1>1, <1>3, <3>1 DEF ScanInv
      <4>2. i - 1 \in st..(st + fc - 1)
        BY <1>1, <3>1, <4>1
      <4> QED
        BY <1>1, <3>1, <4>1, <4>2 DEF Usable
    <3> QED
      BY <1>1, <3>1
  <2>2. q.free_count = 0 /\ q.alloc_start_idx = st
    BY <1>1, <1>3, <2>1 DEF ScanRound, ScanState, Usable
  <2> HIDE DEF fc, st
  <2> QED
    BY <1>1, <1>3, <2>2, RunEnds
<1>4. CASE fc < count /\ Usable(b, i)
  <2>1. /\ q.free_count = fc + 1
        /\ q.alloc_start_idx = IF fc = 0 THEN i ELSE st
    BY <1>1, <1>4 DEF ScanRound, ScanState, Usable
  <2> HIDE DEF fc, st
  <2> QED
    BY <1>1, <1>4, <2>1, RunGrows
<1> QED
  BY <1>1, <1>2, <1>3, <1>4

\* The values of the loop.
LEMMA ScanValues ==
    ASSUME TypeOK, Running, NEW count \in Nat \ {0}
    PROVE  \E s : /\ Scan(count) = s[pma_frame_desc_count]
                  /\ s[0] = [free_count |-> 0, alloc_start_idx |-> 0]
                  /\ \A i \in 0..(pma_frame_desc_count - 1) :
                        /\ s[i] \in ScanState
                        /\ s[i+1] = ScanRound(pma_bitmap, count, s[i], i + 1)
<1> DEFINE n == pma_frame_desc_count
           b == pma_bitmap
           a == [free_count |-> 0, alloc_start_idx |-> 0]
           F == [x \in ScanState \X (1..n) |-> ScanRound(b, count, x[1], x[2])]
<1>1. n \in Nat /\ pma_base_pfn = 0
  BY DEF TypeOK, pma_frame_desc_count
<1>2. a \in ScanState
  BY DEF ScanState
<1> HIDE DEF n, a
<1>3. F \in [ScanState \X (1..n) -> ScanState]
  <2>1. ASSUME NEW q \in ScanState, NEW i \in 1..n
        PROVE  ScanRound(b, count, q, i) \in ScanState
    BY <1>1 DEF ScanRound, ScanState
  <2> QED
    BY <2>1
<1> HIDE DEF F
<1>4. PICK w : LoopOf(w, ScanState, n, a, F)
  BY <1>1, <1>2, <1>3, Rounds, Zenon
<1>5. ASSUME NEW i \in 1..n
      PROVE  w[i-1] \in ScanState /\ w[i] = ScanRound(b, count, w[i-1], i)
  <2>1. w[i-1] \in ScanState /\ w[i] = F[<<w[i-1], i>>]
    BY <1>1, <1>4 DEF LoopOf
  <2> QED
    BY <2>1 DEF F
<1> DEFINE G(v, i) == LET p  == v[i-1]
                          on == /\ p.free_count < count
                                /\ pma_base_pfn + i - 1 >= LowPfn
                      IN  IF ~on THEN p
                          ELSE IF pma_bitmap[i-1] # "FREE"
                            THEN [p EXCEPT !.free_count = 0]
                          ELSE [free_count |-> p.free_count + 1,
                                alloc_start_idx |->
                                   IF p.free_count = 0 THEN i - 1
                                   ELSE p.alloc_start_idx]
<1>6. ASSUME NEW v, NEW i \in 1..n
      PROVE  G(v, i) = ScanRound(b, count, v[i-1], i)
  <2>1. pma_base_pfn + i - 1 = i - 1
    BY <1>1
  <2> QED
    BY <2>1 DEF ScanRound
<1> HIDE DEF G, b
<1>7. w = [i \in 0..n |-> IF i = 0 THEN a ELSE G(w, i)]
  <2>1. w \in [0..n -> ScanState] /\ w[0] = a
    BY <1>4 DEF LoopOf
  <2>2. \A i \in 1..n : w[i] = G(w, i)
    BY <1>5, <1>6
  <2> QED
    BY <1>1, <2>1, <2>2
<1>8. \E s : /\ s = [i \in 0..n |-> IF i = 0 THEN a ELSE G(s, i)]
             /\ Scan(count) = s[n]
  BY <1>7, Zenon DEF Scan, G, n, a
<1>9. PICK s : /\ s = [i \in 0..n |-> IF i = 0 THEN a ELSE G(s, i)]
               /\ Scan(count) = s[n]
  BY <1>8, Zenon
<1>10. s[0] = a /\ \A i \in 1..n : s[i] = ScanRound(b, count, s[i-1], i)
  <2>1. s[0] = a /\ \A i \in 1..n : s[i] = G(s, i)
    BY <1>1, <1>9
  <2> QED
    BY <1>6, <2>1
<1> DEFINE T == {i \in 0..n : s[i] \in ScanState}
<1>11. 0 \in T
  BY <1>1, <1>2, <1>10
<1>12. ASSUME NEW i \in 0..(n - 1), i \in T
       PROVE  i + 1 \in T /\ s[i+1] = ScanRound(b, count, s[i], i + 1)
  <2>1. i + 1 \in 1..n /\ (i + 1) - 1 = i /\ i \in Nat /\ s[i] \in ScanState
    BY <1>1, <1>12
  <2>2. s[i+1] = ScanRound(b, count, s[i], i + 1)
    BY <1>10, <2>1
  <2>3. s[i+1] \in ScanState
    BY <2>1, <2>2 DEF ScanRound, ScanState
  <2> QED
    BY <2>1, <2>2, <2>3
<1> HIDE DEF T
<1>13. \A i \in 0..n : i \in T
  BY <1>1, <1>11, <1>12, UpTo, Zenon
<1>14. \A i \in 0..(n - 1) : s[i] \in ScanState
  BY <1>1, <1>13 DEF T
<1>15. \A i \in 0..(n - 1) : s[i+1] = ScanRound(b, count, s[i], i + 1)
  BY <1>1, <1>12, <1>13
<1> QED
  BY <1>9, <1>10, <1>14, <1>15, Zenon DEF n, a, b

\* What is known when the loop ends.
LEMMA ScanEnds ==
    ASSUME TypeOK, Running, NEW count \in Nat \ {0}
    PROVE  ScanInv(pma_bitmap, count, pma_frame_desc_count,
                   Scan(count).free_count, Scan(count).alloc_start_idx)
<1> DEFINE n == pma_frame_desc_count
           b == pma_bitmap
<1>1. n \in Nat
  BY DEF TypeOK, pma_frame_desc_count
<1>2. PICK s : /\ Scan(count) = s[n]
               /\ s[0] = [free_count |-> 0, alloc_start_idx |-> 0]
               /\ \A i \in 0..(n - 1) :
                     /\ s[i] \in ScanState
                     /\ s[i+1] = ScanRound(b, count, s[i], i + 1)
  BY ScanValues
<1> DEFINE T == {i \in 0..n :
                   ScanInv(b, count, i, s[i].free_count, s[i].alloc_start_idx)}
<1> HIDE DEF n, b
<1>3. 0 \in T
  <2>1. ScanInv(b, count, 0, 0, 0)
    BY DEF ScanInv
  <2>2. s[0].free_count = 0 /\ s[0].alloc_start_idx = 0
    BY <1>2
  <2>3. ScanInv(b, count, 0, s[0].free_count, s[0].alloc_start_idx)
    BY <2>1, <2>2
  <2> QED
    BY <1>1, <2>3
<1>4. ASSUME NEW i \in 0..(n - 1), i \in T PROVE i + 1 \in T
  <2>1. /\ i \in Nat /\ i + 1 \in 0..n
        /\ ScanInv(b, count, i, s[i].free_count, s[i].alloc_start_idx)
    BY <1>1, <1>4
  <2>2. s[i] \in ScanState /\ s[i+1] = ScanRound(b, count, s[i], i + 1)
    BY <1>2
  <2>3. ScanInv(b, count, i + 1, s[i+1].free_count, s[i+1].alloc_start_idx)
    BY <2>1, <2>2, ScanRoundKeeps
  <2> QED
    BY <2>1, <2>3
<1> HIDE DEF T
<1>5. \A i \in 0..n : i \in T
  BY <1>1, <1>3, <1>4, UpTo
<1>6. n \in T
  BY <1>1, <1>5
<1> QED
  BY <1>2, <1>6 DEF T, n, b

\* The loop finds the first run, if there is one.
LEMMA ScanCorrect ==
    ASSUME TypeOK
    PROVE  ScanFindsFirstFit
<1> SUFFICES ASSUME Running, NEW count \in 1..MaxCount
             PROVE  IF Scan(count).free_count < count
                      THEN \A s \in Indices : ~FreeRun(s, count)
                      ELSE FirstFit(Scan(count).alloc_start_idx, count)
  BY DEF ScanFindsFirstFit
<1> DEFINE n  == pma_frame_desc_count
           b  == pma_bitmap
           fc == Scan(count).free_count
           st == Scan(count).alloc_start_idx
<1>1. /\ n \in Nat /\ pma_base_pfn = 0 /\ Indices = 0..(n - 1)
      /\ LowPfn \in Nat /\ count \in Nat \ {0}
  BY DEF TypeOK, pma_frame_desc_count, Indices
<1>2. ScanInv(b, count, n, fc, st)
  BY <1>1, ScanEnds
<1> HIDE DEF n, fc, st
<1>3. ASSUME NEW r \in Nat, NoRun(b, r, count) PROVE ~FreeRun(r, count)
  <2>1. PICK j \in r..(r + count - 1) : ~Usable(b, j)
    BY <1>3 DEF NoRun
  <2>2. pma_base_pfn + j = j
    BY <1>1
  <2> QED
    BY <2>1, <2>2 DEF FreeRun, Usable
<1>4. CASE fc < count
  <2>1. ASSUME NEW r \in Indices PROVE ~FreeRun(r, count)
    <3>1. r \in Nat
      BY <1>1
    <3>2. CASE r + count <= n
      BY <1>2, <1>3, <1>4, <3>1, <3>2 DEF ScanInv
    <3>3. CASE ~(r + count <= n)
      <4>1. n \in r..(r + count - 1) /\ n \notin Indices
        BY <1>1, <3>1, <3>3
      <4> QED
        BY <4>1 DEF FreeRun
    <3> QED
      BY <3>2, <3>3
  <2> QED
    BY <1>4, <2>1 DEF fc
<1>5. CASE ~(fc < count)
  <2>1. /\ fc = count /\ st \in Nat /\ st + count <= n
        /\ \A j \in st..(st + count - 1) : Usable(b, j)
        /\ \A r \in 0..(st - 1) : NoRun(b, r, count)
    BY <1>1, <1>2, <1>5 DEF ScanInv
  <2>2. ASSUME NEW i \in st..(st + count - 1)
        PROVE  /\ i \in Indices /\ pma_bitmap[i] = "FREE"
               /\ pma_base_pfn + i >= LowPfn
    <3>1. i \in Indices /\ pma_base_pfn + i = i
      BY <1>1, <2>1
    <3> QED
      BY <2>1, <3>1 DEF Usable
  <2>3. FreeRun(st, count)
    BY <2>2 DEF FreeRun
  <2>4. \A r \in 0..(st - 1) : r \in Nat /\ ~FreeRun(r, count)
    BY <1>3, <2>1
  <2>5. FirstFit(st, count)
    BY <2>3, <2>4 DEF FirstFit
  <2> QED
    BY <1>5, <2>5 DEF fc, st
<1> QED
  BY <1>4, <1>5

----------------------------------------------------------------------------
(* Where the bitmap goes.                                                   *)

\* What is rounded up is big enough.
LEMMA RoundedUp ==
    ASSUME NEW a \in Nat, NEW b \in Nat \ {0}
    PROVE  CeilDiv(a, b) \in Nat /\ CeilDiv(a, b) * b >= a
<1> DEFINE c == a + b - 1
           q == c \div b
<1>1. c \in Nat /\ q \in Int /\ c = b * q + (c % b) /\ c % b \in 0..(b - 1)
  OBVIOUS
<1>2. b * q >= a /\ q * b = b * q
  BY <1>1
<1>3. q >= 0
  BY <1>1
<1> QED
  BY <1>1, <1>2, <1>3 DEF CeilDiv

\* The number of frames for the bitmap is a number.
LEMMA FramesNeeded ==
    ASSUME NEW n \in Nat PROVE BitmapFrames(n) \in Nat
<1>1. CeilDiv(n, 4) \in Nat
  BY RoundedUp
<1> QED
  BY <1>1, RoundedUp, Zenon DEF BitmapFrames

\* A bitmap of as many frames as are needed has a descriptor for each of n
\* frames.
LEMMA BitmapBigEnough ==
    ASSUME NEW n \in Nat, NEW l \in Nat, l >= BitmapFrames(n)
    PROVE  l * PAGE_SIZE * 4 >= n
<1> DEFINE bytes == CeilDiv(n, 4)
           q == CeilDiv(bytes, PAGE_SIZE)
<1>1. bytes \in Nat /\ bytes * 4 >= n
  BY RoundedUp
<1> HIDE DEF bytes
<1>2. q \in Nat /\ q * PAGE_SIZE >= bytes /\ PAGE_SIZE \in Nat
  BY <1>1, RoundedUp, Zenon
<1>3. BitmapFrames(n) = q
  BY DEF BitmapFrames, bytes
<1> HIDE DEF q
<1>4. l * PAGE_SIZE >= q * PAGE_SIZE /\ l * PAGE_SIZE \in Nat
      /\ q * PAGE_SIZE \in Nat
  BY <1>2, <1>3
<1>5. \A x \in Nat : x >= bytes => x * 4 >= n
  BY <1>1
<1>6. l * PAGE_SIZE >= bytes
  BY <1>1, <1>2, <1>4
<1> QED
  BY <1>2, <1>3, <1>4, <1>5, <1>6

HIDE PmaAssumption

\* A list that has no frame the boot loader lists, and one that ascends.
Clear(list) ==
    \A x \in 1..Len(list), k \in 1..Len(ufent) : list[x] # ufent[k]
Rising(list) == \A x, y \in 1..Len(list) : x < y => list[x] < list[y]

SearchState == [base : Nat, list : Seq(Nat)]

\* What is known after the first i unavailable frames: unless the search is
\* over they are behind it.  A list that was empty at first also ascends.
SearchInv(fresh, last, room, i, b, list) ==
    /\ Clear(list)
    /\ b <= last /\ Len(list) < room => \A k \in 1..i : ufent[k] < b
    /\ fresh => Rising(list) /\ \A x \in 1..Len(list) : list[x] < b

\* The frames from b on, below u, join the list.
LEMMA Joined ==
    ASSUME NEW list \in Seq(Nat), NEW b \in Nat, NEW n \in Nat, NEW new,
           new = list \o [k \in 1..n |-> b + k - 1]
    PROVE  /\ new \in Seq(Nat) /\ Len(new) = Len(list) + n
           /\ \A x \in 1..Len(new) :
                 new[x] = IF x <= Len(list) THEN list[x]
                          ELSE b + (x - Len(list)) - 1
<1> DEFINE t == [k \in 1..n |-> b + k - 1]
<1>1. t \in Seq(Nat) /\ Len(t) = n
  <2>1. \A k \in 1..n : b + k - 1 \in Nat
    OBVIOUS
  <2> QED
    BY <2>1
<1>2. \A k \in 1..n : t[k] = b + k - 1
  OBVIOUS
<1> HIDE DEF t
<1>3. /\ list \o t \in Seq(Nat) /\ Len(list \o t) = Len(list) + Len(t)
      /\ \A x \in 1..(Len(list) + Len(t)) :
            (list \o t)[x] = IF x <= Len(list) THEN list[x] ELSE t[x - Len(list)]
  BY <1>1, ConcatProperties, Zenon
<1>4. new = list \o t
  BY DEF t
<1>5. ASSUME NEW x \in 1..Len(new), x > Len(list)
      PROVE  new[x] = b + (x - Len(list)) - 1
  <2>1. x - Len(list) \in 1..n
    BY <1>1, <1>3, <1>4, <1>5
  <2> QED
    BY <1>1, <1>2, <1>3, <1>4, <1>5, <2>1
<1> QED
  BY <1>1, <1>3, <1>4, <1>5

\* A round of the search keeps what is known.
LEMMA SearchRound ==
    ASSUME TypeOK, Ascending, NEW fresh, NEW last \in Nat, NEW room \in Nat,
           NEW i \in 1..Len(ufent), NEW p \in SearchState,
           SearchInv(fresh, last, room, i - 1, p.base, p.list),
           NEW q, q = TakeBefore(p, ufent[i], last, room)
    PROVE  q \in SearchState /\ SearchInv(fresh, last, room, i, q.base, q.list)
<1> DEFINE b == p.base
           list == p.list
           u == ufent[i]
           new == list \o [k \in 1..Smaller(u - b, room - Len(list)) |-> b + k - 1]
<1>1. /\ b \in Nat /\ list \in Seq(Nat) /\ Len(list) \in Nat /\ u \in Nat
      /\ \A k \in 1..Len(ufent) : ufent[k] \in Nat
      /\ Len(ufent) \in Nat /\ i \in Nat
  <2>1. p.base \in Nat /\ p.list \in Seq(Nat)
    BY DEF SearchState
  <2>2. Len(p.list) \in Nat
    BY <2>1, LenProperties
  <2>3. Len(ufent) \in Nat /\ \A k \in 1..Len(ufent) : ufent[k] \in Nat
    BY BootInfoTypes, Zenon
  <2> QED
    BY <2>1, <2>2, <2>3
<1>2. CASE u < b \/ b > last \/ Len(list) >= room
  <2>1. q = p
    BY <1>2 DEF TakeBefore
  <2>2. SearchInv(fresh, last, room, i, b, list)
    <3> HIDE DEF b, list
    <3>1. SearchInv(fresh, last, room, i - 1, b, list)
      BY DEF b, list
    <3>2. b <= last /\ Len(list) < room => \A k \in 1..i : ufent[k] < b
      <4> SUFFICES ASSUME b <= last, Len(list) < room, NEW k \in 1..i
                   PROVE  ufent[k] < b
        OBVIOUS
      <4>1. k \in 1..(i - 1) \/ k = i
        BY <1>1
      <4> QED
        BY <1>1, <1>2, <3>1, <4>1 DEF SearchInv
    <3> QED
      BY <3>1, <3>2 DEF SearchInv
  <2> QED
    BY <2>1, <2>2
<1>3. CASE ~(u < b \/ b > last \/ Len(list) >= room)
  <2>1. q = [base |-> u + 1, list |-> new]
    BY <1>3 DEF TakeBefore
  <2>2. SearchInv(fresh, last, room, i - 1, b, list)
    OBVIOUS
  <2> DEFINE n == Smaller(u - b, room - Len(list))
  <2> HIDE DEF b, list, u
  <2>3. n \in Nat /\ n <= u - b
    BY <1>1, <1>3 DEF Smaller
  <2> HIDE DEF n
  <2>4. /\ new \in Seq(Nat) /\ Len(new) = Len(list) + n
        /\ \A x \in 1..Len(new) :
              new[x] = IF x <= Len(list) THEN list[x] ELSE b + (x - Len(list)) - 1
    <3>1. new = list \o [k \in 1..n |-> b + k - 1]
      BY DEF n
    <3> HIDE DEF new
    <3> QED
      BY <1>1, <2>3, <3>1, Joined
  <2> HIDE DEF new
  <2>e. \A x \in 1..Len(list) : list[x] \in Nat
    BY <1>1, SeqElement
  <2>5. ASSUME NEW x \in 1..Len(new)
        PROVE  \/ x \in 1..Len(list) /\ new[x] = list[x] /\ new[x] \in Nat
               \/ /\ x > Len(list) /\ new[x] = b + (x - Len(list)) - 1
                  /\ new[x] >= b /\ new[x] < u /\ new[x] \in Nat
    <3>1. \A L \in Nat : \A y \in 1..(L + n) :
             IF y <= L THEN y \in 1..L
             ELSE LET v == b + (y - L) - 1
                  IN  y > L /\ v >= b /\ v < u /\ v \in Nat
      BY <1>1, <2>3
    <3>2. x \in 1..(Len(list) + n)
      BY <2>4, Zenon
    <3>3. x <= Len(list) => x \in 1..Len(list)
      BY <1>1, <3>1, <3>2
    <3>4. ~(x <= Len(list)) => LET v == b + (x - Len(list)) - 1
                               IN  x > Len(list) /\ v >= b /\ v < u /\ v \in Nat
      BY <1>1, <3>1, <3>2, Zenon
    <3> QED
      BY <2>4, <2>e, <3>3, <3>4, Zenon
  <2>6. \A k \in 1..Len(ufent) : ufent[k] < b \/ ufent[k] >= u
    <3> TAKE k \in 1..Len(ufent)
    <3>1. k \in 1..(i - 1) \/ k = i \/ k > i
      BY <1>1
    <3>2. k \in 1..(i - 1) => ufent[k] < b
      BY <1>1, <1>3, <2>2 DEF SearchInv
    <3>3. k > i => ufent[k] > u
      BY <1>1 DEF Ascending, u
    <3> QED
      BY <1>1, <3>1, <3>2, <3>3 DEF u
  <2>7. Clear(new)
    <3> SUFFICES ASSUME NEW x \in 1..Len(new), NEW k \in 1..Len(ufent)
                 PROVE  new[x] # ufent[k]
      BY DEF Clear
    <3>1. x \in 1..Len(list) => list[x] # ufent[k]
      BY <2>2 DEF SearchInv, Clear
    <3>2. ufent[k] \in Nat /\ b \in Nat /\ u \in Nat
      BY <1>1
    <3>3. ufent[k] < b \/ ufent[k] >= u
      BY <2>6
    <3>4. ASSUME new[x] >= b, new[x] < u, new[x] \in Nat PROVE new[x] # ufent[k]
      BY <3>2, <3>3, <3>4
    <3> QED
      BY <2>5, <3>1, <3>4
  <2>8. \A k \in 1..i : ufent[k] < u + 1
    <3> TAKE k \in 1..i
    <3>1. k = i \/ (k < i /\ k \in 1..Len(ufent))
      BY <1>1
    <3> QED
      BY <1>1, <3>1 DEF Ascending, u
  <2>9. fresh => Rising(new) /\ \A x \in 1..Len(new) : new[x] < u + 1
    <3> SUFFICES ASSUME fresh
                 PROVE  Rising(new) /\ \A x \in 1..Len(new) : new[x] < u + 1
      OBVIOUS
    <3>1. Rising(list) /\ \A x \in 1..Len(list) : list[x] < b /\ list[x] \in Nat
      BY <1>1, <2>2 DEF SearchInv
    <3>n. b \in Nat /\ u \in Nat /\ Len(list) \in Nat /\ ~(u < b)
      BY <1>1, <1>3
    <3>2. ASSUME NEW x \in 1..Len(new) PROVE new[x] < u + 1
      <4>1. new[x] \in Nat /\ (new[x] < b \/ new[x] < u)
        BY <2>5, <3>1, Zenon
      <4> QED
        BY <3>n, <4>1
    <3>3. ASSUME NEW x \in 1..Len(new), NEW y \in 1..Len(new), x < y
          PROVE  new[x] < new[y]
      <4>1. CASE y \in 1..Len(list)
        <5>1. x \in 1..Len(list) /\ new[x] = list[x] /\ new[y] = list[y]
          BY <1>1, <2>5, <3>3, <4>1
        <5> QED
          BY <3>1, <3>3, <4>1, <5>1 DEF Rising
      <4>2. CASE y \notin 1..Len(list)
        <5>1. /\ y > Len(list) /\ new[y] = b + (y - Len(list)) - 1
              /\ new[y] >= b /\ new[y] \in Nat
          BY <2>5, <4>2
        <5>2. CASE x \in 1..Len(list)
          <6>1. new[x] < b /\ new[x] \in Nat
            BY <2>5, <3>1, <3>n, <5>2
          <6> QED
            BY <3>n, <5>1, <6>1
        <5>3. CASE x \notin 1..Len(list)
          <6>1. new[x] = b + (x - Len(list)) - 1
            BY <2>5, <5>3
          <6>2. x \in Int /\ y \in Int
            OBVIOUS
          <6> QED
            BY <3>n, <3>3, <5>1, <6>1, <6>2
        <5> QED
          BY <5>2, <5>3
      <4> QED
        BY <4>1, <4>2
    <3> QED
      BY <3>2, <3>3 DEF Rising
  <2>10. SearchInv(fresh, last, room, i, u + 1, new)
    BY <2>7, <2>8, <2>9 DEF SearchInv
  <2> QED
    BY <1>1, <2>1, <2>4, <2>10 DEF SearchState
<1> QED
  BY <1>2, <1>3

\* The search in one free area adds frames that are not listed, in ascending
\* order.
LEMMA SearchResult ==
    ASSUME TypeOK, Ascending, ListMax \in Nat, NEW list \in Seq(Nat), Clear(list),
           NEW first \in Nat, NEW last \in Nat, NEW needed \in Nat
    PROVE  LET r == pma_allocate_bitmap_frame(list, first, last, needed)
           IN  r \in Seq(Nat) /\ Clear(r) /\ (list = <<>> => Rising(r))
<1> DEFINE n == Len(ufent)
           room == Smaller(needed, ListMax)
           fresh == list = <<>>
           a == [base |-> first, list |-> list]
           B(p, i) == TakeBefore(p, ufent[i], last, room)
           F == [x \in SearchState \X (1..n) |-> B(x[1], x[2])]
           I == {x \in (0..n) \X SearchState :
                   SearchInv(fresh, last, room, x[1], x[2].base, x[2].list)}
<1>n. n \in Nat /\ room \in Nat
  BY BootInfoTypes DEF Smaller
<1>a. a \in SearchState /\ a.base = first /\ a.list = list
  BY DEF SearchState
<1>b. SearchInv(fresh, last, room, 0, first, list)
  BY DEF SearchInv, Rising
<1>f. \A p \in SearchState : \A i \in 1..n : F[<<p, i>>] = B(p, i)
  BY Zenon
<1>i. \A i \in 0..n : \A p \in SearchState :
         <<i, p>> \in I <=> SearchInv(fresh, last, room, i, p.base, p.list)
  BY Zenon
<1> HIDE DEF F, I, a, fresh, room, n
<1>k. Keeps(n, SearchState, a, F, I)
  <2>1. ASSUME NEW i \in 1..n, NEW p \in SearchState, <<i-1, p>> \in I
        PROVE  F[<<p, i>>] \in SearchState /\ <<i, F[<<p, i>>]>> \in I
    <3>1. i - 1 \in 0..n /\ i \in 0..n
      BY <1>n
    <3>2. SearchInv(fresh, last, room, i - 1, p.base, p.list)
      BY <1>i, <2>1, <3>1, Zenon
    <3> DEFINE q == B(p, i)
    <3>3. i \in 1..Len(ufent) /\ q = TakeBefore(p, ufent[i], last, room)
      BY DEF n
    <3> HIDE DEF q
    <3>4. q \in SearchState /\ SearchInv(fresh, last, room, i, q.base, q.list)
      BY <1>n, <3>2, <3>3, SearchRound, Zenon
    <3>5. F[<<p, i>>] = q
      BY <1>f, Zenon DEF q
    <3> QED
      BY <1>i, <3>1, <3>4, <3>5, Zenon
  <2>2. <<0, a>> \in I
    <3>1. 0 \in 0..n
      BY <1>n
    <3> QED
      BY <1>a, <1>b, <1>i, <3>1
  <2> QED
    BY <1>a, <2>1, <2>2 DEF Keeps
<1> HIDE DEF B
<1>1. PICK w : /\ w \in [0..n -> SearchState] /\ w[0] = a
               /\ \A i \in 1..n : w[i] = F[<<w[i-1], i>>]
  BY <1>k, <1>n, LoopExists
<1>2. w = [i \in 0..n |-> IF i = 0 THEN a ELSE B(w[i-1], i)]
  <2>1. \A i \in 1..n : i - 1 \in 0..n
    BY <1>n
  <2>2. \A i \in 1..n : w[i] = B(w[i-1], i)
    BY <1>1, <1>f, <2>1, Zenon
  <2> QED
    BY <1>1, <1>n, <2>2
<1>3. \E s : /\ s = [i \in 0..n |-> IF i = 0 THEN a ELSE B(s[i-1], i)]
             /\ pma_allocate_bitmap_frame(list, first, last, needed) = s[n].list
  BY <1>2, Zenon DEF pma_allocate_bitmap_frame, B, a, n, room
<1>4. PICK s : /\ s = [i \in 0..n |-> IF i = 0 THEN a ELSE B(s[i-1], i)]
               /\ pma_allocate_bitmap_frame(list, first, last, needed) = s[n].list
  BY <1>3, Zenon
<1>5. s[0] = a /\ \A i \in 1..n : s[i] = B(s[i-1], i)
  BY <1>4, <1>n
<1>6. Follows(s, n, SearchState, a, F, I)
  BY <1>5, <1>f DEF Follows
<1>7. s[n] \in SearchState /\ <<n, s[n]>> \in I
  BY <1>k, <1>6, <1>n, LoopKeeps
<1>8. SearchInv(fresh, last, room, n, s[n].base, s[n].list)
  BY <1>7, <1>i, <1>n
<1>9. s[n].list \in Seq(Nat)
  BY <1>7 DEF SearchState
<1> QED
  BY <1>4, <1>8, <1>9, Zenon DEF SearchInv, fresh

\* There is one free area above conventional memory.
OneUpperArea ==
    \A i, j \in 1..Len(mment) : Upper(mment[i]) /\ Upper(mment[j]) => i = j

\* The list after the first i entries of the memory map.
PlacedInv(i, list) ==
    /\ Clear(list)
    /\ (\A k \in 1..i : ~Upper(mment[k])) => list = <<>>
    /\ OneUpperArea => Rising(list)

\* No frame of the bitmap is listed; with one area they ascend.
LEMMA BitmapPlaced ==
    ASSUME TypeOK, Ascending, ListMax \in Nat, NEW needed \in Nat
    PROVE  LET r == BitmapList(needed)
           IN  r \in Seq(Nat) /\ Clear(r) /\ (OneUpperArea => Rising(r))
<1> DEFINE n == Len(mment)
           S == Seq(Nat)
           B(l, i) == TakeFrom(l, mment[i], needed)
           F == [x \in S \X (1..n) |-> B(x[1], x[2])]
           I == {x \in (0..n) \X S : PlacedInv(x[1], x[2])}
<1>n. n \in Nat
  BY PmaAssumption, LenProperties DEF TypeOK
<1>a. <<>> \in S /\ PlacedInv(0, <<>>)
  BY DEF PlacedInv, Clear, Rising
<1>f. \A p \in S : \A i \in 1..n : F[<<p, i>>] = B(p, i)
  BY Zenon
<1>i. \A i \in 0..n : \A p \in S : <<i, p>> \in I <=> PlacedInv(i, p)
  BY Zenon
<1> HIDE DEF F, I
<1>r. ASSUME NEW i \in 1..n, NEW p \in S, PlacedInv(i - 1, p)
      PROVE  B(p, i) \in S /\ PlacedInv(i, B(p, i))
  <2> DEFINE e == mment[i]
  <2>1. e.base \in Nat /\ e.base + e.size \in Nat
    BY BootInfoTypes
  <2>2. i \in Nat /\ \A k \in 1..i : k \in 1..n /\ (k \in 1..(i - 1) \/ k = i)
    BY <1>n
  <2>3. CASE ~Upper(e)
    <3>1. B(p, i) = p
      BY <2>3 DEF TakeFrom
    <3>2. (\A k \in 1..i : ~Upper(mment[k])) => (\A k \in 1..(i - 1) : ~Upper(mment[k]))
      BY <2>2
    <3> QED
      BY <1>r, <3>1, <3>2 DEF PlacedInv
  <2>4. CASE Upper(e)
    <3> DEFINE r == pma_allocate_bitmap_frame(p, e.base, e.base + e.size, needed)
    <3>1. B(p, i) = r
      BY <2>4 DEF TakeFrom
    <3>2. r \in S /\ Clear(r) /\ (p = <<>> => Rising(r))
      <4>1. Clear(p)
        BY <1>r DEF PlacedInv
      <4> HIDE DEF e
      <4> QED
        BY <2>1, <4>1, SearchResult, Zenon
    <3>3. OneUpperArea => p = <<>>
      <4> SUFFICES ASSUME OneUpperArea PROVE \A k \in 1..(i - 1) : ~Upper(mment[k])
        BY <1>r DEF PlacedInv
      <4> TAKE k \in 1..(i - 1)
      <4>1. k \in 1..Len(mment) /\ i \in 1..Len(mment) /\ k # i
        BY <1>n
      <4> QED
        BY <2>4, <4>1 DEF OneUpperArea
    <3>4. ~(\A k \in 1..i : ~Upper(mment[k]))
      BY <2>2, <2>4
    <3> HIDE DEF r
    <3>5. PlacedInv(i, r)
      BY <3>2, <3>3, <3>4 DEF PlacedInv
    <3> QED
      BY <3>1, <3>2, <3>5
  <2> QED
    BY <2>3, <2>4
<1> HIDE DEF B, S, n
<1>k. Keeps(n, S, <<>>, F, I)
  <2>1. ASSUME NEW i \in 1..n, NEW p \in S, <<i-1, p>> \in I
        PROVE  F[<<p, i>>] \in S /\ <<i, F[<<p, i>>]>> \in I
    <3>1. i - 1 \in 0..n /\ i \in 0..n
      BY <1>n
    <3>2. PlacedInv(i - 1, p)
      BY <1>i, <2>1, <3>1, Zenon
    <3> QED
      BY <1>f, <1>i, <1>r, <3>1, <3>2, Zenon
  <2>2. 0 \in 0..n
    BY <1>n
  <2>3. <<0, <<>>>> \in I
    BY <1>a, <1>i, <2>2, Zenon
  <2> QED
    BY <1>a, <2>1, <2>3 DEF Keeps
<1>1. PICK w : /\ w \in [0..n -> S] /\ w[0] = <<>>
               /\ \A i \in 1..n : w[i] = F[<<w[i-1], i>>]
  BY <1>k, <1>n, LoopExists
<1>2. w = [i \in 0..n |-> IF i = 0 THEN <<>> ELSE B(w[i-1], i)]
  <2>1. \A i \in 1..n : i - 1 \in 0..n
    BY <1>n
  <2>2. \A i \in 1..n : w[i] = B(w[i-1], i)
    BY <1>1, <1>f, <2>1, Zenon
  <2> QED
    BY <1>1, <1>n, <2>2
<1>3. \E s : /\ s = [i \in 0..n |-> IF i = 0 THEN <<>> ELSE B(s[i-1], i)]
             /\ BitmapList(needed) = s[n]
  BY <1>2, Zenon DEF BitmapList, B, n
<1>4. PICK s : /\ s = [i \in 0..n |-> IF i = 0 THEN <<>> ELSE B(s[i-1], i)]
               /\ BitmapList(needed) = s[n]
  BY <1>3, Zenon
<1>5. s[0] = <<>> /\ \A i \in 1..n : s[i] = B(s[i-1], i)
  BY <1>4, <1>n
<1>6. Follows(s, n, S, <<>>, F, I)
  BY <1>5, <1>f DEF Follows
<1>7. s[n] \in S /\ <<n, s[n]>> \in I
  BY <1>k, <1>6, <1>n, LoopKeeps
<1>8. PlacedInv(n, s[n])
  BY <1>7, <1>i, <1>n
<1> QED
  BY <1>4, <1>7, <1>8 DEF PlacedInv, S

----------------------------------------------------------------------------
USE PmaAssumption

\* The invariant that the theorems rest on holds in every reachable state.
THEOREM Invariance == Spec => []IInv
<1>1. Init => IInv
  BY SMTT(30) DEF Init, IInv, TypeOK, CountersExact, ProtectedFrames,
      Running
<1>2. IInv /\ [Next]_vars => IInv'
  <2> SUFFICES ASSUME IInv, [Next]_vars PROVE IInv'
    OBVIOUS
  <2>1. CASE UNCHANGED vars
    BY <2>1 DEF IInv, TypeOK, CountersExact, ProtectedFrames, Running, Indices,
        FramesIn, CountedTwice, pma_frame_desc_count, vars, bootinfo, layout
  <2> QED
    BY <2>1, InitStep, AllocateStep, FreeStep, SMTT(30) DEF Next
<1> QED
  BY <1>1, <1>2, PTL DEF Spec

\* The bitmap describes every frame between base and limit and the counters
\* are never negative.
THEOREM TypeCorrect == Spec => []TypeOK
<1>1. IInv => TypeOK
  BY DEF IInv
<1> QED
  BY <1>1, Invariance, PTL

\* The reported numbers of free and of available frames are what the bitmap
\* says, however the allocator is used.
THEOREM CountersStayExact == Spec => []CountersExact
<1>1. IInv => CountersExact
  BY DEF IInv
<1> QED
  BY <1>1, Invariance, PTL

\* The bitmap's own frames, the frames the boot loader listed and conventional
\* memory are never handed out.
THEOREM FramesAreProtected == Spec => []ProtectedFrames
<1>1. IInv => ProtectedFrames
  BY DEF IInv
<1> QED
  BY <1>1, Invariance, PTL

\* The search loop of mm_pma_allocate_frame fails only when there is no run of
\* free frames that is long enough, and finds the first one otherwise.
THEOREM SearchIsFirstFit == Spec => []ScanFindsFirstFit
<1>1. IInv => ScanFindsFirstFit
  BY ScanCorrect DEF IInv
<1> QED
  BY <1>1, Invariance, PTL

\* The bitmap has room for every descriptor, and none of its frames is one the
\* boot loader lists: what BitmapClearOfBoot says for every memory map.
BitmapAvoidsBoot ==
    Running /\ Ascending =>
        /\ Len(pma_bitmap_pfn_list) * PAGE_SIZE * 4 >= pma_frame_desc_count
        /\ Clear(pma_bitmap_pfn_list)

\* With one free area its frames are distinct as well.
PlaceInv ==
    /\ BitmapAvoidsBoot
    /\ Running /\ Ascending /\ OneUpperArea => Rising(pma_bitmap_pfn_list)

\* mm_pma_init gives up if the list is too short; later the list is not
\* changed.
THEOREM BitmapPlacement == Spec => []PlaceInv
<1>1. Init => PlaceInv
  BY DEF Init, PlaceInv, BitmapAvoidsBoot, Running
<1>2. IInv /\ PlaceInv /\ [Next]_vars => PlaceInv'
  <2> SUFFICES ASSUME IInv, PlaceInv, [Next]_vars PROVE PlaceInv'
    OBVIOUS
  <2>1. ASSUME NEW j \in 1..Len(mment), mm_pma_init(j) PROVE PlaceInv'
    <3> DEFINE base == mment[1].base
               limit == EntryLast(j)
               needed == BitmapFrames(limit - base + 1)
               list == BitmapList(needed)
    <3>1. /\ pma_base_pfn' = base /\ pma_limit_pfn' = limit
          /\ pma_bitmap_pfn_list' = list /\ UNCHANGED <<mment, ufent>>
          /\ phase' = "hang" \/ Len(list) >= needed
      BY <2>1, Zenon DEF mm_pma_init, bootinfo
    <3>2. TypeOK /\ base = 0 /\ limit \in Nat /\ limit - base + 1 \in Nat
      <4>1. TypeOK
        BY DEF IInv
      <4>2. base = 0
        BY <4>1 DEF TypeOK
      <4>3. limit \in Nat
        BY <4>1, BootInfoTypes
      <4> HIDE DEF base, limit
      <4> QED
        BY <4>1, <4>2, <4>3
    <3>3. CASE phase' = "hang"
      BY <3>3 DEF PlaceInv, BitmapAvoidsBoot, Running
    <3>4. CASE Len(list) >= needed /\ Ascending
      <4> DEFINE n == limit - base + 1
      <4>1. pma_frame_desc_count' = n
        BY <3>1 DEF pma_frame_desc_count
      <4> HIDE DEF base, limit, n
      <4>2. needed \in Nat
        BY <3>2, FramesNeeded DEF n
      <4> HIDE DEF needed
      <4>3. list \in Seq(Nat) /\ Clear(list) /\ (OneUpperArea => Rising(list))
        BY <3>2, <3>4, <4>2, BitmapPlaced
      <4>4. Len(list) \in Nat
        BY <4>3, LenProperties
      <4> HIDE DEF list
      <4>5. Len(list) * PAGE_SIZE * 4 >= n
        BY <3>2, <3>4, <4>4, BitmapBigEnough DEF n, needed
      <4> QED
        BY <3>1, <4>1, <4>3, <4>5, Zenon DEF PlaceInv, BitmapAvoidsBoot, Clear, Rising,
            OneUpperArea, Upper
    <3>5. CASE ~Ascending
      BY <3>1, <3>5 DEF PlaceInv, BitmapAvoidsBoot, Ascending
    <3> QED
      BY <3>1, <3>3, <3>4, <3>5
  <2>2. ASSUME UNCHANGED <<mment, ufent, pma_base_pfn, pma_limit_pfn,
                           pma_bitmap_pfn_list>>, Running
        PROVE  PlaceInv'
    BY <2>2 DEF PlaceInv, BitmapAvoidsBoot, pma_frame_desc_count, Ascending,
        Clear, Rising, OneUpperArea, Upper
  <2>3. ASSUME NEW s \in Indices, NEW count \in 1..MaxCount,
               mm_pma_allocate_frame(s, count)
        PROVE  PlaceInv'
    BY <2>2, <2>3 DEF mm_pma_allocate_frame, bootinfo, layout, Running
  <2>4. ASSUME NEW pfn \in 0..(pma_limit_pfn + 1), NEW count \in 1..MaxCount,
               mm_pma_free_frame(pfn, count)
        PROVE  PlaceInv'
    BY <2>2, <2>4 DEF mm_pma_free_frame, bootinfo, layout, Running
  <2>5. CASE UNCHANGED vars
    BY <2>5 DEF vars, bootinfo, layout, PlaceInv, BitmapAvoidsBoot, Running,
        pma_frame_desc_count, Ascending, Clear, Rising, OneUpperArea, Upper
  <2> QED
    BY <2>1, <2>3, <2>4, <2>5 DEF Next
<1> QED
  BY <1>1, <1>2, Invariance, PTL DEF Spec

\* Whatever the memory map, no frame of the bitmap is one that the boot loader
\* lists, if it lists them in ascending order, and the bitmap is big enough.
THEOREM BitmapIsNotListed == Spec => []BitmapAvoidsBoot
<1>1. PlaceInv => BitmapAvoidsBoot
  BY DEF PlaceInv
<1> QED
  BY <1>1, BitmapPlacement, PTL

\* If there is one free area above conventional memory, as on a PC without a
\* hole, the bitmap is big enough, its frames are distinct, and none of them is
\* unavailable.  (With two areas a search in the first may run on into the
\* second, which is then searched again: pma.c:50-57.)
THEOREM BitmapIsClearOfBoot == Spec => [](OneUpperArea => BitmapClearOfBoot)
<1>1. PlaceInv => (OneUpperArea => BitmapClearOfBoot)
  BY DEF PlaceInv, BitmapAvoidsBoot, BitmapClearOfBoot, Clear, Rising
<1> QED
  BY <1>1, BitmapPlacement, PTL
=============================================================================
