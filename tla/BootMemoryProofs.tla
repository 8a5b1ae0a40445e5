-------------------------- MODULE BootMemoryProofs --------------------------
(***************************************************************************)
(* The boot loader's pages have frames of their own, and its counters are  *)
(* exact, for any memory map, any size of the tables and any number of     *)
(* requests.                                                               *)
(*                                                                         *)
(* M is the set of frames that are managed and D the set of the pages that *)
(* may be mapped for devices, m the bitmap, its counter and the tables.    *)
(* First what each operation of mm.c does to them, then the steps.         *)
(***************************************************************************)
EXTENDS BootMemory, Foundations

Dirs == 0..(BootTables - 1)
States == {"FREE", "ALLOCATED", "RESERVED"}
Entries == [pfn : Nat, flags : PageFlags \cup {{}}]
BMem(M) == [pbm : [M -> States], free : Int, dir : [Dirs -> Nat],
            tab : [BootPages -> Entries]]

\* The table of a page is one of the directory, and the first table's pages
\* are those below BootTable.
LEMMA TableOf ==
    ASSUME NEW v \in BootPages
    PROVE  v \in Nat /\ DirOf(v) \in Dirs /\ (DirOf(v) = 0 <=> v < BootTable)
<1> DEFINE t == v \div BootTable
<1>1. /\ BootTable \in Nat \ {0} /\ BootTables \in Nat \ {0}
      /\ BootTable * BootTables \in Nat /\ v \in 0..(BootTable * BootTables - 1)
  BY BootAssumption DEF BootConstants, BootPages
<1>2. t \in Nat /\ v = BootTable * t + (v % BootTable) /\ v % BootTable \in 0..(BootTable - 1)
  BY <1>1
<1>3. t < BootTables
  BY <1>1
<1>4. t = 0 <=> v < BootTable
  BY <1>1, <1>2
<1> QED
  BY <1>1, <1>2, <1>3, <1>4 DEF DirOf, Dirs

----------------------------------------------------------------------------
(* The area that is managed.                                                *)

\* A set of numbers with a bound has a greatest one.
LEMMA GreatestNat ==
    ASSUME NEW T, T \subseteq Int, T # {}, NEW b \in Int, \A x \in T : x <= b
    PROVE  \E x \in T : \A y \in T : x >= y
<1> DEFINE U == {b - x : x \in T}
<1>1. U \subseteq Nat /\ U # {}
  <2>1. \A x \in T : b - x \in Nat
    OBVIOUS
  <2> QED
    BY <2>1, Zenon
<1>2. PICK u \in U : \A w \in U : u <= w
  BY <1>1, LeastNat, Zenon
<1>3. PICK x \in T : u = b - x
  BY <1>2
<1>4. ASSUME NEW y \in T PROVE x >= y
  <2>1. b - y \in U
    OBVIOUS
  <2> HIDE DEF U
  <2> QED
    BY <1>2, <1>3, <2>1
<1> QED
  BY <1>4

\* The last pages of the entries of a map have a bound.
LEMMA MapEnds ==
    ASSUME NEW mm \in Seq(MapEntries)
    PROVE  \E b \in Nat : \A j \in DOMAIN mm : LastPage(mm[j]) <= b
<1> DEFINE n == Len(mm)
           T == {k \in 0..n : \E b \in Nat : \A j \in 1..k : LastPage(mm[j]) <= b}
<1>t. n \in Nat /\ DOMAIN mm = 1..n /\ \A j \in 1..n : LastPage(mm[j]) \in Int
  <2>1. n \in Nat /\ DOMAIN mm = 1..n
    OBVIOUS
  <2>2. ASSUME NEW j \in 1..n PROVE LastPage(mm[j]) \in Int
    <3>1. mm[j] \in MapEntries
      OBVIOUS
    <3> QED
      BY <3>1 DEF LastPage, MapEntries
  <2> QED
    BY <2>1, <2>2
<1> HIDE DEF n
<1>1. 0 \in T
  BY <1>t
<1>2. ASSUME NEW k \in 0..(n - 1), k \in T PROVE k + 1 \in T
  <2>1. PICK b \in Nat : \A j \in 1..k : LastPage(mm[j]) <= b
    BY <1>2
  <2>2. k + 1 \in 1..n /\ k + 1 \in 0..n
    BY <1>t
  <2>3. LastPage(mm[k+1]) \in Int
    BY <1>t, <2>2
  <2>4. PICK c \in Nat : b <= c /\ LastPage(mm[k+1]) <= c
    <3> DEFINE x == LastPage(mm[k+1])
    <3>1. CASE x <= b
      BY <3>1
    <3>2. CASE ~(x <= b)
      <4>1. x \in Nat /\ b <= x /\ x <= x
        BY <3>2, <2>3
      <4> QED
        BY <4>1
    <3> QED
      BY <3>1, <3>2
  <2>5. \A j \in 1..n : LastPage(mm[j]) \in Int
    BY <1>t
  <2>6. ASSUME NEW j \in 1..(k + 1) PROVE LastPage(mm[j]) <= c
    <3>1. CASE j = k + 1
      BY <3>1, <2>4
    <3>2. CASE j # k + 1
      <4>1. j \in 1..k /\ j \in 1..n
        BY <3>2, <2>2, <1>t
      <4>2. LastPage(mm[j]) \in Int /\ LastPage(mm[j]) <= b
        BY <4>1, <2>1, <2>5, Zenon
      <4> QED
        BY <4>2, <2>4
    <3> QED
      BY <3>1, <3>2
  <2> QED
    BY <2>2, <2>6
<1> HIDE DEF T
<1>3. n \in T
  <2>1. \A i \in 0..(n - 1) : i \in T => i + 1 \in T
    BY <1>2
  <2>2. \A i \in 0..n : i \in T
    BY <1>t, <1>1, <2>1, UpTo, Zenon
  <2> QED
    BY <1>t, <2>2
<1>4. PICK b \in Nat : \A j \in 1..n : LastPage(mm[j]) <= b
  BY <1>3 DEF T
<1> QED
  BY <1>4, <1>t, Zenon

\* The managed area is finite, above conventional memory, and frame 0 is not
\* in it.
LEMMA Area ==
    ASSUME smap \in BootMaps
    PROVE  /\ smap \in Seq(MapEntries) /\ BasePfn \in Nat /\ LimitPfn \in Int
           /\ BasePfn >= BootLow /\ IsFiniteSet(Managed)
           /\ Managed \subseteq Nat /\ 0 \notin Managed
<1> DEFINE J == {j \in DOMAIN smap : Above(smap[j])}
           E == {LastPage(smap[j]) : j \in J}
<1>1. smap \in Seq(MapEntries) /\ BootLow \in Nat \ {0}
  BY BootAssumption DEF BootConstants
<1>2. \E j \in 1..Len(smap) : smap[j].base = BootLow /\ smap[j].free
  BY BootAssumption DEF BootConstants, MapsStartFree
<1>3. DOMAIN smap = 1..Len(smap) /\ Len(smap) \in Nat
  BY <1>1
<1>4. J # {} /\ J \subseteq Nat
  BY <1>1, <1>2, <1>3 DEF Above
<1>5. \A j \in J : smap[j] \in MapEntries /\ Above(smap[j])
  BY <1>1, <1>3
<1>6. \A j \in J : LastPage(smap[j]) \in Int
  BY <1>5 DEF LastPage, MapEntries
<1>7. Min(J) \in J
  <2> HIDE DEF J
  <2>1. \E x \in J : \A y \in J : x <= y
    BY <1>4, LeastNat, Zenon
  <2> QED
    BY <2>1 DEF Min
<1>8. BasePfn \in Nat /\ BasePfn >= BootLow
  <2>1. BasePfn = smap[Min(J)].base
    BY DEF BasePfn
  <2> HIDE DEF J
  <2> QED
    BY <1>5, <1>7, <2>1 DEF Above, MapEntries
<1>9. LimitPfn \in Int
  <2>1. PICK b \in Nat : \A j \in DOMAIN smap : LastPage(smap[j]) <= b
    BY <1>1, MapEnds
  <2>2. E \subseteq Int /\ E # {} /\ b \in Int
    BY <1>4, <1>6
  <2>3. \A x \in E : x <= b
    BY <2>1
  <2>4. LimitPfn = Max(E)
    BY DEF LimitPfn
  <2> HIDE DEF E
  <2>5. \E x \in E : \A y \in E : x >= y
    BY <2>2, <2>3, GreatestNat, Zenon
  <2> QED
    BY <2>2, <2>4, <2>5, Zenon DEF Max
<1>10. IsFiniteSet(Managed)
  <2>1. LimitPfn - 1 \in Int /\ BasePfn \in Int
    BY <1>8, <1>9
  <2> QED
    BY <2>1, FS_Interval DEF Managed
<1> QED
  BY <1>1, <1>8, <1>9, <1>10 DEF Managed

----------------------------------------------------------------------------
(* What holds of the bitmap and the tables.                                 *)

FreeIn(M, b) == {f \in M : b[f] = "FREE"}
Counted(M, m) == m.free = Cardinality(FreeIn(M, m.pbm))

\* The same frames are reserved in m and k, and those allocated in m are in k.
SameReserved(M, m, k) ==
    \A f \in M : k.pbm[f] = "RESERVED" <=> m.pbm[f] = "RESERVED"
StillTaken(M, m, k) ==
    \A f \in M : m.pbm[f] = "ALLOCATED" => k.pbm[f] = "ALLOCATED"

\* The pages behind the first table, which maps pages to the frames of their
\* number.
Upper == {v \in BootPages : v >= BootTable}

Owned(M, m, v) ==
    m.tab[v].pfn \in M /\ m.pbm[m.tab[v].pfn] = "ALLOCATED"
Unused(m, f) ==
    /\ \A d \in Dirs : m.dir[d] # f
    /\ \A v \in Upper : m.tab[v].pfn # f

TablesTaken(M, m) ==
    \A d \in Dirs : m.dir[d] # 0 =>
        m.dir[d] \in M /\ m.pbm[m.dir[d]] = "ALLOCATED"
NoTableNoPage(m) ==
    \A v \in BootPages : m.dir[DirOf(v)] = 0 => m.tab[v].pfn = 0
NoPageFree(M, m) ==
    \A v \in Upper : m.tab[v].pfn \in M => m.pbm[m.tab[v].pfn] # "FREE"
OwnFrames(M, m) ==
    \A v \in Upper : Owned(M, m, v) =>
        /\ \A d \in Dirs : m.dir[d] # m.tab[v].pfn
        /\ \A w \in Upper \ {v} : m.tab[w].pfn # m.tab[v].pfn

\* Page tables have frames that are allocated, a page whose frame is managed
\* has one that is not free, and one that is allocated is that page's only.
Good(M, m) == /\ TablesTaken(M, m) /\ NoTableNoPage(m)
              /\ NoPageFree(M, m) /\ OwnFrames(M, m)

\* A page may be mapped to f: it is not managed, reserved, or in nobody's use.
Safe(M, m, f) ==
    f \in M => /\ m.pbm[f] # "FREE"
               /\ m.pbm[f] = "ALLOCATED" => Unused(m, f)

Frames(M) == IsFiniteSet(M) /\ M \subseteq Nat /\ 0 \notin M

SetTo(b, c, f, state) == c = [b EXCEPT ![f] = state]

\* A frame that is allocated is one free frame less.
LEMMA CountTaken ==
    ASSUME NEW M, IsFiniteSet(M), NEW b \in [M -> States], NEW f \in M,
           b[f] = "FREE", NEW c, SetTo(b, c, f, "ALLOCATED")
    PROVE  Cardinality(FreeIn(M, c)) = Cardinality(FreeIn(M, b)) - 1
<1>1. FreeIn(M, c) = FreeIn(M, b) \ {f}
  BY DEF FreeIn, SetTo
<1>2. f \in FreeIn(M, b) /\ IsFiniteSet(FreeIn(M, b))
  BY FS_Subset DEF FreeIn
<1> QED
  BY <1>1, <1>2, FS_RemoveElement, Zenon

\* A frame that is freed is one free frame more.
LEMMA CountFreed ==
    ASSUME NEW M, IsFiniteSet(M), NEW b \in [M -> States], NEW f \in M,
           b[f] # "FREE", NEW c, SetTo(b, c, f, "FREE")
    PROVE  Cardinality(FreeIn(M, c)) = Cardinality(FreeIn(M, b)) + 1
<1>1. FreeIn(M, c) = FreeIn(M, b) \cup {f}
  BY DEF FreeIn, SetTo
<1>2. f \notin FreeIn(M, b) /\ IsFiniteSet(FreeIn(M, b))
  BY FS_Subset DEF FreeIn
<1> QED
  BY <1>1, <1>2, FS_AddElement, Zenon

\* The frame that is found is free and managed, or there is none.
LEMMA FreeFound ==
    ASSUME smap \in BootMaps, NEW m
    PROVE  /\ FreeFrame(m) \in Nat
           /\ FreeFrame(m) # 0 =>
                FreeFrame(m) \in Managed /\ m.pbm[FreeFrame(m)] = "FREE"
<1> DEFINE fs == {f \in Managed : m.pbm[f] = "FREE"}
<1>1. FreeFrame(m) = IF fs = {} THEN 0 ELSE Min(fs)
  BY DEF FreeFrame
<1>2. CASE fs = {}
  BY <1>1, <1>2
<1>3. CASE fs # {}
  <2>1. fs \subseteq Nat
    BY Area
  <2>2. \E x \in fs : \A y \in fs : x <= y
    BY <1>3, <2>1, LeastNat, Zenon
  <2>3. Min(fs) \in fs
    BY <2>2 DEF Min
  <2> QED
    BY <1>1, <1>3, <2>1, <2>3
<1> QED
  BY <1>2, <1>3

----------------------------------------------------------------------------
(* The operations on one frame or page.                                     *)

\* The bitmap b with f allocated.
Took(M, m, k, f) ==
    /\ k \in BMem(M) /\ Counted(M, k)
    /\ \A g \in M : k.pbm[g] = IF g = f THEN "ALLOCATED" ELSE m.pbm[g]

\* Allocating a frame changes nothing else, and nobody uses the frame.
LEMMA FrameTaken ==
    ASSUME NEW M, Frames(M), NEW m \in BMem(M), Counted(M, m),
           NEW f \in M, m.pbm[f] = "FREE"
    PROVE  LET k == mm_pma_allocate_frame(m, f)
           IN  /\ Took(M, m, k, f) /\ k.dir = m.dir /\ k.tab = m.tab
               /\ Good(M, m) => Good(M, k) /\ Safe(M, k, f)
<1> DEFINE k == mm_pma_allocate_frame(m, f)
<1>m. m.pbm \in [M -> States] /\ m.free \in Int
  BY DEF BMem
<1>1. /\ k \in BMem(M) /\ k.dir = m.dir /\ k.tab = m.tab
      /\ k.pbm = [m.pbm EXCEPT ![f] = "ALLOCATED"] /\ k.free = m.free - 1
  <2> DEFINE b == [m.pbm EXCEPT ![f] = "ALLOCATED"]
             n == m.free - 1
  <2>1. b \in [M -> States] /\ n \in Int
    BY <1>m DEF States
  <2>2. k = [m EXCEPT !.pbm = b, !.free = n]
    BY DEF mm_pma_allocate_frame
  <2> HIDE DEF b, n, k
  <2>3. k \in BMem(M) /\ k.dir = m.dir /\ k.tab = m.tab /\ k.pbm = b /\ k.free = n
    BY <2>1, <2>2, Zenon DEF BMem
  <2> QED
    BY <2>3 DEF b, n
<1> HIDE DEF k
<1>2. Counted(M, k)
  <2>1. Cardinality(FreeIn(M, k.pbm)) = Cardinality(FreeIn(M, m.pbm)) - 1
    <3>1. SetTo(m.pbm, k.pbm, f, "ALLOCATED") /\ IsFiniteSet(M)
      BY <1>1 DEF SetTo, Frames
    <3> QED
      BY <1>m, <3>1, CountTaken
  <2> QED
    BY <1>1, <2>1 DEF Counted
<1>3. \A g \in M : k.pbm[g] = IF g = f THEN "ALLOCATED" ELSE m.pbm[g]
  BY <1>1, <1>m
<1>4. ASSUME Good(M, m) PROVE Good(M, k) /\ Safe(M, k, f)
  <2>1. TablesTaken(M, k) /\ NoTableNoPage(k) /\ NoPageFree(M, k)
    BY <1>1, <1>3, <1>4, ZenonT(30) DEF Good, TablesTaken, NoTableNoPage, NoPageFree
  <2>2. f # 0
    BY DEF Frames
  <2>3. Unused(k, f)
    <3>1. \A d \in Dirs : k.dir[d] # f
      BY <1>1, <1>4, <2>2 DEF Good, TablesTaken
    <3>2. \A v \in Upper : k.tab[v].pfn # f
      BY <1>1, <1>4 DEF Good, NoPageFree
    <3> QED
      BY <3>1, <3>2 DEF Unused
  <2>4. OwnFrames(M, k)
    <3>1. \A v \in Upper : Owned(M, k, v) => Owned(M, m, v)
      BY <1>1, <1>3, <2>3 DEF Owned, Unused
    <3> QED
      BY <1>1, <1>4, <3>1 DEF Good, OwnFrames
  <2>5. Safe(M, k, f)
    BY <1>3, <2>3 DEF Safe
  <2> QED
    BY <2>1, <2>4, <2>5 DEF Good
<1> QED
  BY <1>1, <1>2, <1>3, <1>4 DEF k, Took

\* A new page table changes no page, and what could be mapped still can.
LEMMA TableMade ==
    ASSUME NEW M, Frames(M), NEW m \in BMem(M), Counted(M, m),
           NEW v \in BootPages, m.dir[DirOf(v)] = 0,
           NEW f \in M, m.pbm[f] = "FREE"
    PROVE  LET k == WithTable(m, v, f)
           IN  /\ Took(M, m, k, f) /\ k.dir[DirOf(v)] # 0 /\ k.tab[v] = Absent
               /\ Good(M, m) =>
                    /\ Good(M, k)
                    /\ \A w \in BootPages : k.tab[w].pfn = m.tab[w].pfn
                    /\ \A g : Safe(M, m, g) => Safe(M, k, g)
<1> DEFINE j == mm_pma_allocate_frame(m, f)
           k == WithTable(m, v, f)
           D == DirOf(v)
<1>j. /\ Took(M, m, j, f) /\ j.dir = m.dir /\ j.tab = m.tab
      /\ Good(M, m) => Good(M, j) /\ Safe(M, j, f)
  BY FrameTaken
<1>d. D \in Dirs /\ f \in Nat /\ f # 0
  BY TableOf DEF Frames
<1>a. Absent \in Entries /\ Absent.pfn = 0
  BY DEF Absent, Entries
<1>1. k = [j EXCEPT !.dir[D] = f,
                    !.tab = [w \in BootPages |-> IF DirOf(w) = D THEN Absent
                                                 ELSE @[w]]]
  BY DEF WithTable
<1> HIDE DEF j, k, D
<1>b. j \in BMem(M)
  BY <1>j DEF Took
<1>2. /\ k \in BMem(M) /\ k.pbm = j.pbm /\ k.free = j.free
      /\ k.dir = [j.dir EXCEPT ![D] = f]
      /\ k.tab = [w \in BootPages |-> IF DirOf(w) = D THEN Absent ELSE j.tab[w]]
  BY <1>1, <1>a, <1>b, <1>d, Zenon DEF BMem
<1>3. \A d \in Dirs : k.dir[d] = IF d = D THEN f ELSE m.dir[d]
  BY <1>2, <1>b, <1>d, <1>j DEF BMem
<1>4. Took(M, m, k, f)
  BY <1>2, <1>j DEF Took, Counted
<1>5. k.dir[D] # 0 /\ k.tab[v] = Absent
  BY <1>2, <1>3, <1>d DEF D
<1>6. ASSUME Good(M, m)
      PROVE  /\ Good(M, k)
             /\ \A w \in BootPages : k.tab[w].pfn = m.tab[w].pfn
             /\ \A g : Safe(M, m, g) => Safe(M, k, g)
  <2>g. Good(M, j) /\ Safe(M, j, f)
    BY <1>6, <1>j
  <2>1. \A w \in BootPages : k.tab[w].pfn = m.tab[w].pfn
    BY <1>2, <1>6, <1>j, <1>a DEF Good, NoTableNoPage, D
  <2>u. \A w \in Upper : w \in BootPages
    BY DEF Upper
  <2>2. TablesTaken(M, k)
    BY <2>g, <1>2, <1>3, <1>j DEF Good, TablesTaken, Took
  <2>3. NoTableNoPage(k)
    <3>1. \A w \in BootPages : DirOf(w) \in Dirs
      BY TableOf
    <3> QED
      BY <1>6, <2>1, <1>3, <1>d, <3>1 DEF Good, NoTableNoPage
  <2>4. NoPageFree(M, k)
    BY <2>g, <1>2, <1>j, <2>1, <2>u DEF Good, NoPageFree
  <2>5. Unused(j, f)
    BY <2>g, <1>j DEF Safe, Took
  <2>6. OwnFrames(M, k)
    <3>1. ASSUME NEW w \in Upper, Owned(M, k, w)
          PROVE  /\ \A d \in Dirs : k.dir[d] # k.tab[w].pfn
                 /\ \A x \in Upper \ {w} : k.tab[x].pfn # k.tab[w].pfn
      <4>1. Owned(M, j, w) /\ k.tab[w].pfn = j.tab[w].pfn
        BY <3>1, <1>2, <1>j, <2>1, <2>u DEF Owned
      <4>2. j.tab[w].pfn # f
        BY <2>5 DEF Unused
      <4>3. /\ \A d \in Dirs : j.dir[d] # j.tab[w].pfn
            /\ \A x \in Upper \ {w} : j.tab[x].pfn # j.tab[w].pfn
        BY <2>g, <4>1 DEF Good, OwnFrames
      <4> QED
        BY <4>1, <4>2, <4>3, <1>3, <1>j, <2>1, <2>u, ZenonT(30)
    <3> QED
      BY <3>1 DEF OwnFrames
  <2>7. ASSUME NEW g, Safe(M, m, g) PROVE Safe(M, k, g)
    <3>1. g \in M => g # f
      BY <2>7 DEF Safe
    <3>2. Unused(m, g) /\ g # f => Unused(k, g)
      BY <1>3, <2>1, <2>u DEF Unused
    <3> QED
      BY <2>7, <3>1, <3>2, <1>4 DEF Safe, Took
  <2> QED
    BY <2>1, <2>2, <2>3, <2>4, <2>6, <2>7 DEF Good
<1> QED
  BY <1>4, <1>5, <1>6 DEF k, D

\* Writing an entry that may be mapped keeps the pages' frames apart.
LEMMA PageSet ==
    ASSUME NEW M, Frames(M), NEW m \in BMem(M), NEW v \in BootPages,
           NEW e \in Entries
    PROVE  LET k == [m EXCEPT !.tab[v] = e]
           IN  /\ k \in BMem(M) /\ k.pbm = m.pbm /\ k.free = m.free
               /\ k.dir = m.dir
               /\ \A w \in BootPages :
                    k.tab[w] = IF w = v THEN e ELSE m.tab[w]
               /\ /\ Good(M, m) /\ Safe(M, m, e.pfn)
                  /\ m.dir[DirOf(v)] # 0 \/ e.pfn = 0
                  => Good(M, k)
<1> DEFINE k == [m EXCEPT !.tab[v] = e]
<1>1. /\ k \in BMem(M) /\ k.pbm = m.pbm /\ k.free = m.free /\ k.dir = m.dir
      /\ \A w \in BootPages : k.tab[w] = IF w = v THEN e ELSE m.tab[w]
  BY DEF BMem
<1> HIDE DEF k
<1>2. ASSUME Good(M, m), Safe(M, m, e.pfn), m.dir[DirOf(v)] # 0 \/ e.pfn = 0
      PROVE  Good(M, k)
  <2>u. \A w \in Upper : w \in BootPages
    BY DEF Upper
  <2>1. TablesTaken(M, k) /\ NoTableNoPage(k)
    BY <1>1, <1>2 DEF Good, TablesTaken, NoTableNoPage
  <2>2. NoPageFree(M, k)
    BY <1>1, <1>2, <2>u DEF Good, NoPageFree, Safe
  <2>3. ASSUME NEW w \in Upper, Owned(M, k, w)
        PROVE  /\ \A d \in Dirs : k.dir[d] # k.tab[w].pfn
               /\ \A x \in Upper \ {w} : k.tab[x].pfn # k.tab[w].pfn
    <3>1. CASE w = v
      <4>1. k.tab[w].pfn = e.pfn /\ Unused(m, e.pfn)
        BY <3>1, <2>3, <1>1, <1>2 DEF Owned, Safe
      <4> QED
        BY <4>1, <3>1, <1>1, <2>u DEF Unused
    <3>2. CASE w # v
      <4>1. Owned(M, m, w) /\ k.tab[w].pfn = m.tab[w].pfn
        BY <3>2, <2>3, <1>1, <2>u DEF Owned
      <4>2. /\ \A d \in Dirs : m.dir[d] # m.tab[w].pfn
            /\ \A x \in Upper \ {w} : m.tab[x].pfn # m.tab[w].pfn
        BY <1>2, <4>1 DEF Good, OwnFrames
      <4>3. e.pfn # m.tab[w].pfn
        BY <1>2, <4>1 DEF Owned, Safe, Unused
      <4> QED
        BY <4>1, <4>2, <4>3, <1>1, <2>u
    <3> QED
      BY <3>1, <3>2
  <2>4. OwnFrames(M, k)
    BY <2>3 DEF OwnFrames
  <2> QED
    BY <2>1, <2>2, <2>4 DEF Good
<1> QED
  BY <1>1, <1>2 DEF k

\* From m to k frames were allocated at most.
Grew(M, m, k) ==
    /\ k \in BMem(M) /\ Counted(M, k)
    /\ SameReserved(M, m, k) /\ StillTaken(M, m, k)

\* From m the page v was mapped to pfn, or it failed.
MapResult(M, m, r, pfn, v) ==
    /\ r.ok \in BOOLEAN /\ Grew(M, m, r.m)
    /\ Good(M, m) /\ Safe(M, m, pfn) =>
         /\ Good(M, r.m)
         /\ \A w \in BootPages :
              r.m.tab[w].pfn = IF w = v /\ r.ok THEN pfn ELSE m.tab[w].pfn

\* A frame that is allocated was free.
LEMMA TookGrew ==
    ASSUME NEW M, NEW m, NEW k, NEW f \in M, m.pbm[f] = "FREE", Took(M, m, k, f)
    PROVE  Grew(M, m, k)
BY DEF Took, Grew, SameReserved, StillTaken

\* Mapping a page, whether or not it needs a table and finds a frame for it.
LEMMA Mapped ==
    ASSUME smap \in BootMaps, NEW m \in BMem(Managed), Counted(Managed, m),
           NEW v \in BootPages, NEW pfn \in Nat,
           NEW flags \in PageFlags \cup {{}}
    PROVE  MapResult(Managed, m, map(m, pfn, v, flags), pfn, v)
<1> DEFINE M == Managed
           f == FreeFrame(m)
           t == WithTable(m, v, f)
           e == [pfn |-> pfn, flags |-> flags]
           r == map(m, pfn, v, flags)
           S(q) == [q EXCEPT !.tab[v] = e]
<1> SUFFICES MapResult(M, m, r, pfn, v)
  OBVIOUS
<1>a. Frames(M)
  BY Area DEF Frames
<1>x. m \in BMem(M)
  OBVIOUS
<1>e. e \in Entries /\ e.pfn = pfn
  BY DEF Entries
<1>f. f # 0 => f \in M /\ m.pbm[f] = "FREE"
  BY FreeFound
<1>m. Grew(M, m, m)
  BY DEF Grew, SameReserved, StillTaken
<1>s. \A q \in BMem(M) :
        /\ S(q) \in BMem(M) /\ S(q).pbm = q.pbm /\ S(q).free = q.free
        /\ \A w \in BootPages : S(q).tab[w] = IF w = v THEN e ELSE q.tab[w]
        /\ Good(M, q) /\ Safe(M, q, pfn) /\ q.dir[DirOf(v)] # 0 => Good(M, S(q))
  <2> HIDE DEF e, M
  <2> QED
    BY <1>a, <1>e, PageSet
<1>1. CASE m.dir[DirOf(v)] # 0
  <2>1. r = IF m.tab[v].pfn # 0 /\ m.tab[v].flags # flags
            THEN [ok |-> FALSE, m |-> m] ELSE [ok |-> TRUE, m |-> S(m)]
    BY <1>1 DEF map
  <2> HIDE DEF M, r, S
  <2>2. CASE r = [ok |-> FALSE, m |-> m]
    BY <2>2, <1>m DEF MapResult
  <2>3. CASE r = [ok |-> TRUE, m |-> S(m)]
    <3>1. Grew(M, m, S(m))
      BY <1>m, <1>s DEF Grew, SameReserved, StillTaken, Counted, M
    <3> QED
      BY <2>3, <3>1, <1>s, <1>1, <1>e, <1>x, Zenon DEF MapResult
  <2> QED
    BY <2>1, <2>2, <2>3
<1>2. CASE m.dir[DirOf(v)] = 0 /\ f = 0
  <2>t. t.tab[v] = Absent
    BY DEF WithTable, mm_pma_allocate_frame, BMem
  <2> HIDE DEF t, f
  <2>1. r = [ok |-> FALSE, m |-> m]
    BY <1>2, <2>t DEF map, t, f, Absent
  <2> HIDE DEF r
  <2> QED
    BY <2>1, <1>m DEF MapResult
<1>3. CASE m.dir[DirOf(v)] = 0 /\ f # 0
  <2> HIDE DEF M, f
  <2>1. /\ Took(M, m, t, f) /\ t.dir[DirOf(v)] # 0 /\ t.tab[v] = Absent
        /\ Good(M, m) =>
             /\ Good(M, t)
             /\ \A w \in BootPages : t.tab[w].pfn = m.tab[w].pfn
             /\ \A g : Safe(M, m, g) => Safe(M, t, g)
    BY <1>a, <1>f, <1>3, TableMade, Zenon DEF M
  <2>2. r = [ok |-> TRUE, m |-> S(t)]
    BY <1>3, <2>1 DEF map, Absent, f
  <2> HIDE DEF t, r, S
  <2>3. Grew(M, m, t) /\ t \in BMem(M)
    BY <1>3, <1>f, <2>1, TookGrew, Zenon DEF Took
  <2>4. Grew(M, m, S(t))
    BY <2>3, <1>s DEF Grew, SameReserved, StillTaken, Counted
  <2> QED
    BY <2>1, <2>2, <2>3, <2>4, <1>s, <1>e, Zenon DEF MapResult
<1> QED
  BY <1>1, <1>2, <1>3

----------------------------------------------------------------------------
(* The loops.                                                               *)

Results(M) == [ok : BOOLEAN, m : BMem(M)]

\* Frames that were allocated on the way stay so.
LEMMA GrewOn ==
    ASSUME NEW M, NEW m, NEW p, NEW k, Grew(M, m, p), Grew(M, p, k)
    PROVE  Grew(M, m, k)
BY DEF Grew, SameReserved, StillTaken

AllReserved(M, m, R) == \A x \in R : x \in M => m.pbm[x] = "RESERVED"
OnlyIn(m, k, R) == \A w \in BootPages \ R : k.tab[w].pfn = m.tab[w].pfn

\* From m the pages R were mapped to the frames of the same number, which are
\* reserved or not managed, or some of them were.
DeviceDone(M, m, k, R) ==
    /\ Grew(M, m, k)
    /\ Good(M, m) /\ AllReserved(M, m, R) => Good(M, k) /\ OnlyIn(m, k, R)

\* A device's memory takes frames for page tables only, also if it fails.
LEMMA DeviceMapped ==
    ASSUME smap \in BootMaps, NEW m \in BMem(Managed), Counted(Managed, m),
           NEW v \in Nat, NEW n \in Nat, NEW flags \in PageFlags,
           v..(v + n - 1) \subseteq BootPages
    PROVE  DeviceDone(Managed, m, mm_map(m, v, v, n, flags).m, v..(v + n - 1))
<1> DEFINE M == Managed
           R == v..(v + n - 1)
           S == Results(M)
           a == [ok |-> TRUE, m |-> m]
           B(p, i) == IF ~p.ok THEN p
                      ELSE map(p.m, v + i - 1, v + i - 1, flags)
           F == [x \in S \X (1..n) |-> B(x[1], x[2])]
           I == {x \in (0..n) \X S : DeviceDone(M, m, x[2].m, R)}
<1> SUFFICES DeviceDone(M, m, mm_map(m, v, v, n, flags).m, R)
  OBVIOUS
<1>a. a \in S /\ a.m = m
  BY DEF Results
<1>m. m \in BMem(M) /\ Counted(M, m)
  OBVIOUS
<1>1. DeviceDone(M, m, m, R)
  BY DEF DeviceDone, Grew, SameReserved, StillTaken, OnlyIn
<1>f. \A p \in S : \A i \in 1..n : F[<<p, i>>] = B(p, i)
  BY Zenon
<1> HIDE DEF F
<1>i. \A i \in 0..n : \A p \in S : <<i, p>> \in I <=> DeviceDone(M, m, p.m, R)
  OBVIOUS
<1>b. ASSUME NEW i \in 1..n, NEW p \in S, DeviceDone(M, m, p.m, R)
      PROVE  B(p, i) \in S /\ DeviceDone(M, m, B(p, i).m, R)
  <2>1. CASE ~p.ok
    BY <1>b, <2>1
  <2>2. CASE p.ok
    <3> DEFINE x == v + i - 1
               r == map(p.m, x, x, flags)
    <3>1. x \in R /\ x \in BootPages /\ x \in Nat
      OBVIOUS
    <3>2. p.m \in BMem(M) /\ Counted(M, p.m) /\ Grew(M, m, p.m)
      BY <1>b DEF DeviceDone, Grew
    <3>3. B(p, i) = r
      BY <2>2
    <3> HIDE DEF x, R, B
    <3>4. MapResult(M, p.m, r, x, x)
      BY <3>1, <3>2, Mapped
    <3>d. r = [ok |-> r.ok, m |-> r.m]
      BY <3>2, Zenon DEF map
    <3> HIDE DEF r, M
    <3>5. r \in S /\ Grew(M, m, r.m)
      BY <3>2, <3>4, <3>d, GrewOn, ZenonT(30) DEF MapResult, Grew, Results
    <3>6. ASSUME Good(M, m), AllReserved(M, m, R)
          PROVE  Good(M, r.m) /\ OnlyIn(m, r.m, R)
      <4>1. Good(M, p.m) /\ OnlyIn(m, p.m, R)
        BY <1>b, <3>6 DEF DeviceDone
      <4>2. Safe(M, p.m, x)
        BY <3>1, <3>2, <3>6 DEF AllReserved, Grew, SameReserved, Safe
      <4> QED
        BY <3>1, <3>4, <4>1, <4>2 DEF MapResult, OnlyIn
    <3> QED
      BY <3>3, <3>5, <3>6 DEF DeviceDone
  <2> QED
    BY <1>b, <2>1, <2>2 DEF Results
<1> HIDE DEF I, B, R, S, M, a
<1>2. Keeps(n, S, a, F, I)
  <2>1. ASSUME NEW i \in 1..n, NEW p \in S, <<i-1, p>> \in I
        PROVE  F[<<p, i>>] \in S /\ <<i, F[<<p, i>>]>> \in I
    <3>1. i - 1 \in 0..n /\ i \in 0..n
      OBVIOUS
    <3> QED
      BY <2>1, <3>1, <1>b, <1>f, <1>i, Zenon
  <2>2. <<0, a>> \in I
    BY <1>1, <1>a, <1>i
  <2> QED
    BY <1>a, <2>1, <2>2 DEF Keeps
<1>3. PICK w : /\ w \in [0..n -> S] /\ w[0] = a
               /\ \A i \in 1..n : w[i] = F[<<w[i-1], i>>]
  BY <1>2, LoopExists
<1>4. w = [i \in 0..n |-> IF i = 0 THEN a ELSE B(w[i-1], i)]
  <2>1. \A i \in 1..n : i - 1 \in 0..n
    OBVIOUS
  <2>2. \A i \in 1..n : w[i] = B(w[i-1], i)
    BY <1>3, <1>f, <2>1, Zenon
  <2> QED
    BY <1>3, <2>2
<1>5. \E s : /\ s = [i \in 0..n |-> IF i = 0 THEN a ELSE B(s[i-1], i)]
             /\ mm_map(m, v, v, n, flags) = s[n]
  BY <1>4, Zenon DEF mm_map, B, a
<1>6. PICK s : /\ s = [i \in 0..n |-> IF i = 0 THEN a ELSE B(s[i-1], i)]
               /\ mm_map(m, v, v, n, flags) = s[n]
  BY <1>5, Zenon
<1>7. s[0] = a /\ \A i \in 1..n : s[i] = B(s[i-1], i)
  BY <1>6
<1>8. Follows(s, n, S, a, F, I)
  BY <1>7, <1>f DEF Follows
<1>9. s[n] \in S /\ <<n, s[n]>> \in I
  BY <1>2, <1>8, LoopKeeps
<1> QED
  BY <1>6, <1>9, <1>i

\* The pages of a request in its first i rounds.
Run(vpn, i) == vpn..(vpn + i - 1)

\* From m the pages R were handed out, or the request failed on the way.
AllocDone(M, m, r, R) ==
    /\ r \in Results(M) /\ Grew(M, m, r.m)
    /\ Good(M, m) =>
         /\ Good(M, r.m) /\ OnlyIn(m, r.m, R)
         /\ r.ok => \A v \in R : m.tab[v].pfn = 0 => Owned(M, r.m, v)

\* One page: found, without a frame, or mapped to a frame of its own.
AllocRound(p, v) ==
    LET f == FreeFrame(p.m)
    IN  IF ~p.ok \/ mm_vpn_to_pfn(p.m, v) # 0 THEN p
        ELSE IF f = 0 THEN [p EXCEPT !.ok = FALSE]
        ELSE map(mm_pma_allocate_frame(p.m, f), f, v, {})

\* A page that is not present gets a frame that nobody uses.
LEMMA PageAllocated ==
    ASSUME smap \in BootMaps, NEW m, NEW p, NEW R, NEW v \in BootPages \ R,
           R \subseteq BootPages, AllocDone(Managed, m, p, R)
    PROVE  AllocDone(Managed, m, AllocRound(p, v), R \cup {v})
<1> DEFINE M == Managed
           f == FreeFrame(p.m)
           q == mm_pma_allocate_frame(p.m, f)
           r == map(q, f, v, {})
           N == AllocRound(p, v)
           T == R \cup {v}
<1> SUFFICES AllocDone(M, m, N, T)
  OBVIOUS
<1>a. Frames(M)
  BY Area DEF Frames
<1>f. f \in Nat /\ (f # 0 => f \in M /\ p.m.pbm[f] = "FREE")
  BY FreeFound
<1>p. p \in Results(M) /\ p.m \in BMem(M) /\ Counted(M, p.m) /\ Grew(M, m, p.m)
  BY DEF AllocDone, Results, Grew
<1>o. ASSUME Good(M, m) PROVE OnlyIn(m, p.m, T) /\ Good(M, p.m)
  BY <1>o, Zenon DEF AllocDone, OnlyIn
<1>1. CASE ~p.ok
  <2>1. N = p
    BY <1>1, Zenon DEF AllocRound
  <2> HIDE DEF M, N
  <2> QED
    BY <1>1, <1>p, <1>o, <2>1 DEF AllocDone
<1>2. CASE p.ok /\ mm_vpn_to_pfn(p.m, v) # 0
  <2>1. N = p
    BY <1>2 DEF AllocRound
  <2>2. p.m.tab[v].pfn # 0
    BY <1>2 DEF mm_vpn_to_pfn
  <2>3. ASSUME Good(M, m)
        PROVE  \A x \in T : m.tab[x].pfn = 0 => Owned(M, p.m, x)
    <3>1. \A x \in R : m.tab[x].pfn = 0 => Owned(M, p.m, x)
      BY <1>2, <2>3 DEF AllocDone
    <3>2. m.tab[v].pfn = p.m.tab[v].pfn
      BY <2>3, Zenon DEF AllocDone, OnlyIn
    <3> QED
      BY <2>2, <3>1, <3>2
  <2> HIDE DEF M, N, T
  <2> QED
    BY <1>p, <1>o, <2>1, <2>3 DEF AllocDone
<1>3. CASE p.ok /\ mm_vpn_to_pfn(p.m, v) = 0 /\ f = 0
  <2>1. N = [p EXCEPT !.ok = FALSE]
    BY <1>3 DEF AllocRound
  <2>2. N \in Results(M) /\ N.m = p.m /\ ~N.ok
    BY <2>1, <1>p, Zenon DEF Results
  <2> HIDE DEF M, N, T
  <2> QED
    BY <1>p, <1>o, <2>2 DEF AllocDone
<1>4. CASE p.ok /\ mm_vpn_to_pfn(p.m, v) = 0 /\ f # 0
  <2>1. N = r
    BY <1>4 DEF AllocRound
  <2>2. f \in M /\ p.m.pbm[f] = "FREE"
    BY <1>4, <1>f
  <2> HIDE DEF f
  <2>3. /\ Took(M, p.m, q, f) /\ q.tab = p.m.tab
        /\ Good(M, p.m) => Good(M, q) /\ Safe(M, q, f)
    BY <1>a, <1>p, <2>2, FrameTaken, Zenon
  <2>4. q \in BMem(M) /\ Counted(M, q) /\ q.pbm[f] = "ALLOCATED"
    BY <2>2, <2>3 DEF Took
  <2> HIDE DEF q
  <2>5. MapResult(M, q, r, f, v)
    BY <1>f, <2>4, Mapped
  <2>d. r = [ok |-> r.ok, m |-> r.m]
    BY Zenon DEF map
  <2> HIDE DEF r, M, N
  <2>6. Grew(M, p.m, r.m) /\ Grew(M, m, r.m) /\ r \in Results(M)
    <3>1. Grew(M, p.m, q)
      BY <2>2, <2>3, TookGrew
    <3>2. Grew(M, q, r.m) /\ r.ok \in BOOLEAN
      BY <2>5 DEF MapResult
    <3>3. Grew(M, p.m, r.m)
      BY <3>1, <3>2, GrewOn
    <3>4. Grew(M, m, r.m)
      BY <3>3, <1>p, GrewOn, Zenon
    <3> QED
      BY <3>2, <3>3, <3>4, <2>d DEF Results, Grew
  <2>7. ASSUME Good(M, m)
        PROVE  /\ Good(M, r.m) /\ OnlyIn(m, r.m, T)
               /\ r.ok => \A x \in T : m.tab[x].pfn = 0 => Owned(M, r.m, x)
    <3>1. /\ Good(M, r.m)
          /\ \A w \in BootPages :
               r.m.tab[w].pfn = IF w = v /\ r.ok THEN f ELSE p.m.tab[w].pfn
      BY <1>o, <2>3, <2>5, <2>7, Zenon DEF MapResult
    <3>2. OnlyIn(m, r.m, T)
      BY <1>o, <2>7, <3>1 DEF OnlyIn
    <3>3. ASSUME r.ok, NEW x \in T, m.tab[x].pfn = 0 PROVE Owned(M, r.m, x)
      <4>1. CASE x = v
        <5>1. r.m.pbm[f] = "ALLOCATED"
          BY <2>2, <2>4, <2>5, Zenon DEF MapResult, Grew, StillTaken
        <5> QED
          BY <3>1, <3>3, <4>1, <5>1, <2>2 DEF Owned
      <4>2. CASE x # v
        <5>1. x \in R /\ x \in BootPages
          BY <4>2
        <5>2. Owned(M, p.m, x)
          BY <1>4, <2>7, <3>3, <5>1 DEF AllocDone, M
        <5> QED
          BY <2>6, <3>1, <4>2, <5>1, <5>2, Zenon DEF Owned, Grew, StillTaken
      <4> QED
        BY <4>1, <4>2, Zenon
    <3> QED
      BY <3>1, <3>2, <3>3, Zenon
  <2> QED
    BY <2>1, <2>6, <2>7 DEF AllocDone
<1> QED
  BY <1>1, <1>2, <1>3, <1>4, <1>p DEF Results

\* A request's pages have frames of their own, however far it came.
LEMMA PagesAllocated ==
    ASSUME smap \in BootMaps, NEW m \in BMem(Managed), Counted(Managed, m),
           NEW vpn \in Nat, NEW n \in Nat, Run(vpn, n) \subseteq BootPages
    PROVE  AllocDone(Managed, m, mm_allocate_pages_to(m, vpn, n), Run(vpn, n))
<1> DEFINE M == Managed
           S == Results(M)
           a == [ok |-> TRUE, m |-> m]
           B(p, i) == AllocRound(p, vpn + i - 1)
           F == [x \in S \X (1..n) |-> B(x[1], x[2])]
           I == {x \in (0..n) \X S : AllocDone(M, m, x[2], Run(vpn, x[1]))}
<1> SUFFICES AllocDone(M, m, mm_allocate_pages_to(m, vpn, n), Run(vpn, n))
  OBVIOUS
<1>a. a \in S /\ a.m = m
  BY DEF Results
<1>1. AllocDone(M, m, a, Run(vpn, 0))
  <2>1. Run(vpn, 0) = {}
    BY DEF Run
  <2>2. Grew(M, m, m) /\ OnlyIn(m, m, Run(vpn, 0))
    BY DEF Grew, SameReserved, StillTaken, OnlyIn
  <2> HIDE DEF M, S, a
  <2> QED
    BY <1>a, <2>1, <2>2 DEF AllocDone, S
<1>f. \A p \in S : \A i \in 1..n : F[<<p, i>>] = B(p, i)
  BY Zenon
<1> HIDE DEF F
<1>i. \A i \in 0..n : \A p \in S :
        <<i, p>> \in I <=> AllocDone(M, m, p, Run(vpn, i))
  OBVIOUS
<1>b. ASSUME NEW i \in 1..n, NEW p \in S, AllocDone(M, m, p, Run(vpn, i - 1))
      PROVE  B(p, i) \in S /\ AllocDone(M, m, B(p, i), Run(vpn, i))
  <2> DEFINE v == vpn + i - 1
             R == Run(vpn, i - 1)
  <2>1. /\ R \subseteq BootPages /\ v \in BootPages \ R
        /\ R \cup {v} = Run(vpn, i)
    BY DEF Run
  <2> HIDE DEF R, v
  <2>2. AllocDone(M, m, AllocRound(p, v), R \cup {v})
    BY <1>b, <2>1, PageAllocated DEF R
  <2> HIDE DEF M
  <2> QED
    BY <2>1, <2>2, Zenon DEF AllocDone, v
<1> HIDE DEF I, B, S, M, a
<1>2. Keeps(n, S, a, F, I)
  <2>1. ASSUME NEW i \in 1..n, NEW p \in S, <<i-1, p>> \in I
        PROVE  F[<<p, i>>] \in S /\ <<i, F[<<p, i>>]>> \in I
    <3>1. i - 1 \in 0..n /\ i \in 0..n
      OBVIOUS
    <3> QED
      BY <2>1, <3>1, <1>b, <1>f, <1>i, Zenon
  <2>2. <<0, a>> \in I
    BY <1>1, <1>a, <1>i
  <2> QED
    BY <1>a, <2>1, <2>2 DEF Keeps
<1>3. PICK w : /\ w \in [0..n -> S] /\ w[0] = a
               /\ \A i \in 1..n : w[i] = F[<<w[i-1], i>>]
  BY <1>2, LoopExists
<1>4. w = [i \in 0..n |-> IF i = 0 THEN a ELSE B(w[i-1], i)]
  <2>1. \A i \in 1..n : i - 1 \in 0..n
    OBVIOUS
  <2>2. \A i \in 1..n : w[i] = B(w[i-1], i)
    BY <1>3, <1>f, <2>1, Zenon
  <2> QED
    BY <1>3, <2>2
<1>5. \E s : /\ s = [i \in 0..n |-> IF i = 0 THEN a ELSE B(s[i-1], i)]
             /\ mm_allocate_pages_to(m, vpn, n) = s[n]
  BY <1>4, Zenon DEF mm_allocate_pages_to, AllocRound, B, a
<1>6. PICK s : /\ s = [i \in 0..n |-> IF i = 0 THEN a ELSE B(s[i-1], i)]
               /\ mm_allocate_pages_to(m, vpn, n) = s[n]
  BY <1>5, Zenon
<1>7. s[0] = a /\ \A i \in 1..n : s[i] = B(s[i-1], i)
  BY <1>6
<1>8. Follows(s, n, S, a, F, I)
  BY <1>7, <1>f DEF Follows
<1>9. s[n] \in S /\ <<n, s[n]>> \in I
  BY <1>2, <1>8, LoopKeeps
<1> QED
  BY <1>6, <1>9, <1>i

\* From m the pages R were unmapped, and the frames they owned are free.
FreeDone(M, m, k, R) ==
    /\ k \in BMem(M) /\ Counted(M, k) /\ SameReserved(M, m, k)
    /\ Good(M, m) =>
         /\ Good(M, k) /\ OnlyIn(m, k, R)
         /\ \A v \in R : k.tab[v].pfn = 0
         /\ \A w \in Upper \ R : Owned(M, m, w) => Owned(M, k, w)

UnmapRound(p, v) ==
    IF mm_vpn_to_pfn(p, v) = 0 THEN p
    ELSE mm_pma_free_frame([p EXCEPT !.tab[v] = Absent], mm_vpn_to_pfn(p, v))

\* Freeing a frame that nobody uses.
LEMMA FrameFreed ==
    ASSUME smap \in BootMaps, NEW q \in BMem(Managed), Counted(Managed, q),
           NEW f
    PROVE  LET k == mm_pma_free_frame(q, f)
           IN  /\ k \in BMem(Managed) /\ Counted(Managed, k)
               /\ k.dir = q.dir /\ k.tab = q.tab /\ SameReserved(Managed, q, k)
               /\ \A g \in Managed : g # f => k.pbm[g] = q.pbm[g]
               /\ /\ Good(Managed, q)
                  /\ f \in Managed /\ q.pbm[f] = "ALLOCATED" => Unused(q, f)
                  => Good(Managed, k)
<1> DEFINE M == Managed
           k == mm_pma_free_frame(q, f)
<1>a. IsFiniteSet(M)
  BY Area
<1>q. q.pbm \in [M -> States] /\ q.free \in Int
  BY DEF BMem
<1>1. CASE f \notin Managed \/ q.pbm[f] # "ALLOCATED"
  <2>1. k = q
    BY <1>1 DEF mm_pma_free_frame
  <2> QED
    BY <2>1 DEF SameReserved
<1>2. CASE f \in Managed /\ q.pbm[f] = "ALLOCATED"
  <2> DEFINE b == [q.pbm EXCEPT ![f] = "FREE"]
             n == q.free + 1
  <2>1. b \in [M -> States] /\ n \in Int
    BY <1>q, <1>2 DEF States
  <2>2. k = [q EXCEPT !.pbm = b, !.free = n]
    BY <1>2 DEF mm_pma_free_frame
  <2>3. \A g \in M : b[g] = IF g = f THEN "FREE" ELSE q.pbm[g]
    BY <1>q, <1>2
  <2>4. Cardinality(FreeIn(M, b)) = Cardinality(FreeIn(M, q.pbm)) + 1
    <3>1. SetTo(q.pbm, b, f, "FREE")
      BY DEF SetTo
    <3> HIDE DEF b, M
    <3> QED
      BY <1>a, <1>q, <1>2, <3>1, CountFreed, Zenon DEF M
  <2> HIDE DEF b, n, k, M
  <2>5. /\ k \in BMem(M) /\ k.dir = q.dir /\ k.tab = q.tab /\ k.pbm = b
        /\ k.free = n
    BY <2>1, <2>2, Zenon DEF BMem, M
  <2>6. Counted(M, k)
    BY <2>4, <2>5 DEF Counted, n, M
  <2>7. SameReserved(M, q, k)
    BY <1>2, <2>3, <2>5 DEF SameReserved
  <2>8. ASSUME Good(M, q), Unused(q, f) PROVE Good(M, k)
    <3>1. TablesTaken(M, k) /\ NoTableNoPage(k) /\ NoPageFree(M, k)
      BY <2>3, <2>5, <2>8
         DEF Good, TablesTaken, NoTableNoPage, NoPageFree, Unused
    <3>2. \A w \in Upper : Owned(M, k, w) => Owned(M, q, w)
      BY <2>3, <2>5, <2>8 DEF Owned, Unused
    <3>3. OwnFrames(M, k)
      BY <2>5, <2>8, <3>2, Zenon DEF Good, OwnFrames
    <3> QED
      BY <3>1, <3>3, Zenon DEF Good
  <2> QED
    BY <1>2, <2>3, <2>5, <2>6, <2>7, <2>8, Zenon DEF k, M
<1> QED
  BY <1>1, <1>2, Zenon

\* Unmapping one page more.
LEMMA PageUnmapped ==
    ASSUME smap \in BootMaps, NEW m, NEW p, NEW R \in SUBSET Upper,
           NEW v \in Upper \ R,
           FreeDone(Managed, m, p, R)
    PROVE  FreeDone(Managed, m, UnmapRound(p, v), R \cup {v})
<1> DEFINE M == Managed
           f == mm_vpn_to_pfn(p, v)
           q == [p EXCEPT !.tab[v] = Absent]
           k == mm_pma_free_frame(q, f)
           N == UnmapRound(p, v)
           T == R \cup {v}
<1> SUFFICES FreeDone(M, m, N, T)
  OBVIOUS
<1>a. Frames(M)
  BY Area DEF Frames
<1>v. v \in BootPages /\ v \notin R /\ \A w \in Upper : w \in BootPages
  BY DEF Upper
<1>r. \A w \in R : w \in BootPages
  BY <1>v
<1>p. p \in BMem(M) /\ Counted(M, p) /\ SameReserved(M, m, p)
  BY DEF FreeDone
<1>g. ASSUME Good(M, m)
      PROVE  /\ Good(M, p) /\ OnlyIn(m, p, R) /\ \A w \in R : p.tab[w].pfn = 0
             /\ \A w \in Upper \ R : Owned(M, m, w) => Owned(M, p, w)
  BY <1>g DEF FreeDone
<1>1. CASE f = 0
  <2>1. N = p
    BY <1>1 DEF UnmapRound
  <2>2. ASSUME Good(M, m) PROVE p.tab[v].pfn = 0
    BY <1>g, <1>v, <1>1, <2>2, Zenon DEF Good, NoTableNoPage, mm_vpn_to_pfn
  <2> HIDE DEF M, N
  <2> QED
    BY <1>p, <1>g, <2>1, <2>2, Zenon DEF FreeDone, OnlyIn
<1>2. CASE f # 0
  <2>1. N = k
    BY <1>2 DEF UnmapRound
  <2>2. p.tab[v].pfn = f
    BY <1>2 DEF mm_vpn_to_pfn
  <2>3. Absent \in Entries /\ Absent.pfn = 0
    BY DEF Absent, Entries
  <2> HIDE DEF f
  <2>4. /\ q \in BMem(M) /\ q.pbm = p.pbm /\ q.free = p.free /\ q.dir = p.dir
        /\ \A w \in BootPages : q.tab[w] = IF w = v THEN Absent ELSE p.tab[w]
        /\ Good(M, p) => Good(M, q)
    <3>1. Safe(M, p, Absent.pfn)
      BY <1>a, <2>3 DEF Safe, Frames
    <3> HIDE DEF M
    <3> QED
      BY <1>a, <1>p, <1>v, <2>3, <3>1, PageSet
  <2> HIDE DEF q
  <2>5. Counted(M, q)
    BY <1>p, <2>4 DEF Counted
  <2>6. /\ k \in BMem(M) /\ Counted(M, k)
        /\ k.dir = q.dir /\ k.tab = q.tab /\ SameReserved(M, q, k)
        /\ \A g \in M : g # f => k.pbm[g] = q.pbm[g]
        /\ /\ Good(M, q)
           /\ f \in M /\ q.pbm[f] = "ALLOCATED" => Unused(q, f)
           => Good(M, k)
    BY <2>4, <2>5, FrameFreed, Zenon
  <2> HIDE DEF k, M, N, T
  <2>7. SameReserved(M, m, k)
    BY <1>p, <2>4, <2>6, Zenon DEF SameReserved
  <2>8. ASSUME Good(M, m)
        PROVE  /\ Good(M, k) /\ OnlyIn(m, k, T)
               /\ \A w \in T : k.tab[w].pfn = 0
               /\ \A w \in Upper \ T : Owned(M, m, w) => Owned(M, k, w)
    <3>1. /\ Good(M, p) /\ OnlyIn(m, p, R) /\ \A w \in R : p.tab[w].pfn = 0
          /\ \A w \in Upper \ R : Owned(M, m, w) => Owned(M, p, w)
      BY <1>g, <2>8, Zenon
    <3>2. f \in M /\ q.pbm[f] = "ALLOCATED" => Unused(q, f)
      <4> SUFFICES ASSUME f \in M, q.pbm[f] = "ALLOCATED" PROVE Unused(q, f)
        OBVIOUS
      <4>1. v \in Upper /\ Owned(M, p, v)
        BY <2>2, <2>4, Zenon DEF Owned
      <4>2. /\ \A d \in Dirs : p.dir[d] # f
            /\ \A w \in Upper \ {v} : p.tab[w].pfn # f
        BY <2>2, <3>1, <4>1, Zenon DEF Good, OwnFrames
      <4>3. ASSUME NEW w \in Upper PROVE q.tab[w].pfn # f
        <5>1. CASE w = v
          BY <1>v, <1>2, <2>3, <2>4, <5>1, Zenon
        <5>2. CASE w # v
          <6>1. q.tab[w] = p.tab[w]
            BY <1>v, <2>4, <5>2, Zenon
          <6> QED
            BY <4>2, <5>2, <6>1, Zenon
        <5> QED
          BY <5>1, <5>2, Zenon
      <4> QED
        BY <2>4, <4>2, <4>3, Zenon DEF Unused
    <3>3. Good(M, k)
      BY <2>4, <2>6, <3>1, <3>2, Zenon
    <3>4. \A w \in BootPages :
            k.tab[w].pfn = IF w = v THEN 0 ELSE p.tab[w].pfn
      BY <2>3, <2>4, <2>6, Zenon
    <3>5. OnlyIn(m, k, T)
      BY <3>1, <3>4, Zenon DEF OnlyIn, T
    <3>6. \A w \in T : k.tab[w].pfn = 0
      BY <3>1, <3>4, <1>v, <1>r DEF T
    <3>7. ASSUME NEW w \in Upper \ T, Owned(M, m, w) PROVE Owned(M, k, w)
      <4>1. w # v /\ w \in Upper /\ w \in BootPages /\ Owned(M, p, w)
        BY <1>v, <3>1, <3>7 DEF T
      <4>2. p.tab[w].pfn # f
        BY <4>1, <3>1, <2>2, Zenon DEF Good, OwnFrames, Owned
      <4> QED
        BY <2>4, <2>6, <3>4, <4>1, <4>2, Zenon DEF Owned
    <3> QED
      BY <3>3, <3>5, <3>6, <3>7, Zenon
  <2> QED
    BY <2>1, <2>6, <2>7, <2>8, Zenon DEF FreeDone
<1> QED
  BY <1>1, <1>2

\* Freeing a request's pages takes nothing from other pages.
LEMMA PagesUnmapped ==
    ASSUME smap \in BootMaps, NEW m \in BMem(Managed), Counted(Managed, m),
           NEW vpn \in Nat, NEW n \in Nat, Run(vpn, n) \subseteq Upper
    PROVE  FreeDone(Managed, m, unmap_pages(m, vpn, n), Run(vpn, n))
<1> DEFINE M == Managed
           S == BMem(M)
           B(p, i) == UnmapRound(p, vpn + i - 1)
           F == [x \in S \X (1..n) |-> B(x[1], x[2])]
           I == {x \in (0..n) \X S : FreeDone(M, m, x[2], Run(vpn, x[1]))}
<1> SUFFICES FreeDone(M, m, unmap_pages(m, vpn, n), Run(vpn, n))
  OBVIOUS
<1>a. m \in S
  BY Zenon
<1>1. FreeDone(M, m, m, Run(vpn, 0))
  <2>1. Run(vpn, 0) = {}
    BY DEF Run
  <2>2. SameReserved(M, m, m) /\ OnlyIn(m, m, Run(vpn, 0))
    BY DEF SameReserved, OnlyIn
  <2> QED
    BY <2>1, <2>2 DEF FreeDone
<1>f. \A p \in S : \A i \in 1..n : F[<<p, i>>] = B(p, i)
  BY Zenon
<1> HIDE DEF F
<1>i. \A i \in 0..n : \A p \in S :
        <<i, p>> \in I <=> FreeDone(M, m, p, Run(vpn, i))
  OBVIOUS
<1>b. ASSUME NEW i \in 1..n, NEW p \in S, FreeDone(M, m, p, Run(vpn, i - 1))
      PROVE  B(p, i) \in S /\ FreeDone(M, m, B(p, i), Run(vpn, i))
  <2> DEFINE v == vpn + i - 1
             R == Run(vpn, i - 1)
  <2>1. /\ R \subseteq Upper /\ v \in Upper \ R /\ R \cup {v} = Run(vpn, i)
    BY DEF Run
  <2> HIDE DEF R, v
  <2>2. FreeDone(M, m, UnmapRound(p, v), R \cup {v})
    BY <1>b, <2>1, PageUnmapped, ZenonT(30) DEF R
  <2> HIDE DEF M
  <2> QED
    BY <2>1, <2>2, Zenon DEF FreeDone, v
<1> HIDE DEF I, B, S, M
<1>2. Keeps(n, S, m, F, I)
  <2>1. ASSUME NEW i \in 1..n, NEW p \in S, <<i-1, p>> \in I
        PROVE  F[<<p, i>>] \in S /\ <<i, F[<<p, i>>]>> \in I
    <3>1. i - 1 \in 0..n /\ i \in 0..n
      OBVIOUS
    <3> QED
      BY <2>1, <3>1, <1>b, <1>f, <1>i, Zenon
  <2>2. <<0, m>> \in I
    BY <1>1, <1>a, <1>i
  <2> QED
    BY <1>a, <2>1, <2>2 DEF Keeps
<1>3. PICK w : /\ w \in [0..n -> S] /\ w[0] = m
               /\ \A i \in 1..n : w[i] = F[<<w[i-1], i>>]
  BY <1>2, LoopExists
<1>4. w = [i \in 0..n |-> IF i = 0 THEN m ELSE B(w[i-1], i)]
  <2>1. \A i \in 1..n : i - 1 \in 0..n
    OBVIOUS
  <2>2. \A i \in 1..n : w[i] = B(w[i-1], i)
    BY <1>3, <1>f, <2>1, Zenon
  <2> QED
    BY <1>3, <2>2
<1>5. \E s : /\ s = [i \in 0..n |-> IF i = 0 THEN m ELSE B(s[i-1], i)]
             /\ unmap_pages(m, vpn, n) = s[n]
  BY <1>4, Zenon DEF unmap_pages, UnmapRound, B
<1>6. PICK s : /\ s = [i \in 0..n |-> IF i = 0 THEN m ELSE B(s[i-1], i)]
               /\ unmap_pages(m, vpn, n) = s[n]
  BY <1>5, Zenon
<1>7. s[0] = m /\ \A i \in 1..n : s[i] = B(s[i-1], i)
  BY <1>6
<1>8. Follows(s, n, S, m, F, I)
  BY <1>7, <1>f DEF Follows
<1>9. s[n] \in S /\ <<n, s[n]>> \in I
  BY <1>2, <1>8, LoopKeeps
<1> QED
  BY <1>6, <1>9, <1>i

----------------------------------------------------------------------------
(* The bitmap that init_pma makes of the memory map.                        *)

PmaRecs(M) == [pbm : [M -> States], free : Int, available : Int]
NotReserved(M, b) == {f \in M : b[f] # "RESERVED"}
Exact(M, p) == /\ p.free = Cardinality(FreeIn(M, p.pbm))
               /\ p.available = Cardinality(NotReserved(M, p.pbm))

\* U is S without T.
Without(U, S, T) == U = S \ T /\ S \cap T = T

\* Taking elements away takes their number away.
LEMMA CountLess ==
    ASSUME NEW S, NEW T, NEW U, IsFiniteSet(S), Without(U, S, T)
    PROVE  Cardinality(U) = Cardinality(S) - Cardinality(T)
<1>1. U = S \ T /\ S \cap T = T
  BY DEF Without
<1>2. Cardinality(S \ T) = Cardinality(S) - Cardinality(S \cap T)
  BY FS_Difference
<1> QED
  BY <1>1, <1>2

\* Marking an area keeps the counters exact, also over frames that are marked
\* already.
LEMMA AreaMarked ==
    ASSUME smap \in BootMaps, NEW p \in PmaRecs(Managed), Exact(Managed, p),
           NEW area
    PROVE  LET q == mm_pma_mark_reserved(p, area)
           IN  /\ q \in PmaRecs(Managed) /\ Exact(Managed, q)
               /\ \A f \in Managed :
                    q.pbm[f] = IF f \in area THEN "RESERVED" ELSE p.pbm[f]
<1> DEFINE M == Managed
           q == mm_pma_mark_reserved(p, area)
           new == {f \in area \cap M : p.pbm[f] # "RESERVED"}
           gone == {f \in new : p.pbm[f] = "FREE"}
           b == [f \in M |-> IF f \in area THEN "RESERVED" ELSE p.pbm[f]]
<1>a. IsFiniteSet(M)
  BY Area
<1>p. p.pbm \in [M -> States] /\ p.free \in Int /\ p.available \in Int
  BY Zenon DEF PmaRecs
<1>1. q = [pbm |-> b, free |-> p.free - Cardinality(gone),
           available |-> p.available - Cardinality(new)]
  BY Zenon DEF mm_pma_mark_reserved
<1>2. /\ Without(FreeIn(M, b), FreeIn(M, p.pbm), gone)
      /\ Without(NotReserved(M, b), NotReserved(M, p.pbm), new)
  BY DEF FreeIn, NotReserved, Without
<1>3. /\ IsFiniteSet(FreeIn(M, p.pbm)) /\ IsFiniteSet(NotReserved(M, p.pbm))
      /\ IsFiniteSet(gone) /\ IsFiniteSet(new)
  BY <1>a, FS_Subset DEF FreeIn, NotReserved
<1>4. b \in [M -> States]
  BY <1>p DEF States
<1>5. \A f \in M : b[f] = IF f \in area THEN "RESERVED" ELSE p.pbm[f]
  OBVIOUS
<1> HIDE DEF gone, new, b, q, M
<1>6. Cardinality(gone) \in Int /\ Cardinality(new) \in Int
  BY <1>3, FS_CardinalityType
<1>7. /\ Cardinality(FreeIn(M, b)) = p.free - Cardinality(gone)
      /\ Cardinality(NotReserved(M, b)) = p.available - Cardinality(new)
  <2>1. /\ Cardinality(FreeIn(M, b))
             = Cardinality(FreeIn(M, p.pbm)) - Cardinality(gone)
        /\ Cardinality(NotReserved(M, b))
             = Cardinality(NotReserved(M, p.pbm)) - Cardinality(new)
    BY <1>2, <1>3, CountLess
  <2> QED
    BY <2>1 DEF Exact, M
<1>8. q \in PmaRecs(M) /\ q.pbm = b
  BY <1>1, <1>4, <1>6, <1>p DEF PmaRecs
<1>9. Exact(M, q)
  BY <1>1, <1>7 DEF Exact
<1> QED
  BY <1>5, <1>8, <1>9 DEF q, M

\* At first all frames are free.
LEMMA PmaStart ==
    ASSUME smap \in BootMaps
    PROVE  mm_pma_init \in PmaRecs(Managed) /\ Exact(Managed, mm_pma_init)
<1> DEFINE M == Managed
           b == [f \in M |-> "FREE"]
           p == [pbm |-> b, free |-> Cardinality(M), available |-> Cardinality(M)]
<1>1. FreeIn(M, b) = M /\ NotReserved(M, b) = M
  BY DEF FreeIn, NotReserved
<1>2. Cardinality(M) \in Int
  BY Area, FS_CardinalityType
<1>3. p \in PmaRecs(M)
  BY <1>2 DEF PmaRecs, States
<1>4. Exact(M, p)
  BY <1>1 DEF Exact
<1>5. mm_pma_init = mm_pma_mark_reserved(p, BasePfn..(ImageEnd - 1))
  BY Zenon DEF mm_pma_init
<1> HIDE DEF p
<1> QED
  BY <1>3, <1>4, <1>5, AreaMarked

\* An area that is not free and reaches into the memory, and its frames.
Hole(e) == ~e.free /\ e.base + e.size > BootLow /\ e.base <= LimitPfn
PagesOf(e) == e.base..LastPage(e)

\* No such area lies behind an earlier one: in particular, there is only one.
HolesNested ==
    \A i, j \in DOMAIN smap :
        Hole(smap[i]) /\ Hole(smap[j]) /\ i < j => smap[j].base <= LastPage(smap[i])

Marks(M, p, i) ==
    /\ Exact(M, p.pma)
    /\ HolesNested =>
         /\ \A j \in DOMAIN smap : j > i /\ Hole(smap[j]) => smap[j].base <= p.limit
         /\ \A j \in DOMAIN smap : j <= i /\ Hole(smap[j]) =>
              \A f \in M : f \in PagesOf(smap[j]) => p.pma.pbm[f] = "RESERVED"

MarkStates(M) == [limit : Int, pma : PmaRecs(M)]
MarkRound(p, e) ==
    LET from == IF e.base < BootLow THEN BootLow ELSE e.base
    IN  IF \/ e.base + e.size <= BootLow
           \/ e.base > p.limit
           \/ e.free
          THEN p
          ELSE [limit |-> LastPage(e),
                pma |-> mm_pma_mark_reserved(p.pma, from..LastPage(e))]

\* An entry is marked unless it lies behind the limit, free or below.
LEMMA EntryMarked ==
    ASSUME smap \in BootMaps, NEW i \in 1..Len(smap),
           NEW p \in MarkStates(Managed), Marks(Managed, p, i - 1)
    PROVE  /\ MarkRound(p, smap[i]) \in MarkStates(Managed)
           /\ Marks(Managed, MarkRound(p, smap[i]), i)
<1> DEFINE M == Managed
           e == smap[i]
           from == IF e.base < BootLow THEN BootLow ELSE e.base
           passed == e.base + e.size <= BootLow \/ e.base > p.limit \/ e.free
           r == mm_pma_mark_reserved(p.pma, from..LastPage(e))
           q == MarkRound(p, e)
<1> SUFFICES q \in MarkStates(M) /\ Marks(M, q, i)
  OBVIOUS
<1>a. /\ smap \in Seq(MapEntries) /\ BasePfn \in Nat /\ LimitPfn \in Int
      /\ BasePfn >= BootLow /\ BootLow \in Nat
  BY Area, BootAssumption DEF BootConstants
<1>d. DOMAIN smap = 1..Len(smap) /\ Len(smap) \in Nat /\ i \in DOMAIN smap /\ i \in Nat
  BY <1>a
<1>e. \A j \in DOMAIN smap : smap[j].base \in Nat /\ smap[j].size \in Nat /\ j \in Nat
  <2>1. \A j \in DOMAIN smap : smap[j] \in MapEntries /\ j \in Nat
    BY <1>a, <1>d
  <2> QED
    BY <2>1 DEF MapEntries
<1>g. e.base \in Nat /\ e.size \in Nat /\ LastPage(e) = e.base + e.size - 1
  BY <1>d, <1>e, Zenon DEF LastPage
<1>p. p.pma \in PmaRecs(M) /\ Exact(M, p.pma) /\ p.limit \in Int
  BY DEF MarkStates, Marks
<1>c. \A j \in DOMAIN smap : /\ j > i - 1 <=> j > i \/ j = i
                             /\ j <= i <=> j <= i - 1 \/ j = i
  BY <1>d, <1>e
<1>h. ASSUME HolesNested
      PROVE  /\ \A j \in DOMAIN smap :
                  j > i - 1 /\ Hole(smap[j]) => smap[j].base <= p.limit
             /\ \A j \in DOMAIN smap : j <= i - 1 /\ Hole(smap[j]) =>
                  \A f \in M : f \in PagesOf(smap[j]) => p.pma.pbm[f] = "RESERVED"
  BY <1>h DEF Marks
<1>1. CASE passed
  <2>1. q = p
    BY <1>1, Zenon DEF MarkRound
  <2>2. ASSUME HolesNested PROVE ~Hole(e)
    <3>1. Hole(e) => e.base <= p.limit
      BY <1>h, <1>d, <1>c, <2>2
    <3> HIDE DEF e
    <3> QED
      BY <1>1, <1>g, <1>a, <1>p, <3>1 DEF Hole
  <2> HIDE DEF q, M
  <2> QED
    <3>1. ASSUME HolesNested
          PROVE  /\ \A j \in DOMAIN smap :
                      j > i /\ Hole(smap[j]) => smap[j].base <= p.limit
                 /\ \A j \in DOMAIN smap : j <= i /\ Hole(smap[j]) =>
                      \A f \in M : f \in PagesOf(smap[j]) =>
                         p.pma.pbm[f] = "RESERVED"
      BY <2>2, <3>1, <1>h, <1>c, Zenon
    <3>2. Marks(M, p, i)
      BY <3>1, <1>p DEF Marks
    <3> QED
      BY <2>1, <3>2 DEF M
<1>2. CASE ~passed
  <2>1. q = [limit |-> LastPage(e), pma |-> r]
    BY <1>2 DEF MarkRound
  <2>2. /\ r \in PmaRecs(M) /\ Exact(M, r)
        /\ \A f \in M : r.pbm[f] = IF f \in from..LastPage(e) THEN "RESERVED"
                                   ELSE p.pma.pbm[f]
    <3> DEFINE area == from..LastPage(e)
    <3> HIDE DEF area
    <3>1. LET k == mm_pma_mark_reserved(p.pma, area)
          IN  /\ k \in PmaRecs(M) /\ Exact(M, k)
              /\ \A f \in M : k.pbm[f] = IF f \in area THEN "RESERVED"
                                          ELSE p.pma.pbm[f]
      BY <1>p, AreaMarked
    <3> QED
      BY <3>1, Zenon DEF area
  <2> HIDE DEF q, r
  <2>3. q \in MarkStates(M) /\ q.limit = LastPage(e) /\ q.pma = r
    BY <2>1, <2>2, <1>g DEF MarkStates
  <2>4. \A f \in M : f \in Nat /\ f >= BootLow
    BY <1>a DEF Managed
  <2>5. \A f \in M : f \in PagesOf(e) => r.pbm[f] = "RESERVED"
    <3> HIDE DEF M, e
    <3> QED
      BY <2>2, <2>4, <1>a, <1>g DEF PagesOf
  <2>6. ASSUME HolesNested, NEW j \in DOMAIN smap, j > i, Hole(smap[j])
        PROVE  smap[j].base <= LastPage(e)
    <3>1. CASE Hole(e)
      BY <3>1, <2>6, <1>d, Zenon DEF HolesNested
    <3>2. CASE ~Hole(e)
      <4>1. smap[j].base <= LimitPfn /\ smap[j].base \in Nat
        BY <2>6, <1>e, Zenon DEF Hole
      <4>2. e.base > LimitPfn
        BY <1>2, <3>2, <1>g, <1>a, <1>p DEF Hole
      <4> HIDE DEF e
      <4> QED
        BY <4>1, <4>2, <1>g, <1>a
    <3> QED
      BY <3>1, <3>2, Zenon
  <2>7. ASSUME HolesNested, NEW j \in DOMAIN smap, j <= i, Hole(smap[j])
        PROVE  \A f \in M : f \in PagesOf(smap[j]) => r.pbm[f] = "RESERVED"
    <3>1. CASE j = i
      BY <3>1, <2>5, Zenon
    <3>2. CASE j # i
      <4>1. j <= i - 1
        BY <3>2, <2>7, <1>c
      <4> QED
        BY <4>1, <1>h, <2>7, <2>2, Zenon
    <3> QED
      BY <3>1, <3>2, Zenon
  <2> HIDE DEF M, e
  <2> QED
    BY <2>2, <2>3, <2>6, <2>7, Zenon DEF Marks
<1> QED
  BY <1>1, <1>2

\* The bitmap and the counters after all entries.
LEMMA MapMarked ==
    ASSUME smap \in BootMaps
    PROVE  /\ MarkEntries \in PmaRecs(Managed) /\ Exact(Managed, MarkEntries)
           /\ HolesNested => \A j \in DOMAIN smap : Hole(smap[j]) =>
                \A f \in Managed :
                   f \in PagesOf(smap[j]) => MarkEntries.pbm[f] = "RESERVED"
<1> DEFINE M == Managed
           n == Len(smap)
           S == MarkStates(M)
           a == [limit |-> LimitPfn, pma |-> mm_pma_init]
           B(p, i) == MarkRound(p, smap[i])
           F == [x \in S \X (1..n) |-> B(x[1], x[2])]
           I == {x \in (0..n) \X S : Marks(M, x[2], x[1])}
<1>s. smap \in Seq(MapEntries) /\ n \in Nat /\ DOMAIN smap = 1..n /\ LimitPfn \in Int
  BY Area
<1>a. a \in S
  BY <1>s, PmaStart, Zenon DEF MarkStates
<1>1. Marks(M, a, 0)
  BY <1>s, PmaStart DEF Marks, Hole
<1>f. \A p \in S : \A i \in 1..n : F[<<p, i>>] = B(p, i)
  BY Zenon
<1> HIDE DEF F
<1>i. \A i \in 0..n : \A p \in S : <<i, p>> \in I <=> Marks(M, p, i)
  BY <1>s
<1>b. ASSUME NEW i \in 1..n, NEW p \in S, Marks(M, p, i - 1)
      PROVE  B(p, i) \in S /\ Marks(M, B(p, i), i)
  BY <1>b, EntryMarked
<1> HIDE DEF I, B, S, M, a, n
<1>2. Keeps(n, S, a, F, I)
  <2>1. ASSUME NEW i \in 1..n, NEW p \in S, <<i-1, p>> \in I
        PROVE  F[<<p, i>>] \in S /\ <<i, F[<<p, i>>]>> \in I
    <3>1. i - 1 \in 0..n /\ i \in 0..n
      BY <1>s
    <3> QED
      BY <2>1, <3>1, <1>b, <1>f, <1>i, Zenon
  <2>2. <<0, a>> \in I
    BY <1>1, <1>a, <1>i, <1>s
  <2> QED
    BY <1>a, <2>1, <2>2 DEF Keeps
<1>3. PICK w : /\ w \in [0..n -> S] /\ w[0] = a
               /\ \A i \in 1..n : w[i] = F[<<w[i-1], i>>]
  BY <1>2, <1>s, LoopExists
<1>4. w = [i \in 0..n |-> IF i = 0 THEN a ELSE B(w[i-1], i)]
  <2>1. \A i \in 1..n : i - 1 \in 0..n
    BY <1>s
  <2>2. \A i \in 1..n : w[i] = B(w[i-1], i)
    BY <1>3, <1>f, <2>1, Zenon
  <2> QED
    BY <1>3, <1>s, <2>2
<1>5. \E s : /\ s = [i \in 0..n |-> IF i = 0 THEN a ELSE B(s[i-1], i)]
             /\ MarkEntries = s[n].pma
  BY <1>4, Zenon DEF MarkEntries, MarkRound, B, a, n
<1>6. PICK s : /\ s = [i \in 0..n |-> IF i = 0 THEN a ELSE B(s[i-1], i)]
               /\ MarkEntries = s[n].pma
  BY <1>5, Zenon
<1>7. s[0] = a /\ \A i \in 1..n : s[i] = B(s[i-1], i)
  BY <1>6, <1>s
<1>8. Follows(s, n, S, a, F, I)
  BY <1>7, <1>f, <1>s DEF Follows
<1>9. s[n] \in S /\ Marks(M, s[n], n)
  <2>1. \A i \in 0..n : s[i] \in S /\ <<i, s[i]>> \in I
    BY <1>2, <1>8, <1>s, LoopKeeps, Zenon
  <2>2. n \in 0..n
    BY <1>s
  <2> QED
    BY <2>1, <2>2, <1>i, Zenon
<1>10. \A j \in DOMAIN smap : j <= n
  BY <1>s
<1> QED
  BY <1>6, <1>9, <1>10, Zenon DEF Marks, S, M, MarkStates

----------------------------------------------------------------------------
(* The invariant.                                                           *)

FreePages ==
    UNION {smap[j].base..LastPage(smap[j]) :
             j \in {i \in DOMAIN smap : smap[i].free}}
HoleFrames ==
    UNION {PagesOf(smap[j]) : j \in {i \in DOMAIN smap : Hole(smap[i])}}

\* What is mapped for devices is not managed, or marked as reserved.
DevicesMarked == AllReserved(Managed, BM, DevicePages \ FreePages)

\* The areas that are held are of pages behind the first table, below vpn, and
\* no two of them have a page in common.
Apart(h, vpn) ==
    /\ \A a \in h : /\ a.vpn \in Nat /\ a.n \in Nat /\ a.vpn + a.n <= vpn
                    /\ Run(a.vpn, a.n) \subseteq Upper
    /\ \A a, b \in h : a # b => Run(a.vpn, a.n) \cap Run(b.vpn, b.n) = {}

PagesOwned(M, m, h) ==
    \A a \in h : \A v \in Run(a.vpn, a.n) \ DevicePages : Owned(M, m, v)
Untouched(m, vpn) ==
    \A v \in BootPages \ DevicePages : v >= vpn => m.tab[v].pfn = 0
Empty(m) == /\ \A d \in Dirs : m.dir[d] = 0
            /\ \A v \in BootPages : m.tab[v] = Absent

Kept(M, m, h, vpn) == Good(M, m) /\ PagesOwned(M, m, h) /\ Untouched(m, vpn)

BootInv ==
    /\ smap \in BootMaps /\ stage \in {"start", "pma", "paging", "failed"}
    /\ BM \in BMem(Managed)
    /\ alloc_vpn \in Nat /\ alloc_vpn >= BootTable /\ Apart(held, alloc_vpn)
    /\ stage # "start" => /\ Counted(Managed, BM)
                          /\ pma_available = Cardinality(NotReserved(Managed, pbm))
                          /\ HolesNested => AllReserved(Managed, BM, HoleFrames)
    /\ stage # "paging" => held = {} /\ Empty(BM)
    /\ stage = "paging" /\ DevicesMarked => Kept(Managed, BM, held, alloc_vpn)

\* The map, and what is read from it, never change.
LEMMA MapFixed ==
    ASSUME smap' = smap
    PROVE  /\ Managed' = Managed /\ FreePages' = FreePages
           /\ HoleFrames' = HoleFrames /\ HolesNested' = HolesNested
<1>1. Managed' = Managed /\ LimitPfn' = LimitPfn
  BY DEF Managed, BasePfn, LimitPfn, Above, LastPage
<1>2. FreePages' = FreePages
  BY DEF FreePages, LastPage
<1>3. HoleFrames' = HoleFrames
  BY <1>1, Zenon DEF HoleFrames, PagesOf, Hole, LastPage
<1>4. HolesNested' = HolesNested
  BY <1>1 DEF HolesNested, Hole, LastPage
<1> QED
  BY <1>1, <1>2, <1>3, <1>4, Zenon

\* While the same frames are reserved, as many are available, and the same
\* areas are marked.
LEMMA ReservedStays ==
    ASSUME NEW M, NEW m, NEW k, SameReserved(M, m, k)
    PROVE  /\ NotReserved(M, k.pbm) = NotReserved(M, m.pbm)
           /\ \A R : AllReserved(M, k, R) <=> AllReserved(M, m, R)
<1>1. NotReserved(M, k.pbm) = NotReserved(M, m.pbm)
  BY DEF SameReserved, NotReserved
<1>2. \A R : AllReserved(M, k, R) <=> AllReserved(M, m, R)
  BY DEF SameReserved, AllReserved
<1> QED
  BY <1>1, <1>2

\* SetBM gives the variables the values of k.
LEMMA SetAll ==
    ASSUME NEW M, NEW k \in BMem(M), SetBM(k)
    PROVE  BM' = k /\ pbm' = k.pbm
BY Zenon DEF SetBM, BM, BMem

\* A step with paging on, from what it does to the bitmap and the tables.
LEMMA PagingStep ==
    ASSUME BootInv, stage = "paging", NEW k \in BMem(Managed), SetBM(k),
           Counted(Managed, k), SameReserved(Managed, BM, k),
           UNCHANGED <<smap, stage, pma_available>>,
           alloc_vpn' \in Nat, alloc_vpn' >= BootTable, Apart(held', alloc_vpn'),
           DevicesMarked => Kept(Managed, k, held', alloc_vpn')
    PROVE  BootInv'
<1>1. /\ Managed' = Managed /\ FreePages' = FreePages
      /\ HoleFrames' = HoleFrames /\ HolesNested' = HolesNested
  BY MapFixed
<1>2. BM' = k /\ pbm' = k.pbm
  BY SetAll
<1>3. /\ NotReserved(Managed, k.pbm) = NotReserved(Managed, BM.pbm)
      /\ \A R : AllReserved(Managed, k, R) <=> AllReserved(Managed, BM, R)
  BY ReservedStays
<1>4. BM.pbm = pbm
  BY DEF BM
<1>5. DevicesMarked' => DevicesMarked
  BY <1>1, <1>2, <1>3, Zenon DEF DevicesMarked
<1>6. DevicesMarked' => Kept(Managed', BM', held', alloc_vpn')
  BY <1>1, <1>2, <1>5, Zenon
<1>7. HolesNested' => AllReserved(Managed', BM', HoleFrames')
  BY <1>1, <1>2, <1>3, Zenon DEF BootInv
<1>8. pma_available' = Cardinality(NotReserved(Managed', pbm'))
  BY <1>1, <1>2, <1>3, <1>4, Zenon DEF BootInv
<1>9. /\ smap' \in BootMaps /\ BM' \in BMem(Managed') /\ Counted(Managed', BM')
      /\ stage' = "paging"
  BY <1>1, <1>2 DEF BootInv
<1> QED
  BY <1>6, <1>7, <1>8, <1>9, Zenon DEF BootInv

----------------------------------------------------------------------------
(* The steps.                                                               *)

\* Before anything is marked or mapped.
LEMMA BootStarts ==
    ASSUME BootInit PROVE BootInv
<1>1. /\ smap \in BootMaps /\ stage = "start" /\ held = {}
      /\ alloc_vpn = BootTable /\ BootTable \in Nat
  BY BootAssumption DEF BootInit, BootConstants
<1>2. Absent \in Entries
  BY DEF Absent, Entries
<1>3. /\ pbm = [f \in Managed |-> "FREE"] /\ pma_free = 0
      /\ page_dir = [d \in Dirs |-> 0] /\ page_tab = [v \in BootPages |-> Absent]
  BY DEF BootInit, Dirs
<1>4. BM \in BMem(Managed)
  BY <1>2, <1>3 DEF BM, BMem, States
<1>5. Empty(BM)
  BY <1>3 DEF BM, Empty
<1>6. Apart(held, alloc_vpn)
  BY <1>1, Zenon DEF Apart
<1> QED
  BY <1>1, <1>4, <1>5, <1>6 DEF BootInv

\* init_pma makes the bitmap of the map.
LEMMA InitPmaKeeps ==
    ASSUME BootInv, init_pma PROVE BootInv'
<1>1. /\ smap \in BootMaps /\ stage' = "pma" /\ smap' = smap /\ stage = "start"
      /\ pbm' = MarkEntries.pbm /\ pma_free' = MarkEntries.free
      /\ pma_available' = MarkEntries.available
      /\ UNCHANGED <<page_dir, page_tab, alloc_vpn, held>>
  BY DEF init_pma, BootInv
<1>2. /\ Managed' = Managed /\ HoleFrames' = HoleFrames
      /\ HolesNested' = HolesNested
  BY <1>1, MapFixed, Zenon
<1>3. /\ MarkEntries \in PmaRecs(Managed) /\ Exact(Managed, MarkEntries)
      /\ HolesNested => \A j \in DOMAIN smap : Hole(smap[j]) =>
           \A f \in Managed :
              f \in PagesOf(smap[j]) => MarkEntries.pbm[f] = "RESERVED"
  BY <1>1, MapMarked
<1> DEFINE b == MarkEntries.pbm
           n == MarkEntries.free
<1>4. b \in [Managed -> States] /\ n \in Int
  BY <1>3, Zenon DEF PmaRecs
<1>5. /\ n = Cardinality(FreeIn(Managed, b))
      /\ MarkEntries.available = Cardinality(NotReserved(Managed, b))
  BY <1>3 DEF Exact
<1>6. HolesNested => \A f \in HoleFrames : f \in Managed => b[f] = "RESERVED"
  BY <1>3 DEF HoleFrames
<1>7. BM' = [pbm |-> b, free |-> n, dir |-> page_dir, tab |-> page_tab]
  BY <1>1 DEF BM
<1>8. page_dir \in [Dirs -> Nat] /\ page_tab \in [BootPages -> Entries] /\ Empty(BM)
  BY <1>1, Zenon DEF BootInv, BM, BMem
<1> HIDE DEF b, n
<1>9. BM' \in BMem(Managed') /\ BM'.pbm = b /\ BM'.free = n
  BY <1>2, <1>4, <1>7, <1>8, Zenon DEF BMem
<1>10. Empty(BM)'
  BY <1>1, <1>8, Zenon DEF Empty, BM
<1>11. Counted(Managed', BM')
  BY <1>2, <1>5, <1>9 DEF Counted
<1>12. HolesNested' => AllReserved(Managed', BM', HoleFrames')
  BY <1>2, <1>6, <1>9 DEF AllReserved
<1>13. pma_available' = Cardinality(NotReserved(Managed', pbm'))
  BY <1>1, <1>2, <1>5, Zenon DEF b
<1>14. /\ held' = {} /\ alloc_vpn' \in Nat /\ alloc_vpn' >= BootTable
       /\ Apart(held', alloc_vpn')
  BY <1>1 DEF BootInv
<1> QED
  BY <1>1, <1>9, <1>10, <1>11, <1>12, <1>13, <1>14, Zenon DEF BootInv

\* The first page table is the first frame that is taken.
LEMMA InitDirectoryKeeps ==
    ASSUME BootInv, init_page_directory PROVE BootInv'
<1> DEFINE M == Managed
           f == FreeFrame(BM)
           q == mm_pma_allocate_frame(BM, f)
           tab == [v \in BootPages |-> IF DirOf(v) = 0 THEN [pfn |-> v, flags |-> {}]
                                       ELSE q.tab[v]]
           dir == [q.dir EXCEPT ![0] = f]
           k == [q EXCEPT !.dir = dir, !.tab = tab]
<1>1. /\ smap \in BootMaps /\ stage = "pma" /\ UNCHANGED <<smap, pma_available>>
      /\ held = {} /\ held' = {} /\ alloc_vpn \in Nat /\ alloc_vpn >= BootTable
      /\ alloc_vpn' = alloc_vpn /\ Empty(BM) /\ BM \in BMem(M) /\ Counted(M, BM)
      /\ pma_available = Cardinality(NotReserved(M, pbm))
      /\ HolesNested => AllReserved(M, BM, HoleFrames)
  BY DEF init_page_directory, BootInv
<1>2. /\ Managed' = Managed /\ FreePages' = FreePages
      /\ HoleFrames' = HoleFrames /\ HolesNested' = HolesNested
  BY <1>1, MapFixed, Zenon
<1>3. Apart(held', alloc_vpn')
  BY <1>1, Zenon DEF Apart
<1>4. CASE f = 0
  <2>1. stage' = "failed" /\ UNCHANGED <<pbm, pma_free, page_dir, page_tab>>
    BY <1>4 DEF init_page_directory
  <2>2. BM' = BM /\ pbm' = pbm
    BY <2>1 DEF BM
  <2>3. Empty(BM')
    BY <1>1, <2>2
  <2> HIDE DEF f, q, tab, dir, k
  <2> QED
    BY <1>1, <1>2, <1>3, <2>1, <2>2, <2>3, ZenonT(30) DEF BootInv
<1>5. CASE f # 0
  <2>a. Frames(M) /\ f \in M /\ BM.pbm[f] = "FREE" /\ f \in Nat
    BY <1>1, <1>5, Area, FreeFound, Zenon DEF Frames
  <2>b. SetBM(k) /\ stage' = "paging"
    BY <1>5 DEF init_page_directory
  <2> HIDE DEF f, M
  <2>1. Took(M, BM, q, f) /\ q.dir = BM.dir /\ q.tab = BM.tab
    BY <1>1, <2>a, FrameTaken, Zenon
  <2> HIDE DEF q
  <2>2. q \in BMem(M) /\ Counted(M, q) /\ q.pbm[f] = "ALLOCATED"
    BY <2>1, <2>a, Zenon DEF Took
  <2>3. 0 \in Dirs /\ \A v \in BootPages : v \in Nat /\ DirOf(v) \in Dirs /\ (DirOf(v) = 0 <=> v < BootTable)
    BY TableOf, BootAssumption DEF Dirs, BootConstants
  <2>4. dir \in [Dirs -> Nat] /\ \A d \in Dirs : dir[d] = IF d = 0 THEN f ELSE 0
    BY <1>1, <2>1, <2>2, <2>3, <2>a, ZenonT(30) DEF BMem, Empty
  <2>5. /\ tab \in [BootPages -> Entries]
        /\ \A v \in BootPages : tab[v].pfn = IF DirOf(v) = 0 THEN v ELSE 0
    <3> HIDE DEF k, dir
    <3>1. ASSUME NEW v \in BootPages
          PROVE  tab[v] \in Entries /\ tab[v].pfn = IF DirOf(v) = 0 THEN v ELSE 0
      <4>1. v \in Nat /\ tab[v] = IF DirOf(v) = 0 THEN [pfn |-> v, flags |-> {}]
                                  ELSE q.tab[v]
        BY <2>3, Zenon
      <4>2. q.tab[v] = Absent
        BY <1>1, <2>1, Zenon DEF Empty
      <4> QED
        BY <4>1, <4>2 DEF Entries, Absent
    <3>2. tab = [v \in BootPages |-> tab[v]]
      OBVIOUS
    <3> HIDE DEF tab
    <3> QED
      BY <3>1, <3>2, Zenon
  <2> HIDE DEF dir, tab
  <2>6. k \in BMem(M) /\ k.pbm = q.pbm /\ k.free = q.free /\ k.dir = dir /\ k.tab = tab
    BY <2>2, <2>4, <2>5, Zenon DEF BMem
  <2> HIDE DEF k
  <2>7. Counted(M, k)
    BY <2>2, <2>6 DEF Counted
  <2>8. SameReserved(M, BM, k)
    BY <2>1, <2>6, <2>a, Zenon DEF Took, SameReserved
  <2>9. Good(M, k)
    <3>1. TablesTaken(M, k)
      BY <2>2, <2>4, <2>6, <2>a, Zenon DEF TablesTaken
    <3>2. NoTableNoPage(k)
      BY <2>3, <2>4, <2>5, <2>6, <2>a, Zenon DEF NoTableNoPage, Frames
    <3>3. \A v \in Upper : k.tab[v].pfn = 0
      BY <2>3, <2>5, <2>6, BootAssumption DEF Upper, BootConstants
    <3>4. NoPageFree(M, k) /\ OwnFrames(M, k)
      BY <3>3, <2>a, Zenon DEF NoPageFree, OwnFrames, Owned, Frames
    <3> QED
      BY <3>1, <3>2, <3>4, Zenon DEF Good
  <2>10. Untouched(k, alloc_vpn')
    BY <1>1, <2>3, <2>5, <2>6, BootAssumption, SMTT(30) DEF Untouched, BootConstants
  <2>11. Kept(M, k, held', alloc_vpn')
    BY <1>1, <2>9, <2>10, Zenon DEF Kept, PagesOwned
  <2>12. BM' = k /\ pbm' = k.pbm
    BY <2>6, <2>b, SetAll, Zenon
  <2>13. /\ NotReserved(M, k.pbm) = NotReserved(M, BM.pbm)
         /\ \A R : AllReserved(M, k, R) <=> AllReserved(M, BM, R)
    BY <2>8, ReservedStays, Zenon
  <2>14. /\ pma_available' = Cardinality(NotReserved(Managed', pbm'))
         /\ HolesNested' => AllReserved(Managed', BM', HoleFrames')
    BY <1>1, <1>2, <2>12, <2>13, Zenon DEF M, BM
  <2> QED
    BY <1>1, <1>2, <1>3, <2>b, <2>6, <2>7, <2>11, <2>12, <2>14, Zenon DEF BootInv, M
<1> QED
  BY <1>4, <1>5

\* The pages of a new area are none of the other areas'.
LEMMA AreaAdded ==
    ASSUME NEW h, NEW vpn \in Nat, vpn >= BootTable, Apart(h, vpn),
           NEW n \in Nat, vpn + n \in BootPages
    PROVE  /\ Run(vpn, n) \subseteq Upper
           /\ Apart(h, vpn + n) /\ Apart(h \cup {[vpn |-> vpn, n |-> n]}, vpn + n)
<1> DEFINE new == [vpn |-> vpn, n |-> n]
<1>b. BootTable \in Nat /\ BootPages = 0..(BootTable * BootTables - 1)
      /\ BootTable * BootTables \in Nat
  BY BootAssumption DEF BootConstants, BootPages
<1>1. Run(vpn, n) \subseteq Upper
  BY <1>b DEF Run, Upper
<1>2. new.vpn = vpn /\ new.n = n
  OBVIOUS
<1> HIDE DEF new
<1>3. \A a \in h : a.vpn \in Nat /\ a.n \in Nat /\ a.vpn + a.n <= vpn
  BY DEF Apart
<1>4. Apart(h, vpn + n)
  <2>1. \A a \in h : a.vpn + a.n <= vpn + n
    BY <1>3
  <2> QED
    BY <2>1, Zenon DEF Apart
<1>5. \A a \in h : Run(a.vpn, a.n) \cap Run(vpn, n) = {}
  BY <1>3 DEF Run
<1>6. Apart(h \cup {new}, vpn + n)
  <2>1. \A a \in h \cup {new} :
          /\ a.vpn \in Nat /\ a.n \in Nat /\ a.vpn + a.n <= vpn + n
          /\ Run(a.vpn, a.n) \subseteq Upper
    BY <1>1, <1>2, <1>4 DEF Apart
  <2>2. ASSUME NEW a \in h \cup {new}, NEW b \in h \cup {new}, a # b
        PROVE  Run(a.vpn, a.n) \cap Run(b.vpn, b.n) = {}
    <3>1. CASE a \in h /\ b \in h
      BY <2>2, <3>1, Zenon DEF Apart
    <3>2. CASE a \in h /\ b = new
      BY <3>2, <1>2, <1>5
    <3>3. CASE a = new /\ b \in h
      <4>1. Run(b.vpn, b.n) \cap Run(vpn, n) = {}
        BY <3>3, <1>5, Zenon
      <4> QED
        BY <3>3, <4>1, <1>2, Zenon
    <3> QED
      BY <2>2, <3>1, <3>2, <3>3, Zenon
  <2> QED
    BY <2>1, <2>2, Zenon DEF Apart
<1> QED
  BY <1>1, <1>4, <1>6 DEF new

\* A request, also one that fails on the way.
LEMMA AllocateKeeps ==
    ASSUME BootInv, NEW n \in 1..BootMaxPages, mm_allocate_pages(n)
    PROVE  BootInv'
<1> DEFINE M == Managed
           r == mm_allocate_pages_to(BM, alloc_vpn, n)
           R == Run(alloc_vpn, n)
           new == [vpn |-> alloc_vpn, n |-> n]
<1>1. /\ smap \in BootMaps /\ stage = "paging" /\ BM \in BMem(M) /\ Counted(M, BM)
      /\ alloc_vpn \in Nat /\ alloc_vpn >= BootTable /\ Apart(held, alloc_vpn)
      /\ DevicesMarked => Kept(M, BM, held, alloc_vpn)
  BY DEF BootInv, mm_allocate_pages
<1>2. /\ alloc_vpn + n \in BootPages /\ SetBM(r.m) /\ alloc_vpn' = alloc_vpn + n
      /\ held' = IF r.ok THEN held \cup {new} ELSE held
      /\ UNCHANGED <<smap, stage, pma_available>>
  BY DEF mm_allocate_pages, alloc_virt_page
<1>n. n \in Nat /\ BootTable \in Nat
  BY BootAssumption DEF BootConstants
<1>3. /\ R \subseteq Upper /\ R \subseteq BootPages
      /\ Apart(held, alloc_vpn + n) /\ Apart(held \cup {new}, alloc_vpn + n)
  BY <1>1, <1>2, <1>n, AreaAdded, Zenon DEF Upper
<1> HIDE DEF new
<1>4. AllocDone(M, BM, r, R)
  BY <1>1, <1>3, <1>n, PagesAllocated
<1> HIDE DEF r
<1>5. r.m \in BMem(M) /\ Counted(M, r.m) /\ SameReserved(M, BM, r.m)
  BY <1>4, Zenon DEF AllocDone, Grew
<1>6. Apart(held', alloc_vpn') /\ alloc_vpn' \in Nat /\ alloc_vpn' >= BootTable
  BY <1>1, <1>2, <1>3, <1>n
<1>7. ASSUME DevicesMarked PROVE Kept(M, r.m, held', alloc_vpn')
  <2> HIDE DEF M, R
  <2>1. Good(M, BM) /\ PagesOwned(M, BM, held) /\ Untouched(BM, alloc_vpn)
    BY <1>1, <1>7 DEF Kept
  <2>2. /\ Good(M, r.m) /\ OnlyIn(BM, r.m, R) /\ StillTaken(M, BM, r.m)
        /\ r.ok => \A v \in R : BM.tab[v].pfn = 0 => Owned(M, r.m, v)
    BY <1>4, <2>1, Zenon DEF AllocDone, Grew
  <2>3. PagesOwned(M, r.m, held)
    <3>1. ASSUME NEW a \in held, NEW v \in Run(a.vpn, a.n) \ DevicePages
          PROVE  Owned(M, r.m, v)
      <4>1. Owned(M, BM, v)
        BY <2>1, Zenon DEF PagesOwned
      <4>2. v \in BootPages \ R
        BY <1>1 DEF Apart, Upper, Run, R
      <4> QED
        BY <2>2, <4>1, <4>2, Zenon DEF Owned, OnlyIn, StillTaken
    <3> QED
      BY <3>1 DEF PagesOwned
  <2>4. r.ok => \A v \in R \ DevicePages : Owned(M, r.m, v)
    <3>1. \A v \in R : v >= alloc_vpn
      BY <1>1, <1>n DEF R, Run
    <3>2. \A v \in R \ DevicePages : BM.tab[v].pfn = 0
      BY <1>3, <2>1, <3>1, Zenon DEF Untouched
    <3> QED
      BY <2>2, <3>2, Zenon
  <2>5. PagesOwned(M, r.m, held')
    <3>1. r.ok => \A v \in Run(new.vpn, new.n) \ DevicePages : Owned(M, r.m, v)
      BY <2>4 DEF new, R
    <3> QED
      BY <1>2, <2>3, <3>1, Zenon DEF PagesOwned
  <2>6. Untouched(r.m, alloc_vpn')
    <3>1. ASSUME NEW v \in BootPages \ DevicePages, v >= alloc_vpn'
          PROVE  v \notin R /\ v >= alloc_vpn
      BY <3>1, <1>1, <1>2, <1>n, TableOf DEF R, Run
    <3> QED
      BY <2>1, <2>2, <3>1, Zenon DEF Untouched, OnlyIn
  <2> QED
    BY <2>2, <2>5, <2>6, Zenon DEF Kept
<1> QED
  BY <1>1, <1>2, <1>5, <1>6, <1>7, PagingStep, ZenonT(30)

\* A device's memory.
LEMMA DeviceKeeps ==
    ASSUME BootInv, NEW v \in DevicePages, NEW n \in 1..BootMaxPages,
           NEW flags \in PageFlags, MapDevice(v, n, flags)
    PROVE  BootInv'
<1> DEFINE M == Managed
           k == mm_map(BM, v, v, n, flags).m
           R == v..(v + n - 1)
<1>1. /\ smap \in BootMaps /\ stage = "paging" /\ BM \in BMem(M) /\ Counted(M, BM)
      /\ alloc_vpn \in Nat /\ alloc_vpn >= BootTable /\ Apart(held, alloc_vpn)
      /\ DevicesMarked => Kept(M, BM, held, alloc_vpn)
  BY Zenon DEF BootInv, MapDevice
<1>2. /\ R \subseteq DevicePages \ FreePages /\ SetBM(k)
      /\ UNCHANGED <<smap, stage, pma_available, alloc_vpn, held>>
  BY Zenon DEF MapDevice, FreePages
<1>n. n \in Nat /\ v \in Nat /\ DevicePages \subseteq BootPages
  BY BootAssumption, TableOf DEF BootConstants
<1>3. R \subseteq BootPages
  BY <1>2, <1>n, Zenon
<1>4. DeviceDone(M, BM, k, R)
  BY <1>1, <1>3, <1>n, DeviceMapped, Zenon
<1> HIDE DEF k
<1>5. k \in BMem(M) /\ Counted(M, k) /\ SameReserved(M, BM, k)
  BY <1>4 DEF DeviceDone, Grew
<1> HIDE DEF R
<1>6. ASSUME DevicesMarked PROVE Kept(M, k, held', alloc_vpn')
  <2> HIDE DEF M
  <2>1. Good(M, BM) /\ PagesOwned(M, BM, held) /\ Untouched(BM, alloc_vpn)
    BY <1>1, <1>6 DEF Kept
  <2>2. AllReserved(M, BM, R)
    BY <1>2, <1>6, Zenon DEF AllReserved, DevicesMarked, M
  <2>3. Good(M, k) /\ OnlyIn(BM, k, R) /\ StillTaken(M, BM, k)
    BY <1>4, <2>1, <2>2 DEF DeviceDone, Grew
  <2>4. \A w \in BootPages \ DevicePages : k.tab[w].pfn = BM.tab[w].pfn
    BY <1>2, <2>3, Zenon DEF OnlyIn
  <2>5. PagesOwned(M, k, held)
    <3>1. \A a \in held : Run(a.vpn, a.n) \subseteq BootPages
      BY <1>1, Zenon DEF Apart, Upper
    <3> QED
      BY <2>1, <2>3, <2>4, <3>1, Zenon DEF PagesOwned, Owned, StillTaken
  <2>6. Untouched(k, alloc_vpn)
    BY <2>1, <2>4, Zenon DEF Untouched
  <2> QED
    BY <1>2, <2>3, <2>5, <2>6, ZenonT(30) DEF Kept
<1> QED
  BY <1>1, <1>2, <1>5, <1>6, PagingStep, Zenon

\* Pages that are given back.
LEMMA FreeKeeps ==
    ASSUME BootInv, NEW a \in held, mm_free_pages(a)
    PROVE  BootInv'
<1> DEFINE M == Managed
           k == unmap_pages(BM, a.vpn, a.n)
           R == Run(a.vpn, a.n)
<1>1. /\ smap \in BootMaps /\ stage = "paging" /\ BM \in BMem(M) /\ Counted(M, BM)
      /\ alloc_vpn \in Nat /\ alloc_vpn >= BootTable /\ Apart(held, alloc_vpn)
      /\ DevicesMarked => Kept(M, BM, held, alloc_vpn)
  BY DEF BootInv
<1>2. /\ SetBM(k) /\ held' = held \ {a}
      /\ UNCHANGED <<smap, stage, pma_available, alloc_vpn>>
  BY DEF mm_free_pages
<1>3. /\ a.vpn \in Nat /\ a.n \in Nat /\ R \subseteq Upper
      /\ \A b \in held : Run(b.vpn, b.n) \subseteq Upper
      /\ \A b \in held' : b \in held /\ Run(b.vpn, b.n) \cap R = {}
  BY <1>1, <1>2, Zenon DEF Apart
<1>4. FreeDone(M, BM, k, R)
  BY <1>1, <1>3, PagesUnmapped
<1> HIDE DEF k
<1>5. k \in BMem(M) /\ Counted(M, k) /\ SameReserved(M, BM, k)
  BY <1>4, Zenon DEF FreeDone
<1>6. Apart(held', alloc_vpn')
  BY <1>1, <1>2, Zenon DEF Apart
<1> HIDE DEF R
<1>7. ASSUME DevicesMarked PROVE Kept(M, k, held', alloc_vpn')
  <2> HIDE DEF M
  <2>1. Good(M, BM) /\ PagesOwned(M, BM, held) /\ Untouched(BM, alloc_vpn)
    BY <1>1, <1>7 DEF Kept
  <2>2. /\ Good(M, k) /\ OnlyIn(BM, k, R) /\ \A v \in R : k.tab[v].pfn = 0
        /\ \A w \in Upper \ R : Owned(M, BM, w) => Owned(M, k, w)
    BY <1>4, <2>1, Zenon DEF FreeDone
  <2>3. PagesOwned(M, k, held')
    <3>1. ASSUME NEW b \in held', NEW v \in Run(b.vpn, b.n) \ DevicePages
          PROVE  Owned(M, k, v)
      <4>1. b \in held /\ v \in Upper \ R
        BY <1>3
      <4>2. Owned(M, BM, v)
        BY <2>1, <4>1 DEF PagesOwned
      <4> QED
        BY <2>2, <4>1, <4>2, Zenon
    <3> QED
      BY <3>1 DEF PagesOwned
  <2>4. Untouched(k, alloc_vpn')
    BY <1>2, <2>1, <2>2, Zenon DEF Untouched, OnlyIn
  <2> QED
    BY <2>2, <2>3, <2>4, Zenon DEF Kept
<1> QED
  BY <1>1, <1>2, <1>5, <1>6, <1>7, PagingStep, ZenonT(30)

\* Every step keeps the invariant.
LEMMA BootStep ==
    ASSUME BootInv, [BootNext]_bootvars PROVE BootInv'
<1>1. CASE init_pma
  BY <1>1, InitPmaKeeps
<1>2. CASE init_page_directory
  BY <1>2, InitDirectoryKeeps
<1>3. CASE \E n \in 1..BootMaxPages : mm_allocate_pages(n)
  BY <1>3, AllocateKeeps
<1>4. CASE \E v \in DevicePages, n \in 1..BootMaxPages, flags \in PageFlags :
              MapDevice(v, n, flags)
  BY <1>4, DeviceKeeps
<1>5. CASE \E a \in held : mm_free_pages(a)
  BY <1>5, FreeKeeps, Zenon
<1>6. CASE UNCHANGED bootvars
  <2>1. /\ UNCHANGED <<smap, stage, pbm, pma_available, alloc_vpn, held>>
        /\ BM' = BM
    BY <1>6 DEF bootvars, BM
  <2>2. /\ Managed' = Managed /\ FreePages' = FreePages
        /\ HoleFrames' = HoleFrames /\ HolesNested' = HolesNested
    BY <2>1, MapFixed
  <2>3. DevicesMarked' = DevicesMarked
    BY <2>1, <2>2, ZenonT(30) DEF DevicesMarked
  <2>4. Empty(BM)' = Empty(BM)
    BY <1>6 DEF bootvars, BM, Empty
  <2> QED
    BY <2>1, <2>2, <2>3, <2>4, Zenon DEF BootInv
<1> QED
  BY <1>1, <1>2, <1>3, <1>4, <1>5, <1>6, Zenon DEF BootNext

\* The invariant holds of the boot loader's memory.
THEOREM BootInvariant == BootSpec => []BootInv
<1>1. BootInit => BootInv
  BY BootStarts
<1>2. BootInv /\ [BootNext]_bootvars => BootInv'
  BY BootStep
<1> QED
  BY <1>1, <1>2, PTL DEF BootSpec

----------------------------------------------------------------------------
(* What follows from it.                                                    *)

\* The counters that the mem command prints.
CountersExact ==
    stage # "start" =>
        /\ pma_free = Cardinality({f \in Managed : pbm[f] = "FREE"})
        /\ pma_available = Cardinality({f \in Managed : pbm[f] # "RESERVED"})

\* The counters are exact, whatever the memory map, whether or not requests
\* fail half-way and devices are mapped over pages (boot/mm/mm.c:83-93,
\* 140-143, 162-167).
THEOREM BootCounters == BootSpec => []CountersExact
<1>1. BootInv => CountersExact
  BY DEF BootInv, CountersExact, Counted, BM, FreeIn, NotReserved
<1> QED
  BY <1>1, BootInvariant, PTL

\* As long as the frames of the devices that are mapped are marked or not
\* managed, every page that was handed out has an allocated frame of its own
\* that is no page table, although pages are lost when a request fails and
\* devices are mapped over pages (boot/mm/mm.c:260-325, 366-427).
THEOREM BootPagesAreOwn == BootSpec => [](DevicesMarked => BootPagesOwnFrames)
<1>1. ASSUME BootInv, DevicesMarked, stage = "paging" PROVE BootPagesOwnFrames
  <2>1. /\ Apart(held, alloc_vpn) /\ Good(Managed, BM)
        /\ PagesOwned(Managed, BM, held)
    BY <1>1 DEF BootInv, Kept
  <2>2. HeldPages = UNION {Run(a.vpn, a.n) : a \in held}
    BY Zenon DEF HeldPages, Run
  <2>3. HeldPages \subseteq Upper
    BY <2>1, <2>2, ZenonT(30) DEF Apart
  <2>4. \A v \in HeldPages \ DevicePages : Owned(Managed, BM, v)
    BY <2>1, <2>2 DEF PagesOwned
  <2>5. BM.tab = page_tab /\ BM.pbm = pbm /\ BM.dir = page_dir /\ DOMAIN page_dir = Dirs
    BY <1>1, Zenon DEF BM, BootInv, BMem
  <2>6. ASSUME NEW v \in HeldPages \ DevicePages
        PROVE  LET f == page_tab[v].pfn
               IN  /\ f \in Managed /\ pbm[f] = "ALLOCATED"
                   /\ \A d \in DOMAIN page_dir : page_dir[d] # f
                   /\ \A w \in HeldPages \ {v} : page_tab[w].pfn # f
    BY <2>1, <2>3, <2>4, <2>5, Zenon DEF Good, OwnFrames, Owned
  <2>7. /\ pma_free = Cardinality({f \in Managed : pbm[f] = "FREE"})
        /\ pma_available = Cardinality({f \in Managed : pbm[f] # "RESERVED"})
    BY <1>1 DEF BootInv, Counted, BM, FreeIn, NotReserved
  <2> QED
    BY <2>6, <2>7 DEF BootPagesOwnFrames
<1>2. BootInv => (DevicesMarked => BootPagesOwnFrames)
  BY <1>1, Zenon DEF BootPagesOwnFrames
<1> QED
  BY <1>2, BootInvariant, PTL

\* The reserved areas inside the memory are marked if none lies behind an
\* earlier one, which is what init_pma's limit takes for granted
\* (boot/arch/i686/pc/bios/init.c:109-130).
THEOREM NestedHolesMarked == BootSpec => [](HolesNested => ReservedAreasMarked)
<1>1. ASSUME BootInv, HolesNested, stage = "paging",
             NEW j \in DOMAIN smap, NEW f \in Managed, ~smap[j].free,
             f \in smap[j].base..LastPage(smap[j])
      PROVE  pbm[f] = "RESERVED"
  <2>1. AllReserved(Managed, BM, HoleFrames) /\ smap \in BootMaps
    BY <1>1, Zenon DEF BootInv
  <2>2. /\ smap \in Seq(MapEntries) /\ BasePfn \in Nat /\ LimitPfn \in Int
        /\ BasePfn >= BootLow /\ BootLow \in Nat
    BY <2>1, Area, BootAssumption DEF BootConstants
  <2>3. smap[j] \in MapEntries
    BY <2>2
  <2>4. f \in Nat /\ BootLow <= f /\ f < LimitPfn
    BY <2>2 DEF Managed
  <2>5. Hole(smap[j]) /\ f \in PagesOf(smap[j])
    <3> DEFINE e == smap[j]
    <3>1. /\ e.base \in Nat /\ e.size \in Nat /\ ~e.free
          /\ f \in e.base..(e.base + e.size - 1)
      BY <1>1, <2>3, Zenon DEF MapEntries, LastPage
    <3> HIDE DEF e
    <3>2. Hole(e) /\ f \in PagesOf(e)
      BY <2>2, <2>4, <3>1 DEF Hole, PagesOf, LastPage
    <3> QED
      BY <3>2, Zenon DEF e
  <2>6. f \in HoleFrames
    BY <2>5, Zenon DEF HoleFrames
  <2> QED
    BY <2>1, <2>6 DEF AllReserved, BM
<1>2. BootInv => (HolesNested => ReservedAreasMarked)
  BY <1>1, Zenon DEF ReservedAreasMarked
<1> QED
  BY <1>2, BootInvariant, PTL

\* Every device's page in the memory is in the memory map.
DevicesListed ==
    \A v \in DevicePages : v \in Managed =>
        \E j \in DOMAIN smap : v \in smap[j].base..LastPage(smap[j])

\* So the pages have frames of their own on every machine whose memory map
\* lists its devices and has no reserved area behind another: the condition
\* speaks of the map alone.
THEOREM ListedDevicesSafe ==
    BootSpec => [](HolesNested /\ DevicesListed => BootPagesOwnFrames)
<1>1. ASSUME stage = "paging", ReservedAreasMarked, DevicesListed
      PROVE  DevicesMarked
  <2>1. ASSUME NEW v \in DevicePages \ FreePages, v \in Managed
        PROVE  pbm[v] = "RESERVED"
    <3>1. PICK j \in DOMAIN smap : v \in smap[j].base..LastPage(smap[j])
      BY <1>1, <2>1, Zenon DEF DevicesListed
    <3>2. ~smap[j].free
      BY <2>1, <3>1, Zenon DEF FreePages
    <3> QED
      BY <1>1, <2>1, <3>1, <3>2, Zenon DEF ReservedAreasMarked
  <2> QED
    BY <2>1 DEF DevicesMarked, AllReserved, BM
<1>2. stage # "paging" => BootPagesOwnFrames
  BY DEF BootPagesOwnFrames
<1>3. /\ DevicesMarked => BootPagesOwnFrames
      /\ HolesNested => ReservedAreasMarked
      => (HolesNested /\ DevicesListed => BootPagesOwnFrames)
  BY <1>1, <1>2
<1> QED
  BY <1>3, BootPagesAreOwn, NestedHolesMarked, PTL
=============================================================================
