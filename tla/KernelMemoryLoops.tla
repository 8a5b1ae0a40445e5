-------------------------- MODULE KernelMemoryLoops --------------------------
(***************************************************************************)
(* What the operations of mm.c and platform.c do to the memory: mapping    *)
(* and releasing one page, and, by induction on the rounds, the loops that *)
(* map the heap, a stack or the user's pages and those that undo it.       *)
(*                                                                         *)
(* The loops are summed up in two relations between the memory before and  *)
(* after: Grown, some pages were mapped to frames that were free; and      *)
(* Released, some pages were unmapped and their frames given back.         *)
(***************************************************************************)
EXTENDS KernelMemory, Foundations

----------------------------------------------------------------------------
(* Page numbers.                                                            *)

Size == TableSize * DirSize

Dirs == 0..(DirSize - 1)

\* The page directory and the page tables have room for Size pages.
LEMMA SizeNat == Size \in Nat \ {0}
BY KernelMemoryAssumption DEF Size

\* The entry and the table of a page in range.
LEMMA InRange ==
    ASSUME NEW v \in Pages
    PROVE  v \in Nat /\ PageOf(v) = v /\ TableOf(v) \in Dirs
<1>1. v \in 0..(Size - 1)
  BY KernelMemoryAssumption DEF Pages, Size
<1>2. v % Size = v
  BY <1>1, SizeNat
<1>3. TableOf(v) = v \div TableSize
  BY <1>2 DEF TableOf, PageOf, Size
<1>4. v \div TableSize \in 0..(DirSize - 1)
  BY <1>1, KernelMemoryAssumption DEF Size
<1> QED
  BY <1>1, <1>2, <1>3, <1>4, SizeNat, KernelMemoryAssumption DEF PageOf, Size, Dirs

\* A division with remainder is unique.
LEMMA Division ==
    ASSUME NEW b \in Nat \ {0}, NEW q \in Int, NEW r \in 0..(b - 1)
    PROVE  (b * q + r) % b = r
<1> DEFINE a == b * q + r
           p == a \div b
           s == a % b
<1>1. a \in Int /\ p \in Int /\ s \in 0..(b - 1) /\ a = b * p + s
  OBVIOUS
<1> QED
  BY <1>1

\* The remainder of a sum.
LEMMA Remainder ==
    ASSUME NEW a \in Nat, NEW i \in Nat, (a % Size) + i < Size
    PROVE  (a + i) % Size = (a % Size) + i
<1> DEFINE q == a \div Size
           r == a % Size
<1>1. q \in Int /\ r \in Nat /\ a = Size * q + r
  BY SizeNat
<1>2. r + i \in 0..(Size - 1) /\ a + i = Size * q + (r + i)
  BY <1>1, SizeNat
<1> HIDE DEF q, r
<1>3. (Size * q + (r + i)) % Size = r + i
  BY <1>1, <1>2, SizeNat, Division, Zenon
<1> QED
  BY <1>2, <1>3 DEF r

\* The pages behind one whose number was cut off.
LEMMA Shifted ==
    ASSUME NEW a \in Nat, NEW i \in Nat, PageOf(a) + i \in Pages
    PROVE  PageOf(a + i) = PageOf(a) + i
<1>1. (a % Size) + i < Size /\ a % Size \in Nat
  BY SizeNat, KernelMemoryAssumption DEF PageOf, Pages, Size
<1>2. (a + i) % Size = (a % Size) + i
  BY <1>1, Remainder
<1> QED
  BY <1>2 DEF PageOf, Size

----------------------------------------------------------------------------
(* What is known of the memory, and how it changes.                         *)

Mem == [frames : [Frames -> {"FREE", "ALLOCATED"}], pde : [Dirs -> Frames \cup {0}],
        pte : [Pages -> Frames \cup {0}], panic : BOOLEAN]

\* A page that is mapped has a page table, and that has its frame.
Sound(m) ==
    /\ m \in Mem
    /\ \A v \in Pages : m.pte[v] # 0 => m.pde[TableOf(v)] # 0
    /\ \A d \in Dirs : m.pde[d] # 0 => m.frames[m.pde[d]] = "ALLOCATED"

\* Each of the pages L has a frame of its own.
Owns(m, L) ==
    /\ \A v \in L : /\ m.pte[v] # 0 /\ m.frames[m.pte[v]] = "ALLOCATED"
                    /\ \A d \in Dirs : m.pde[d] # m.pte[v]
    /\ \A v, w \in L : m.pte[v] = m.pte[w] => v = w

\* From m to k the pages R were mapped, to frames that were free, page tables
\* were added, and the free frames X were put aside.
Grown(m, k, R, X) ==
    /\ Sound(k) /\ k.panic = m.panic
    /\ R \subseteq Pages /\ X \subseteq Frames
    /\ \A v \in Pages \ R : k.pte[v] = m.pte[v]
    /\ Owns(k, R)
    /\ \A v \in R : m.frames[k.pte[v]] = "FREE" /\ k.pte[v] \notin X
    /\ \A f \in X : /\ m.frames[f] = "FREE" /\ k.frames[f] = "ALLOCATED"
                    /\ \A d \in Dirs : k.pde[d] # f
    /\ \A d \in Dirs : \/ k.pde[d] = m.pde[d]
                       \/ m.pde[d] = 0 /\ m.frames[k.pde[d]] = "FREE"
    /\ \A f \in Frames : m.frames[f] = "ALLOCATED" => k.frames[f] = "ALLOCATED"
    /\ \A f \in Frames : m.frames[f] # k.frames[f] =>
          \/ f \in X
          \/ \E v \in R : k.pte[v] = f
          \/ \E d \in Dirs : k.pde[d] = f

\* The frames of the pages R, and m without those pages.
FramesOf(m, R) == {m.pte[v] : v \in R}
Released(m, R) ==
    [m EXCEPT !.pte = [v \in Pages |-> IF v \in R THEN 0 ELSE @[v]],
              !.frames = [f \in Frames |-> IF f \in FramesOf(m, R) THEN "FREE"
                                           ELSE @[f]]]

\* Frame 0 stands for an entry that is not present.
LEMMA NoFrameZero == 0 \notin Frames
BY KernelMemoryAssumption

\* What the entries are.
LEMMA MemTypes ==
    ASSUME NEW m \in Mem
    PROVE  /\ \A d \in Dirs : m.pde[d] \in Frames \cup {0}
           /\ \A v \in Pages : m.pte[v] \in Frames \cup {0}
           /\ \A f \in Frames : m.frames[f] = "FREE" \/ m.frames[f] = "ALLOCATED"
BY DEF Mem

\* The answer of the frame allocator.
LEMMA FirstRunIs ==
    ASSUME NEW m, NEW n \in Nat \ {0}, NEW f, f = FirstRun(m, n), f # 0
    PROVE  /\ f \in Frames /\ f..(f + n - 1) \subseteq Frames
           /\ \A g \in f..(f + n - 1) : m.frames[g] = "FREE"
<1>1. RunsOf(m, n) # {} /\ f = Min(RunsOf(m, n))
  BY DEF FirstRun
<1>2. RunsOf(m, n) \subseteq Nat
  BY KernelMemoryAssumption, Zenon DEF RunsOf
<1>3. \E x \in RunsOf(m, n) : \A y \in RunsOf(m, n) : x <= y
  BY <1>1, <1>2, LeastNat
<1>4. f \in RunsOf(m, n)
  BY <1>1, <1>3, Zenon DEF Min
<1> QED
  BY <1>4 DEF RunsOf

\* The answer of mm_pma_allocate_frame for one frame is a free frame.
LEMMA FirstFree ==
    ASSUME NEW m, NEW f, f = FirstRun(m, 1), f # 0
    PROVE  /\ f \in Frames /\ f..(f + 1 - 1) = {f} /\ m.frames[f] = "FREE"
<1>1. f \in Frames /\ \A g \in f..(f + 1 - 1) : m.frames[g] = "FREE"
  BY FirstRunIs
<1>2. f \in Nat
  BY <1>1, KernelMemoryAssumption
<1>3. f..(f + 1 - 1) = {f}
  BY <1>2
<1> QED
  BY <1>1, <1>3

\* Nothing happened yet.
LEMMA GrownNothing ==
    ASSUME NEW m, Sound(m)
    PROVE  Grown(m, m, {}, {})
BY DEF Grown, Owns

\* A run of free frames is put aside.
LEMMA GrownTake ==
    ASSUME NEW m, NEW k, NEW R, NEW X, m \in Mem, Grown(m, k, R, X),
           NEW f \in Frames, NEW n \in Nat \ {0}, f..(f + n - 1) \subseteq Frames,
           \A g \in f..(f + n - 1) : k.frames[g] = "FREE"
    PROVE  Grown(m, Take(k, f, n), R, X \cup (f..(f + n - 1)))
<1> DEFINE Y == f..(f + n - 1)
           t == Take(k, f, n)
<1>1. /\ k \in Mem /\ t \in Mem /\ t.pde = k.pde /\ t.pte = k.pte
      /\ t.panic = k.panic
      /\ \A g \in Frames : t.frames[g] = IF g \in Y THEN "ALLOCATED"
                                         ELSE k.frames[g]
  BY DEF Grown, Sound, Take, Mem
<1>2. Y \subseteq Frames /\ \A g \in Y : k.frames[g] = "FREE"
  OBVIOUS
<1> HIDE DEF Y, t
<1>3. \A g \in Frames : m.frames[g] \in {"FREE", "ALLOCATED"}
  BY DEF Mem
<1>t. /\ \A d \in Dirs : k.pde[d] \in Frames \cup {0}
      /\ \A v \in Pages : k.pte[v] \in Frames \cup {0}
  BY <1>1, MemTypes
<1>s. Sound(k) /\ Owns(k, R) /\ R \subseteq Pages
  BY DEF Grown
<1>a. \A g \in Frames : k.frames[g] = "ALLOCATED" => t.frames[g] = "ALLOCATED"
  BY <1>1
<1>4. Sound(t)
  BY <1>1, <1>a, <1>t, <1>s DEF Sound
<1>5. Owns(t, R)
  BY <1>1, <1>a, <1>t, <1>s DEF Owns
<1>6. \A g \in Y : m.frames[g] = "FREE"
  BY <1>2, <1>3 DEF Grown
<1>7. \A g \in Y : \A d \in Dirs : t.pde[d] # g
  BY <1>1, <1>2, <1>s, NoFrameZero DEF Sound
<1>8. \A v \in R : t.pte[v] \notin Y
  BY <1>1, <1>2, <1>t, <1>s DEF Owns
<1> QED
  BY <1>1, <1>2, <1>3, <1>4, <1>5, <1>6, <1>7, <1>8 DEF Grown, t, Y

\* A frame that was put aside goes back.
LEMMA GrownBack ==
    ASSUME NEW m, NEW k, NEW R, NEW X, m \in Mem, Grown(m, k, R, X), NEW f \in X
    PROVE  Grown(m, mm_pma_free_frame(k, f, 1), R, X \ {f})
<1> DEFINE t == mm_pma_free_frame(k, f, 1)
<1>f. /\ f \in Frames /\ f \in Int /\ m.frames[f] = "FREE"
      /\ k.frames[f] = "ALLOCATED" /\ k \in Mem
      /\ \A d \in Dirs : k.pde[d] # f
      /\ \A v \in R : k.pte[v] # f
  BY KernelMemoryAssumption DEF Grown, Sound
<1>g. f..(f + 1 - 1) = {f}
  BY <1>f
<1>h. t = [k EXCEPT !.frames = [g \in Frames |-> IF g = f THEN "FREE" ELSE @[g]]]
  BY <1>f, <1>g DEF mm_pma_free_frame
<1>1. /\ t \in Mem /\ t.pde = k.pde /\ t.pte = k.pte /\ t.panic = k.panic
      /\ \A g \in Frames \ {f} : t.frames[g] = k.frames[g]
      /\ t.frames[f] = "FREE"
  BY <1>f, <1>h DEF Mem
<1> HIDE DEF t
<1>s. Sound(k) /\ Owns(k, R) /\ R \subseteq Pages
  BY DEF Grown
<1>t. /\ \A d \in Dirs : k.pde[d] \in Frames \cup {0}
      /\ \A v \in Pages : k.pte[v] \in Frames \cup {0}
  BY <1>f, MemTypes
<1>4. Sound(t)
  BY <1>1, <1>f, <1>t, <1>s, Zenon DEF Sound
<1>o. \A v \in R : k.pte[v] \in Frames \ {f}
  BY <1>f, <1>t, <1>s DEF Owns
<1>5. Owns(t, R)
  BY <1>1, <1>o, <1>s DEF Owns
<1> QED
  BY <1>1, <1>4, <1>5, <1>f DEF Grown, t

\* What map does for a page that is not mapped: nothing, for want of a frame
\* for its page table, or the page is mapped, with a new table or without.
MapsTo(m, k, f, v) ==
    /\ k \in Mem /\ k.panic = m.panic
    /\ \A w \in Pages : k.pte[w] = IF w = v THEN f ELSE m.pte[w]
    /\ \/ m.pde[TableOf(v)] # 0 /\ k.pde = m.pde /\ k.frames = m.frames
       \/ \E g \in Frames :
             /\ m.pde[TableOf(v)] = 0 /\ m.frames[g] = "FREE"
             /\ \A d \in Dirs :
                   k.pde[d] = IF d = TableOf(v) THEN g ELSE m.pde[d]
             /\ \A h \in Frames :
                   k.frames[h] = IF h = g THEN "ALLOCATED" ELSE m.frames[h]

\* map, for a page that is not mapped (mm.c:69-120).
LEMMA MapIs ==
    ASSUME NEW m, Sound(m), NEW f \in Frames, NEW v \in Pages, m.pte[v] = 0,
           NEW r, r = map(m, f, v)
    PROVE  \/ r = [ok |-> FALSE, m |-> m]
           \/ /\ r.ok = TRUE /\ r = [ok |-> TRUE, m |-> r.m]
              /\ MapsTo(m, r.m, f, v)
<1> DEFINE D == TableOf(v)
           g == FirstRun(m, 1)
           w == WithTable(m, v)
<1>v. PageOf(v) = v /\ D \in Dirs /\ m \in Mem
  BY InRange DEF Sound
<1>1. CASE m.pde[D] # 0
  <2>1. r = [ok |-> TRUE, m |-> [m EXCEPT !.pte[v] = f]]
    BY <1>1, <1>v DEF map
  <2> QED
    BY <2>1, <1>1, <1>v DEF Mem, MapsTo
<1>2. CASE m.pde[D] = 0
  <2>1. w.pte[v] = 0
    BY <1>v DEF Mem, WithTable, Take
  <2>2. CASE g = 0
    BY <1>2, <1>v, <2>1, <2>2 DEF map
  <2>3. CASE g # 0
    <3>1. r = [ok |-> TRUE, m |-> [w EXCEPT !.pte[v] = f]]
      BY <1>2, <1>v, <2>1, <2>3 DEF map
    <3>2. g \in Frames /\ m.frames[g] = "FREE"
      BY <2>3, FirstFree
    <3>3. g..(g + 1 - 1) = {g}
      BY <2>3, FirstFree
    <3>4. \A u \in Pages : TableOf(u) = D => m.pte[u] = 0
      BY <1>2 DEF Sound
    <3>5. /\ w \in Mem /\ w.panic = m.panic
          /\ \A u \in Pages : w.pte[u] = m.pte[u]
          /\ \A d \in Dirs : w.pde[d] = IF d = D THEN g ELSE m.pde[d]
          /\ \A h \in Frames : w.frames[h] = IF h = g THEN "ALLOCATED"
                                             ELSE m.frames[h]
      BY <1>v, <3>2, <3>3, <3>4, Zenon DEF Mem, WithTable, Take
    <3> HIDE DEF w, g, D
    <3>6. /\ r.ok = TRUE /\ r.m \in Mem /\ r.m.panic = m.panic
          /\ r.m.pde = w.pde /\ r.m.frames = w.frames
          /\ \A u \in Pages : r.m.pte[u] = IF u = v THEN f ELSE m.pte[u]
      BY <3>1, <3>5 DEF Mem
    <3>7. r = [ok |-> TRUE, m |-> r.m]
      BY <3>1
    <3>8. MapsTo(m, r.m, f, v)
      BY <1>2, <3>2, <3>5, <3>6 DEF MapsTo, D
    <3> QED
      BY <3>6, <3>7, <3>8
  <2> QED
    BY <2>2, <2>3, Zenon
<1> QED
  BY <1>1, <1>2, Zenon

\* The two ways in which map ends: k is as it was, or the page is mapped.
MapEnds(m, k, r, R, X) ==
    \/ r = [ok |-> FALSE, m |-> k]
    \/ /\ r.ok = TRUE /\ r = [ok |-> TRUE, m |-> r.m]
       /\ Grown(m, r.m, R, X) /\ r.m \in Mem

\* A page is mapped to a frame that was put aside.
LEMMA GrownMap ==
    ASSUME NEW m, NEW k, NEW R, NEW X, m \in Mem, Grown(m, k, R, X),
           NEW f \in X, NEW v \in Pages \ R, k.pte[v] = 0,
           NEW r, r = map(k, f, v)
    PROVE  /\ MapEnds(m, k, r, R \cup {v}, X \ {f})
           /\ r.ok => MapsTo(k, r.m, f, v)
<1> DEFINE t == r.m
           D == TableOf(v)
<1>f. /\ f \in Frames /\ m.frames[f] = "FREE" /\ k.frames[f] = "ALLOCATED"
      /\ k \in Mem /\ D \in Dirs /\ Sound(k) /\ Owns(k, R) /\ R \subseteq Pages
      /\ \A d \in Dirs : k.pde[d] # f
      /\ \A w \in R : k.pte[w] # f
  BY InRange DEF Grown, Sound
<1>e. \/ r = [ok |-> FALSE, m |-> k]
      \/ r.ok = TRUE /\ r = [ok |-> TRUE, m |-> t] /\ MapsTo(k, t, f, v)
  BY <1>f, MapIs, Zenon
<1>g. r = [ok |-> FALSE, m |-> k] => r.ok = FALSE
  OBVIOUS
<1> SUFFICES ASSUME r.ok = TRUE, MapsTo(k, t, f, v)
             PROVE  Grown(m, t, R \cup {v}, X \ {f}) /\ t \in Mem
  BY <1>e, <1>g, Zenon DEF MapEnds
<1> HIDE DEF t, D
<1>t. /\ \A d \in Dirs : k.pde[d] \in Frames \cup {0}
      /\ \A w \in Pages : k.pte[w] \in Frames \cup {0}
  BY <1>f, MemTypes
<1>p. /\ t \in Mem /\ t.panic = k.panic /\ t.pte[v] = f
      /\ \A w \in Pages \ {v} : t.pte[w] = k.pte[w]
  BY Zenon DEF MapsTo
<1>1. CASE k.pde[D] # 0 /\ t.pde = k.pde /\ t.frames = k.frames
  <2>1. Sound(t)
    BY <1>1, <1>p, <1>f DEF Sound, D
  <2>2. Owns(t, R \cup {v})
    BY <1>1, <1>p, <1>f, NoFrameZero DEF Owns
  <2>3. \A w \in Pages \ (R \cup {v}) : t.pte[w] = m.pte[w]
    BY <1>p DEF Grown
  <2>4. \A w \in R \cup {v} : m.frames[t.pte[w]] = "FREE" /\ t.pte[w] \notin X \ {f}
    BY <1>p, <1>f DEF Grown
  <2>5. \A h \in Frames : m.frames[h] # t.frames[h] =>
          \/ h \in X \ {f}
          \/ \E w \in R \cup {v} : t.pte[w] = h
          \/ \E d \in Dirs : t.pde[d] = h
    BY <1>1, <1>p, <1>f DEF Grown
  <2> QED
    BY <1>1, <1>p, <1>f, <2>1, <2>2, <2>3, <2>4, <2>5, SMTT(30) DEF Grown, t
<1>2. ASSUME NEW g \in Frames, k.pde[D] = 0, k.frames[g] = "FREE",
             \A d \in Dirs : t.pde[d] = IF d = D THEN g ELSE k.pde[d],
             \A h \in Frames : t.frames[h] = IF h = g THEN "ALLOCATED"
                                             ELSE k.frames[h]
      PROVE  Grown(m, t, R \cup {v}, X \ {f})
  <2>a. /\ \A h \in Frames : k.frames[h] = "ALLOCATED" => t.frames[h] = "ALLOCATED"
        /\ g # 0 /\ f # g /\ g \notin X /\ m.frames[g] = "FREE"
        /\ \A w \in R : k.pte[w] # g
        /\ t.pde[D] = g /\ \A d \in Dirs \ {D} : t.pde[d] = k.pde[d]
        /\ t.frames[g] = "ALLOCATED"
        /\ \A h \in Frames \ {g} : t.frames[h] = k.frames[h]
    <3>1. m.frames[g] = "FREE"
      BY <1>2, MemTypes DEF Grown
    <3>2. f # g /\ g \notin X /\ \A w \in R : k.pte[w] # g
      BY <1>2, <1>f DEF Grown, Owns
    <3> QED
      BY <1>2, <1>f, <3>1, <3>2, NoFrameZero
  <2>1. Sound(t)
    <3>1. \A w \in Pages : t.pte[w] # 0 => t.pde[TableOf(w)] # 0
      BY <1>f, <1>p, <2>a, InRange DEF Sound, D
    <3>2. \A d \in Dirs : t.pde[d] # 0 => t.frames[t.pde[d]] = "ALLOCATED"
      BY <1>f, <1>t, <2>a DEF Sound
    <3> QED
      BY <3>1, <3>2, <1>p DEF Sound
  <2>2. Owns(t, R \cup {v})
    <3>1. \A w \in R : t.pte[w] = k.pte[w] /\ t.pte[w] \in Frames /\ t.pte[w] # f
      BY <1>f, <1>p, <1>t DEF Owns
    <3>2. \A w \in R \cup {v} : t.pte[w] # 0 /\ t.frames[t.pte[w]] = "ALLOCATED"
      BY <1>f, <1>p, <2>a, <3>1, NoFrameZero DEF Owns
    <3>3. \A w \in R \cup {v} : \A d \in Dirs : t.pde[d] # t.pte[w]
      BY <1>f, <1>p, <2>a, <3>1 DEF Owns
    <3>4. \A w, u \in R \cup {v} : t.pte[w] = t.pte[u] => w = u
      BY <1>f, <1>p, <3>1 DEF Owns
    <3> QED
      BY <3>2, <3>3, <3>4 DEF Owns
  <2>3. m.pde[D] = 0
    BY <1>2, <1>f, NoFrameZero DEF Grown
  <2>4. \A w \in Pages \ (R \cup {v}) : t.pte[w] = m.pte[w]
    BY <1>p DEF Grown
  <2>5. \A w \in R \cup {v} : m.frames[t.pte[w]] = "FREE" /\ t.pte[w] \notin X \ {f}
    BY <1>p, <1>f DEF Grown
  <2>6. \A h \in X \ {f} : /\ m.frames[h] = "FREE" /\ t.frames[h] = "ALLOCATED"
                           /\ \A d \in Dirs : t.pde[d] # h
    BY <2>a DEF Grown
  <2>7. \A d \in Dirs : \/ t.pde[d] = m.pde[d]
                        \/ m.pde[d] = 0 /\ m.frames[t.pde[d]] = "FREE"
    BY <2>a, <2>3 DEF Grown
  <2>8. \A h \in Frames : m.frames[h] # t.frames[h] =>
          \/ h \in X \ {f}
          \/ \E w \in R \cup {v} : t.pte[w] = h
          \/ \E d \in Dirs : t.pde[d] = h
    <3> SUFFICES ASSUME NEW h \in Frames, m.frames[h] # t.frames[h], h # f, h # g
                 PROVE  \/ h \in X \ {f}
                        \/ \E w \in R \cup {v} : t.pte[w] = h
                        \/ \E d \in Dirs : t.pde[d] = h
      BY <1>p, <1>f, <2>a, Zenon
    <3>1. h \in X \/ (\E w \in R : k.pte[w] = h) \/ (\E d \in Dirs : k.pde[d] = h)
      BY <2>a, SMTT(30) DEF Grown
    <3>2. \A d \in Dirs : k.pde[d] = h => d # D
      BY <1>2, NoFrameZero, ZenonT(30)
    <3> QED
      BY <1>p, <1>f, <2>a, <3>1, <3>2
  <2>9. /\ t.panic = m.panic /\ R \cup {v} \subseteq Pages /\ X \ {f} \subseteq Frames
        /\ \A h \in Frames : m.frames[h] = "ALLOCATED" => t.frames[h] = "ALLOCATED"
    BY <1>p, <2>a, SMTT(30) DEF Grown
  <2> HIDE DEF Dirs
  <2> QED
    BY <2>1, <2>2, <2>4, <2>5, <2>6, <2>7, <2>8, <2>9, Zenon DEF Grown, t
<1> QED
  BY <1>1, <1>2, <1>p, Zenon DEF MapsTo, D

\* What holds of a memory that has grown.
LEMMA GrownSound ==
    ASSUME NEW m, NEW k, NEW R, NEW X, Grown(m, k, R, X)
    PROVE  Sound(k) /\ k \in Mem /\ k.panic = m.panic /\ R \subseteq Pages
BY DEF Grown, Sound

\* The frame f can be taken for the page v, and what follows when it was.
CanTake(m, k, R, f, v) ==
    /\ m \in Mem /\ Grown(m, k, R, {}) /\ f = FirstRun(k, 1) /\ f # 0
    /\ v \in Pages \ R /\ k.pte[v] = 0
Taken(m, t, R, f, v, r) ==
    /\ f \in Frames /\ Grown(m, t, R, {f}) /\ t \in Mem
    /\ MapEnds(m, t, r, R \cup {v}, {})

\* A frame is taken, and a page is mapped to it.
LEMMA GrownPage ==
    ASSUME NEW m, NEW k, NEW R, NEW f, NEW v, CanTake(m, k, R, f, v),
           NEW t, t = Take(k, f, 1), NEW r, r = map(t, f, v)
    PROVE  Taken(m, t, R, f, v, r)
<1>0. /\ m \in Mem /\ Grown(m, k, R, {}) /\ f = FirstRun(k, 1) /\ f # 0
      /\ v \in Pages \ R /\ k.pte[v] = 0
  BY DEF CanTake
<1>1. f \in Frames /\ k.frames[f] = "FREE" /\ f..(f + 1 - 1) = {f}
  BY <1>0, FirstFree
<1>2. Grown(m, t, R, {f})
  <2>1. /\ 1 \in Nat \ {0} /\ f..(f + 1 - 1) \subseteq Frames
        /\ \A g \in f..(f + 1 - 1) : k.frames[g] = "FREE"
    BY <1>1
  <2>2. Grown(m, t, R, {} \cup (f..(f + 1 - 1)))
    BY <1>0, <1>1, <2>1, GrownTake, Zenon
  <2> QED
    BY <1>1, <2>2, Zenon
<1>3. t.pte[v] = 0 /\ t \in Mem
  <2>1. k \in Mem
    BY <1>0, GrownSound
  <2>2. t.pte = k.pte /\ t \in Mem
    BY <2>1, <1>2, GrownSound DEF Take, Mem
  <2> QED
    BY <1>0, <2>2
<1>4. MapEnds(m, t, r, R \cup {v}, {f} \ {f})
  <2>1. f \in {f}
    OBVIOUS
  <2> QED
    BY <2>1, <1>0, <1>2, <1>3, GrownMap, Zenon
<1>5. {f} \ {f} = {}
  OBVIOUS
<1> QED
  BY <1>1, <1>2, <1>3, <1>4, <1>5, Zenon DEF Taken

\* What was held keeps its frames.
LEMMA GrownOwns ==
    ASSUME NEW m, NEW k, NEW R, NEW X, Sound(m), Grown(m, k, R, X),
           NEW L \in SUBSET Pages, Owns(m, L), L \cap R = {}
    PROVE  Owns(k, L \cup R)
<1>1. /\ Owns(k, R) /\ \A v \in L : k.pte[v] = m.pte[v]
      /\ \A v \in R : m.frames[k.pte[v]] = "FREE"
  BY DEF Grown
<1>2. \A v \in L : m.pte[v] \in Frames /\ m.frames[m.pte[v]] = "ALLOCATED"
  BY MemTypes DEF Sound, Owns
<1>3. \A v \in L : k.pte[v] # 0 /\ k.frames[k.pte[v]] = "ALLOCATED"
  BY <1>1, <1>2 DEF Grown, Owns
<1>4. \A v \in L : \A d \in Dirs : k.pde[d] # k.pte[v]
  BY <1>1, <1>2 DEF Grown, Owns
<1>5. \A v, w \in L \cup R : k.pte[v] = k.pte[w] => v = w
  BY <1>1, <1>2 DEF Owns
<1> QED
  BY <1>1, <1>3, <1>4, <1>5 DEF Owns

----------------------------------------------------------------------------
(* liballoc_alloc: the loop that maps page after page.                      *)

HeapState == [ok : BOOLEAN, m : Mem, done : Nat]

HeapInv(m, vpn, i, p) ==
    /\ p.done \in 0..i /\ (p.ok => p.done = i)
    /\ Grown(m, p.m, PagesFrom(vpn, p.done), {})

\* The pages from vpn on are there, and none is mapped.
Fresh(m, vpn, n) ==
    /\ Sound(m) /\ vpn \in Nat /\ n \in Nat
    /\ \A v \in PagesFrom(vpn, n) : v \in Pages /\ m.pte[v] = 0

\* The next page.
LEMMA FreshPage ==
    ASSUME NEW m, NEW vpn, NEW n, Fresh(m, vpn, n), NEW i \in 1..n,
           NEW k, NEW X, Grown(m, k, PagesFrom(vpn, i - 1), X)
    PROVE  /\ vpn + i - 1 \in Pages \ PagesFrom(vpn, i - 1)
           /\ k.pte[vpn + i - 1] = 0 /\ mm_vpn_to_pfn(k, vpn + i - 1) = 0
           /\ PagesFrom(vpn, i - 1) \cup {vpn + i - 1} = PagesFrom(vpn, i)
<1> DEFINE v == vpn + i - 1
<1>1. vpn \in Nat /\ n \in Nat
  BY DEF Fresh
<1>2. /\ v \in PagesFrom(vpn, n) /\ v \notin PagesFrom(vpn, i - 1)
      /\ PagesFrom(vpn, i - 1) \cup {v} = PagesFrom(vpn, i)
  BY <1>1 DEF PagesFrom
<1> HIDE DEF v
<1>3. v \in Pages /\ m.pte[v] = 0
  BY <1>2 DEF Fresh
<1>4. k.pte[v] = 0
  BY <1>2, <1>3 DEF Grown
<1>5. mm_vpn_to_pfn(k, v) = 0
  BY <1>3, <1>4, InRange DEF mm_vpn_to_pfn
<1> QED
  BY <1>2, <1>3, <1>4, <1>5 DEF v

\* The records the rounds of a loop hand on.
LEMMA HeapStates ==
    \A ok \in BOOLEAN : \A k \in Mem : \A d \in Nat :
        [ok |-> ok, m |-> k, done |-> d] \in HeapState
BY DEF HeapState

\* One round keeps it.
LEMMA HeapRound ==
    ASSUME NEW m, NEW vpn, NEW n, Fresh(m, vpn, n), NEW i \in 1..n,
           NEW p \in HeapState, HeapInv(m, vpn, i - 1, p),
           NEW q, q = HeapPage(p, vpn + i - 1)
    PROVE  q \in HeapState /\ HeapInv(m, vpn, i, q)
<1> DEFINE v == vpn + i - 1
           R == PagesFrom(vpn, i - 1)
           f == FirstRun(p.m, 1)
           t == Take(p.m, f, 1)
           r == map(t, f, v)
<1>m. m \in Mem /\ n \in Nat /\ i \in Nat
  BY DEF Fresh, Sound
<1>1. CASE ~p.ok
  <2>1. q = p
    BY <1>1 DEF HeapPage
  <2> QED
    BY <1>1, <1>m, <2>1 DEF HeapInv
<1>2. CASE p.ok
  <2>0. p.ok = TRUE /\ p.done = i - 1 /\ Grown(m, p.m, R, {})
    BY <1>2 DEF HeapInv, HeapState
  <2>1. /\ v \in Pages \ R /\ p.m.pte[v] = 0 /\ mm_vpn_to_pfn(p.m, v) = 0
        /\ R \cup {v} = PagesFrom(vpn, i)
    BY <2>0, FreshPage
  <2>2. CASE f = 0
    <3>1. q = [p EXCEPT !.ok = FALSE]
      BY <1>2, <2>1, <2>2 DEF HeapPage
    <3>2. q \in HeapState /\ q.ok = FALSE /\ q.m = p.m /\ q.done = i - 1
      BY <3>1, <2>0, Zenon DEF HeapState
    <3> QED
      BY <3>2, <2>0, <1>m DEF HeapInv
  <2>3. CASE f # 0
    <3>1. q = [ok |-> r.ok, m |-> IF r.ok THEN r.m ELSE FailedPage(r.m, f),
               done |-> IF r.ok THEN p.done + 1 ELSE p.done]
      BY <1>2, <2>1, <2>3, ZenonT(30) DEF HeapPage
    <3> DEFINE k == p.m
    <3>3. /\ f = FirstRun(k, 1) /\ t = Take(k, f, 1) /\ r = map(t, f, v)
          /\ CanTake(m, k, R, f, v)
      BY <1>m, <2>0, <2>1, <2>3 DEF CanTake
    <3> HIDE DEF R, v, f, t, r, k
    <3>2. /\ f \in Frames /\ Grown(m, t, R, {f}) /\ t \in Mem
          /\ MapEnds(m, t, r, R \cup {v}, {})
      BY <3>3, GrownPage, Zenon DEF Taken
    <3>7. CASE r = [ok |-> FALSE, m |-> t]
      <4>1. q = [ok |-> FALSE, m |-> FailedPage(t, f), done |-> p.done]
        BY <3>1, <3>7, Zenon
      <4>2. Grown(m, FailedPage(t, f), R, {f} \ {f}) /\ {f} \ {f} = {}
        BY <1>m, <3>2, GrownBack DEF FailedPage
      <4>3. Grown(m, FailedPage(t, f), R, {}) /\ FailedPage(t, f) \in Mem
        BY <4>2, GrownSound, Zenon
      <4>4. p.done = i - 1 /\ p.done \in Nat /\ FALSE \in BOOLEAN
        BY <2>0, <1>m
      <4>5. q.ok = FALSE /\ q.done = i - 1 /\ q.m = FailedPage(t, f)
        BY <4>1, <4>4
      <4>6. q \in HeapState
        BY <4>1, <4>3, <4>4, HeapStates, Zenon
      <4> QED
        BY <4>3, <4>5, <4>6, <1>m DEF HeapInv, R
    <3>8. CASE r.ok = TRUE /\ Grown(m, r.m, R \cup {v}, {}) /\ r.m \in Mem
      <4>1. q = [ok |-> TRUE, m |-> r.m, done |-> p.done + 1]
        BY <3>1, <3>8, Zenon
      <4>2. p.done + 1 = i /\ TRUE \in BOOLEAN
        BY <2>0, <1>m
      <4>3. q.ok = TRUE /\ q.done = i /\ q.m = r.m
        BY <4>1, <4>2
      <4>4. q \in HeapState
        BY <4>1, <4>2, <3>8, <1>m, HeapStates, Zenon
      <4>5. Grown(m, q.m, PagesFrom(vpn, i), {})
        BY <4>3, <3>8, <2>1, Zenon
      <4> QED
        BY <4>3, <4>4, <4>5, <1>m DEF HeapInv
    <3> QED
      BY <3>2, <3>7, <3>8, Zenon DEF MapEnds
  <2> QED
    BY <2>2, <2>3
<1> QED
  BY <1>1, <1>2

\* Of the n pages the first done ones are mapped, all of them if it went well.
LEMMA HeapMapped ==
    ASSUME NEW m, NEW vpn, NEW n, Fresh(m, vpn, n)
    PROVE  MapHeap(m, vpn, n) \in HeapState /\ HeapInv(m, vpn, n, MapHeap(m, vpn, n))
<1> DEFINE a == [ok |-> TRUE, m |-> m, done |-> 0]
           F == [x \in HeapState \X (1..n) |-> HeapPage(x[1], vpn + x[2] - 1)]
           I == {x \in (0..n) \X HeapState : HeapInv(m, vpn, x[1], x[2])}
<1>n. n \in Nat /\ m \in Mem /\ Sound(m)
  BY DEF Fresh, Sound
<1>1. a \in HeapState /\ HeapInv(m, vpn, 0, a)
  <2>1. PagesFrom(vpn, 0) = {}
    BY DEF PagesFrom, Fresh
  <2> QED
    BY <1>n, <2>1, GrownNothing DEF HeapState, HeapInv
<1> HIDE DEF a
<1>f. \A p \in HeapState : \A i \in 1..n : F[<<p, i>>] = HeapPage(p, vpn + i - 1)
  OBVIOUS
<1> HIDE DEF F
<1>i. \A i \in 0..n : \A p \in HeapState :
          <<i, p>> \in I <=> HeapInv(m, vpn, i, p)
  OBVIOUS
<1> HIDE DEF I
<1>2. Keeps(n, HeapState, a, F, I)
  <2>1. ASSUME NEW i \in 1..n, NEW p \in HeapState, <<i-1, p>> \in I
        PROVE  F[<<p, i>>] \in HeapState /\ <<i, F[<<p, i>>]>> \in I
    <3>1. i - 1 \in 0..n /\ i \in 0..n
      BY <1>n
    <3>2. HeapInv(m, vpn, i - 1, p)
      BY <2>1, <3>1, <1>i
    <3>3. F[<<p, i>>] \in HeapState /\ HeapInv(m, vpn, i, F[<<p, i>>])
      BY <3>2, <1>f, HeapRound
    <3> QED
      BY <3>1, <3>3, <1>i
  <2>2. <<0, a>> \in I
    BY <1>1, <1>n, <1>i
  <2> QED
    BY <1>1, <2>1, <2>2 DEF Keeps
<1>3. PICK w : /\ w \in [0..n -> HeapState] /\ w[0] = a
               /\ \A i \in 1..n : w[i] = F[<<w[i-1], i>>]
  BY <1>n, <1>2, LoopExists
<1>4. w = [i \in 0..n |-> IF i = 0 THEN a ELSE HeapPage(w[i-1], vpn + i - 1)]
  <2>1. \A i \in 1..n : i - 1 \in 0..n
    BY <1>n
  <2>2. \A i \in 1..n : w[i] = HeapPage(w[i-1], vpn + i - 1)
    BY <1>3, <1>f, <2>1, Zenon
  <2> QED
    BY <1>n, <1>3, <2>2
<1>5. \E s : /\ s = [i \in 0..n |-> IF i = 0 THEN a
                                   ELSE HeapPage(s[i-1], vpn + i - 1)]
             /\ MapHeap(m, vpn, n) = s[n]
  BY <1>4, Zenon DEF MapHeap, a
<1>6. PICK s : /\ s = [i \in 0..n |-> IF i = 0 THEN a
                                     ELSE HeapPage(s[i-1], vpn + i - 1)]
               /\ MapHeap(m, vpn, n) = s[n]
  BY <1>5, Zenon
<1>7. s[0] = a /\ \A i \in 1..n : s[i] = HeapPage(s[i-1], vpn + i - 1)
  BY <1>6, <1>n
<1>8. Follows(s, n, HeapState, a, F, I)
  BY <1>7, <1>f DEF Follows
<1>9. s[n] \in HeapState /\ <<n, s[n]>> \in I
  BY <1>2, <1>8, <1>n, LoopKeeps
<1> QED
  BY <1>6, <1>9, <1>i, <1>n

----------------------------------------------------------------------------
(* Pages are given back.                                                    *)

\* The entries of m without the pages R.
LEMMA ReleasedIs ==
    ASSUME NEW m \in Mem, NEW R
    PROVE  LET k == Released(m, R)
           IN  /\ k \in Mem /\ k.pde = m.pde /\ k.panic = m.panic
               /\ \A v \in Pages : k.pte[v] = IF v \in R THEN 0 ELSE m.pte[v]
               /\ \A f \in Frames :
                     k.frames[f] = IF f \in FramesOf(m, R) THEN "FREE"
                                   ELSE m.frames[f]
BY Zenon DEF Mem, Released

\* Two memories with the same entries are the same.
LEMMA SameMem ==
    ASSUME NEW m \in Mem, NEW k \in Mem, m.panic = k.panic,
           \A f \in Frames : m.frames[f] = k.frames[f],
           \A d \in Dirs : m.pde[d] = k.pde[d],
           \A v \in Pages : m.pte[v] = k.pte[v]
    PROVE  m = k
<1>1. m.frames = k.frames /\ m.pde = k.pde /\ m.pte = k.pte
  BY DEF Mem
<1> QED
  BY <1>1 DEF Mem

\* The pages that are still held keep their frames.
LEMMA ReleasedOwns ==
    ASSUME NEW m, Sound(m), NEW L \in SUBSET Pages, Owns(m, L), NEW R \in SUBSET L
    PROVE  Sound(Released(m, R)) /\ Owns(Released(m, R), L \ R)
<1> DEFINE k == Released(m, R)
<1>m. m \in Mem
  BY DEF Sound
<1>1. /\ k \in Mem /\ k.pde = m.pde /\ k.panic = m.panic
      /\ \A v \in R : k.pte[v] = 0
      /\ \A v \in Pages \ R : k.pte[v] = m.pte[v]
      /\ \A f \in Frames : f \notin FramesOf(m, R) => k.frames[f] = m.frames[f]
  BY <1>m, ReleasedIs
<1> HIDE DEF k
<1>t. /\ \A d \in Dirs : m.pde[d] \in Frames \cup {0}
      /\ \A v \in Pages : m.pte[v] \in Frames \cup {0}
  BY <1>m, MemTypes
<1>2. \A d \in Dirs : m.pde[d] \notin FramesOf(m, R)
  BY DEF Owns, FramesOf
<1>3. \A v \in L \ R : m.pte[v] \notin FramesOf(m, R)
  BY DEF Owns, FramesOf
<1>4. Sound(k)
  <2>1. \A v \in Pages : k.pte[v] # 0 => k.pde[TableOf(v)] # 0
    BY <1>1 DEF Sound
  <2>2. \A d \in Dirs : k.pde[d] # 0 => k.frames[k.pde[d]] = "ALLOCATED"
    BY <1>1, <1>2, <1>t DEF Sound
  <2> QED
    BY <1>1, <2>1, <2>2 DEF Sound
<1>5. Owns(k, L \ R)
  <2>1. \A v \in L \ R : k.pte[v] = m.pte[v] /\ k.pte[v] \in Frames
    BY <1>1, <1>t DEF Owns
  <2>2. \A v \in L \ R : k.frames[k.pte[v]] = "ALLOCATED"
    BY <1>1, <1>3, <2>1 DEF Owns
  <2> QED
    BY <1>1, <2>1, <2>2 DEF Owns
<1> QED
  BY <1>4, <1>5 DEF k

\* A page more.
LEMMA ReleasedMore ==
    ASSUME NEW m, Sound(m), NEW L \in SUBSET Pages, Owns(m, L), NEW R \in SUBSET L,
           NEW v \in L \ R
    PROVE  Released(Released(m, R), {v}) = Released(m, R \cup {v})
<1> DEFINE k == Released(m, R)
           a == Released(k, {v})
           b == Released(m, R \cup {v})
<1>m. m \in Mem
  BY DEF Sound
<1>1. /\ k \in Mem /\ k.pde = m.pde /\ k.panic = m.panic
      /\ \A w \in Pages : k.pte[w] = IF w \in R THEN 0 ELSE m.pte[w]
      /\ \A f \in Frames : k.frames[f] = IF f \in FramesOf(m, R) THEN "FREE"
                                         ELSE m.frames[f]
  BY <1>m, ReleasedIs, Zenon
<1> HIDE DEF k
<1>2. /\ a \in Mem /\ a.pde = k.pde /\ a.panic = k.panic
      /\ \A w \in Pages : a.pte[w] = IF w \in {v} THEN 0 ELSE k.pte[w]
      /\ \A f \in Frames : a.frames[f] = IF f \in FramesOf(k, {v}) THEN "FREE"
                                         ELSE k.frames[f]
  BY <1>1, ReleasedIs
<1>3. /\ b \in Mem /\ b.pde = m.pde /\ b.panic = m.panic
      /\ \A w \in Pages : b.pte[w] = IF w \in R \cup {v} THEN 0 ELSE m.pte[w]
      /\ \A f \in Frames : b.frames[f] = IF f \in FramesOf(m, R \cup {v})
                                         THEN "FREE" ELSE m.frames[f]
  BY <1>m, ReleasedIs
<1> HIDE DEF a, b
<1>4. FramesOf(m, R \cup {v}) = FramesOf(m, R) \cup FramesOf(k, {v})
  BY <1>1 DEF FramesOf
<1>5. \A w \in Pages : a.pte[w] = b.pte[w]
  BY <1>1, <1>2, <1>3
<1>6. \A f \in Frames : a.frames[f] = b.frames[f]
  BY <1>1, <1>2, <1>3, <1>4, Zenon
<1>7. a = b
  BY <1>1, <1>2, <1>3, <1>5, <1>6, SameMem
<1> QED
  BY <1>7 DEF a, b, k

\* No page.
LEMMA ReleasedNone ==
    ASSUME NEW m \in Mem
    PROVE  Released(m, {}) = m
<1> DEFINE k == Released(m, {})
<1>1. FramesOf(m, {}) = {}
  BY DEF FramesOf
<1>2. /\ k \in Mem /\ k.pde = m.pde /\ k.panic = m.panic
      /\ \A v \in Pages : k.pte[v] = IF v \in {} THEN 0 ELSE m.pte[v]
      /\ \A f \in Frames : k.frames[f] = IF f \in FramesOf(m, {}) THEN "FREE"
                                         ELSE m.frames[f]
  BY ReleasedIs
<1> HIDE DEF k
<1>3. k = m
  BY <1>1, <1>2, SameMem
<1> QED
  BY <1>3 DEF k

\* One page of its own.
LEMMA ReleaseIs ==
    ASSUME NEW m, Sound(m), m.panic = FALSE, NEW v \in Pages, Owns(m, {v})
    PROVE  /\ mm_vpn_to_pfn(m, v) = m.pte[v]
           /\ ReleasePage(m, v) = Released(m, {v})
<1> DEFINE f == m.pte[v]
           u == unmap(m, v)
           k == mm_pma_free_frame(u, f, 1)
           l == Released(m, {v})
<1>m. m \in Mem /\ PageOf(v) = v
  BY InRange DEF Sound
<1>1. f # 0 /\ f \in Frames /\ m.frames[f] = "ALLOCATED"
  BY <1>m, MemTypes DEF Owns
<1>2. m.pde[TableOf(v)] # 0
  BY <1>1 DEF Sound
<1>3. mm_vpn_to_pfn(m, v) = f
  BY <1>m, <1>2 DEF mm_vpn_to_pfn
<1>4. u = [m EXCEPT !.pte[v] = 0]
  BY <1>m, <1>1, <1>3 DEF unmap
<1> HIDE DEF f
<1>5. /\ u \in Mem /\ u.pde = m.pde /\ u.panic = m.panic /\ u.frames = m.frames
      /\ \A w \in Pages : u.pte[w] = IF w = v THEN 0 ELSE m.pte[w]
  BY <1>m, <1>4 DEF Mem
<1> HIDE DEF u
<1>6. f..(f + 1 - 1) = {f}
  <2>1. f \in Nat
    BY <1>1, KernelMemoryAssumption
  <2> QED
    BY <2>1
<1>7. k = [u EXCEPT !.frames = [g \in Frames |-> IF g \in {f} THEN "FREE" ELSE @[g]]]
  BY <1>1, <1>5, <1>6 DEF mm_pma_free_frame
<1>8. /\ k \in Mem /\ k.pde = u.pde /\ k.panic = u.panic /\ k.pte = u.pte
      /\ \A g \in Frames : k.frames[g] = IF g \in {f} THEN "FREE" ELSE u.frames[g]
  BY <1>5, <1>7 DEF Mem
<1>9. FramesOf(m, {v}) = {f}
  BY DEF FramesOf, f
<1>10. /\ l \in Mem /\ l.pde = m.pde /\ l.panic = m.panic
       /\ \A w \in Pages : l.pte[w] = IF w \in {v} THEN 0 ELSE m.pte[w]
       /\ \A g \in Frames : l.frames[g] = IF g \in FramesOf(m, {v}) THEN "FREE"
                                          ELSE m.frames[g]
  BY <1>m, ReleasedIs, Zenon
<1> HIDE DEF k, l
<1>11. k = l
  <2>1. \A w \in Pages : k.pte[w] = l.pte[w]
    BY <1>5, <1>8, <1>10
  <2>2. \A g \in Frames : k.frames[g] = l.frames[g]
    BY <1>5, <1>8, <1>9, <1>10, ZenonT(30)
  <2> QED
    BY <2>1, <2>2, <1>5, <1>8, <1>10, SameMem
<1>12. ReleasePage(m, v) = k
  BY <1>1, <1>3 DEF ReleasePage, Release, k, u
<1> QED
  BY <1>3, <1>11, <1>12 DEF l, f

\* A run of pages.
LEMMA AllReleased ==
    ASSUME NEW m, Sound(m), m.panic = FALSE, NEW L \in SUBSET Pages, Owns(m, L),
           NEW vpn \in Nat, NEW n \in Nat, PagesFrom(vpn, n) \subseteq L
    PROVE  ReleaseAll(m, vpn, n) = Released(m, PagesFrom(vpn, n))
<1> DEFINE F == [x \in Mem \X (1..n) |-> ReleasePage(x[1], vpn + x[2] - 1)]
           I == {x \in (0..n) \X Mem : x[2] = Released(m, PagesFrom(vpn, x[1]))}
<1>m. m \in Mem
  BY DEF Sound
<1>0. PagesFrom(vpn, 0) = {}
  BY DEF PagesFrom
<1>f. \A p \in Mem : \A i \in 1..n : F[<<p, i>>] = ReleasePage(p, vpn + i - 1)
  OBVIOUS
<1> HIDE DEF F
<1>i. \A i \in 0..n : \A p \in Mem :
          <<i, p>> \in I <=> p = Released(m, PagesFrom(vpn, i))
  OBVIOUS
<1> HIDE DEF I
<1>2. Keeps(n, Mem, m, F, I)
  <2>1. ASSUME NEW i \in 1..n, NEW p \in Mem, <<i-1, p>> \in I
        PROVE  F[<<p, i>>] \in Mem /\ <<i, F[<<p, i>>]>> \in I
    <3> DEFINE v == vpn + i - 1
               R == PagesFrom(vpn, i - 1)
    <3>1. /\ i - 1 \in 0..n /\ i \in 0..n /\ v \in PagesFrom(vpn, n) \ R
          /\ R \subseteq PagesFrom(vpn, n) /\ R \cup {v} = PagesFrom(vpn, i)
      BY DEF PagesFrom
    <3> HIDE DEF v, R
    <3>2. p = Released(m, R)
      BY <2>1, <3>1, <1>i DEF R
    <3>3. R \in SUBSET L /\ v \in L \ R
      BY <3>1
    <3>4. Sound(p) /\ Owns(p, L \ R) /\ p.panic = FALSE
      BY <1>m, <3>2, <3>3, ReleasedOwns, ReleasedIs, Zenon
    <3>5. Owns(p, {v})
      BY <3>3, <3>4 DEF Owns
    <3>6. ReleasePage(p, v) = Released(p, {v})
      BY <3>3, <3>4, <3>5, ReleaseIs, Zenon
    <3>7. Released(p, {v}) = Released(m, PagesFrom(vpn, i))
      BY <3>1, <3>2, <3>3, ReleasedMore
    <3>8. Released(p, {v}) \in Mem
      BY ReleasedIs
    <3> QED
      BY <3>1, <3>6, <3>7, <3>8, <1>f, <1>i DEF v
  <2>2. <<0, m>> \in I
    BY <1>0, <1>m, <1>i, ReleasedNone
  <2> QED
    BY <1>m, <2>1, <2>2 DEF Keeps
<1>3. PICK w : /\ w \in [0..n -> Mem] /\ w[0] = m
               /\ \A i \in 1..n : w[i] = F[<<w[i-1], i>>]
  BY <1>2, LoopExists
<1>4. w = [i \in 0..n |-> IF i = 0 THEN m ELSE ReleasePage(w[i-1], vpn + i - 1)]
  <2>1. \A i \in 1..n : i - 1 \in 0..n
    OBVIOUS
  <2>2. \A i \in 1..n : w[i] = ReleasePage(w[i-1], vpn + i - 1)
    BY <1>3, <1>f, <2>1, Zenon
  <2> QED
    BY <1>3, <2>2
<1>5. \E s : /\ s = [i \in 0..n |-> IF i = 0 THEN m
                                   ELSE ReleasePage(s[i-1], vpn + i - 1)]
             /\ ReleaseAll(m, vpn, n) = s[n]
  BY <1>4, Zenon DEF ReleaseAll
<1>6. PICK s : /\ s = [i \in 0..n |-> IF i = 0 THEN m
                                     ELSE ReleasePage(s[i-1], vpn + i - 1)]
               /\ ReleaseAll(m, vpn, n) = s[n]
  BY <1>5, Zenon
<1>7. s[0] = m /\ \A i \in 1..n : s[i] = ReleasePage(s[i-1], vpn + i - 1)
  BY <1>6
<1>8. Follows(s, n, Mem, m, F, I)
  BY <1>7, <1>f DEF Follows
<1>9. s[n] \in Mem /\ <<n, s[n]>> \in I
  BY <1>2, <1>8, LoopKeeps
<1> QED
  BY <1>6, <1>9, <1>i

----------------------------------------------------------------------------
(* mm_map for the n frames from f on, which were put aside for a stack.     *)

StackInv(m, f, vpn, n, i, p) ==
    /\ p.done \in 0..i /\ (p.ok => p.done = i)
    /\ Grown(m, p.m, PagesFrom(vpn, p.done), (f + p.done)..(f + n - 1))
    /\ \A j \in 0..(p.done - 1) : p.m.pte[vpn + j] = f + j

\* One round keeps it.
LEMMA StackRound ==
    ASSUME NEW m, NEW vpn, NEW n, Fresh(m, vpn, n), NEW i \in 1..n,
           NEW f \in Nat, NEW p \in HeapState, StackInv(m, f, vpn, n, i - 1, p),
           NEW q, q = MapPage(p, f + i - 1, vpn + i - 1)
    PROVE  q \in HeapState /\ StackInv(m, f, vpn, n, i, q)
<1> DEFINE v == vpn + i - 1
           g == f + i - 1
           R == PagesFrom(vpn, i - 1)
           X == (f + (i - 1))..(f + n - 1)
           r == map(p.m, g, v)
<1>m. m \in Mem /\ n \in Nat /\ i \in Nat /\ vpn \in Nat
  BY DEF Fresh, Sound
<1>1. CASE ~p.ok
  <2>1. q = p
    BY <1>1 DEF MapPage
  <2> QED
    BY <1>1, <1>m, <2>1 DEF StackInv
<1>2. CASE p.ok
  <2>0. p.done = i - 1 /\ Grown(m, p.m, R, X)
    BY <1>2, Zenon DEF StackInv
  <2>1. /\ v \in Pages \ R /\ p.m.pte[v] = 0 /\ R \cup {v} = PagesFrom(vpn, i)
    BY <2>0, FreshPage
  <2>2. q = [ok |-> r.ok, m |-> r.m, done |-> IF r.ok THEN p.done + 1 ELSE p.done]
    BY <1>2 DEF MapPage
  <2>3. g \in X /\ X \ {g} = (f + i)..(f + n - 1)
    BY <1>m
  <2>4. \A j \in 0..(i - 2) : p.m.pte[vpn + j] = f + j /\ vpn + j \in R
    <3>1. \A j \in 0..(i - 2) : p.m.pte[vpn + j] = f + j
      BY <2>0, <1>m DEF StackInv
    <3> QED
      BY <3>1, <1>m DEF PagesFrom
  <2> HIDE DEF X, g, R, v
  <2>5. MapEnds(m, p.m, r, R \cup {v}, X \ {g}) /\ (r.ok => MapsTo(p.m, r.m, g, v))
    BY <1>m, <2>0, <2>1, <2>3, GrownMap, Zenon
  <2> HIDE DEF r
  <2>6. CASE r = [ok |-> FALSE, m |-> p.m]
    <3>1. q = [ok |-> FALSE, m |-> p.m, done |-> p.done]
      BY <2>2, <2>6, Zenon
    <3>2. q \in HeapState /\ q.ok = FALSE /\ q.m = p.m /\ q.done = p.done
      <4>1. FALSE \in BOOLEAN /\ p.m \in Mem /\ p.done \in Nat
        BY DEF HeapState
      <4>2. q \in HeapState
        BY <3>1, <4>1, HeapStates, Zenon
      <4> QED
        BY <3>1, <4>2
    <3>3. q.done \in 0..i /\ (q.ok => q.done = i)
      BY <3>2, <2>0, <1>m
    <3> QED
      BY <3>2, <3>3, Zenon DEF StackInv
  <2>7. CASE /\ r.ok = TRUE /\ Grown(m, r.m, R \cup {v}, X \ {g})
             /\ MapsTo(p.m, r.m, g, v)
    <3>1. q = [ok |-> TRUE, m |-> r.m, done |-> p.done + 1]
      BY <2>2, <2>7, Zenon
    <3>2. p.done + 1 = i
      BY <2>0, <1>m
    <3>3. q \in HeapState /\ q.ok = TRUE /\ q.m = r.m /\ q.done = i
      <4>1. TRUE \in BOOLEAN /\ r.m \in Mem
        BY <2>7, Zenon DEF MapsTo
      <4>2. q \in HeapState
        BY <3>1, <3>2, <4>1, <1>m, HeapStates, Zenon
      <4> QED
        BY <3>1, <3>2, <4>2
    <3>4. Grown(m, q.m, PagesFrom(vpn, i), (f + i)..(f + n - 1))
      BY <2>1, <2>3, <2>7, <3>3, Zenon
    <3>5. ASSUME NEW j \in 0..(i - 1) PROVE q.m.pte[vpn + j] = f + j
      <4>1. CASE j = i - 1
        <5>1. vpn + j = v /\ f + j = g
          BY <4>1, <1>m DEF v, g
        <5> QED
          BY <5>1, <2>1, <2>7, <3>3, SMTT(30) DEF MapsTo
      <4>2. CASE j # i - 1
        <5>1. j \in 0..(i - 2)
          BY <4>2, <1>m
        <5>2. vpn + j \in Pages /\ vpn + j # v /\ p.m.pte[vpn + j] = f + j
          BY <5>1, <2>0, <2>1, <2>4, GrownSound, Zenon
        <5> QED
          BY <5>2, <2>7, <3>3, Zenon DEF MapsTo
      <4> QED
        BY <4>1, <4>2, Zenon
    <3>6. q.done \in 0..i /\ (q.ok => q.done = i)
      BY <3>3, <1>m
    <3> QED
      BY <3>3, <3>4, <3>5, <3>6, Zenon DEF StackInv
  <2> QED
    BY <2>5, <2>6, <2>7, Zenon DEF MapEnds
<1> QED
  BY <1>1, <1>2, Zenon

\* All of the stack is mapped if it went well, else the first done pages.
LEMMA StackMapped ==
    ASSUME NEW m, NEW vpn, NEW n, Fresh(m, vpn, n), n # 0, NEW f \in Frames,
           NEW k, Grown(m, k, {}, f..(f + n - 1))
    PROVE  /\ mm_map(k, f, vpn, n) \in HeapState
           /\ StackInv(m, f, vpn, n, n, mm_map(k, f, vpn, n))
<1> DEFINE a == [ok |-> TRUE, m |-> k, done |-> 0]
           B(p, i) == MapPage(p, f + i - 1, vpn + i - 1)
           F == [x \in HeapState \X (1..n) |-> B(x[1], x[2])]
           I == {x \in (0..n) \X HeapState : StackInv(m, f, vpn, n, x[1], x[2])}
<1>n. n \in Nat /\ vpn \in Nat /\ f \in Nat
  BY KernelMemoryAssumption DEF Fresh
<1>1. a \in HeapState /\ StackInv(m, f, vpn, n, 0, a)
  <2>1. PagesFrom(vpn, 0) = {} /\ f + 0 = f /\ 0..(0 - 1) = {}
    BY <1>n DEF PagesFrom
  <2>2. k \in Mem
    BY GrownSound
  <2>3. a \in HeapState
    BY <2>2 DEF HeapState
  <2>4. a.ok = TRUE /\ a.m = k /\ a.done = 0 /\ 0 \in 0..0
    OBVIOUS
  <2> QED
    BY <2>1, <2>3, <2>4, Zenon DEF StackInv
<1> HIDE DEF a
<1>f. \A p \in HeapState : \A i \in 1..n : F[<<p, i>>] = B(p, i)
  BY Zenon
<1> HIDE DEF F
<1>i. \A i \in 0..n : \A p \in HeapState :
          <<i, p>> \in I <=> StackInv(m, f, vpn, n, i, p)
  OBVIOUS
<1> HIDE DEF I, B
<1>2. Keeps(n, HeapState, a, F, I)
  <2>1. ASSUME NEW i \in 1..n, NEW p \in HeapState, <<i-1, p>> \in I
        PROVE  F[<<p, i>>] \in HeapState /\ <<i, F[<<p, i>>]>> \in I
    <3>1. i - 1 \in 0..n /\ i \in 0..n
      BY <1>n
    <3>2. StackInv(m, f, vpn, n, i - 1, p)
      BY <2>1, <3>1, <1>i
    <3>3. B(p, i) \in HeapState /\ StackInv(m, f, vpn, n, i, B(p, i))
      BY <3>2, <1>n, StackRound, Zenon DEF B
    <3> QED
      BY <3>1, <3>3, <1>i, <1>f
  <2>2. <<0, a>> \in I
    BY <1>1, <1>n, <1>i
  <2> QED
    BY <1>1, <2>1, <2>2, ZenonT(30) DEF Keeps
<1>3. PICK w : /\ w \in [0..n -> HeapState] /\ w[0] = a
               /\ \A i \in 1..n : w[i] = F[<<w[i-1], i>>]
  BY <1>n, <1>2, LoopExists
<1>4. w = [i \in 0..n |-> IF i = 0 THEN a ELSE B(w[i-1], i)]
  <2>1. \A i \in 1..n : i - 1 \in 0..n
    BY <1>n
  <2>2. \A i \in 1..n : w[i] = B(w[i-1], i)
    BY <1>3, <1>f, <2>1, Zenon
  <2> QED
    BY <1>n, <1>3, <2>2
<1>5. \E s : /\ s = [i \in 0..n |-> IF i = 0 THEN a ELSE B(s[i-1], i)]
             /\ mm_map(k, f, vpn, n) = s[n]
  BY <1>4, Zenon DEF mm_map, a, B
<1>6. PICK s : /\ s = [i \in 0..n |-> IF i = 0 THEN a ELSE B(s[i-1], i)]
               /\ mm_map(k, f, vpn, n) = s[n]
  BY <1>5, Zenon
<1>7. s[0] = a /\ \A i \in 1..n : s[i] = B(s[i-1], i)
  BY <1>6, <1>n
<1>8. Follows(s, n, HeapState, a, F, I)
  BY <1>7, <1>f DEF Follows
<1>9. s[n] \in HeapState /\ <<n, s[n]>> \in I
  BY <1>2, <1>8, <1>n, LoopKeeps
<1> QED
  BY <1>6, <1>9, <1>i, <1>n

\* A stack was being mapped in m, to the frames from f on: k has its pages R
\* and not yet the frames X; the pages L were held before.
HalfStack(m, k, R, X, L, f, n) ==
    /\ Sound(m) /\ Grown(m, k, R, X)
    /\ L \subseteq Pages /\ Owns(m, L) /\ L \cap R = {}
    /\ f \in Frames /\ X \cup FramesOf(k, R) = f..(f + n - 1)

\* q has the tables of k, and is sound for the pages L.
UndoneFor(m, k, q, L) ==
    Sound(q) /\ Owns(q, L) /\ q.pte = k.pte /\ q.panic = m.panic

\* When it did not, the frames go back, those of the mapped pages R included:
\* what was held before is still sound.
LEMMA StackUndone ==
    ASSUME NEW m, NEW k, NEW R, NEW X, NEW L, NEW f, NEW n,
           HalfStack(m, k, R, X, L, f, n)
    PROVE  UndoneFor(m, k, mm_pma_free_frame(k, f, n), L)
<1> SUFFICES ASSUME Sound(m), Grown(m, k, R, X), L \in SUBSET Pages,
                    Owns(m, L), L \cap R = {}, f \in Frames,
                    X \cup FramesOf(k, R) = f..(f + n - 1)
             PROVE  UndoneFor(m, k, mm_pma_free_frame(k, f, n), L)
  BY DEF HalfStack
<1> DEFINE Y == X \cup FramesOf(k, R)
           q == mm_pma_free_frame(k, f, n)
<1>k. Sound(k) /\ k \in Mem /\ k.panic = m.panic /\ R \subseteq Pages
  BY GrownSound, Zenon
<1>t. /\ \A d \in Dirs : k.pde[d] \in Frames \cup {0}
      /\ \A v \in Pages : k.pte[v] \in Frames \cup {0}
  BY <1>k, MemTypes
<1>o. Owns(k, L \cup R)
  BY GrownOwns, Zenon
<1>1. \A g \in Y : g \in Frames /\ k.frames[g] = "ALLOCATED"
  BY <1>k, <1>o, <1>t, SMTT(30) DEF Grown, FramesOf, Owns
<1>2. \A d \in Dirs : k.pde[d] \notin Y
  BY <1>o, SMTT(30) DEF Grown, FramesOf, Owns
<1>3. \A v \in L : k.pte[v] \notin Y
  <2>1. \A v \in L : k.pte[v] = m.pte[v] /\ m.frames[m.pte[v]] = "ALLOCATED"
    BY Zenon DEF Grown, Owns
  <2>2. \A v \in L : k.pte[v] \notin X
    BY <2>1 DEF Grown
  <2>3. \A v \in L : k.pte[v] \notin FramesOf(k, R)
    BY <1>o, Zenon DEF Owns, FramesOf
  <2> QED
    BY <2>2, <2>3, Zenon
<1> HIDE DEF Y
<1>4. q = [k EXCEPT !.frames = [g \in Frames |-> IF g \in Y THEN "FREE" ELSE @[g]]]
  BY <1>1 DEF mm_pma_free_frame, Y
<1>5. /\ q \in Mem /\ q.pde = k.pde /\ q.pte = k.pte /\ q.panic = m.panic
      /\ \A g \in Frames \ Y : q.frames[g] = k.frames[g]
  BY <1>k, <1>4 DEF Mem
<1> HIDE DEF q
<1>6. Sound(q)
  <2>1. \A d \in Dirs : q.pde[d] # 0 => q.frames[q.pde[d]] = "ALLOCATED"
    BY <1>k, <1>t, <1>2, <1>5, ZenonT(30) DEF Sound
  <2> QED
    BY <1>k, <1>5, <2>1, Zenon DEF Sound
<1>7. Owns(q, L)
  <2>1. \A v \in L : q.pte[v] \in Frames \ Y
    BY <1>o, <1>t, <1>3, <1>5, Zenon DEF Owns
  <2> QED
    BY <1>o, <1>5, <2>1, SMTT(30) DEF Owns
<1> QED
  BY <1>5, <1>6, <1>7, Zenon DEF q, UndoneFor

----------------------------------------------------------------------------
(* The stack of a thread goes back.                                         *)

\* From m to k the pages R were unmapped.
Cut(m, k, R) ==
    /\ k \in Mem /\ k.frames = m.frames /\ k.pde = m.pde /\ k.panic = m.panic
    /\ \A v \in Pages : k.pte[v] = IF v \in R THEN 0 ELSE m.pte[v]

\* The pages are found if base, cut off, is the number of the first one.
LEMMA Unmapped ==
    ASSUME NEW m, Sound(m), NEW base \in Nat, NEW n \in Nat, NEW vpn \in Nat,
           PageOf(base) = vpn,
           \A v \in PagesFrom(vpn, n) : v \in Pages /\ m.pte[v] # 0
    PROVE  Cut(m, mm_unmap(m, base, n), PagesFrom(vpn, n))
<1> DEFINE B(p, i) == unmap(p, base + i - 1)
           F == [x \in Mem \X (1..n) |-> B(x[1], x[2])]
           I == {x \in (0..n) \X Mem : Cut(m, x[2], PagesFrom(vpn, x[1]))}
<1>m. m \in Mem
  BY DEF Sound
<1>1. Cut(m, m, PagesFrom(vpn, 0))
  <2>1. PagesFrom(vpn, 0) = {}
    BY DEF PagesFrom
  <2> QED
    BY <1>m, <2>1 DEF Cut
<1>f. \A p \in Mem : \A i \in 1..n : F[<<p, i>>] = B(p, i)
  BY Zenon
<1> HIDE DEF F
<1>i. \A i \in 0..n : \A p \in Mem : <<i, p>> \in I <=> Cut(m, p, PagesFrom(vpn, i))
  OBVIOUS
<1> HIDE DEF I, B
<1>2. Keeps(n, Mem, m, F, I)
  <2>1. ASSUME NEW i \in 1..n, NEW p \in Mem, <<i-1, p>> \in I
        PROVE  F[<<p, i>>] \in Mem /\ <<i, F[<<p, i>>]>> \in I
    <3> DEFINE v == vpn + (i - 1)
               R == PagesFrom(vpn, i - 1)
    <3>1. /\ i - 1 \in 0..n /\ i \in 0..n /\ v \in PagesFrom(vpn, n) \ R
          /\ R \cup {v} = PagesFrom(vpn, i) /\ base + i - 1 = base + (i - 1)
          /\ i - 1 \in Nat
      BY DEF PagesFrom
    <3>2. Cut(m, p, R)
      BY <2>1, <3>1, <1>i
    <3>3. v \in Pages /\ m.pte[v] # 0
      BY <3>1
    <3>4. PageOf(base + i - 1) = v
      BY <3>1, <3>3, Shifted
    <3>5. TableOf(base + i - 1) = TableOf(v) /\ TableOf(v) \in Dirs
      BY <3>3, <3>4, InRange, Zenon DEF TableOf
    <3> HIDE DEF v, R
    <3>6. p.pte[v] # 0 /\ p.pde[TableOf(v)] # 0
      BY <3>1, <3>2, <3>3 DEF Cut, Sound
    <3>7. B(p, i) = [p EXCEPT !.pte[v] = 0]
      BY <3>4, <3>5, <3>6 DEF B, unmap, mm_vpn_to_pfn
    <3>8. /\ B(p, i) \in Mem /\ B(p, i).frames = p.frames /\ B(p, i).pde = p.pde
          /\ B(p, i).panic = p.panic
          /\ \A w \in Pages : B(p, i).pte[w] = IF w = v THEN 0 ELSE p.pte[w]
      BY <3>7 DEF Mem
    <3>9. Cut(m, B(p, i), R \cup {v})
      BY <3>2, <3>8 DEF Cut
    <3> QED
      BY <3>1, <3>8, <3>9, <1>f, <1>i, Zenon
  <2>2. <<0, m>> \in I
    BY <1>1, <1>m, <1>i
  <2> QED
    BY <1>m, <2>1, <2>2 DEF Keeps
<1>3. PICK w : /\ w \in [0..n -> Mem] /\ w[0] = m
               /\ \A i \in 1..n : w[i] = F[<<w[i-1], i>>]
  BY <1>2, LoopExists
<1>4. w = [i \in 0..n |-> IF i = 0 THEN m ELSE B(w[i-1], i)]
  <2>1. \A i \in 1..n : i - 1 \in 0..n
    OBVIOUS
  <2>2. \A i \in 1..n : w[i] = B(w[i-1], i)
    BY <1>3, <1>f, <2>1, Zenon
  <2> QED
    BY <1>3, <2>2
<1>5. \E s : /\ s = [i \in 0..n |-> IF i = 0 THEN m ELSE B(s[i-1], i)]
             /\ mm_unmap(m, base, n) = s[n]
  BY <1>4, Zenon DEF mm_unmap, B
<1>6. PICK s : /\ s = [i \in 0..n |-> IF i = 0 THEN m ELSE B(s[i-1], i)]
               /\ mm_unmap(m, base, n) = s[n]
  BY <1>5, Zenon
<1>7. s[0] = m /\ \A i \in 1..n : s[i] = B(s[i-1], i)
  BY <1>6
<1>8. Follows(s, n, Mem, m, F, I)
  BY <1>7, <1>f, Zenon DEF Follows
<1>9. s[n] \in Mem /\ <<n, s[n]>> \in I
  BY <1>2, <1>8, LoopKeeps
<1> QED
  BY <1>6, <1>9, <1>i

\* The frames of a stack are one run.
LEMMA StackReleased ==
    ASSUME NEW m, Sound(m), NEW R \in SUBSET Pages, Owns(m, R), NEW k, Cut(m, k, R),
           NEW f, NEW n, FramesOf(m, R) = f..(f + n - 1)
    PROVE  mm_pma_free_frame(k, f, n) = Released(m, R)
<1> DEFINE Y == FramesOf(m, R)
           q == mm_pma_free_frame(k, f, n)
           l == Released(m, R)
<1>m. m \in Mem
  BY DEF Sound
<1>1. \A g \in Y : g \in Frames /\ k.frames[g] = "ALLOCATED"
  BY <1>m, MemTypes DEF FramesOf, Owns, Cut
<1> HIDE DEF Y
<1>2. q = [k EXCEPT !.frames = [g \in Frames |-> IF g \in Y THEN "FREE" ELSE @[g]]]
  BY <1>1 DEF mm_pma_free_frame, Y
<1>3. /\ q \in Mem /\ q.pde = m.pde /\ q.pte = k.pte /\ q.panic = m.panic
      /\ \A g \in Frames : q.frames[g] = IF g \in Y THEN "FREE" ELSE m.frames[g]
  BY <1>2 DEF Mem, Cut
<1>4. /\ l \in Mem /\ l.pde = m.pde /\ l.panic = m.panic
      /\ \A v \in Pages : l.pte[v] = IF v \in R THEN 0 ELSE m.pte[v]
      /\ \A g \in Frames : l.frames[g] = IF g \in Y THEN "FREE" ELSE m.frames[g]
  BY <1>m, ReleasedIs, Zenon DEF Y
<1> HIDE DEF q, l
<1>5. \A v \in Pages : q.pte[v] = l.pte[v]
  BY <1>3, <1>4, Zenon DEF Cut
<1>6. q = l
  BY <1>3, <1>4, <1>5, SameMem, SMTT(30)
<1> QED
  BY <1>6 DEF q, l

----------------------------------------------------------------------------
(* mm_allocate_pages: the loop over the pages.  When it fails, a frame may   *)
(* stay put aside.                                                          *)

PageState == [ok : BOOLEAN, m : Mem]

PageInv(m, vpn, i, p) ==
    \E j \in 0..i : \E X \in SUBSET Frames :
        Grown(m, p.m, PagesFrom(vpn, j), X) /\ (p.ok => j = i /\ X = {})

\* The records the rounds of mm_allocate_pages_to hand on.
LEMMA PageStates ==
    \A ok \in BOOLEAN : \A k \in Mem : [ok |-> ok, m |-> k] \in PageState
BY DEF PageState

\* One round keeps it.
LEMMA PageRound ==
    ASSUME NEW m, NEW vpn, NEW n, Fresh(m, vpn, n), NEW i \in 1..n,
           NEW p \in PageState, PageInv(m, vpn, i - 1, p),
           NEW q, q = AllocatePage(p, vpn + i - 1)
    PROVE  q \in PageState /\ PageInv(m, vpn, i, q)
<1> DEFINE v == vpn + i - 1
           R == PagesFrom(vpn, i - 1)
           f == FirstRun(p.m, 1)
           t == Take(p.m, f, 1)
           r == map(t, f, v)
<1>m. m \in Mem /\ n \in Nat /\ i \in Nat /\ i - 1 \in 0..i /\ i \in 0..i
  BY DEF Fresh, Sound
<1>p. p.ok \in BOOLEAN /\ p.m \in Mem
  BY DEF PageState
<1>1. CASE ~p.ok
  <2>1. q = p
    BY <1>1 DEF AllocatePage
  <2>2. PICK j \in 0..(i - 1), X \in SUBSET Frames : Grown(m, p.m, PagesFrom(vpn, j), X)
    BY DEF PageInv
  <2>3. j \in 0..i
    BY <1>m
  <2> QED
    BY <1>1, <2>1, <2>2, <2>3, Zenon DEF PageInv
<1>2. CASE p.ok
  <2>0. Grown(m, p.m, R, {})
    BY <1>2, ZenonT(30) DEF PageInv
  <2>1. /\ v \in Pages \ R /\ p.m.pte[v] = 0 /\ mm_vpn_to_pfn(p.m, v) = 0
        /\ R \cup {v} = PagesFrom(vpn, i)
    BY <2>0, FreshPage, SMTT(30)
  <2>2. CASE f = 0
    <3>1. q = [p EXCEPT !.ok = FALSE]
      BY <1>2, <2>1, <2>2 DEF AllocatePage
    <3>2. q \in PageState /\ q.ok = FALSE /\ q.m = p.m
      BY <3>1, Zenon DEF PageState
    <3>3. Grown(m, q.m, PagesFrom(vpn, i - 1), {}) /\ {} \in SUBSET Frames
      BY <3>2, <2>0
    <3> QED
      BY <3>2, <3>3, <1>m, Zenon DEF PageInv
  <2>3. CASE f # 0
    <3>1. q = r
      BY <1>2, <2>1, <2>3 DEF AllocatePage
    <3> DEFINE k == p.m
    <3>3. /\ f = FirstRun(k, 1) /\ t = Take(k, f, 1) /\ r = map(t, f, v)
          /\ CanTake(m, k, R, f, v)
      BY <1>m, <2>0, <2>1, <2>3, Zenon DEF CanTake
    <3> HIDE DEF R, v, f, t, r, k
    <3>2. /\ f \in Frames /\ Grown(m, t, R, {f}) /\ t \in Mem
          /\ MapEnds(m, t, r, R \cup {v}, {})
      BY <3>3, GrownPage, Zenon DEF Taken
    <3>6. {f} \in SUBSET Frames /\ {} \in SUBSET Frames
      BY <3>2
    <3>7. CASE r = [ok |-> FALSE, m |-> t]
      <4>1. q.ok = FALSE /\ q.m = t
        BY <3>1, <3>7
      <4>2. q \in PageState
        BY <3>1, <3>2, <3>7, PageStates, Zenon
      <4>3. Grown(m, q.m, PagesFrom(vpn, i - 1), {f})
        BY <4>1, <3>2 DEF R
      <4> QED
        BY <4>1, <4>2, <4>3, <3>6, <1>m, Zenon DEF PageInv
    <3>8. CASE /\ r.ok = TRUE /\ r = [ok |-> TRUE, m |-> r.m]
               /\ Grown(m, r.m, R \cup {v}, {}) /\ r.m \in Mem
      <4>1. Grown(m, r.m, PagesFrom(vpn, i), {})
        BY <3>8, <2>1, Zenon
      <4>2. q \in PageState
        BY <3>1, <3>8, PageStates, Zenon
      <4> QED
        BY <3>1, <4>1, <4>2, <3>6, <1>m, Zenon DEF PageInv
    <3> QED
      BY <3>2, <3>7, <3>8, Zenon DEF MapEnds
  <2> QED
    BY <2>2, <2>3, Zenon
<1> QED
  BY <1>1, <1>2, Zenon

\* All pages are mapped if it went well, else some first ones.
LEMMA PagesMapped ==
    ASSUME NEW m, NEW vpn, NEW n, Fresh(m, vpn, n)
    PROVE  PageInv(m, vpn, n, mm_allocate_pages_to(m, vpn, n))
<1> DEFINE a == [ok |-> TRUE, m |-> m]
           B(p, i) == AllocatePage(p, vpn + i - 1)
           F == [x \in PageState \X (1..n) |-> B(x[1], x[2])]
           I == {x \in (0..n) \X PageState : PageInv(m, vpn, x[1], x[2])}
<1>n. n \in Nat /\ m \in Mem /\ Sound(m) /\ vpn \in Nat
  BY DEF Fresh, Sound
<1>1. a \in PageState /\ PageInv(m, vpn, 0, a)
  <2>1. PagesFrom(vpn, 0) = {} /\ 0 \in 0..0 /\ {} \in SUBSET Frames
    BY <1>n DEF PagesFrom
  <2>2. Grown(m, m, {}, {})
    BY <1>n, GrownNothing
  <2>3. a \in PageState /\ a.m = m
    BY <1>n DEF PageState
  <2> QED
    BY <2>1, <2>2, <2>3, Zenon DEF PageInv
<1> HIDE DEF a
<1>f. \A p \in PageState : \A i \in 1..n : F[<<p, i>>] = B(p, i)
  BY Zenon
<1> HIDE DEF F
<1>i. \A i \in 0..n : \A p \in PageState :
          <<i, p>> \in I <=> PageInv(m, vpn, i, p)
  BY Zenon
<1> HIDE DEF I, B
<1>2. Keeps(n, PageState, a, F, I)
  <2>1. ASSUME NEW i \in 1..n, NEW p \in PageState, <<i-1, p>> \in I
        PROVE  F[<<p, i>>] \in PageState /\ <<i, F[<<p, i>>]>> \in I
    <3>1. i - 1 \in 0..n /\ i \in 0..n
      BY <1>n
    <3>2. PageInv(m, vpn, i - 1, p)
      BY <2>1, <3>1, <1>i
    <3>3. B(p, i) \in PageState /\ PageInv(m, vpn, i, B(p, i))
      BY <3>2, PageRound, Zenon DEF B
    <3> QED
      BY <3>1, <3>3, <1>i, <1>f
  <2>2. <<0, a>> \in I
    BY <1>1, <1>n, <1>i
  <2> QED
    BY <1>1, <2>1, <2>2, Zenon DEF Keeps
<1>3. PICK w : /\ w \in [0..n -> PageState] /\ w[0] = a
               /\ \A i \in 1..n : w[i] = F[<<w[i-1], i>>]
  BY <1>n, <1>2, LoopExists
<1>4. w = [i \in 0..n |-> IF i = 0 THEN a ELSE B(w[i-1], i)]
  <2>1. \A i \in 1..n : i - 1 \in 0..n
    BY <1>n
  <2>2. \A i \in 1..n : w[i] = B(w[i-1], i)
    BY <1>3, <1>f, <2>1, Zenon
  <2> QED
    BY <1>n, <1>3, <2>2
<1>5. \E s : /\ s = [i \in 0..n |-> IF i = 0 THEN a ELSE B(s[i-1], i)]
             /\ mm_allocate_pages_to(m, vpn, n) = s[n]
  BY <1>4, Zenon DEF mm_allocate_pages_to, a, B
<1>6. PICK s : /\ s = [i \in 0..n |-> IF i = 0 THEN a ELSE B(s[i-1], i)]
               /\ mm_allocate_pages_to(m, vpn, n) = s[n]
  BY <1>5, Zenon
<1>7. s[0] = a /\ \A i \in 1..n : s[i] = B(s[i-1], i)
  BY <1>6, <1>n
<1>8. Follows(s, n, PageState, a, F, I)
  BY <1>7, <1>f DEF Follows
<1>9. s[n] \in PageState /\ <<n, s[n]>> \in I
  BY <1>2, <1>8, <1>n, LoopKeeps
<1> QED
  BY <1>6, <1>9, <1>i, <1>n
=============================================================================
