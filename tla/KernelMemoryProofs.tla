------------------------- MODULE KernelMemoryProofs -------------------------
(***************************************************************************)
(* The kernel's virtual memory, for every number of frames, size of the    *)
(* page tables and size of the areas: the areas that are held never        *)
(* overlap, held pages have frames of their own, what is mapped and not    *)
(* held is known, and a heap request that fails is undone.                 *)
(*                                                                         *)
(* The invariant is KmInv: the areas vma.c handed out lie side by side,    *)
(* and the memory is what module KernelMemoryLoops asks for and gives.     *)
(***************************************************************************)
EXTENDS KernelMemoryLoops

----------------------------------------------------------------------------
(* The areas, and the invariant.                                            *)

Areas == [vpn : Nat, n : Nat \ {0}]
StackAreas == [vpn : Nat, n : Nat \ {0}, base : Nat]

Apart(a, b) == a.vpn + a.n <= b.vpn \/ b.vpn + b.n <= a.vpn
AllApart(A) == \A a, b \in A : a = b \/ Apart(a, b)
Within(A, lo, hi) == \A a \in A : lo <= a.vpn /\ a.vpn + a.n <= hi
Held(A) == UNION {PagesFrom(a.vpn, a.n) : a \in A}

\* What is held was handed out, side by side, by vma.c.
AreaInv ==
    /\ heap \subseteq Areas /\ users \subseteq Areas /\ stacks \subseteq StackAreas
    /\ \A t \in stacks : t.base = StackBase(t.vpn)
    /\ vma_user_alloc_vpn \in Nat /\ UserBase <= vma_user_alloc_vpn
    /\ vma_user_alloc_vpn = UserBase \/ vma_user_alloc_vpn < UserLimit
    /\ vma_kernel_alloc_vpn \in Nat /\ KernelBase <= vma_kernel_alloc_vpn
    /\ vma_kernel_alloc_vpn = KernelBase \/ vma_kernel_alloc_vpn < KernelLimit
    /\ Within(heap, KernelBase, vma_kernel_alloc_vpn)
    /\ Within(stacks, KernelBase, vma_kernel_alloc_vpn)
    /\ Within(users, UserBase, vma_user_alloc_vpn)
    /\ AllApart(heap) /\ AllApart(stacks) /\ AllApart(users)
    /\ \A a \in heap : \A t \in stacks : Apart(a, t)

\* The memory m, where the pages L are held, the stacks S among them, and u
\* and k are the next pages of the two areas: held pages have their frames,
\* those of a stack in one run; no page is mapped that was never handed out;
\* and those that are mapped and not held are in h or the user's.
MemOk(m, L, S, h, u, k) ==
    /\ Sound(m) /\ Owns(m, L)
    /\ \A t \in S : \A v \in PagesFrom(t.vpn, t.n) :
          m.pte[v] = m.pte[t.vpn] + (v - t.vpn)
    /\ \A v \in Pages : m.pte[v] # 0 =>
          /\ (UserBase <= v /\ v < u) \/ (KernelBase <= v /\ v < k)
          /\ v \in L \/ v \in h \/ v <= UserLimit

MemInv == MemOk(M, LivePages, stacks, halfMapped, vma_user_alloc_vpn,
                vma_kernel_alloc_vpn)

\* After a panic, or with a page number from nowhere, nothing is claimed of
\* the memory.
KmInv == AreaInv /\ (Running => MemInv)

\* An area is added at the end, or none.
LEMMA MoreAreas ==
    ASSUME NEW A, NEW T \in SUBSET Areas \cup StackAreas, A \subseteq T, AllApart(A),
           NEW lo \in Nat, NEW hi \in Nat, lo <= hi, NEW n \in Nat \ {0},
           Within(A, lo, hi), NEW a \in T, a.vpn = hi, a.n = n
    PROVE  /\ AllApart(A \cup {a}) /\ Within(A \cup {a}, lo, hi + n)
           /\ Within(A, lo, hi + n) /\ \A b \in A : Apart(a, b) /\ Apart(b, a)
<1>1. \A b \in A : b.vpn \in Nat /\ b.n \in Nat /\ b.vpn + b.n <= hi /\ lo <= b.vpn
  BY DEF Areas, StackAreas, Within
<1>2. \A b \in A : Apart(a, b) /\ Apart(b, a)
  BY <1>1 DEF Apart
<1>3. Within(A \cup {a}, lo, hi + n) /\ Within(A, lo, hi + n)
  BY <1>1 DEF Within
<1> QED
  BY <1>2, <1>3 DEF AllApart

\* The kernel hands out n pages, to the heap or to a stack.
LEMMA KernelAreas ==
    ASSUME AreaInv, NEW n \in 1..MaxPages,
           VmaRoom(vma_kernel_alloc_vpn, n, KernelLimit),
           vma_kernel_alloc_vpn' = vma_kernel_alloc_vpn + n,
           \/ /\ stacks' = stacks
              /\ heap' = heap \/ heap' = heap \cup {[vpn |-> vma_kernel_alloc_vpn, n |-> n]}
           \/ /\ heap' = heap
              /\ stacks' = stacks \cup
                    {[vpn |-> vma_kernel_alloc_vpn, n |-> n,
                      base |-> StackBase(vma_kernel_alloc_vpn)]},
           UNCHANGED <<users, vma_user_alloc_vpn>>
    PROVE  AreaInv'
<1> DEFINE k == vma_kernel_alloc_vpn
           a == [vpn |-> k, n |-> n]
           t == [vpn |-> k, n |-> n, base |-> StackBase(k)]
<1>1. /\ k \in Nat /\ n \in Nat \ {0} /\ k' = k + n /\ k + n < KernelLimit
      /\ KernelBase \in Nat /\ KernelBase <= k /\ KernelLimit \in Nat
      /\ StackBase(k) \in Nat
  BY KernelMemoryAssumption DEF AreaInv, VmaRoom, StackBase
<1>2. a \in Areas /\ a.vpn = k /\ a.n = n
  BY <1>1 DEF Areas
<1>3. t \in StackAreas /\ t.vpn = k /\ t.n = n /\ t.base = StackBase(t.vpn)
  BY <1>1 DEF StackAreas
<1>4. /\ heap \subseteq Areas /\ stacks \subseteq StackAreas /\ AllApart(heap)
      /\ AllApart(stacks) /\ Within(heap, KernelBase, k)
      /\ Within(stacks, KernelBase, k) /\ \A b \in heap : \A u \in stacks : Apart(b, u)
      /\ \A u \in stacks : u.base = StackBase(u.vpn)
  BY DEF AreaInv
<1> HIDE DEF a, t
<1>5. /\ AllApart(heap \cup {a}) /\ Within(heap \cup {a}, KernelBase, k + n)
      /\ Within(heap, KernelBase, k + n)
      /\ \A b \in heap : Apart(b, t)
  <2>1. \A b \in heap : Apart(a, b) /\ Apart(b, a)
    BY <1>1, <1>2, <1>4, MoreAreas, Zenon
  <2>2. \A b \in heap : Apart(b, t)
    BY <2>1, <1>2, <1>3 DEF Apart
  <2> QED
    BY <1>1, <1>2, <1>4, <2>2, MoreAreas
<1>6. /\ AllApart(stacks \cup {t}) /\ Within(stacks \cup {t}, KernelBase, k + n)
      /\ Within(stacks, KernelBase, k + n)
      /\ \A u \in stacks : Apart(a, u)
  <2>1. \A u \in stacks : Apart(t, u) /\ Apart(u, t)
    BY <1>1, <1>3, <1>4, MoreAreas, Zenon
  <2>2. \A u \in stacks : Apart(a, u)
    BY <2>1, <1>2, <1>3 DEF Apart
  <2> QED
    BY <1>1, <1>3, <1>4, <2>2, MoreAreas, Zenon
<1>7. /\ users' = users /\ vma_user_alloc_vpn' = vma_user_alloc_vpn
      /\ \/ stacks' = stacks /\ (heap' = heap \/ heap' = heap \cup {a})
         \/ heap' = heap /\ stacks' = stacks \cup {t}
  BY DEF a, t
<1>8. /\ heap' \subseteq Areas /\ stacks' \subseteq StackAreas
      /\ \A u \in stacks' : u.base = StackBase(u.vpn)
  BY <1>2, <1>3, <1>4, <1>7
<1>9. /\ AllApart(heap') /\ Within(heap', KernelBase, k')
      /\ AllApart(stacks') /\ Within(stacks', KernelBase, k')
      /\ \A b \in heap' : \A u \in stacks' : Apart(b, u)
  BY <1>1, <1>4, <1>5, <1>6, <1>7, Zenon
<1>10. KernelBase <= k' /\ k' \in Nat /\ k' < KernelLimit
  BY <1>1
<1> QED
  BY <1>7, <1>8, <1>9, <1>10 DEF AreaInv

\* The user is handed n pages.
LEMMA UserAreas ==
    ASSUME AreaInv, NEW n \in 1..MaxPages,
           VmaRoom(vma_user_alloc_vpn, n, UserLimit),
           vma_user_alloc_vpn' = vma_user_alloc_vpn + n,
           \/ users' = users
           \/ users' = users \cup {[vpn |-> vma_user_alloc_vpn, n |-> n]},
           UNCHANGED <<heap, stacks, vma_kernel_alloc_vpn>>
    PROVE  AreaInv'
<1> DEFINE k == vma_user_alloc_vpn
           a == [vpn |-> k, n |-> n]
<1>1. /\ k \in Nat /\ n \in Nat \ {0} /\ k' = k + n /\ k + n < UserLimit
      /\ UserBase \in Nat /\ UserBase <= k /\ UserLimit \in Nat
  BY KernelMemoryAssumption DEF AreaInv, VmaRoom
<1>2. a \in Areas /\ a.vpn = k /\ a.n = n
  BY <1>1 DEF Areas
<1>4. users \subseteq Areas /\ AllApart(users) /\ Within(users, UserBase, k)
  BY DEF AreaInv
<1> HIDE DEF a
<1>5. /\ AllApart(users \cup {a}) /\ Within(users \cup {a}, UserBase, k + n)
      /\ Within(users, UserBase, k + n)
  BY <1>1, <1>2, <1>4, MoreAreas
<1>7. users' = users \/ users' = users \cup {a}
  BY DEF a
<1>8. users' \subseteq Areas /\ AllApart(users') /\ Within(users', UserBase, k')
  BY <1>1, <1>2, <1>4, <1>5, <1>7
<1>10. UserBase <= k' /\ k' \in Nat /\ k' < UserLimit
  BY <1>1
<1> QED
  BY <1>8, <1>10 DEF AreaInv

\* Something is given back, or nothing.
LEMMA LessAreas ==
    ASSUME AreaInv, heap' \subseteq heap, stacks' \subseteq stacks,
           users' \subseteq users, UNCHANGED spaces
    PROVE  AreaInv'
BY DEF AreaInv, spaces, AllApart, Within

\* Every step keeps the areas as they should be.
LEMMA AreaStep ==
    ASSUME AreaInv, [KmNext]_kmvars
    PROVE  AreaInv'
<1>1. ASSUME NEW n \in 1..MaxPages, liballoc_alloc(n) PROVE AreaInv'
  BY <1>1, KernelAreas DEF liballoc_alloc
<1>2. ASSUME NEW n \in 1..MaxPages, thread_allocate_kthread_stack(n) PROVE AreaInv'
  BY <1>2, KernelAreas DEF thread_allocate_kthread_stack
<1>3. ASSUME NEW n \in 1..MaxPages, mm_allocate_pages(n) PROVE AreaInv'
  <2>1. CASE VmaRoom(vma_user_alloc_vpn, n, UserLimit)
    BY <1>3, <2>1, UserAreas DEF mm_allocate_pages
  <2>2. CASE ~VmaRoom(vma_user_alloc_vpn, n, UserLimit)
    BY <1>3, <2>2, LessAreas DEF mm_allocate_pages
  <2> QED
    BY <2>1, <2>2
<1>4. ASSUME NEW a \in heap, liballoc_free(a) PROVE AreaInv'
  BY <1>4, LessAreas DEF liballoc_free
<1>5. ASSUME NEW t \in stacks, thread_free_kthread_stack(t) PROVE AreaInv'
  BY <1>5, LessAreas DEF thread_free_kthread_stack
<1>6. ASSUME NEW a \in users, mm_free_pages(a) PROVE AreaInv'
  BY <1>6, LessAreas DEF mm_free_pages
<1>7. CASE UNCHANGED kmvars
  BY <1>7, LessAreas DEF kmvars, spaces
<1> QED
  BY <1>1, <1>2, <1>3, <1>4, <1>5, <1>6, <1>7, ZenonT(30) DEF KmNext

\* At the start nothing is held.
LEMMA AreaInit == KmInit => AreaInv
BY KernelMemoryAssumption DEF KmInit, AreaInv, Within, AllApart

\* The areas of the heap and of the stacks never overlap, for every size of
\* the kernel's area and of the requests (vma.c:72-79).
THEOREM AreasAreDisjoint == KmSpec => []AreasDisjoint
<1>1. AreaInv => AreasDisjoint
  <2> DEFINE S == {[vpn |-> t.vpn, n |-> t.n] : t \in stacks}
             k == vma_kernel_alloc_vpn
  <2> SUFFICES ASSUME AreaInv, NEW a \in heap \cup S
               PROVE  /\ a.vpn >= KernelBase /\ a.vpn + a.n <= k /\ k <= KernelLimit
                      /\ \A b \in heap \cup S : \/ a = b \/ a.vpn + a.n <= b.vpn
                                               \/ b.vpn + b.n <= a.vpn
    BY DEF AreasDisjoint
  <2>1. /\ heap \subseteq Areas /\ stacks \subseteq StackAreas /\ k \in Nat
        /\ k = KernelBase \/ k < KernelLimit
        /\ \A b \in heap \cup stacks : KernelBase <= b.vpn /\ b.vpn + b.n <= k
        /\ \A b, c \in heap \cup stacks : b = c \/ Apart(b, c)
    BY DEF AreaInv, Within, AllApart, Apart
  <2>2. \A b \in heap \cup S : \E c \in heap \cup stacks :
            /\ b.vpn = c.vpn /\ b.n = c.n /\ b = [vpn |-> c.vpn, n |-> c.n]
            /\ c.vpn \in Nat /\ c.n \in Nat \ {0}
    BY <2>1 DEF Areas, StackAreas
  <2>3. PICK c \in heap \cup stacks :
            /\ a.vpn = c.vpn /\ a.n = c.n /\ a = [vpn |-> c.vpn, n |-> c.n]
            /\ c.vpn \in Nat /\ c.n \in Nat \ {0}
    BY <2>2
  <2>4. a.vpn >= KernelBase /\ a.vpn + a.n <= k /\ k <= KernelLimit
    <3>1. KernelBase <= c.vpn /\ c.vpn + c.n <= k
      BY <2>1
    <3>2. KernelBase \in Nat /\ KernelLimit \in Nat
      BY KernelMemoryAssumption
    <3> QED
      BY <2>1, <2>3, <3>1, <3>2
  <2>5. ASSUME NEW b \in heap \cup S
        PROVE  a = b \/ a.vpn + a.n <= b.vpn \/ b.vpn + b.n <= a.vpn
    <3>1. PICK d \in heap \cup stacks :
            /\ b.vpn = d.vpn /\ b.n = d.n /\ b = [vpn |-> d.vpn, n |-> d.n]
      BY <2>2
    <3> QED
      BY <2>1, <2>3, <3>1 DEF Apart
  <2> QED
    BY <2>4, <2>5
<1> QED
  BY <1>1, AreaInit, AreaStep, PTL DEF KmSpec

----------------------------------------------------------------------------
(* The pages that are held.                                                 *)

\* The held pages are those of the heap, the users and the stacks.
LEMMA LiveIsHeld == LivePages = Held(heap) \cup Held(users) \cup Held(stacks)
<1> DEFINE A == {[vpn |-> t.vpn, n |-> t.n] : t \in stacks}
<1>1. Held(A) = Held(stacks)
  <2>1. ASSUME NEW t \in stacks PROVE \E a \in A : a.vpn = t.vpn /\ a.n = t.n
    <3> DEFINE a == [vpn |-> t.vpn, n |-> t.n]
    <3>1. a \in A /\ a.vpn = t.vpn /\ a.n = t.n
      OBVIOUS
    <3> QED
      BY <3>1, Zenon
  <2>2. \A a \in A : \E t \in stacks : a.vpn = t.vpn /\ a.n = t.n
    OBVIOUS
  <2> HIDE DEF A
  <2> QED
    BY <2>1, <2>2 DEF Held
<1> HIDE DEF A
<1>2. UNION {PagesFrom(a.vpn, a.n) : a \in heap \cup users \cup A}
        = Held(heap) \cup Held(users) \cup Held(A)
  BY DEF Held
<1> QED
  BY <1>1, <1>2 DEF LivePages, Live, A

\* One more area is held.
LEMMA HeldMore ==
    ASSUME NEW A, NEW a
    PROVE  Held(A \cup {a}) = Held(A) \cup PagesFrom(a.vpn, a.n)
BY DEF Held

\* Areas that are apart have no page in common.
LEMMA HeldApart ==
    ASSUME NEW T \in SUBSET Areas \cup StackAreas, NEW a \in T, NEW B \in SUBSET T,
           \A b \in B : Apart(a, b)
    PROVE  Held(B) \cap PagesFrom(a.vpn, a.n) = {}
<1> SUFFICES ASSUME NEW b \in B, NEW v \in PagesFrom(a.vpn, a.n),
                    v \in PagesFrom(b.vpn, b.n)
             PROVE  FALSE
  BY DEF Held
<1>1. /\ a.vpn \in Nat /\ a.n \in Nat /\ b.vpn \in Nat /\ b.n \in Nat
      /\ Apart(a, b)
  BY DEF Areas, StackAreas
<1> QED
  BY <1>1 DEF Apart, PagesFrom

\* One area less is held, and the others have none of its pages.
LEMMA HeldLess ==
    ASSUME NEW T \in SUBSET Areas \cup StackAreas, NEW A \in SUBSET T, AllApart(A),
           NEW a \in A
    PROVE  Held(A \ {a}) = Held(A) \ PagesFrom(a.vpn, a.n)
<1>1. Held(A \ {a}) \cap PagesFrom(a.vpn, a.n) = {}
  BY HeldApart DEF AllApart
<1>2. Held(A) = Held(A \ {a}) \cup PagesFrom(a.vpn, a.n)
  BY DEF Held
<1> QED
  BY <1>1, <1>2

\* Held pages are where their areas are.
LEMMA HeldWithin ==
    ASSUME NEW T \in SUBSET Areas \cup StackAreas, NEW A \in SUBSET T,
           NEW lo \in Nat, NEW hi \in Nat, Within(A, lo, hi), NEW v \in Held(A)
    PROVE  v \in Nat /\ lo <= v /\ v < hi
<1>1. PICK a \in A : v \in PagesFrom(a.vpn, a.n)
  BY DEF Held
<1>2. a.vpn \in Nat /\ a.n \in Nat /\ lo <= a.vpn /\ a.vpn + a.n <= hi
  BY DEF Areas, StackAreas, Within
<1> QED
  BY <1>1, <1>2 DEF PagesFrom

\* They are pages of the two areas, below the next page of each.
LEMMA LiveWithin ==
    ASSUME AreaInv
    PROVE  /\ LivePages \in SUBSET Pages
           /\ \A v \in LivePages :
                 \/ UserBase <= v /\ v < vma_user_alloc_vpn
                 \/ KernelBase <= v /\ v < vma_kernel_alloc_vpn
<1> SUFFICES ASSUME NEW v \in LivePages
             PROVE  /\ v \in Pages
                    /\ \/ UserBase <= v /\ v < vma_user_alloc_vpn
                       \/ KernelBase <= v /\ v < vma_kernel_alloc_vpn
  OBVIOUS
<1>c. /\ UserBase \in Nat /\ UserLimit \in Nat /\ KernelBase \in Nat
      /\ KernelLimit \in Nat /\ UserLimit <= Size /\ KernelLimit <= Size
      /\ Size \in Nat /\ Pages = 0..(Size - 1)
  BY KernelMemoryAssumption, SizeNat DEF Pages, Size
<1>1. CASE v \in Held(users)
  <2>1. v \in Nat /\ UserBase <= v /\ v < vma_user_alloc_vpn
    BY <1>1, <1>c, HeldWithin, Zenon DEF AreaInv
  <2>2. vma_user_alloc_vpn \in Nat /\ vma_user_alloc_vpn < UserLimit
    BY <2>1, <1>c DEF AreaInv
  <2> QED
    BY <2>1, <2>2, <1>c
<1>2. CASE v \in Held(heap) \cup Held(stacks)
  <2>1. v \in Nat /\ KernelBase <= v /\ v < vma_kernel_alloc_vpn
    BY <1>2, <1>c, HeldWithin, Zenon DEF AreaInv
  <2>2. vma_kernel_alloc_vpn \in Nat /\ vma_kernel_alloc_vpn < KernelLimit
    BY <2>1, <1>c DEF AreaInv
  <2> QED
    BY <2>1, <2>2, <1>c
<1> QED
  BY <1>1, <1>2, LiveIsHeld

----------------------------------------------------------------------------
(* The steps.                                                               *)

\* SetM gives the memory its new value.
LEMMA NewM ==
    ASSUME NEW k \in Mem, SetM(k)
    PROVE  M' = k
BY DEF SetM, M, Mem

\* The pages of a stack are held.
LEMMA StackPages ==
    ASSUME AreaInv, NEW t \in stacks
    PROVE  /\ t.vpn \in Nat /\ t.n \in Nat \ {0} /\ t.vpn \in PagesFrom(t.vpn, t.n)
           /\ PagesFrom(t.vpn, t.n) \subseteq LivePages
           /\ PagesFrom(t.vpn, t.n) \subseteq Pages
<1>1. t.vpn \in Nat /\ t.n \in Nat \ {0}
  BY DEF AreaInv, StackAreas
<1>2. t.vpn \in PagesFrom(t.vpn, t.n)
  BY <1>1 DEF PagesFrom
<1>3. PagesFrom(t.vpn, t.n) \subseteq LivePages
  BY LiveIsHeld DEF Held
<1> QED
  BY <1>1, <1>2, <1>3, LiveWithin, Zenon

\* The pages the kernel, or the user, is handed are new.
NewPages(vpn, n) ==
    /\ Fresh(M, vpn, n) /\ LivePages \cap PagesFrom(vpn, n) = {}

\* vma.c hands the kernel pages that nobody holds and that are not mapped
\* (vma.c:72-79).
LEMMA FreshKernel ==
    ASSUME AreaInv, MemInv, NEW n \in Nat \ {0},
           VmaRoom(vma_kernel_alloc_vpn, n, KernelLimit)
    PROVE  /\ NewPages(vma_kernel_alloc_vpn, n)
           /\ \A v \in PagesFrom(vma_kernel_alloc_vpn, n) :
                 KernelBase <= v /\ v < vma_kernel_alloc_vpn + n
<1> DEFINE k == vma_kernel_alloc_vpn
           u == vma_user_alloc_vpn
<1>c. /\ UserBase \in Nat /\ UserLimit \in Nat /\ KernelBase \in Nat
      /\ KernelLimit \in Nat /\ KernelLimit <= Size /\ UserLimit < KernelBase
      /\ Size \in Nat /\ Pages = 0..(Size - 1)
  BY KernelMemoryAssumption, SizeNat DEF Pages, Size
<1>1. /\ k \in Nat /\ u \in Nat /\ KernelBase <= k /\ k + n < KernelLimit
      /\ u = UserBase \/ u < UserLimit
  BY DEF AreaInv, VmaRoom
<1> HIDE DEF k, u
<1>2. ASSUME NEW v \in PagesFrom(k, n)
      PROVE  /\ v \in Pages /\ KernelBase <= v /\ v < k + n
             /\ ~(UserBase <= v /\ v < u) /\ ~(KernelBase <= v /\ v < k)
  BY <1>c, <1>1 DEF PagesFrom
<1>3. \A v \in PagesFrom(k, n) : pte[v] = 0
  BY <1>2 DEF MemInv, MemOk, M, k, u
<1>4. LivePages \cap PagesFrom(k, n) = {}
  BY <1>2, LiveWithin DEF k, u
<1>5. Sound(M)
  BY DEF MemInv, MemOk
<1> QED
  BY <1>1, <1>2, <1>3, <1>4, <1>5, Zenon DEF NewPages, Fresh, M, k

\* vma.c hands the user pages that nobody holds and that are not mapped
\* (vma.c:80-88).
LEMMA FreshUser ==
    ASSUME AreaInv, MemInv, NEW n \in Nat \ {0},
           VmaRoom(vma_user_alloc_vpn, n, UserLimit)
    PROVE  /\ NewPages(vma_user_alloc_vpn, n)
           /\ \A v \in PagesFrom(vma_user_alloc_vpn, n) :
                 UserBase <= v /\ v < vma_user_alloc_vpn + n /\ v <= UserLimit
<1> DEFINE k == vma_kernel_alloc_vpn
           u == vma_user_alloc_vpn
<1>c. /\ UserBase \in Nat /\ UserLimit \in Nat /\ KernelBase \in Nat
      /\ UserLimit <= Size /\ UserLimit < KernelBase
      /\ Size \in Nat /\ Pages = 0..(Size - 1)
  BY KernelMemoryAssumption, SizeNat DEF Pages, Size
<1>1. u \in Nat /\ UserBase <= u /\ u + n < UserLimit
  BY DEF AreaInv, VmaRoom
<1> HIDE DEF k, u
<1>2. ASSUME NEW v \in PagesFrom(u, n)
      PROVE  /\ v \in Pages /\ UserBase <= v /\ v < u + n /\ v <= UserLimit
             /\ ~(UserBase <= v /\ v < u) /\ ~(KernelBase <= v /\ v < k)
  BY <1>c, <1>1 DEF PagesFrom
<1>3. \A v \in PagesFrom(u, n) : pte[v] = 0
  BY <1>2 DEF MemInv, MemOk, M, k, u
<1>4. LivePages \cap PagesFrom(u, n) = {}
  BY <1>2, LiveWithin DEF k, u
<1>5. Sound(M)
  BY DEF MemInv, MemOk
<1> QED
  BY <1>1, <1>2, <1>3, <1>4, <1>5, ZenonT(30) DEF NewPages, Fresh, M, u

\* From m to k every page is as it was, and every frame but those of new page
\* tables.
TakenBack(m, k, L) ==
    /\ Sound(k) /\ Owns(k, L) /\ k.panic = FALSE
    /\ \A v \in Pages : k.pte[v] = m.pte[v]
    /\ \A f \in Frames : k.frames[f] # m.frames[f] =>
          m.frames[f] = "FREE" /\ \E d \in Dirs : k.pde[d] = f

\* liballoc_alloc fails.
LEMMA HeapFails ==
    ASSUME NEW m, NEW vpn, NEW n, Fresh(m, vpn, n), m.panic = FALSE,
           NEW L \in SUBSET Pages, Owns(m, L), L \cap PagesFrom(vpn, n) = {},
           NEW r, r = MapHeap(m, vpn, n), NEW k, k = ReleaseAll(r.m, vpn, r.done)
    PROVE  TakenBack(m, k, L)
<1> DEFINE q == r.m
           R == PagesFrom(vpn, r.done)
<1>0. r.done \in 0..n /\ Grown(m, q, R, {}) /\ n \in Nat /\ vpn \in Nat /\ Sound(m)
  BY HeapMapped DEF HeapInv, Fresh
<1>1. R \subseteq PagesFrom(vpn, n) /\ r.done \in Nat
  BY <1>0 DEF PagesFrom
<1>2. /\ \A v \in R : m.pte[v] = 0
      /\ L \cap R = {}
  BY <1>1 DEF Fresh
<1>3. Sound(q) /\ q \in Mem /\ q.panic = FALSE /\ R \subseteq Pages
  BY <1>0, GrownSound, Zenon
<1> HIDE DEF q, R
<1>4. Owns(q, L \cup R)
  BY <1>0, <1>2, GrownOwns, Zenon
<1>5. k = Released(q, R)
  <2> DEFINE K == L \cup R
             i == r.done
  <2>1. /\ K \in SUBSET Pages /\ PagesFrom(vpn, i) \subseteq K /\ Owns(q, K)
        /\ i \in Nat
    BY <1>1, <1>3, <1>4, Zenon DEF R
  <2> HIDE DEF K, i
  <2>2. ReleaseAll(q, vpn, i) = Released(q, PagesFrom(vpn, i))
    BY <1>0, <1>3, <2>1, AllReleased, Zenon
  <2> QED
    BY <2>2 DEF q, R, i
<1>6. Sound(k) /\ Owns(k, (L \cup R) \ R)
  BY <1>3, <1>4, <1>5, ReleasedOwns
<1>7. (L \cup R) \ R = L
  BY <1>2, Zenon
<1>8. /\ k.pde = q.pde /\ k.panic = FALSE
      /\ \A v \in Pages : k.pte[v] = IF v \in R THEN 0 ELSE q.pte[v]
      /\ \A f \in Frames : k.frames[f] = IF f \in FramesOf(q, R) THEN "FREE"
                                         ELSE q.frames[f]
  BY <1>3, <1>5, ReleasedIs
<1>9. \A v \in Pages : k.pte[v] = m.pte[v]
  BY <1>0, <1>2, <1>8, ZenonT(30) DEF Grown
<1>10. ASSUME NEW f \in Frames, k.frames[f] # m.frames[f]
       PROVE  m.frames[f] = "FREE" /\ \E d \in Dirs : k.pde[d] = f
  <2>1. \A v \in R : m.frames[q.pte[v]] = "FREE"
    BY <1>0, Zenon DEF Grown
  <2>2. f \notin FramesOf(q, R)
    BY <1>8, <1>10, <2>1, Zenon DEF FramesOf
  <2>3. m.frames[f] # q.frames[f]
    BY <1>8, <1>10, <2>2, Zenon
  <2>4. \E d \in Dirs : q.pde[d] = f
    BY <1>0, <2>2, <2>3 DEF Grown, FramesOf
  <2>5. m.frames[f] = "FREE"
    <3>1. m \in Mem
      BY <1>0, Zenon DEF Sound
    <3>2. /\ m.frames[f] = "FREE" \/ m.frames[f] = "ALLOCATED"
          /\ q.frames[f] = "FREE" \/ q.frames[f] = "ALLOCATED"
      BY <1>3, <3>1, MemTypes
    <3> QED
      BY <1>0, <2>3, <3>2, Zenon DEF Grown
  <2> QED
    BY <1>8, <2>4, <2>5, Zenon
<1> QED
  BY <1>6, <1>7, <1>8, <1>9, <1>10, Zenon DEF TakenBack

\* LiveIsHeld, after a step.
LEMMA NextLiveIsHeld == (LivePages = Held(heap) \cup Held(users) \cup Held(stacks))'
BY LiveIsHeld, PTL

\* The pages that are held after a step.
LEMMA NextLive ==
    LivePages' = Held(heap') \cup Held(users') \cup Held(stacks')
BY NextLiveIsHeld DEF Held

\* A step to the memory q, in which the pages R are mapped or unmapped; the
\* stacks that stay have none of R.
LEMMA StepOk ==
    ASSUME AreaInv, MemInv, AreaInv', NEW q, SetM(q), Sound(q), Owns(q, LivePages'),
           NEW R, \A v \in Pages \ R : q.pte[v] = pte[v],
           LivePages \subseteq LivePages' \cup R, halfMapped \subseteq halfMapped',
           vma_user_alloc_vpn <= vma_user_alloc_vpn',
           vma_kernel_alloc_vpn <= vma_kernel_alloc_vpn',
           \A v \in Pages \cap R : q.pte[v] # 0 =>
              /\ \/ UserBase <= v /\ v < vma_user_alloc_vpn'
                 \/ KernelBase <= v /\ v < vma_kernel_alloc_vpn'
              /\ v \in LivePages' \/ v \in halfMapped' \/ v <= UserLimit,
           NEW S \in SUBSET stacks, \A t \in S : PagesFrom(t.vpn, t.n) \cap R = {}
    PROVE  /\ M' = q
           /\ MemOk(q, LivePages', S, halfMapped', vma_user_alloc_vpn',
                    vma_kernel_alloc_vpn')
<1>1. M' = q
  BY NewM DEF Sound
<1>2. \A t \in S : /\ PagesFrom(t.vpn, t.n) \subseteq Pages \ R
                   /\ t.vpn \in PagesFrom(t.vpn, t.n)
  BY StackPages
<1>3. \A v \in Pages \ R : q.pte[v] = M.pte[v]
  BY Zenon DEF M
<1> DEFINE L2 == LivePages'
           h2 == halfMapped'
           u2 == vma_user_alloc_vpn'
           k2 == vma_kernel_alloc_vpn'
<1>4. /\ u2 \in Nat /\ k2 \in Nat /\ vma_user_alloc_vpn \in Nat
      /\ vma_kernel_alloc_vpn \in Nat
  BY DEF AreaInv
<1>5. /\ Owns(q, L2) /\ LivePages \subseteq L2 \cup R /\ halfMapped \subseteq h2
      /\ vma_user_alloc_vpn <= u2 /\ vma_kernel_alloc_vpn <= k2
      /\ \A v \in Pages \cap R : q.pte[v] # 0 =>
            /\ (UserBase <= v /\ v < u2) \/ (KernelBase <= v /\ v < k2)
            /\ v \in L2 \/ v \in h2 \/ v <= UserLimit
  OBVIOUS
<1> HIDE DEF L2, h2, u2, k2
<1>6. MemOk(M, LivePages, stacks, halfMapped, vma_user_alloc_vpn,
            vma_kernel_alloc_vpn)
  BY DEF MemInv
<1>7. \A t \in S : \A v \in PagesFrom(t.vpn, t.n) :
          q.pte[v] = q.pte[t.vpn] + (v - t.vpn)
  BY <1>2, <1>3, <1>6, Zenon DEF MemOk
<1>8. ASSUME NEW v \in Pages, q.pte[v] # 0
      PROVE  /\ (UserBase <= v /\ v < u2) \/ (KernelBase <= v /\ v < k2)
             /\ v \in L2 \/ v \in h2 \/ v <= UserLimit
  <2>1. CASE v \in R
    BY <1>5, <1>8, <2>1, Zenon
  <2>2. CASE v \notin R
    <3>1. M.pte[v] # 0 /\ v \in Nat
      BY <1>3, <1>8, <2>2, InRange, Zenon
    <3>2. /\ \/ UserBase <= v /\ v < vma_user_alloc_vpn
             \/ KernelBase <= v /\ v < vma_kernel_alloc_vpn
          /\ v \in LivePages \/ v \in halfMapped \/ v <= UserLimit
      BY <1>6, <3>1, Zenon DEF MemOk
    <3> QED
      BY <1>4, <1>5, <3>1, <3>2, <2>2
  <2> QED
    BY <2>1, <2>2
<1>9. MemOk(q, L2, S, h2, u2, k2)
  BY <1>5, <1>7, <1>8, Zenon DEF MemOk
<1> QED
  BY <1>1, <1>9 DEF L2, h2, u2, k2

\* No stack has one of the new pages.
LEMMA StacksKept ==
    ASSUME AreaInv, NEW R, LivePages \cap R = {}
    PROVE  \A t \in stacks : PagesFrom(t.vpn, t.n) \cap R = {}
BY StackPages

\* The heap gets its pages, or everything is taken back.
LEMMA HeapStep ==
    ASSUME AreaInv, MemInv, AreaInv', NEW n \in Nat \ {0}, liballoc_alloc(n)
    PROVE  MemInv'
<1> DEFINE vpn == vma_kernel_alloc_vpn
           r == MapHeap(M, vpn, n)
           R == PagesFrom(vpn, n)
<1>1. /\ NewPages(vpn, n) /\ \A v \in R : KernelBase <= v /\ v < vpn + n
      /\ M.panic = FALSE
  <2>1. Sound(M) /\ ~M.panic
    BY DEF MemInv, MemOk, liballoc_alloc, Running, M
  <2>2. M.panic = FALSE
    BY <2>1, Zenon DEF Sound, Mem
  <2> QED
    BY <2>2, FreshKernel, Zenon DEF liballoc_alloc
<1>2. /\ Fresh(M, vpn, n) /\ LivePages \cap R = {} /\ Sound(M) /\ Owns(M, LivePages)
      /\ LivePages \in SUBSET Pages
  BY <1>1, LiveWithin DEF NewPages, MemInv, MemOk
<1>3. \A t \in stacks : PagesFrom(t.vpn, t.n) \cap R = {}
  BY <1>2, StacksKept, Zenon
<1>4. /\ vpn \in Nat /\ vpn' = vpn + n /\ vma_user_alloc_vpn' = vma_user_alloc_vpn
      /\ vma_user_alloc_vpn \in Nat /\ stacks' = stacks /\ users' = users
      /\ halfMapped' = halfMapped
  BY DEF liballoc_alloc, AreaInv
<1>5. \/ r.ok /\ SetM(r.m) /\ heap' = heap \cup {[vpn |-> vpn, n |-> n]}
      \/ SetM(ReleaseAll(r.m, vpn, r.done)) /\ heap' = heap
  BY DEF liballoc_alloc
<1>6. HeapInv(M, vpn, n, r) /\ r = MapHeap(M, vpn, n) /\ R = PagesFrom(vpn, n)
  BY <1>2, HeapMapped
<1> HIDE DEF vpn, r, R
<1>7. CASE r.ok /\ SetM(r.m) /\ heap' = heap \cup {[vpn |-> vpn, n |-> n]}
  <2> DEFINE q == r.m
  <2>1. Grown(M, q, R, {})
    BY <1>6, <1>7 DEF HeapInv
  <2>2. LivePages' = LivePages \cup R
    <3>1. Held(heap') = Held(heap) \cup R
      BY <1>6, <1>7, HeldMore, Zenon
    <3> QED
      BY <3>1, <1>4, LiveIsHeld, NextLive, Zenon
  <2>3. SetM(q)
    BY <1>7
  <2> HIDE DEF q
  <2>4. Sound(q) /\ Owns(q, LivePages')
    BY <2>1, <2>2, <1>2, GrownSound, GrownOwns, Zenon
  <2>5. \A v \in Pages \ R : q.pte[v] = pte[v]
    BY <2>1 DEF Grown, M
  <2>6. /\ vma_user_alloc_vpn <= vma_user_alloc_vpn' /\ vpn <= vpn'
        /\ \A v \in R : KernelBase <= v /\ v < vpn' /\ v \in LivePages'
    BY <1>1, <1>4, <2>2
  <2>7. M' = q /\ MemOk(q, LivePages', stacks, halfMapped', vma_user_alloc_vpn', vpn')
    BY <1>3, <1>4, <2>2, <2>3, <2>4, <2>5, <2>6, StepOk, Zenon DEF vpn
  <2> QED
    BY <1>4, <2>7 DEF MemInv, vpn
<1>8. CASE SetM(ReleaseAll(r.m, vpn, r.done)) /\ heap' = heap
  <2> DEFINE q == ReleaseAll(r.m, vpn, r.done)
  <2>2. LivePages' = LivePages
    BY <1>4, <1>8, LiveIsHeld, NextLive, Zenon
  <2>3. SetM(q) /\ q = ReleaseAll(r.m, vpn, r.done)
    BY <1>8
  <2> HIDE DEF q
  <2>1. TakenBack(M, q, LivePages)
    BY <1>1, <1>2, <1>6, <2>3, HeapFails, Zenon
  <2>4. Sound(q) /\ Owns(q, LivePages') /\ \A v \in Pages \ {} : q.pte[v] = pte[v]
    BY <2>1, <2>2 DEF M, TakenBack
  <2>5. /\ vma_user_alloc_vpn <= vma_user_alloc_vpn' /\ vpn <= vpn'
        /\ \A t \in stacks : PagesFrom(t.vpn, t.n) \cap {} = {}
    BY <1>4
  <2>6. M' = q /\ MemOk(q, LivePages', stacks, halfMapped', vma_user_alloc_vpn', vpn')
    BY <1>4, <2>2, <2>3, <2>4, <2>5, StepOk, Zenon DEF vpn
  <2> QED
    BY <1>4, <2>6 DEF MemInv, vpn
<1> QED
  BY <1>5, <1>7, <1>8, Zenon

\* The heap, the stacks and the users have no page in common.
LEMMA HoldersApart ==
    ASSUME AreaInv
    PROVE  /\ Held(heap) \cap Held(stacks) = {}
           /\ Held(users) \cap Held(heap) = {} /\ Held(users) \cap Held(stacks) = {}
<1>1. Held(heap) \cap Held(stacks) = {}
  <2> DEFINE T == Areas \cup StackAreas
  <2>1. heap \subseteq T /\ stacks \in SUBSET T /\ T \in SUBSET Areas \cup StackAreas
    BY DEF AreaInv
  <2>2. ASSUME NEW a \in heap
        PROVE  Held(stacks) \cap PagesFrom(a.vpn, a.n) = {}
    BY <2>1, HeldApart, Zenon DEF AreaInv
  <2> QED
    BY <2>2 DEF Held
<1>c. /\ UserBase \in Nat /\ UserLimit \in Nat /\ KernelBase \in Nat
      /\ UserLimit < KernelBase
  BY KernelMemoryAssumption
<1>2. \A v \in Held(users) : v \in Nat /\ v < UserLimit
  <2>1. \A v \in Held(users) : v \in Nat /\ UserBase <= v /\ v < vma_user_alloc_vpn
    BY <1>c, HeldWithin, Zenon DEF AreaInv
  <2> QED
    BY <1>c, <2>1 DEF AreaInv
<1>3. \A v \in Held(heap) \cup Held(stacks) : v \in Nat /\ KernelBase <= v
  BY <1>c, HeldWithin, Zenon DEF AreaInv
<1> QED
  BY <1>c, <1>1, <1>2, <1>3

\* The pages R are given back.
LEMMA FreedStep ==
    ASSUME AreaInv, MemInv, AreaInv', NEW R \in SUBSET LivePages,
           SetM(Released(M, R)), LivePages' = LivePages \ R,
           UNCHANGED <<spaces, halfMapped>>, stacks' \subseteq stacks,
           \A t \in stacks' : PagesFrom(t.vpn, t.n) \cap R = {}
    PROVE  MemInv'
<1> DEFINE q == Released(M, R)
<1>1. Sound(M) /\ M \in Mem /\ Owns(M, LivePages) /\ LivePages \in SUBSET Pages
  BY LiveWithin DEF MemInv, MemOk, Sound
<1>2. SetM(q) /\ Sound(q) /\ Owns(q, LivePages')
  BY <1>1, ReleasedOwns, Zenon
<1>3. /\ \A v \in Pages \ R : q.pte[v] = pte[v]
      /\ \A v \in Pages \cap R : q.pte[v] = 0
  BY <1>1, ReleasedIs DEF M
<1> HIDE DEF q
<1>4. /\ LivePages \subseteq LivePages' \cup R /\ halfMapped \subseteq halfMapped'
      /\ vma_user_alloc_vpn <= vma_user_alloc_vpn'
      /\ vma_kernel_alloc_vpn <= vma_kernel_alloc_vpn'
  BY DEF spaces, AreaInv
<1> DEFINE S == stacks'
<1>5. S \in SUBSET stacks /\ \A t \in S : PagesFrom(t.vpn, t.n) \cap R = {}
  OBVIOUS
<1> HIDE DEF S
<1>6. M' = q /\ MemOk(q, LivePages', S, halfMapped', vma_user_alloc_vpn',
                      vma_kernel_alloc_vpn')
  BY <1>2, <1>3, <1>4, <1>5, StepOk, Zenon
<1> QED
  BY <1>6, Zenon DEF S, MemInv

\* What the pages of a held area are released to.
LEMMA HeldReleased ==
    ASSUME AreaInv, MemInv, Running, NEW a, a.vpn \in Nat, a.n \in Nat,
           PagesFrom(a.vpn, a.n) \subseteq LivePages
    PROVE  ReleaseAll(M, a.vpn, a.n) = Released(M, PagesFrom(a.vpn, a.n))
<1>1. Sound(M) /\ ~M.panic /\ Owns(M, LivePages) /\ LivePages \in SUBSET Pages
  BY LiveWithin DEF MemInv, MemOk, Running, M
<1>2. M.panic = FALSE
  BY <1>1, Zenon DEF Sound, Mem
<1> QED
  BY <1>1, <1>2, AllReleased, Zenon

\* The user gives pages back.
LEMMA UserFreeStep ==
    ASSUME AreaInv, MemInv, AreaInv', NEW a \in users, mm_free_pages(a)
    PROVE  MemInv'
<1> DEFINE R == PagesFrom(a.vpn, a.n)
<1>1. /\ users \subseteq Areas /\ a.vpn \in Nat /\ a.n \in Nat /\ AllApart(users)
  BY DEF AreaInv, Areas
<1>2. R \subseteq Held(users) /\ R \subseteq LivePages
  BY LiveIsHeld DEF Held
<1>3. SetM(Released(M, R))
  BY <1>1, <1>2, HeldReleased, Zenon DEF mm_free_pages
<1>4. /\ UNCHANGED <<spaces, halfMapped, heap, stacks>> /\ users' = users \ {a}
  BY DEF mm_free_pages
<1>5. LivePages' = LivePages \ R
  <2>1. Held(users \ {a}) = Held(users) \ R
    BY <1>1, HeldLess, Zenon
  <2> QED
    BY <2>1, <1>2, <1>4, HoldersApart, LiveIsHeld, NextLive, Zenon
<1>6. \A t \in stacks' : PagesFrom(t.vpn, t.n) \cap R = {}
  BY <1>2, <1>4, HoldersApart, ZenonT(30) DEF Held
<1> HIDE DEF R
<1> QED
  BY <1>2, <1>3, <1>4, <1>5, <1>6, FreedStep, Zenon

\* The heap gives pages back; all of them are mapped.
LEMMA HeapFreeStep ==
    ASSUME AreaInv, MemInv, AreaInv', NEW a \in heap, liballoc_free(a)
    PROVE  MemInv'
<1> DEFINE R == PagesFrom(a.vpn, a.n)
<1>1. /\ heap \subseteq Areas /\ a.vpn \in Nat /\ a.n \in Nat /\ AllApart(heap)
  BY DEF AreaInv, Areas
<1>2. R \subseteq Held(heap) /\ R \subseteq LivePages
  BY LiveIsHeld DEF Held
<1>g. {v \in R : mm_vpn_to_pfn(M, v) = 0} = {}
  <2>1. ASSUME NEW v \in R PROVE mm_vpn_to_pfn(M, v) # 0
    <3>1. v \in Pages /\ M.pte[v] # 0
      BY <1>2, LiveWithin, Zenon DEF MemInv, MemOk, Owns
    <3>2. M.pde[TableOf(v)] # 0
      BY <3>1 DEF MemInv, MemOk, Sound
    <3> QED
      BY <3>1, <3>2, InRange, Zenon DEF mm_vpn_to_pfn
  <2> QED
    BY <2>1
<1>3. SetM(Released(M, R))
  <2>1. SetM(ReleaseAll(M, a.vpn, a.n)) /\ Running
    BY <1>g DEF liballoc_free
  <2> QED
    BY <1>1, <1>2, <2>1, HeldReleased
<1>4. /\ UNCHANGED <<spaces, halfMapped, users, stacks>> /\ heap' = heap \ {a}
  BY DEF liballoc_free
<1>5. LivePages' = LivePages \ R
  <2>1. Held(heap \ {a}) = Held(heap) \ R
    BY <1>1, HeldLess, Zenon
  <2> QED
    BY <2>1, <1>2, <1>4, HoldersApart, LiveIsHeld, NextLive, Zenon
<1>6. \A t \in stacks' : PagesFrom(t.vpn, t.n) \cap R = {}
  BY <1>2, <1>4, HoldersApart DEF Held
<1> HIDE DEF R
<1> QED
  BY <1>2, <1>3, <1>4, <1>5, <1>6, FreedStep

\* A stack goes, if its base leads to its first page.
LEMMA StackFreeStep ==
    ASSUME AreaInv, MemInv, AreaInv', NEW t \in stacks, thread_free_kthread_stack(t),
           Running'
    PROVE  MemInv'
<1> DEFINE R == PagesFrom(t.vpn, t.n)
           f == mm_vpn_to_pfn(M, t.base)
           k == mm_unmap(M, t.base, t.n)
<1>1. /\ t.vpn \in Nat /\ t.n \in Nat \ {0} /\ t.vpn \in R /\ t.base \in Nat
      /\ R \subseteq LivePages /\ R \in SUBSET Pages
      /\ stacks \subseteq StackAreas /\ AllApart(stacks)
  BY StackPages, Zenon DEF AreaInv, StackAreas
<1>2. /\ Sound(M) /\ M \in Mem /\ Owns(M, LivePages)
      /\ \A v \in R : M.pte[v] = M.pte[t.vpn] + (v - t.vpn)
  BY DEF MemInv, MemOk, Sound
<1>3. f # 0 /\ SetM(mm_pma_free_frame(k, f, t.n))
  <2>1. f # 0
    <3> SUFFICES ASSUME f = 0 PROVE FALSE
      OBVIOUS
    <3>1. SetM([M EXCEPT !.panic = TRUE])
      BY DEF thread_free_kthread_stack
    <3>2. panicked' = TRUE
      BY <3>1 DEF SetM, M
    <3> QED
      BY <3>2 DEF Running
  <2> QED
    BY <2>1 DEF thread_free_kthread_stack
<1>4. PageOf(t.base) = t.vpn
  BY <1>3, Zenon DEF thread_free_kthread_stack, Running
<1>5. f = M.pte[t.vpn] /\ f \in Frames
  <2>1. TableOf(t.base) = TableOf(t.vpn) /\ PageOf(t.vpn) = t.vpn
    BY <1>1, <1>4, InRange, Zenon DEF TableOf
  <2>2. f = M.pte[t.vpn]
    BY <1>3, <1>4, <2>1, Zenon DEF mm_vpn_to_pfn
  <2> QED
    BY <1>1, <1>2, <1>3, <2>2, MemTypes, Zenon
<1>6. Owns(M, R) /\ \A v \in R : v \in Pages /\ M.pte[v] # 0
  BY <1>1, <1>2 DEF Owns
<1>7. Cut(M, k, R)
  <2> DEFINE b == t.base
             n == t.n
             w == t.vpn
  <2>1. b \in Nat /\ n \in Nat /\ w \in Nat /\ PageOf(b) = w
    BY <1>1, <1>4
  <2>2. \A v \in PagesFrom(w, n) : v \in Pages /\ M.pte[v] # 0
    BY <1>6, Zenon
  <2> HIDE DEF b, n, w
  <2>3. Cut(M, mm_unmap(M, b, n), PagesFrom(w, n))
    BY <1>2, <2>1, <2>2, Unmapped, Zenon
  <2> QED
    BY <2>3 DEF b, n, w
<1>8. FramesOf(M, R) = f..(f + t.n - 1)
  <2>f. f \in Nat
    BY <1>5, KernelMemoryAssumption, Zenon
  <2>1. ASSUME NEW g \in f..(f + t.n - 1) PROVE \E v \in R : M.pte[v] = g
    <3> DEFINE v == t.vpn + (g - f)
    <3>1. v \in R /\ v - t.vpn = g - f
      BY <1>1, <2>f DEF PagesFrom
    <3>2. M.pte[v] = f + (v - t.vpn)
      BY <3>1, <1>2, <1>5, Zenon
    <3>3. M.pte[v] = g
      BY <3>1, <3>2, <2>f
    <3> QED
      BY <3>1, <3>3, Zenon
  <2>2. ASSUME NEW v \in R PROVE M.pte[v] \in f..(f + t.n - 1)
    <3>1. M.pte[v] = f + (v - t.vpn) /\ v \in Nat /\ t.vpn <= v /\ v < t.vpn + t.n
      BY <1>1, <1>2, <1>5 DEF PagesFrom
    <3> QED
      BY <3>1, <1>1, <2>f
  <2> QED
    BY <2>1, <2>2 DEF FramesOf
<1> HIDE DEF f, k
<1>9. SetM(Released(M, R))
  <2>1. mm_pma_free_frame(k, f, t.n) = Released(M, R)
    <3> DEFINE n == t.n
    <3>1. FramesOf(M, R) = f..(f + n - 1) /\ Cut(M, k, R)
      BY <1>7, <1>8, Zenon
    <3>2. Sound(M) /\ Owns(M, R) /\ R \in SUBSET Pages
      BY <1>1, <1>2, <1>6, Zenon
    <3> HIDE DEF n, R
    <3>3. mm_pma_free_frame(k, f, n) = Released(M, R)
      BY <3>1, <3>2, StackReleased
    <3> QED
      BY <3>3, Zenon DEF n
  <2> QED
    BY <1>3, <2>1, Zenon
<1>10. /\ UNCHANGED <<spaces, halfMapped, users, heap>> /\ stacks' = stacks \ {t}
  BY DEF thread_free_kthread_stack
<1>11. R \subseteq Held(stacks) /\ Held(stacks \ {t}) = Held(stacks) \ R
  BY <1>1, HeldLess, Zenon DEF Held
<1>12. LivePages' = LivePages \ R
  BY <1>10, <1>11, HoldersApart, LiveIsHeld, NextLive, Zenon
<1>13. \A u \in stacks' : PagesFrom(u.vpn, u.n) \cap R = {}
  BY <1>10, <1>11, ZenonT(30) DEF Held
<1> HIDE DEF R
<1> QED
  BY <1>1, <1>9, <1>10, <1>12, <1>13, FreedStep, Zenon

\* A stack is mapped to a run of frames, or the frames go back and the pages
\* that were mapped stay.
LEMMA StackStep ==
    ASSUME AreaInv, MemInv, AreaInv', NEW n \in Nat \ {0},
           thread_allocate_kthread_stack(n)
    PROVE  MemInv'
<1> DEFINE vpn == vma_kernel_alloc_vpn
           f == FirstRun(M, n)
           r == mm_map(Take(M, f, n), f, vpn, n)
           R == PagesFrom(vpn, n)
           t == [vpn |-> vpn, n |-> n, base |-> StackBase(vpn)]
<1>1. /\ NewPages(vpn, n) /\ \A v \in R : KernelBase <= v /\ v < vpn + n
      /\ f # 0
  BY FreshKernel, Zenon DEF thread_allocate_kthread_stack
<1>2. /\ Fresh(M, vpn, n) /\ LivePages \cap R = {} /\ Sound(M) /\ M \in Mem
      /\ Owns(M, LivePages) /\ LivePages \in SUBSET Pages
  BY <1>1, LiveWithin, Zenon DEF NewPages, MemInv, MemOk, Sound
<1>3. \A u \in stacks : PagesFrom(u.vpn, u.n) \cap R = {}
  BY <1>2, StacksKept
<1>4. /\ vpn \in Nat /\ vpn' = vpn + n /\ vma_user_alloc_vpn' = vma_user_alloc_vpn
      /\ vma_user_alloc_vpn \in Nat /\ heap' = heap /\ users' = users
  BY Zenon DEF thread_allocate_kthread_stack, AreaInv
<1>5. \/ r.ok /\ SetM(r.m) /\ stacks' = stacks \cup {t} /\ halfMapped' = halfMapped
      \/ /\ SetM(mm_pma_free_frame(r.m, f, n)) /\ stacks' = stacks
         /\ halfMapped' = halfMapped \cup PagesFrom(vpn, r.done)
  BY DEF thread_allocate_kthread_stack
<1>6. StackInv(M, f, vpn, n, n, r) /\ f \in Frames /\ f \in Nat
  <2>1. /\ f \in Frames /\ f..(f + n - 1) \subseteq Frames
        /\ \A g \in f..(f + n - 1) : M.frames[g] = "FREE"
    BY <1>1, FirstRunIs
  <2> DEFINE k == Take(M, f, n)
  <2> HIDE DEF f
  <2>2. Grown(M, k, {}, {} \cup (f..(f + n - 1)))
    BY <1>2, <2>1, GrownNothing, GrownTake, Zenon
  <2>3. Grown(M, k, {}, f..(f + n - 1))
    <3>1. {} \cup (f..(f + n - 1)) = f..(f + n - 1)
      OBVIOUS
    <3> QED
      BY <2>2, <3>1
  <2> HIDE DEF k
  <2>4. StackInv(M, f, vpn, n, n, mm_map(k, f, vpn, n))
    BY <1>2, <2>1, <2>3, StackMapped, Zenon
  <2> QED
    BY <2>1, <2>4, KernelMemoryAssumption, Zenon DEF k
<1> DEFINE j == r.done
           Q == PagesFrom(vpn, j)
           X == (f + j)..(f + n - 1)
<1>7. /\ j \in 0..n /\ (r.ok => j = n) /\ Grown(M, r.m, Q, X)
      /\ \A i \in 0..(j - 1) : r.m.pte[vpn + i] = f + i
  BY <1>6, Zenon DEF StackInv
<1>8. Q \subseteq R /\ R = PagesFrom(vpn, n) /\ Q = PagesFrom(vpn, j)
  <2>1. vpn \in Nat /\ j \in 0..n
    BY <1>4, <1>7, Zenon
  <2> HIDE DEF vpn, j
  <2> QED
    BY <2>1 DEF PagesFrom
<1>t. t.vpn = vpn /\ t.n = n
  OBVIOUS
<1> HIDE DEF f, r, R, t, vpn, j, Q, X
<1>9. CASE /\ r.ok /\ SetM(r.m) /\ stacks' = stacks \cup {t}
           /\ halfMapped' = halfMapped
  <2> DEFINE q == r.m
  <2>1. Grown(M, q, R, X) /\ j = n
    BY <1>7, <1>8, <1>9, Zenon
  <2>2. LivePages' = LivePages \cup R
    <3>1. Held(stacks') = Held(stacks) \cup R
      BY <1>8, <1>9, <1>t, HeldMore, Zenon
    <3> QED
      BY <3>1, <1>4, LiveIsHeld, NextLive, Zenon
  <2>3. SetM(q)
    BY <1>9, Zenon
  <2>0. \A i \in 0..(n - 1) : q.pte[vpn + i] = f + i
    BY <1>7, <2>1, Zenon
  <2> HIDE DEF q
  <2>4. Sound(q) /\ Owns(q, LivePages')
    BY <2>1, <2>2, <1>2, GrownSound, GrownOwns, ZenonT(30)
  <2>5. \A v \in Pages \ R : q.pte[v] = pte[v]
    BY <2>1, Zenon DEF Grown, M
  <2>6. /\ vma_user_alloc_vpn <= vma_user_alloc_vpn' /\ vpn <= vpn'
        /\ \A v \in R : KernelBase <= v /\ v < vpn' /\ v \in LivePages'
    BY <1>1, <1>4, <2>2
  <2>7. M' = q /\ MemOk(q, LivePages', stacks, halfMapped', vma_user_alloc_vpn', vpn')
    BY <1>3, <1>9, <2>2, <2>3, <2>4, <2>5, <2>6, StepOk, ZenonT(30) DEF vpn
  <2>8. ASSUME NEW v \in PagesFrom(t.vpn, t.n)
        PROVE  q.pte[v] = q.pte[t.vpn] + (v - t.vpn)
    <3> DEFINE i == v - vpn
    <3>1. i \in 0..(n - 1) /\ v = vpn + i /\ vpn + 0 = vpn /\ 0 \in 0..(n - 1)
      BY <1>4, <1>t DEF PagesFrom
    <3>2. q.pte[v] = f + i /\ q.pte[vpn] = f + 0
      BY <3>1, <2>0, Zenon
    <3> QED
      BY <1>6, <1>t, <3>1, <3>2
  <2>9. MemOk(q, LivePages', stacks', halfMapped', vma_user_alloc_vpn', vpn')
    BY <1>9, <2>7, <2>8, Zenon DEF MemOk
  <2> QED
    BY <2>7, <2>9, Zenon DEF MemInv, vpn
<1>10. CASE /\ SetM(mm_pma_free_frame(r.m, f, n)) /\ stacks' = stacks
            /\ halfMapped' = halfMapped \cup PagesFrom(vpn, r.done)
  <2> DEFINE k == r.m
             q == mm_pma_free_frame(k, f, n)
  <2>1. Grown(M, k, Q, X) /\ LivePages \cap Q = {}
    BY <1>2, <1>7, <1>8, Zenon
  <2>2. X \cup FramesOf(k, Q) = f..(f + n - 1)
    <3>1. \A i \in 0..(j - 1) : vpn + i \in Q /\ k.pte[vpn + i] = f + i
      BY <1>4, <1>7, <1>8 DEF PagesFrom
    <3>2. \A v \in Q : \E i \in 0..(j - 1) : v = vpn + i
      <4> SUFFICES ASSUME NEW v \in Q PROVE v - vpn \in 0..(j - 1) /\ v = vpn + (v - vpn)
        OBVIOUS
      <4> QED
        BY <1>4, <1>7, <1>8 DEF PagesFrom
    <3>3. FramesOf(k, Q) = {f + i : i \in 0..(j - 1)}
      BY <3>1, <3>2 DEF FramesOf
    <3>4. {f + i : i \in 0..(j - 1)} = f..(f + j - 1)
      <4>1. ASSUME NEW g \in f..(f + j - 1)
            PROVE  g - f \in 0..(j - 1) /\ g = f + (g - f)
        BY <1>6, <1>7
      <4>2. \A i \in 0..(j - 1) : f + i \in f..(f + j - 1)
        BY <1>6, <1>7
      <4> QED
        BY <4>1, <4>2, Zenon
    <3>5. X = (f + j)..(f + n - 1)
      BY DEF X
    <3>6. ((f + j)..(f + n - 1)) \cup (f..(f + j - 1)) = f..(f + n - 1)
      BY <1>6, <1>7
    <3> QED
      BY <3>3, <3>4, <3>5, <3>6, Zenon
  <2> HIDE DEF k
  <2>3. Sound(q) /\ Owns(q, LivePages) /\ q.pte = k.pte
    <3>1. HalfStack(M, k, Q, X, LivePages, f, n)
      BY <1>2, <1>6, <2>1, <2>2, Zenon DEF HalfStack
    <3>2. UndoneFor(M, k, q, LivePages)
      BY <3>1, StackUndone, Zenon
    <3> QED
      BY <3>2, Zenon DEF UndoneFor
  <2>4. LivePages' = LivePages
    BY <1>4, <1>10, LiveIsHeld, NextLive, Zenon
  <2>5. SetM(q) /\ Q \subseteq halfMapped' /\ halfMapped \subseteq halfMapped'
    BY <1>8, <1>10 DEF k, j
  <2> HIDE DEF q
  <2>6. Sound(q) /\ Owns(q, LivePages') /\ \A v \in Pages \ Q : q.pte[v] = pte[v]
    <3>1. M.pte = pte
      BY DEF M
    <3>2. \A v \in Pages \ Q : k.pte[v] = M.pte[v]
      BY <2>1, Zenon DEF Grown
    <3> QED
      BY <2>3, <2>4, <3>1, <3>2, Zenon
  <2>7. /\ vma_user_alloc_vpn <= vma_user_alloc_vpn' /\ vpn <= vpn'
        /\ \A v \in Q : KernelBase <= v /\ v < vpn' /\ v \in halfMapped'
        /\ \A u \in stacks : PagesFrom(u.vpn, u.n) \cap Q = {}
    BY <1>1, <1>3, <1>4, <1>8, <2>5
  <2>8. M' = q /\ MemOk(q, LivePages', stacks, halfMapped', vma_user_alloc_vpn', vpn')
    BY <2>4, <2>5, <2>6, <2>7, StepOk, Zenon DEF vpn
  <2> QED
    BY <1>10, <2>8, Zenon DEF MemInv, vpn
<1> QED
  BY <1>5, <1>9, <1>10

\* Pages for the user: what was mapped before a page failed stays.
LEMMA UserStep ==
    ASSUME AreaInv, MemInv, AreaInv', NEW n \in Nat \ {0}, mm_allocate_pages(n),
           Running'
    PROVE  MemInv'
<1> DEFINE vpn == vma_user_alloc_vpn
           r == mm_allocate_pages_to(M, vpn, n)
           R == PagesFrom(vpn, n)
           a == [vpn |-> vpn, n |-> n]
<1>0. /\ VmaRoom(vpn, n, UserLimit) /\ vpn' = vpn + n /\ SetM(r.m)
      /\ users' = users \cup (IF r.ok THEN {a} ELSE {})
      /\ UNCHANGED <<vma_kernel_alloc_vpn, heap, stacks, halfMapped>>
  BY DEF mm_allocate_pages, Running
<1>1. NewPages(vpn, n) /\ \A v \in R : UserBase <= v /\ v < vpn + n /\ v <= UserLimit
  BY <1>0, FreshUser
<1>2. /\ Fresh(M, vpn, n) /\ LivePages \cap R = {} /\ Sound(M) /\ M \in Mem
      /\ Owns(M, LivePages) /\ LivePages \in SUBSET Pages
  BY <1>1, LiveWithin, Zenon DEF NewPages, MemInv, MemOk, Sound
<1>3. \A u \in stacks : PagesFrom(u.vpn, u.n) \cap R = {}
  BY <1>2, StacksKept, Zenon
<1>4. vpn \in Nat /\ vma_kernel_alloc_vpn \in Nat
  BY DEF AreaInv
<1>5. PageInv(M, vpn, n, r)
  BY <1>2, PagesMapped, Zenon
<1> DEFINE q == r.m
<1>6. PICK j \in 0..n : \E Y \in SUBSET Frames :
          Grown(M, q, PagesFrom(vpn, j), Y) /\ (r.ok => j = n)
  BY <1>5, Zenon DEF PageInv
<1>7. PICK X \in SUBSET Frames : Grown(M, q, PagesFrom(vpn, j), X) /\ (r.ok => j = n)
  BY <1>6, Zenon
<1> DEFINE Q == PagesFrom(vpn, j)
<1>8. Q \subseteq R /\ (r.ok => Q = R) /\ LivePages \cap Q = {}
  BY <1>2, <1>4, <1>7 DEF PagesFrom
<1>9. Grown(M, q, Q, X) /\ SetM(q)
  BY <1>0, <1>7, Zenon
<1>10. LivePages' = LivePages \cup (IF r.ok THEN R ELSE {})
  <2>1. CASE r.ok
    <3>1. users' = users \cup {a} /\ a.vpn = vpn /\ a.n = n
      BY <1>0, <2>1
    <3>2. Held(users') = Held(users) \cup R
      BY <3>1, HeldMore, Zenon
    <3> QED
      BY <1>0, <2>1, <3>2, LiveIsHeld, NextLive, Zenon
  <2>2. CASE ~r.ok
    BY <1>0, <2>2, LiveIsHeld, NextLive, Zenon
  <2> QED
    BY <2>1, <2>2, Zenon
<1> HIDE DEF Q, q, R, r, vpn
<1>11. Sound(q) /\ Owns(q, LivePages \cup Q)
  BY <1>2, <1>8, <1>9, GrownSound, GrownOwns, Zenon
<1>12. Owns(q, LivePages') /\ LivePages \subseteq LivePages'
  <2>1. LivePages' \subseteq LivePages \cup Q /\ LivePages \subseteq LivePages'
    BY <1>8, <1>10, ZenonT(30)
  <2> QED
    BY <1>11, <2>1, Zenon DEF Owns
<1>13. /\ \A v \in Pages \ Q : q.pte[v] = pte[v]
       /\ vpn <= vpn' /\ vma_kernel_alloc_vpn <= vma_kernel_alloc_vpn'
       /\ \A v \in Q : UserBase <= v /\ v < vpn' /\ v <= UserLimit
       /\ \A u \in stacks : PagesFrom(u.vpn, u.n) \cap Q = {}
  <2>1. M.pte = pte
    BY DEF M
  <2>2. \A v \in Pages \ Q : q.pte[v] = M.pte[v]
    BY <1>9, Zenon DEF Grown
  <2>3. vpn <= vpn' /\ vma_kernel_alloc_vpn <= vma_kernel_alloc_vpn'
    BY <1>0, <1>4
  <2> QED
    BY <1>0, <1>1, <1>3, <1>8, <2>1, <2>2, <2>3, Zenon
<1>14. M' = q /\ MemOk(q, LivePages', stacks, halfMapped', vpn', vma_kernel_alloc_vpn')
  BY <1>0, <1>9, <1>11, <1>12, <1>13, StepOk, Zenon DEF vpn
<1> QED
  BY <1>0, <1>14, Zenon DEF MemInv, vpn

----------------------------------------------------------------------------
(* The invariant holds, and what follows from it.                           *)

\* The invariant holds at the start.
LEMMA KmInitOk == KmInit => KmInv
<1> SUFFICES ASSUME KmInit PROVE AreaInv /\ MemInv
  BY DEF KmInv
<1>1. AreaInv
  BY AreaInit, Zenon
<1>2. LivePages = {} /\ stacks = {}
  BY DEF KmInit, LivePages, Live
<1>3. M \in Mem
  BY Zenon DEF KmInit, M, Mem, Dirs
<1>4. \A v \in Pages : M.pte[v] = 0
  BY DEF KmInit, M
<1>5. \A d \in Dirs : M.pde[d] = 0
  BY Zenon DEF KmInit, M, Dirs
<1>6. Sound(M) /\ Owns(M, {})
  BY <1>3, <1>4, <1>5, Zenon DEF Sound, Owns
<1> QED
  BY <1>1, <1>2, <1>4, <1>6, Zenon DEF MemInv, MemOk

\* Every step keeps the invariant.
LEMMA KmStep ==
    ASSUME KmInv, [KmNext]_kmvars
    PROVE  KmInv'
<1>a. AreaInv /\ AreaInv'
  BY AreaStep DEF KmInv
<1> SUFFICES ASSUME Running' PROVE MemInv'
  BY <1>a DEF KmInv
<1>n. 1..MaxPages \subseteq Nat \ {0}
  BY KernelMemoryAssumption
<1>1. ASSUME NEW n \in 1..MaxPages, liballoc_alloc(n) PROVE MemInv'
  BY <1>1, <1>a, <1>n, HeapStep DEF KmInv, liballoc_alloc
<1>2. ASSUME NEW n \in 1..MaxPages, thread_allocate_kthread_stack(n) PROVE MemInv'
  BY <1>2, <1>a, <1>n, StackStep, Zenon DEF KmInv, thread_allocate_kthread_stack
<1>3. ASSUME NEW n \in 1..MaxPages, mm_allocate_pages(n) PROVE MemInv'
  BY <1>3, <1>a, <1>n, UserStep, Zenon DEF KmInv, mm_allocate_pages
<1>4. ASSUME NEW a \in heap, liballoc_free(a) PROVE MemInv'
  BY <1>4, <1>a, HeapFreeStep, Zenon DEF KmInv, liballoc_free
<1>5. ASSUME NEW t \in stacks, thread_free_kthread_stack(t) PROVE MemInv'
  BY <1>5, <1>a, StackFreeStep, Zenon DEF KmInv, thread_free_kthread_stack
<1>6. ASSUME NEW a \in users, mm_free_pages(a) PROVE MemInv'
  BY <1>6, <1>a, UserFreeStep DEF KmInv, mm_free_pages
<1>7. CASE UNCHANGED kmvars
  BY <1>7, Zenon DEF kmvars, KmInv, Running, MemInv, M, LivePages, Live
<1> QED
  BY <1>1, <1>2, <1>3, <1>4, <1>5, <1>6, <1>7, Zenon DEF KmNext

\* Until a page number comes from nowhere or the kernel panics, every page that
\* is held has an allocated frame of its own that holds no page table, for
\* every number of frames, size of the page tables, and size of the areas
\* (mm.c:69-120, 161-222, platform.c:28-54, pc/thread.c:45-71).
THEOREM HeldPagesHaveFrames == KmSpec => []HeldPagesOwnFrames
<1>1. KmInv => HeldPagesOwnFrames
  <2> SUFFICES ASSUME KmInv, Running PROVE HeldPagesOwnFrames
    BY DEF HeldPagesOwnFrames
  <2>1. Sound(M) /\ Owns(M, LivePages)
    BY DEF KmInv, MemInv, MemOk
  <2>2. M.pte = pte /\ M.pde = pde /\ M.frames = frames
    BY Zenon DEF M
  <2>3. \A v \in LivePages : /\ pte[v] # 0 /\ frames[pte[v]] = "ALLOCATED"
                             /\ \A d \in Dirs : pde[d] # pte[v]
    BY <2>1, <2>2, Zenon DEF Owns
  <2>4. \A v, w \in LivePages : pte[v] = pte[w] => v = w
    BY <2>1, <2>2, Zenon DEF Owns
  <2>5. \A d \in Dirs : pde[d] # 0 => frames[pde[d]] = "ALLOCATED"
    BY <2>1, <2>2, Zenon DEF Sound
  <2>6. Tables = {pde[d] : d \in Dirs} \ {0}
    BY Zenon DEF Tables, Dirs
  <2> QED
    BY <2>3, <2>4, <2>5, <2>6 DEF HeldPagesOwnFrames
<1> QED
  BY <1>1, KmInitOk, KmStep, PTL DEF KmSpec

\* A page that is mapped though nobody holds it is one mm_map left behind when
\* it failed for a stack, or one in the user's area (mm.c:131, 175-178).
THEOREM LeftoversAreKnown == KmSpec => []LeftoversKnown
<1>1. KmInv => LeftoversKnown
  BY DEF KmInv, MemInv, MemOk, M, LeftoversKnown
<1> QED
  BY <1>1, KmInitOk, KmStep, PTL DEF KmSpec

\* What liballoc_alloc leaves when it fails.
LEMMA FailedHeapStep ==
    ASSUME AreaInv, MemInv, NEW n \in Nat \ {0}, liballoc_alloc(n), heap' = heap
    PROVE  /\ pte' = pte
           /\ \A f \in Frames : frames[f] # frames'[f] => f \in Tables' \ Tables
<1> DEFINE vpn == vma_kernel_alloc_vpn
           r == MapHeap(M, vpn, n)
           a == [vpn |-> vpn, n |-> n]
           q == ReleaseAll(r.m, vpn, r.done)
<1>1. Sound(M) /\ M \in Mem /\ M.panic = FALSE
  <2>1. Sound(M) /\ M \in Mem /\ ~M.panic
    BY Zenon DEF MemInv, MemOk, Sound, liballoc_alloc, Running, M
  <2> QED
    BY <2>1, Zenon DEF Mem
<1>2. /\ Fresh(M, vpn, n) /\ LivePages \cap PagesFrom(vpn, n) = {}
      /\ Owns(M, LivePages) /\ LivePages \in SUBSET Pages
  BY FreshKernel, LiveWithin, Zenon DEF NewPages, MemInv, MemOk, liballoc_alloc
<1>3. a \notin heap
  <2>1. a.vpn = vpn /\ a.n = n /\ vpn \in Nat
    BY Zenon DEF AreaInv
  <2> HIDE DEF a
  <2> QED
    BY <2>1 DEF AreaInv, Within
<1>4. SetM(q)
  BY <1>3 DEF liballoc_alloc
<1>5. r = MapHeap(M, vpn, n) /\ q = ReleaseAll(r.m, vpn, r.done)
  OBVIOUS
<1> HIDE DEF vpn, r, q, a
<1>6. TakenBack(M, q, LivePages)
  BY <1>1, <1>2, <1>5, HeapFails, Zenon
<1>7. /\ q \in Mem /\ \A v \in Pages : q.pte[v] = M.pte[v]
      /\ \A f \in Frames : q.frames[f] # M.frames[f] =>
            M.frames[f] = "FREE" /\ \E d \in Dirs : q.pde[d] = f
  BY <1>6, Zenon DEF TakenBack, Sound
<1>8. q.pte = M.pte
  BY <1>1, <1>7 DEF Mem
<1>9. /\ M.pte = pte /\ M.pde = pde /\ M.frames = frames
      /\ q.pte = pte' /\ q.pde = pde' /\ q.frames = frames'
  BY <1>4, Zenon DEF M, SetM
<1>10. ASSUME NEW f \in Frames, frames[f] # frames'[f]
       PROVE  f \in Tables' \ Tables
  <2>1. M.frames[f] = "FREE" /\ \E d \in Dirs : q.pde[d] = f
    BY <1>7, <1>9, <1>10, Zenon
  <2>2. Tables' = {pde'[d] : d \in Dirs} \ {0} /\ Tables = {pde[d] : d \in Dirs} \ {0}
    BY DEF Tables, Dirs
  <2>3. f # 0
    BY NoFrameZero
  <2>4. \A d \in Dirs : pde[d] # 0 => frames[pde[d]] = "ALLOCATED"
    BY <1>1, <1>9 DEF Sound
  <2> QED
    BY <1>9, <2>1, <2>2, <2>3, <2>4, Zenon
<1> QED
  BY <1>8, <1>9, <1>10

\* A liballoc_alloc that fails leaves every page as it was, and gives back
\* every frame but those of new page tables, wherever it failed
\* (platform.c:35-54).
THEOREM FailedAllocIsUndone == KmSpec => FailedAllocUndone
<1> DEFINE A == \A n \in 1..MaxPages :
                  liballoc_alloc(n) /\ heap' = heap =>
                    /\ pte' = pte
                    /\ \A f \in Frames :
                          frames[f] # frames'[f] => f \in Tables' \ Tables
<1>1. ASSUME KmInv PROVE A
  <2> SUFFICES ASSUME NEW n \in 1..MaxPages, liballoc_alloc(n), heap' = heap
               PROVE  /\ pte' = pte
                      /\ \A f \in Frames :
                            frames[f] # frames'[f] => f \in Tables' \ Tables
    BY Zenon
  <2>1. n \in Nat \ {0} /\ AreaInv /\ MemInv
    BY <1>1, KernelMemoryAssumption DEF KmInv, liballoc_alloc
  <2> QED
    BY <2>1, FailedHeapStep
<1>2. KmInv => [A]_kmvars
  BY <1>1
<1> QED
  BY <1>2, KmInitOk, KmStep, PTL DEF KmSpec, FailedAllocUndone
=============================================================================
