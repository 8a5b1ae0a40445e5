---------------------------- MODULE KernelMemory ----------------------------
(***************************************************************************)
(* The kernel's virtual memory: page tables (kernel/mm/mm.c), the page     *)
(* allocator that never takes a page back (kernel/mm/vma.c), the pages of  *)
(* the heap (kernel/lib/liballoc/platform.c) and the stacks of the threads *)
(* (kernel/arch/i686/pc/thread.c).                                         *)
(*                                                                         *)
(* Physical frames are what module Pma promises: a request is answered     *)
(* with the first run of free frames.  Page number 0 and frame 0 are never *)
(* used, and stand for an entry that is not present.  The flags of a page  *)
(* (read-only, user, cache) are left out: no operation reads them back.    *)
(***************************************************************************)
EXTENDS Integers, Sequences, FiniteSets, FiniteSetsExt

CONSTANTS
    Frames,          \* the frames the allocator manages: 1..n
    TableSize,       \* entries in a page table: 1024
    DirSize,         \* entries in the page directory: 1024
    PageBytes,       \* bytes in a page: 4096
    UserBase, UserLimit,       \* vma_user_base_vpn, vma_user_limit_vpn
    KernelBase, KernelLimit,   \* vma_kernel_base_vpn, vma_kernel_limit_vpn
    MaxPages         \* bound on the pages asked for at once

ASSUME KernelMemoryAssumption ==
    /\ TableSize \in Nat \ {0} /\ DirSize \in Nat \ {0}
    /\ PageBytes \in Nat \ {0} /\ MaxPages \in Nat
    /\ Frames \subseteq Nat \ {0}
    /\ UserBase \in Nat \ {0} /\ UserLimit \in Nat /\ KernelLimit \in Nat
    /\ KernelBase \in Nat /\ UserLimit < KernelBase
    /\ UserLimit <= TableSize * DirSize /\ KernelLimit <= TableSize * DirSize

VARIABLES
    frames,          \* frames[f]: "FREE" or "ALLOCATED"
    pde,             \* pde[d]: the frame of page table d, 0 if not present
    pte,             \* pte[v]: the frame page v is mapped to, 0 if not present
    vma_user_alloc_vpn, vma_kernel_alloc_vpn,
    heap,            \* what liballoc_alloc returned and nobody gave back
    stacks,          \* stacks of threads: [vpn, n, base]
    users,           \* what mm_allocate_pages returned
    halfMapped,      \* pages mm_map left mapped when it failed
    stray,           \* an operation went on with a wrong page number
    panicked

kmvars == <<frames, pde, pte, vma_user_alloc_vpn, vma_kernel_alloc_vpn,
            heap, stacks, users, halfMapped, stray, panicked>>
spaces == <<vma_user_alloc_vpn, vma_kernel_alloc_vpn>>

Pages == 0..(TableSize * DirSize - 1)

\* The page table and the entry of a page: the upper bits of vpn are cut off.
PageOf(vpn) == vpn % (TableSize * DirSize)
TableOf(vpn) == PageOf(vpn) \div TableSize

PagesFrom(vpn, n) == vpn..(vpn + n - 1)

Running == ~panicked /\ ~stray

----------------------------------------------------------------------------
(* The operations of mm.c on m, the record of frames, pde and pte; a panic  *)
(* is the end of the kernel.                                                *)

M == [frames |-> frames, pde |-> pde, pte |-> pte, panic |-> panicked]

SetM(m) == /\ frames' = m.frames
           /\ pde' = m.pde
           /\ pte' = m.pte
           /\ panicked' = m.panic

\* External: the answer of mm_pma_allocate_frame, 0 when there is no run.
RunsOf(m, n) ==
    {f \in Frames : \A g \in f..(f + n - 1) :
        g \in Frames /\ m.frames[g] = "FREE"}
FirstRun(m, n) == IF RunsOf(m, n) = {} THEN 0 ELSE Min(RunsOf(m, n))

\* Mutant: of a run of frames only the first is marked.
take_first(m, f, n) == [m EXCEPT !.frames[f] = "ALLOCATED"]

Take(m, f, n) == [m EXCEPT !.frames = [g \in Frames |->
                    IF g \in f..(f + n - 1) THEN "ALLOCATED" ELSE @[g]]]

\* External: to give back a frame that is not allocated is a panic.
mm_pma_free_frame(m, f, n) ==
    IF \E g \in f..(f + n - 1) : g \notin Frames \/ m.frames[g] = "FREE"
      THEN [m EXCEPT !.panic = TRUE]
      ELSE [m EXCEPT !.frames = [g \in Frames |->
                    IF g \in f..(f + n - 1) THEN "FREE" ELSE @[g]]]

mm_vpn_to_pfn(m, vpn) ==
    IF m.pde[TableOf(vpn)] = 0 THEN 0 ELSE m.pte[PageOf(vpn)]

\* A page table that is missing takes a frame and starts out empty.
WithTable(m, vpn) ==
    LET f == FirstRun(m, 1)
    IN  [Take(m, f, 1) EXCEPT
           !.pde[TableOf(vpn)] = f,
           !.pte = [v \in Pages |-> IF TableOf(v) = TableOf(vpn) THEN 0
                                    ELSE @[v]]]

\* A page that is present is a conflict; the new page table stays.
map(m, pfn, vpn) ==
    LET table == m.pde[TableOf(vpn)] # 0
        t == IF table THEN m ELSE WithTable(m, vpn)
    IN  CASE ~table /\ FirstRun(m, 1) = 0 -> [ok |-> FALSE, m |-> m]
          [] t.pte[PageOf(vpn)] # 0 -> [ok |-> FALSE, m |-> t]
          [] OTHER -> [ok |-> TRUE, m |-> [t EXCEPT !.pte[PageOf(vpn)] = pfn]]

\* The pages before the one that fails stay mapped; done counts them.
MapPage(p, pfn, vpn) ==
    LET r == map(p.m, pfn, vpn)
    IN  IF ~p.ok THEN p
        ELSE [ok |-> r.ok, m |-> r.m,
              done |-> IF r.ok THEN p.done + 1 ELSE p.done]

mm_map(m, pfn, vpn, n) ==
    LET s[i \in 0..n] ==
          IF i = 0 THEN [ok |-> TRUE, m |-> m, done |-> 0]
          ELSE MapPage(s[i-1], pfn + i - 1, vpn + i - 1)
    IN  s[n]

\* Mutant: the entry of the page stays.
entry_stays(m, vpn) == m

unmap(m, vpn) ==
    IF mm_vpn_to_pfn(m, vpn) = 0 THEN m
    ELSE [m EXCEPT !.pte[PageOf(vpn)] = 0]

mm_unmap(m, vpn, n) ==
    LET s[i \in 0..n] == IF i = 0 THEN m ELSE unmap(s[i-1], vpn + i - 1)
    IN  s[n]

\* What vpn is mapped to becomes free, and vpn is unmapped.
Release(m, vpn) ==
    mm_pma_free_frame(unmap(m, vpn), mm_vpn_to_pfn(m, vpn), 1)

ReleasePage(m, vpn) ==
    IF m.panic \/ mm_vpn_to_pfn(m, vpn) = 0 THEN m ELSE Release(m, vpn)

ReleaseAll(m, vpn, n) ==
    LET s[i \in 0..n] ==
          IF i = 0 THEN m ELSE ReleasePage(s[i-1], vpn + i - 1)
    IN  s[n]

\* A frame is taken for each page that is not present yet.  When there is no
\* frame, or no page table, the pages so far, and the frame, stay taken.
AllocatePage(p, vpn) ==
    LET f == FirstRun(p.m, 1)
    IN  IF ~p.ok \/ mm_vpn_to_pfn(p.m, vpn) # 0 THEN p
        ELSE IF f = 0 THEN [p EXCEPT !.ok = FALSE]
        ELSE map(Take(p.m, f, 1), f, vpn)

mm_allocate_pages_to(m, vpn, n) ==
    LET s[i \in 0..n] ==
          IF i = 0 THEN [ok |-> TRUE, m |-> m]
          ELSE AllocatePage(s[i-1], vpn + i - 1)
    IN  s[n]

----------------------------------------------------------------------------
(* vma.c: the page after the last one that was handed out, if there is room.*)
(* The last page of an area is never handed out.                            *)

\* Mutant: room for the first page is enough.
room_for_first(alloc_vpn, n, limit) == alloc_vpn < limit

VmaRoom(alloc_vpn, n, limit) == alloc_vpn + n < limit

(* liballoc_alloc maps page after page and takes back what it did when a     *)
(* page is mapped already, or a frame or a page table cannot be had.         *)

\* Mutant: the frame the failing page was to get is not given back.
failing_page_keeps_frame(m, f) == m

\* The frame of a page that cannot be mapped goes back.
FailedPage(m, f) == mm_pma_free_frame(m, f, 1)

HeapPage(p, vpn) ==
    LET f == FirstRun(p.m, 1)
        r == map(Take(p.m, f, 1), f, vpn)
    IN  IF ~p.ok THEN p
        ELSE IF mm_vpn_to_pfn(p.m, vpn) # 0 \/ f = 0
          THEN [p EXCEPT !.ok = FALSE]
        ELSE [ok |-> r.ok,
              m |-> IF r.ok THEN r.m ELSE FailedPage(r.m, f),
              done |-> IF r.ok THEN p.done + 1 ELSE p.done]

MapHeap(m, vpn, n) ==
    LET s[i \in 0..n] ==
          IF i = 0 THEN [ok |-> TRUE, m |-> m, done |-> 0]
          ELSE HeapPage(s[i-1], vpn + i - 1)
    IN  s[n]

liballoc_alloc(n) ==
    LET vpn == vma_kernel_alloc_vpn
        r == MapHeap(M, vpn, n)
    IN  /\ Running
        /\ VmaRoom(vpn, n, KernelLimit)
        /\ vma_kernel_alloc_vpn' = vpn + n
        /\ \/ /\ r.ok
              /\ SetM(r.m)
              /\ heap' = heap \cup {[vpn |-> vpn, n |-> n]}
           \/ /\ ~r.ok
              /\ SetM(ReleaseAll(r.m, vpn, r.done))
              /\ UNCHANGED heap
        /\ UNCHANGED <<vma_user_alloc_vpn, stacks, users, halfMapped, stray>>

\* A page that is not mapped is a panic, after those before it were released.
liballoc_free(a) ==
    LET gone == {v \in PagesFrom(a.vpn, a.n) : mm_vpn_to_pfn(M, v) = 0}
    IN  /\ Running
        /\ heap' = heap \ {a}
        /\ \/ /\ gone = {}
              /\ SetM(ReleaseAll(M, a.vpn, a.n))
           \/ /\ gone # {}
              /\ SetM([ReleaseAll(M, a.vpn, Min(gone) - a.vpn)
                         EXCEPT !.panic = TRUE])
        /\ UNCHANGED <<spaces, stacks, users, halfMapped, stray>>

\* kmode_stack_base_vpn holds the address of the stack.
StackBase(vpn) == vpn * PageBytes

\* The frames of a stack are one run.  They go back when there are no pages
\* for it and when it cannot be mapped, but then the pages mm_map has mapped
\* before it failed stay mapped.
thread_allocate_kthread_stack(n) ==
    LET f   == FirstRun(M, n)
        vpn == vma_kernel_alloc_vpn
        r   == mm_map(Take(M, f, n), f, vpn, n)
    IN  /\ Running
        /\ f # 0 /\ VmaRoom(vpn, n, KernelLimit)
        /\ vma_kernel_alloc_vpn' = vpn + n
        /\ \/ /\ r.ok
              /\ SetM(r.m)
              /\ stacks' = stacks \cup
                   {[vpn |-> vpn, n |-> n, base |-> StackBase(vpn)]}
              /\ UNCHANGED halfMapped
           \/ /\ ~r.ok
              /\ SetM(mm_pma_free_frame(r.m, f, n))
              /\ halfMapped' = halfMapped \cup PagesFrom(vpn, r.done)
              /\ UNCHANGED stacks
        /\ UNCHANGED <<vma_user_alloc_vpn, heap, users, stray>>

\* The base that was kept is looked up as a page number: either no page is
\* there, a panic, or pages of somebody else are taken for the stack's.
thread_free_kthread_stack(t) ==
    LET f == mm_vpn_to_pfn(M, t.base)
    IN  /\ Running
        /\ stacks' = stacks \ {t}
        /\ SetM(IF f = 0 THEN [M EXCEPT !.panic = TRUE]
                         ELSE mm_pma_free_frame(mm_unmap(M, t.base, t.n), f, t.n))
        /\ stray' = (f # 0 /\ PageOf(t.base) # t.vpn)
        /\ UNCHANGED <<spaces, heap, users, halfMapped>>

\* The status of mm_vma_allocate_page is not looked at: when there is no room
\* the page number is whatever the stack held, and nothing is claimed of what
\* happens from there on.
mm_allocate_pages(n) ==
    LET vpn == vma_user_alloc_vpn
        r == mm_allocate_pages_to(M, vpn, n)
    IN  /\ Running
        /\ \/ /\ VmaRoom(vpn, n, UserLimit)
              /\ vma_user_alloc_vpn' = vpn + n
              /\ SetM(r.m)
              /\ users' = users \cup
                   (IF r.ok THEN {[vpn |-> vpn, n |-> n]} ELSE {})
              /\ UNCHANGED <<vma_kernel_alloc_vpn, heap, stacks, halfMapped,
                             stray>>
           \/ /\ ~VmaRoom(vpn, n, UserLimit)
              /\ stray' = TRUE
              /\ UNCHANGED <<frames, pde, pte, spaces, heap, stacks, users,
                             halfMapped, panicked>>

mm_free_pages(a) ==
    /\ Running
    /\ users' = users \ {a}
    /\ SetM(ReleaseAll(M, a.vpn, a.n))
    /\ UNCHANGED <<spaces, heap, stacks, halfMapped, stray>>

----------------------------------------------------------------------------

\* The kernel and its page tables are set up; no page of either area is.
KmInit ==
    /\ frames = [f \in Frames |-> "FREE"]
    /\ pde = [d \in 0..(DirSize - 1) |-> 0]
    /\ pte = [v \in Pages |-> 0]
    /\ vma_user_alloc_vpn = UserBase
    /\ vma_kernel_alloc_vpn = KernelBase
    /\ heap = {} /\ stacks = {} /\ users = {} /\ halfMapped = {}
    /\ stray = FALSE /\ panicked = FALSE

KmNext ==
    \/ \E n \in 1..MaxPages : \/ liballoc_alloc(n)
                              \/ thread_allocate_kthread_stack(n)
                              \/ mm_allocate_pages(n)
    \/ \E a \in heap : liballoc_free(a)
    \/ \E t \in stacks : thread_free_kthread_stack(t)
    \/ \E a \in users : mm_free_pages(a)

KmSpec == KmInit /\ [][KmNext]_kmvars
----------------------------------------------------------------------------

Live == heap \cup users \cup {[vpn |-> t.vpn, n |-> t.n] : t \in stacks}
LivePages == UNION {PagesFrom(a.vpn, a.n) : a \in Live}
Tables == {pde[d] : d \in 0..(DirSize - 1)} \ {0}

\* The kernel's own areas never overlap: what the heap and the stacks were
\* given lies side by side below vma_kernel_alloc_vpn, since vma.c never
\* takes a page back, whatever failed in between (vma.c:72-79, platform.c:22,
\* pc/thread.c:48).
AreasDisjoint ==
    LET areas == heap \cup {[vpn |-> t.vpn, n |-> t.n] : t \in stacks}
    IN  \A a \in areas :
          /\ a.vpn >= KernelBase
          /\ a.vpn + a.n <= vma_kernel_alloc_vpn
          /\ vma_kernel_alloc_vpn <= KernelLimit \/ areas = {}
          /\ \A b \in areas : a = b \/ a.vpn + a.n <= b.vpn
                                    \/ b.vpn + b.n <= a.vpn

\* Until a page number comes from nowhere or the kernel panics, every page
\* somebody holds is mapped to a frame of its own that is allocated and holds
\* no page table, though requests fail half-way and frames are reused
\* (mm.c:69-120, 161-222, platform.c:28-54, pc/thread.c:45-71).
HeldPagesOwnFrames ==
    Running =>
        /\ \A v \in LivePages :
              /\ pte[v] # 0 /\ frames[pte[v]] = "ALLOCATED"
              /\ pte[v] \notin Tables
              /\ \A w \in LivePages \ {v} : pte[v] # pte[w]
        /\ \A f \in Tables : frames[f] = "ALLOCATED"

\* A page that is mapped though nobody holds it, or to a frame that is free,
\* is one that mm_map left behind when it failed for a stack; or, in the
\* user's area, one of an mm_allocate_pages that failed (mm.c:131, 175-178).
LeftoversKnown ==
    Running =>
        \A v \in Pages : pte[v] # 0 /\ v \notin LivePages =>
            v \in halfMapped \/ v <= UserLimit

\* A liballoc_alloc that fails leaves every page as it was, and gives back
\* every frame but those of new page tables (platform.c:35-54).
FailedAllocUndone ==
    [][\A n \in 1..MaxPages :
         liballoc_alloc(n) /\ heap' = heap =>
            /\ pte' = pte
            /\ \A f \in Frames :
                  frames[f] # frames'[f] => f \in Tables' \ Tables]_kmvars
=============================================================================
