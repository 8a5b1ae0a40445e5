----------------------------- MODULE BootMemory -----------------------------
(***************************************************************************)
(* The memory of the boot loader: what init_pma makes of the BIOS memory   *)
(* map (boot/arch/i686/pc/bios/init.c), the bitmap of frames and the page  *)
(* tables (boot/mm/mm.c), the heap's pages (boot/lib/liballoc/platform.c)  *)
(* and the pages mapped for ACPI tables and framebuffers (boot/acpi/map.c, *)
(* boot/device/video/vga.c).                                               *)
(*                                                                         *)
(* Memory is in whole frames.  Frame 0 stands for an entry not present.    *)
(***************************************************************************)
EXTENDS Integers, Sequences, FiniteSets, FiniteSetsExt

CONSTANTS
    BootMaps,       \* BIOS memory maps: sequences of [base, size, free]
    BootLow,        \* frames below are conventional memory: 0x100
    ImageEnd,       \* the first frame behind the loader and the bitmap
    BootTable,      \* entries in a page table: 1024
    BootTables,     \* page tables in the directory: 1024
    DevicePages,    \* pages that are mapped to the frame of the same number
    PageFlags,      \* sets of PF_READONLY, PF_USER, PF_NOCACHE, PF_WTCACHE
    BootMaxPages    \* bound on the pages asked for at once

\* The first memory above conventional memory is free and holds the loader.
MapsStartFree ==
    \A mm \in BootMaps : \E j \in 1..Len(mm) :
        /\ mm[j].base = BootLow /\ mm[j].free
        /\ BootLow < ImageEnd /\ ImageEnd < BootLow + mm[j].size
        /\ \A i \in 1..(j - 1) : mm[i].base + mm[i].size <= BootLow

VARIABLES
    smap,           \* the BIOS memory map
    stage,          \* "start", "pma", "paging" or "failed"
    pbm,            \* pbm[f]: state of frame f of base_pfn..limit_pfn - 1
    pma_free, pma_available,
    page_dir,       \* page_dir[d]: frame of table d, 0 if not present
    page_tab,       \* page_tab[v]: [pfn, flags]; pfn = 0 if not present
    alloc_vpn,
    held            \* what mm_allocate_pages returned: [vpn, n]

bootvars == <<smap, stage, pbm, pma_free, pma_available, page_dir, page_tab,
              alloc_vpn, held>>

BootPages == 0..(BootTable * BootTables - 1)
DirOf(v) == v \div BootTable
Absent == [pfn |-> 0, flags |-> {}]

MapEntries == [base : Nat, size : Nat, free : BOOLEAN]

\* Frame 0 is conventional memory, and what is mapped can be mapped.
BootConstants ==
    /\ BootMaps \subseteq Seq(MapEntries) /\ MapsStartFree
    /\ BootLow \in Nat \ {0} /\ ImageEnd \in Nat
    /\ BootTable \in Nat \ {0} /\ BootTables \in Nat \ {0}
    /\ DevicePages \subseteq BootPages /\ BootMaxPages \in Nat

ASSUME BootAssumption == BootConstants

----------------------------------------------------------------------------

\* The frames of an entry of the map, and the area that init_pma manages: from
\* the first free entry above conventional memory to the highest one.
LastPage(e) == e.base + e.size - 1
Above(e) == e.free /\ e.base >= BootLow
BasePfn == smap[Min({j \in DOMAIN smap : Above(smap[j])})].base
LimitPfn ==
    Max({LastPage(smap[j]) : j \in {i \in DOMAIN smap : Above(smap[i])}})

\* limit_paddr / PAGE_SIZE - base_paddr / PAGE_SIZE descriptors: the last
\* frame is left out.
Managed == BasePfn..(LimitPfn - 1)

mm_pma_mark_reserved(p, area) ==
    LET new == {f \in area \cap Managed : p.pbm[f] # "RESERVED"}
    IN  [pbm |-> [f \in Managed |-> IF f \in area THEN "RESERVED"
                                    ELSE p.pbm[f]],
         free |-> p.free - Cardinality({f \in new : p.pbm[f] = "FREE"}),
         available |-> p.available - Cardinality(new)]

mm_pma_init ==
    mm_pma_mark_reserved(
        [pbm |-> [f \in Managed |-> "FREE"],
         free |-> Cardinality(Managed), available |-> Cardinality(Managed)],
        BasePfn..(ImageEnd - 1))

\* Which entries are passed over depends on limit, the last frame of the
\* managed area at first, and then of the entry that was marked before.
MarkEntries ==
    LET s[j \in 0..Len(smap)] ==
          IF j = 0 THEN [limit |-> LimitPfn, pma |-> mm_pma_init]
          ELSE LET e == smap[j]
                   p == s[j-1]
                   from == IF e.base < BootLow THEN BootLow ELSE e.base
               IN  IF \/ e.base + e.size <= BootLow
                      \/ e.base > p.limit
                      \/ e.free
                     THEN p
                     ELSE [limit |-> LastPage(e),
                           pma |-> mm_pma_mark_reserved(p.pma,
                                                        from..LastPage(e))]
    IN  s[Len(smap)].pma

init_pma ==
    /\ stage = "start"
    /\ stage' = "pma"
    /\ pbm' = MarkEntries.pbm
    /\ pma_free' = MarkEntries.free
    /\ pma_available' = MarkEntries.available
    /\ UNCHANGED <<smap, page_dir, page_tab, alloc_vpn, held>>

----------------------------------------------------------------------------
(* The operations of mm.c on m: the bitmap, its counter and the page tables.*)

BM == [pbm |-> pbm, free |-> pma_free, dir |-> page_dir, tab |-> page_tab]

SetBM(m) == /\ pbm' = m.pbm /\ pma_free' = m.free
            /\ page_dir' = m.dir /\ page_tab' = m.tab

\* One frame: the first that is free, 0 when there is none.
FreeFrame(m) ==
    LET fs == {f \in Managed : m.pbm[f] = "FREE"}
    IN  IF fs = {} THEN 0 ELSE Min(fs)

mm_pma_allocate_frame(m, f) ==
    [m EXCEPT !.pbm[f] = "ALLOCATED", !.free = @ - 1]

\* A frame that is not allocated, or not managed, is passed over.
mm_pma_free_frame(m, f) ==
    IF f \notin Managed \/ m.pbm[f] # "ALLOCATED" THEN m
    ELSE [m EXCEPT !.pbm[f] = "FREE", !.free = @ + 1]

\* The first page table maps the first pages to the frames of their number.
init_page_directory ==
    LET f == FreeFrame(BM)
    IN  /\ stage = "pma"
        /\ \/ /\ f = 0
              /\ stage' = "failed"
              /\ UNCHANGED <<pbm, pma_free, page_dir, page_tab>>
           \/ /\ f # 0
              /\ stage' = "paging"
              /\ SetBM([mm_pma_allocate_frame(BM, f) EXCEPT
                    !.dir[0] = f,
                    !.tab = [v \in BootPages |->
                       IF DirOf(v) = 0 THEN [pfn |-> v, flags |-> {}]
                                       ELSE @[v]]])
        /\ UNCHANGED <<smap, pma_available, alloc_vpn, held>>

mm_vpn_to_pfn(m, v) == IF m.dir[DirOf(v)] = 0 THEN 0 ELSE m.tab[v].pfn

WithTable(m, v, f) ==
    [mm_pma_allocate_frame(m, f) EXCEPT
       !.dir[DirOf(v)] = f,
       !.tab = [w \in BootPages |-> IF DirOf(w) = DirOf(v) THEN Absent
                                    ELSE @[w]]]

\* A page that is present is mapped anew if its flags are the same.
map(m, pfn, v, flags) ==
    LET table == m.dir[DirOf(v)] # 0
        f == FreeFrame(m)
        t == IF table THEN m ELSE WithTable(m, v, f)
    IN  CASE ~table /\ f = 0 -> [ok |-> FALSE, m |-> m]
          [] t.tab[v].pfn # 0 /\ t.tab[v].flags # flags ->
               [ok |-> FALSE, m |-> t]
          [] OTHER ->
               [ok |-> TRUE,
                m |-> [t EXCEPT !.tab[v] = [pfn |-> pfn, flags |-> flags]]]

\* Nothing is undone when a page fails.
mm_map(m, pfn, vpn, n, flags) ==
    LET s[i \in 0..n] ==
          IF i = 0 THEN [ok |-> TRUE, m |-> m]
          ELSE IF ~s[i-1].ok THEN s[i-1]
          ELSE map(s[i-1].m, pfn + i - 1, vpn + i - 1, flags)
    IN  s[n]

\* uacpi_kernel_map and vbe_set_mode map a device's memory, or ACPI tables in
\* reserved memory, to the pages of its address, and do not look at the status.
MapDevice(v, n, flags) ==
    /\ stage = "paging"
    /\ v..(v + n - 1) \subseteq
         DevicePages \ UNION {smap[j].base..LastPage(smap[j]) :
                                j \in {i \in DOMAIN smap : smap[i].free}}
    /\ SetBM(mm_map(BM, v, v, n, flags).m)
    /\ UNCHANGED <<smap, stage, pma_available, alloc_vpn, held>>

\* A page that is present already is handed out as it is.  When there is no
\* frame the pages so far, and the page numbers, are lost.
mm_allocate_pages_to(m, vpn, n) ==
    LET s[i \in 0..n] ==
          IF i = 0 THEN [ok |-> TRUE, m |-> m]
          ELSE LET p == s[i-1]
                   v == vpn + i - 1
                   f == FreeFrame(p.m)
               IN  IF ~p.ok \/ mm_vpn_to_pfn(p.m, v) # 0 THEN p
                   ELSE IF f = 0 THEN [p EXCEPT !.ok = FALSE]
                   ELSE map(mm_pma_allocate_frame(p.m, f), f, v, {})
    IN  s[n]

\* Mutant: the page numbers are not used up.
pages_used_again(n) == alloc_vpn

alloc_virt_page(n) == alloc_vpn + n

mm_allocate_pages(n) ==
    LET r == mm_allocate_pages_to(BM, alloc_vpn, n)
    IN  /\ stage = "paging"
        /\ alloc_vpn + n \in BootPages
        /\ SetBM(r.m)
        /\ alloc_vpn' = alloc_virt_page(n)
        /\ held' = IF r.ok THEN held \cup {[vpn |-> alloc_vpn, n |-> n]}
                           ELSE held
        /\ UNCHANGED <<smap, stage, pma_available>>

unmap_pages(m, vpn, n) ==
    LET s[i \in 0..n] ==
          IF i = 0 THEN m
          ELSE LET p == s[i-1]
                   v == vpn + i - 1
               IN  IF mm_vpn_to_pfn(p, v) = 0 THEN p
                   ELSE mm_pma_free_frame([p EXCEPT !.tab[v] = Absent],
                                          mm_vpn_to_pfn(p, v))
    IN  s[n]

mm_free_pages(a) ==
    /\ SetBM(unmap_pages(BM, a.vpn, a.n))
    /\ held' = held \ {a}
    /\ UNCHANGED <<smap, stage, pma_available, alloc_vpn>>

----------------------------------------------------------------------------

BootInit ==
    /\ smap \in BootMaps
    /\ stage = "start"
    /\ pbm = [f \in Managed |-> "FREE"]
    /\ pma_free = 0 /\ pma_available = 0
    /\ page_dir = [d \in 0..(BootTables - 1) |-> 0]
    /\ page_tab = [v \in BootPages |-> Absent]
    /\ alloc_vpn = BootTable
    /\ held = {}

BootNext ==
    \/ init_pma
    \/ init_page_directory
    \/ \E n \in 1..BootMaxPages : mm_allocate_pages(n)
    \/ \E v \in DevicePages, n \in 1..BootMaxPages, flags \in PageFlags :
          MapDevice(v, n, flags)
    \/ \E a \in held : mm_free_pages(a)

BootSpec == BootInit /\ [][BootNext]_bootvars

----------------------------------------------------------------------------

HeldPages == UNION {a.vpn..(a.vpn + a.n - 1) : a \in held}

\* The counters the mem command prints are exact, and each page that was
\* handed out, unless a device's memory was mapped over it or found there, is
\* mapped to a frame of its own, allocated and no page table, though requests
\* fail half-way (mm.c:83-93, 140-143, 162-167, 260-325, 366-427).
BootPagesOwnFrames ==
    stage = "paging" =>
        /\ pma_free = Cardinality({f \in Managed : pbm[f] = "FREE"})
        /\ pma_available = Cardinality({f \in Managed : pbm[f] # "RESERVED"})
        /\ \A v \in HeldPages \ DevicePages :
             LET f == page_tab[v].pfn
             IN  /\ f \in Managed /\ pbm[f] = "ALLOCATED"
                 /\ \A d \in DOMAIN page_dir : page_dir[d] # f
                 /\ \A w \in HeldPages \ {v} : page_tab[w].pfn # f

\* Every area of the memory map that is not free and lies inside the memory
\* is marked, so that no frame of it is handed out: init.c:109, "mark smaller
\* reserved area inside the previous area".
ReservedAreasMarked ==
    stage = "paging" => \A j \in DOMAIN smap : \A f \in Managed :
        ~smap[j].free /\ f \in smap[j].base..LastPage(smap[j]) =>
            pbm[f] = "RESERVED"
=============================================================================
