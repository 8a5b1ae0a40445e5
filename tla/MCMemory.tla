------------------------------ MODULE MCMemory ------------------------------
(***************************************************************************)
(* Memory in small: the kernel's pages, its heap, and the memory of the    *)
(* boot loader.  They run one after the other and have no state in common; *)
(* a behaviour is one of the three at work.                                *)
(***************************************************************************)
EXTENDS KernelMemory, Liballoc

CONSTANTS BootMaps, BootLow, ImageEnd, BootTable, BootTables, DevicePages,
          PageFlags, BootMaxPages

VARIABLES part, smap, stage, pbm, pma_free, pma_available, page_dir, page_tab,
          alloc_vpn, held

bootvars == <<smap, stage, pbm, pma_free, pma_available, page_dir, page_tab,
              alloc_vpn, held>>

Boot == INSTANCE BootMemory

ASSUME BootAssumption == Boot!BootConstants

Entry(base, size, isFree) == [base |-> base, size |-> size, free |-> isFree]

\* One hole in the memory, at the end of which the ACPI tables lie, or none.
MCBootMaps ==
    {<<Entry(0, 1, TRUE), Entry(1, 1, FALSE), Entry(2, 7, TRUE)>>,
     <<Entry(0, 1, TRUE), Entry(2, 3, TRUE), Entry(5, 2, FALSE),
       Entry(7, 3, TRUE), Entry(10, 1, FALSE)>>}

\* Two holes.
MCTwoHoles ==
    {<<Entry(0, 1, TRUE), Entry(2, 2, TRUE), Entry(4, 1, FALSE),
       Entry(5, 2, TRUE), Entry(7, 1, FALSE), Entry(8, 2, TRUE)>>}

MCFrames == 1..6

Init == /\ part \in {"kernel", "heap", "boot"}
        /\ KmInit /\ HeapInit /\ Boot!BootInit

Next == \/ /\ part = "kernel" /\ KmNext
           /\ UNCHANGED <<part, heapvars, bootvars>>
        \/ /\ part = "heap" /\ HeapNext
           /\ UNCHANGED <<part, kmvars, bootvars>>
        \/ /\ part = "boot" /\ Boot!BootNext
           /\ UNCHANGED <<part, kmvars, heapvars>>

Spec == Init /\ [][Next]_<<part, kmvars, heapvars, bootvars>>

\* BootMemory's: exact counters, and a frame of its own for each page
\* (boot/mm/mm.c:83-93, 260-325, 366-427).
BootPagesOwnFrames == Boot!BootPagesOwnFrames

\* BootMemory's: reserved areas inside the memory are marked
\* (boot/arch/i686/pc/bios/init.c:109-130).
ReservedAreasMarked == Boot!ReservedAreasMarked
=============================================================================
