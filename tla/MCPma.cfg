SPECIFICATION Spec
CONSTANTS
    PAGE_SIZE = 2
    LowPfn = 2
    ListMax = 3
    MaxCount = 3
    MemoryMaps <- MCMemoryMaps
    FrameLists <- MCFrameLists
INVARIANTS
    CountersExact
    
    
    ScanFindsFirstFit
\* The kernel may stop: for(;;) without memory for the bitmap, and panic.
CHECK_DEADLOCK FALSE
