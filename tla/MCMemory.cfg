SPECIFICATION Spec
CONSTANTS
    Frames <- MCFrames
    TableSize = 2
    DirSize = 6
    PageBytes = 4
    UserBase = 2
    UserLimit = 5
    KernelBase = 6
    KernelLimit = 12
    MaxPages = 2
    MajorHdr = 2
    MinorHdr = 1
    AlignRoom = 1
    l_pageSize = 12
    l_pageCount = 1
    Sizes = {1, 4}
    MaxMajors = 3
    BootMaps <- MCBootMaps
    BootLow = 2
    ImageEnd = 3
    BootTable = 2
    BootTables = 5
    DevicePages = {5, 6, 9}
    PageFlags = {{}, {"PF_WTCACHE"}}
    BootMaxPages = 2
INVARIANTS
    AreasDisjoint
    HeldPagesOwnFrames
    LeftoversKnown
    HeapSound
    BestBetLive
    
PROPERTIES
    FailedAllocUndone
    GrowOnlyWhenFull
\* A panic, the write to a NULL pointer and memory that is used up are ends.
CHECK_DEADLOCK FALSE
