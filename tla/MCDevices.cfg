SPECIFICATION MCSpec
CONSTANTS
    Plans <- MCPlans
    Addrs = {1, 2, 3, 4, 5, 6, 7, 8, 9, 10}
    Drives = 2
    MaxParts = 2
    MaxFaults = 2
    RingSize = 5
    Keys = {"A", "UP", "ENTER"}
    Packets <- MCPackets
    MaxStrokes = 3
    MaxPackets = 2
    BYTE = 2
    NIBBLE = 2
    DriveKinds <- MCDriveKinds
    Parts <- MCParts
    Lbas = {0, 1, 2, 14, 17, 41}
    Counts = {1, 2, 3}
    MaxRequests = 2
    PerSector = 2
    Layouts <- MCLayouts
    Modes <- MCModes
    Items <- MCItems
    TAB = 2
    MaxItems = 2
    MaxModes = 1
INVARIANTS
    DevicesSound CleanupReleasesAll
     MouseInOrder
     PartitionsFound 
CHECK_DEADLOCK FALSE
