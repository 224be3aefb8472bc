SPECIFICATION StartSpec
CONSTANTS
    PageCount = 24
    LargePages = 4
    HugePages = 8
    TopPages = 16
    ImageEnd = 8
    VideoPages = {2}
    GuardPages = {1}
    BootSpare = 4
    KernelTablePages = 7
    DbFrames = 24
    Discs <- AllDiscs
    Layouts <- AllLayouts
    Firmwares <- AllFirmwares
    SectorEntries = 3
    LoaderMax = 2
    BufferSectors = 2
    Word = 64
    MaxZones = 5
    Count = 24
    PageUnits = 1
    MaxRegions = 3
    MaxReleases = 2
    Aligned = TRUE
CHECK_DEADLOCK FALSE
INVARIANTS
    StartTypeOK
    ListExact
    KernelLoaded
    IdentityMapped
    TablesReachable
    PoolIsFreeMemory
PROPERTIES
    IsPool
