SPECIFICATION Spec
CONSTANTS
    Kernel = kernel
    Users = {bash}
    Fan = 6
    Pages = 25
    LowPages = 12
    MemoryMap <- TwoEntries
    ImageLength = 1
    NodesPerSlab = 8
    KernelSizes = {1}
    Hole = 1296
    IntPages = 48
    OffsetPages = 2
    OffsetWraps = TRUE
    UserSizes = {1, 2591}
    Hints = {2, 40, 1950}
    Segments <- TwoSegments
    Stack <- FarStack
    MaxRegions = 2
INVARIANTS
    VmmInv
    RegionsInOrder
    KernelHalfShared
    RingsApart
    CodeExecutable
    NoStaleTranslation
PROPERTIES
    ListedPagesKept
