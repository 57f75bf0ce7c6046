SPECIFICATION Spec
CONSTANTS
    Kernel = kernel
    Users = {}
    Fan = 6
    Pages = 15
    LowPages = 8
    MemoryMap <- OneEntry
    ImageLength = 1
    NodesPerSlab = 4
    KernelSizes = {1, 2, 3, 700}
    Hole = 1296
    IntPages = 48
    OffsetPages = 3
    OffsetWraps = FALSE
    UserSizes = {1}
    Hints = {2}
    Segments <- TwoSegments
    Stack <- FarStack
    MaxRegions = 3
INVARIANTS
    KernelHeapIsItsRegions
