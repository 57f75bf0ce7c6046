SPECIFICATION Spec
CONSTANTS
    Sizes <- SmallSizes
    MemMap <- SmallMap
    PageSize = 40
    Requests = {0, 8, 9}
INVARIANT FullSlabUnlinked
