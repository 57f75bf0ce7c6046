SPECIFICATION Spec
CONSTANTS
    Sizes <- SmallSizes
    MemMap <- SmallMap
    PageSize = 40
    Requests = {0, 3, 8, 9}
INVARIANTS
    HeapInv
    PagesConserved
    ObjectsConserved
