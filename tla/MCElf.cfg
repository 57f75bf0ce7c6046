CONSTANTS
    WordBits = 8
    Files <- MCFiles
    Missing <- MCMissing
    Page = 4
    Space = 64
    InterpBase = 32
    StackSize = 48
    OldWindows = {0, 1, 2, 3, 4, 7, 20, 21, 22, 23, 100}
    OldStored = {0, 9}
SPECIFICATION Spec
INVARIANTS
    LoaderInv
    StackRight
    AuxvDescribesProgram
    ImageRight
