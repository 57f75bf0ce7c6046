SPECIFICATION FairSpec
CONSTANTS
    CAP = 3
    Keys <- SomeKeys
    MaxKeys = 3
INVARIANTS
    CountBounded
    KeyboardInv
    NoLossWithoutRace
PROPERTIES
    EachKeyOnce
    Drained
