SPECIFICATION FairSpec
CONSTANTS
    Machines <- AllMachines
    FsPerNs = 4
    SleepNs = 6
    MaxIoapics = 2
    Rate = 3
    MaxPoll = 7
    MaxBytes = 3
INVARIANTS
    ApicInv
    KeyboardRouted
    HandlersRight
    SliceLongEnough
PROPERTIES
    BootEnds
    InterruptsHandled
