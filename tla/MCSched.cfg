SPECIFICATION Spec
CONSTANTS
    Kthread = kthread
    Users = {bash}
    NULL = NULL
    Vals = {g0, g1}
    Stacks = {s0, s1}
    FpuVals = {f0, f1}
    FpuInit = f0
    FsVals = {t0, t1}
INVARIANTS
    UserModeState
    SavedState
    IInv
PROPERTIES
    SyscallsNotPreempted
    ContextIsolation
