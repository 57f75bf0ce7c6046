SPECIFICATION FairSpec
CONSTANTS
    Kthread = kthread
    Users = {bash, prog}
    NULL = NULL
    Vals = {g0, g1}
    Stacks = {s0}
    FpuVals = {f0}
    FpuInit = f0
    FsVals = {t0, t1}
PROPERTIES
    ContextIsolation
    EveryThreadRuns
