\* The rule "await before switch" dropped.
SPECIFICATION Spec
CONSTANTS
    s1 = s1
    s2 = s2
    e1 = e1
    e2 = e2
    f1 = f1
    f2 = f2
    NULL = NULL
    Streams = {s1}
    MaxOps = 2
    PoolSize = 1
    Funcs = {f1}
    LocalMemReq <- NoLocalMem
    Events = {}
    KernArgsSlots = 3
    CtrModulus = 16
    ClientRules <- NoAwaitBeforeSwitch
    Faults = {}
    MaxRecords = 0
    MaxFailures = 0
INVARIANTS
    InOrder
