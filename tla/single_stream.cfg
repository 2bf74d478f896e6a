\* One stream: two functions that need different amounts of local memory, copies
\* in between, a kernargs page too small for all of them.
SPECIFICATION Spec
CONSTANTS
    s1 = s1
    s2 = s2
    e1 = e1
    e2 = e2
    f1 = f1
    f2 = f2
    NULL = NULL
    Streams = {s1}
    MaxOps = 4
    PoolSize = 1
    Funcs = {f1, f2}
    LocalMemReq <- TwoSizes
    Events = {}
    KernArgsSlots = 3
    CtrModulus = 16
    ClientRules <- AllRules
    Faults = {}
    MaxRecords = 0
    MaxFailures = 0
INVARIANTS
    TypeOK
    IdleWhenEqual
    NoReplay
    LocalMemAdequate
PROPERTIES
    ImplementsStreamOrder
    TimelineAdvances
