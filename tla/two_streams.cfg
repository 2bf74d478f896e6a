\* Two streams share the channels; a kernargs page holds one launch, and a launch
\* may fail half-way: in gpuFree, gpuAlloc, or after the preparations.
SPECIFICATION Spec
CONSTANTS
    s1 = s1
    s2 = s2
    e1 = e1
    e2 = e2
    f1 = f1
    f2 = f2
    NULL = NULL
    Streams = {s1, s2}
    MaxOps = 2
    PoolSize = 1
    Funcs = {f1}
    LocalMemReq <- TwoSizes
    Events = {}
    KernArgsSlots = 1
    CtrModulus = 16
    ClientRules <- AllRules
    Faults = {"alloc", "launch"}
    MaxRecords = 0
    MaxFailures = 1
INVARIANTS
    KernArgsIntact
    NoWorkAfterDestroy
PROPERTIES
    ImplementsStreamOrder
\* A failed synchronous launch may leave an acquire that a later release passes
\* over: the channel then blocks, and the program hangs.
CHECK_DEADLOCK FALSE
