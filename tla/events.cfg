\* Two events around two operations, the GPU being fair: what an event vouches for,
\* and that every wait ends.
SPECIFICATION FairSpec
CONSTANTS
    s1 = s1
    s2 = s2
    e1 = e1
    e2 = e2
    f1 = f1
    f2 = f2
    NULL = NULL
    Streams = {s1}
    MaxOps = 2
    PoolSize = 3
    Funcs = {f1}
    LocalMemReq <- NoLocalMem
    Events = {e1, e2}
    KernArgsSlots = 3
    CtrModulus = 16
    ClientRules <- AllRules
    Faults = {}
    MaxRecords = 2
    MaxFailures = 1
INVARIANTS
    HitMeansReached
    SameModeElapsedTime
PROPERTIES
    EventSyncSound
    BlockingCallsReturn
    SubmittedCompletes
