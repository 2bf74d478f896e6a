\* Commence reports an error of submitToFifo, and the program goes on.
SPECIFICATION Spec
CONSTANTS
    s1 = s1
    s2 = s2
    e1 = e1
    e2 = e2
    f1 = f1
    f2 = f2
    NULL = NULL
    Streams = {s1}
    MaxOps = 3
    PoolSize = 1
    Funcs = {f1}
    LocalMemReq <- NoLocalMem
    Events = {}
    KernArgsSlots = 2
    CtrModulus = 16
    ClientRules <- AllRules
    Faults = {"submit"}
    MaxRecords = 0
    MaxFailures = 2
INVARIANTS
    OneBufferInUse
    InOrder
    NothingForgotten
\* A resubmitted piece can turn the timeline back: the next wait, and the
\* program, then hang.
CHECK_DEADLOCK FALSE
