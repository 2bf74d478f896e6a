\* A context, a stream, a module with local memory and a buffer, made and
\* freed in any order, with two failures.
SPECIFICATION Spec
CONSTANTS
    Objects = {"c", "k", "s", "m", "b"}
    Kind <- KindOf
    SmallPage = 2
    HugePage = 4
    HeapStart = 8
    Size <- Sizes
    BufferSizes = {1, 5}
    HugeFrom = 3
    MaxMade = 12
    MaxFailures = 2
INVARIANTS
    TypeOK
    OwnersHoldTheirMemory
    HostMappedExact
    NothingLost
PROPERTIES
    ImplementsRegionStore
    RefusedWithReason
\* A program may stop at any time.
CHECK_DEADLOCK FALSE
