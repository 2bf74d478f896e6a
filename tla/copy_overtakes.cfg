\* An asynchronous copy follows a synchronous one that it depends on.
SPECIFICATION Spec
CONSTANTS
    d1 = d1
    d2 = d2
    d3 = d3
    h = h
    DeviceBuffers = {d1, d2, d3}
    HostBuffers = {h}
    BufferSize = 22
    Word = 2
    Block = 2
    Granule = 8
    HighFrom = 16
    MaxGridX = 2
    MaxLine = 64
    Sizes = {3}
    Rules <- NoAwaitBeforeAsync
    MaxOps = 6
    MaxCopies = 2
    MaxFailures = 0
INVARIANTS
    CopiesTakeEffect
SYMMETRY Symmetry
CHECK_DEADLOCK FALSE
