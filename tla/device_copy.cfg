\* Words of 2 bytes, blocks of 2 threads, granules of 8 bytes: 3 bytes are one
\* word and a rest, 19 are two granules, a word and a rest.
SPECIFICATION Spec
CONSTANTS
    d1 = d1
    d2 = d2
    d3 = d3
    h = h
    DeviceBuffers = {d1, d2, d3}
    HostBuffers = {h}
    BufferSize = 22
    Word = 2
    Block = 2
    Granule = 8
    HighFrom = 16
    MaxGridX = 2
    MaxLine = 64
    Sizes = {3, 19}
    Rules <- AllRules
    MaxOps = 6
    MaxCopies = 2
    MaxFailures = 1
INVARIANTS
    TypeOK
    CopiesTakeEffect
    NothingBeyond
SYMMETRY Symmetry
CHECK_DEADLOCK FALSE
