\* Two streams share a channel: pages that wrap, a ring that goes round.
SPECIFICATION FairSpec
CONSTANTS
    s1 = s1
    s2 = s2
    NULL = NULL
    Streams = {s1, s2}
    PageWords = 4
    PageBase <- Adjacent
    Entries = 3
    BatchSizes = {1, 2, 3}
    ClientRules = {"page", "ring"}
    MaxBatches = 5
INVARIANTS
    TypeOK
    OnlyOthersRefuse
PROPERTIES
    ImplementsBatchFifo
    PublishedIsRead
