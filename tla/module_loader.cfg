\* Sections on 8 bytes, pages of 16, words of 5 bits in addresses of 10.
SPECIFICATION Spec
CONSTANTS
    Functions = {"f", "g"}
    NoFunction = ""
    Images <- SomeImages
    Bases = {32, 92}
    Align = 8
    Page = 16
    Half = 32
    Modulus = 1024
    EntrySize = 64
    LocalBase = 2
    ParamBase = 8
    ArgAlign = 16
INVARIANTS
    TypeOK
    SectionsApart
    RelocsResolved
    FunctionsDescribed
    ArgsWhereKernelReads
\* A program ends with its module loaded.
CHECK_DEADLOCK FALSE
