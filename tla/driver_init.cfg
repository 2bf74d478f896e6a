\* Two cards, what may be set in the environment, two attempts at a context.
SPECIFICATION Spec
CONSTANTS
    c1 = c1
    c2 = c2
    NONE = NONE
    Gpus = 2
    Instance <- Swapped
    Lists <- SomeLists
    Garbage = {0, 1, 9}
    Contexts = {c1, c2}
    MaxFailures = 3
INVARIANTS
    TypeOK
    HandlesMatch
    HiddenStayHidden
    SetUpIsFresh
    FilesKept
SYMMETRY Symmetry
\* A program has nothing left to do once its contexts are gone.
CHECK_DEADLOCK FALSE
