SPECIFICATION Spec
CONSTANTS
    MaxData = 3
    MaxParity = 2
    useFec = TRUE
    useRtx = TRUE
INVARIANTS
    TypeOK
    PendingCovers
    NothingForgotten
    ReadyIsComplete
PROPERTIES
    AppendsAsPromised
