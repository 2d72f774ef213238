SPECIFICATION Spec
CONSTANTS
    Clients = {c1, c2}
    MaxCalls = 2
    MaxNested = 1
INVARIANTS
    TypeOK
    BlocksInOrder
PROPERTIES
    NotAbandoned
    EveryBlockRuns
CHECK_DEADLOCK FALSE
