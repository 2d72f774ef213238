SPECIFICATION Spec
CONSTANTS
    Clients = {c1, c2}
    MaxCalls = 2
    MaxNested = 1
PROPERTIES
    EveryCallReturns
CHECK_DEADLOCK FALSE
