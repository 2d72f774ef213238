SPECIFICATION Spec
CONSTANTS
    t1 = t1
    t2 = t2
    MediaThreads = {t1, t2}
    GOP = 1
    MaxKey = 0
    MaxDelta = 0
    MaxWindow = 2
    MaxCopies = 1
    Slots = 3
    DefaultWindow = 2
    DefaultMinWindow = 1
    Uninitialized <- AnyKeyNo
CHECK_DEADLOCK FALSE
INVARIANTS
    NeverWedged
PROPERTIES
    InitialDataComes
