SPECIFICATION Spec
CONSTANTS
    t1 = t1
    t2 = t2
    MediaThreads = {t1}
    GOP = 1
    MaxKey = 1
    MaxDelta = 2
    MaxWindow = 4
    MaxCopies = 1
    Slots = 3
    DefaultWindow = 2
    DefaultMinWindow = 1
    Uninitialized <- AnyKeyNo
CHECK_DEADLOCK FALSE
INVARIANTS
    TypeOK
    WindowBalance
    AboveFailedWindow
    RunningOnlyValid
    KeysKeepUp
