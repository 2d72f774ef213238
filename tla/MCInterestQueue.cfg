SPECIFICATION Spec
CONSTANTS
    i1 = i1
    i2 = i2
    i3 = i3
    Clients = {c1, c2}
    Bg = Bg
    Interests = {i1, i2, i3}
    Deadline <- MCDeadline
    NoThread = NoThread
    NoInterest = NoInterest
INVARIANTS
    TypeOK
    NoStrandedInterest
    FlagIsAPromise
    NoLockCycle
PROPERTIES
    EveryInterestLeaves
