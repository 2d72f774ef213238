SPECIFICATION Spec
CONSTANTS
    MaxFrame = 3
    Timestamps = {1, 2, 5}
    InferredDuration = 2
    Excesses = {0, 3}
    ProcessingTimes = {0, 1700}
    BufferCheckInterval = 2000
    MaxClock = 6000
INVARIANTS
    TypeOK
    ClockAccounted
    TracksProducer
