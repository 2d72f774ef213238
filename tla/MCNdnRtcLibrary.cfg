SPECIFICATION Spec
CONSTANTS
    Sessions = {s1, s2}
    Audio = {mic}
    Video = {cam, screen}
    Remote = {r1, r2}
INVARIANTS
    TypeOK
    StatusTellsStreams
    OnlyConsumersFetch
PROPERTIES
    SilenceEnds
CHECK_DEADLOCK FALSE
