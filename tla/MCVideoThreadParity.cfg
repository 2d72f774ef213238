SPECIFICATION Spec
CONSTANTS
    MaxKey = 0
    MaxDelta = 0
    MaxData = 2
    MaxParity = 1
    SendThrows = TRUE
    useFec = TRUE
INVARIANTS
    TypeOK
    PitForgets
    OnlyDeltaDataOverlooked
