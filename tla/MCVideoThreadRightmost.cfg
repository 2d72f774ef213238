SPECIFICATION Spec
CONSTANTS
    MaxKey = 1
    MaxDelta = 1
    MaxData = 1
    MaxParity = 0
    SendThrows = FALSE
    useFec = FALSE
PROPERTIES
    RightmostAnswered
