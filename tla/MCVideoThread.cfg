SPECIFICATION Spec
CONSTANTS
    MaxKey = 1
    MaxDelta = 0
    MaxData = 2
    MaxParity = 0
    SendThrows = FALSE
    useFec = FALSE
INVARIANTS
    NobodyOverlooked
    NumbersAgree
