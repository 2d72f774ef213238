SPECIFICATION PlayoutSpec
CONSTANTS
    s1 = s1
    s2 = s2
    s3 = s3
    s4 = s4
    GOP = 2
    MaxKey = 2
    MaxDelta = 3
    SlotIds = {s1, s2, s3, s4}
    CleanEvery = 2
    useFec = TRUE
    skipIncomplete = TRUE
SYMMETRY AnySlot
INVARIANTS
    PlayoutTypeOK
    SlotsAccounted
    QueueInOrder
PROPERTIES
    BrokenGopStaysBroken
    DeltasAscend
    CleanKeepsNewer
    ImplementsBuffer
