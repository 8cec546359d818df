SPECIFICATION MCFairSpec
CONSTANTS
    a1 = a1
    a2 = a2
    b1 = b1
    srcA = srcA
    srcB = srcB
    Callers = {g1, g2, g3}
    Keys <- MCKeys
    Sources <- MCSources
    SourceOf <- MCSourceOf
    KnownSize <- MCKnownSize
    LoadSizes = {1, 2}
    MaxFaces = 2
    MaxBytes = 3
    MaxEntries = 3
INVARIANTS
    InUseKept
    SingleFlight
    FacesAccounted
PROPERTY AcquireReturns
CHECK_DEADLOCK FALSE
