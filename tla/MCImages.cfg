SPECIFICATION MCSpec
CONSTANTS
    Workers = {w1}
    Images = {1, 2}
    DecodedLimit = 3
    TransferLimit = 2
    MaxCandidates = 3
    MaxTransfers = 3
    MaxEpoch = 2
    MaxGeneration = 2
    Rows = 3
    Cols = 2
    Capacities = {0, 1}
    PlacementIDs = {p1}
    PlacementLimit = 2
    Wire = {"kitty"}
    Local = {"sixel"}
    Spans <- TallSpans
    Cursors <- TwoCursors
    Goroutines = {g1, g2, g3}
    Panes = {p1, p2}
    KindOrder <- TwoKinds
    PaneLimit <- LimitOfPane
    ProcessLimit <- LimitOfProcess
    Usages <- TwoUsages
    MaxString = 3
    MaxChunk = 1
    MaxOSC = 2
    MaxBytes = 7
    MaxMixed = 4
    MaxShort = 6
INVARIANTS
    PublicExact
    NothingLeaks
    PublicationsKept
    PlacementsKept
    BudgetExact
PROPERTY FramesEnd
CHECK_DEADLOCK FALSE
