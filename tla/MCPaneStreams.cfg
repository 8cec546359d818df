SPECIFICATION FairSpec
CONSTANTS
    Objects = {p1, p2}
    None = None
    Capacity = 2
    MaxChunks = 2
    MaxPaneID = 2
    MaxRestore = 2
    MaxRefusals = 1
INVARIANTS OwnOutputInOrder 
PROPERTIES ImplementsStreams ShutdownReturns RecordsArrive
CHECK_DEADLOCK FALSE
