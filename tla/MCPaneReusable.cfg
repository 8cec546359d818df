SPECIFICATION Spec
CONSTANTS
    Objects = {p1, p2, p3}
    None = None
    Capacity = 1
    MaxChunks = 1
    MaxPaneID = 3
    MaxRestore = 1
    MaxRefusals = 1
INVARIANT FailedWindowReusable
CHECK_DEADLOCK FALSE
