SPECIFICATION Spec
CONSTANTS
    Root = root
    Modules = {module}
    Contents = {"plain", "requires", "invalid"}
    Requiring = {"requires"}
    Invalid = {"invalid"}
    MaxEdits = 2
    MaxRequests = 1
    MaxAttempts = 8
INVARIANTS
    FailureStaysWatched
CHECK_DEADLOCK FALSE
