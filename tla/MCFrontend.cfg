SPECIFICATION MCSpec
CONSTANTS
    Root = root
    Modules = {module}
    Contents = {"plain", "requires", "invalid"}
    Requiring = {"requires"}
    Invalid = {"invalid"}
    MaxEdits = 2
    MaxRequests = 1
    MaxAttempts = 8
    Sizes = {1, 2}
    Layers = {photo, drawing}
    NoLayers = none
    MaxResizes = 2
    MaxReloads = 2
    MaxFailures = 1
    Processes = {w1, w2}
    MaxFiles = 4
    Goroutines = {g0, g1}
    Main = g0
    MaxScopes = 3
    WindowIDs = {1}
    MaxIncarnation = 2
INVARIANTS
    ActiveIsOnDisk
    ShowsConfig
    RestartFindsLatestWhole
PROPERTIES
    ReloadsSettle
    BackgroundFits
    OnlyTheRunningOperation
CHECK_DEADLOCK FALSE
