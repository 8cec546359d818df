SPECIFICATION MCSpec
CONSTANTS
    MaxWorkspaces = 2
    MaxWindows = 3
    MaxTabs = 2
    MaxPaneID = 3
    MaxWindowIncarnation = 3
    RatioScale = 4
    Ratios = {1, 3}
    CellWidth = 1
    CellHeight = 1
    MinPaneCols = 2
    MinPaneRows = 2
    TopologyMin = 1
    Deltas = {1, 2}
    MaxPanes = 3
    Objects = {p1, p2, p3}
    None = None
    Capacity = 2
    MaxChunks = 1
    MaxSessionPaneID = 2
    MaxRestore = 2
    MaxRefusals = 2
    Widths = {2, 3}
    Heights = {1, 2}
    Histories = {0, 2, 3}
    TabWidth = 2
    MaxGlyphs = 4
SYMMETRY ObjectSymmetry
INVARIANTS
    TopologySound
    PanesTile
    
    ScreensWellFormed
PROPERTIES
    TreeStepsKept
    MainScreenKept
    ViewPinned
CHECK_DEADLOCK FALSE
