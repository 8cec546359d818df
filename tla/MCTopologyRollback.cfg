SPECIFICATION Spec
CONSTANTS
    MaxWorkspaces = 2
    MaxWindows = 3
    MaxTabs = 2
    MaxPaneID = 3
    MaxIncarnation = 3
PROPERTIES
    RollbackRestoresActive
