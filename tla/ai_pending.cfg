SPECIFICATION MCSpec
CONSTANTS
    MaxTyped = 3
    MaxCalls = 2
    PerTurn = 1
    Fates = {"confirm", "running"}
    ToolKinds = {"wait"}
    Circumstances <- MCCompacting
    MaxTabs = 1
    MaxPanes = 1
CHECK_DEADLOCK FALSE
INVARIANTS AllowedByUser
