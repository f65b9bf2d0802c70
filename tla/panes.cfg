SPECIFICATION MCSpec
CONSTANTS
    MaxTyped = 3
    MaxCalls = 2
    PerTurn = 2
    Fates = {"confirm", "running", "done", "blocked"}
    ToolKinds = {"exec", "wait"}
    Circumstances <- MCCircumstances
    MaxTabs = 2
    MaxPanes = 3
CHECK_DEADLOCK FALSE
INVARIANTS HistorySound PanesSound
PROPERTIES LateOutcomeIgnored QueueDrains
