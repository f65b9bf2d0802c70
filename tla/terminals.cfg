SPECIFICATION Spec
CONSTANTS
    MaxAttempts = 3
    Wired = FALSE
    AutoReconnect = TRUE
    ManualReconnect = TRUE
CHECK_DEADLOCK FALSE
PROPERTY ViewFollowsAttempt
