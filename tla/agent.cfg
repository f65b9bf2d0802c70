SPECIFICATION MCSpec
CONSTANTS
    Calls = {c1, c2, c3}
    PageCalls = {c3}
    MaxDefs = 1
    MaxConns = 2
    NoTid = NoTid
    WaitCalls = {w1, w2}
    UserJobs = {u1}
    Quiet = 1
    Deadline = 2
    NoJob = NoJob
    Buffer = 1
    MaxCalls = 2
    MaxChunks = 2
    MaxTurns = 2
CHECK_DEADLOCK FALSE
INVARIANTS TunnelsHeld TurnsSound
PROPERTY EveryCallAnswered
