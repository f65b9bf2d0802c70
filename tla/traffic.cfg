SPECIFICATION BoundedSpec
CONSTANTS
    Chunks = 2
    Polls = 4
    t1 = t1
    t2 = t2
    t3 = t3
    h1 = h1
    h2 = h2
    Transfers = {t1, t2, t3}
    Hosts = {h1, h2}
    MaxJobs = 2
    MaxRecords = 1
    MaxShows = 3
    Starts = {s1, s2}
    Stops = {x1}
    Conns = {c1}
    Managers = {m1}
    Kinds = {"Local", "Remote"}
    Ports = {1}
    Ephemeral = {}
    Owned = TRUE
    SharedPorts = FALSE
    None = None
    Cmds = {"ls", "cd"}
    MaxHistory = 2
    PtyChunks = {"text", "start", "ask", "main"}
    Cap = 4
    MaxInputs = 2
    MayFail = TRUE
CHECK_DEADLOCK FALSE
INVARIANTS NoLostWakeup JobsAccounted SessionSound
PROPERTIES KeepsPromise JobsRetire StopTerminates CloseEndsPump ShutdownClosesTransport
