SPECIFICATION BoundedSpec
CONSTANTS
    Starts = {s1, s2}
    Stops = {x1, x2}
    Conns = {c1, c2}
    Managers = {m1}
    Kinds = {"Dynamic", "Remote"}
    Ports = {1, 2}
    Ephemeral = {2}
    Owned = TRUE
    SharedPorts = FALSE
    Ids = {i1, i2}
    HostRemovals = TRUE
    MaxBegun = 3
    None = None
CHECK_DEADLOCK FALSE
INVARIANTS ListenersAccounted RegisteredConnsDieWithTunnel ForwardsAccounted InboundToOwner
    LiveAccounted RunsAsSaved TabsTornDown RunningIsLive
PROPERTY OwnedSurvivesTabs
SYMMETRY Symmetry
