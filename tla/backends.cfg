SPECIFICATION MCSpec
CONSTANTS
    Streams <- MCStreams
    Creds = TRUE
    Startup = TRUE
    MaxKeys = 1
    HasStartup = TRUE
    MaxReads = 2
    MaxWrites = 2
    Primary = p0
    Splits = {p1}
    Transfers = {t1, t2}
    Hops = 1
    NoOne = NoOne
    Tasks = {"s1", "s2"}
    KindsOf <- MCKindsOf
    Paths = {"p"}
    MaxSaves = 1
    MayDrop = TRUE
CHECK_DEADLOCK FALSE
INVARIANTS TransfersDieWithClose TelnetSound SessionsSound
PROPERTIES ImplementRemote CloseLetsGo TasksEnd
