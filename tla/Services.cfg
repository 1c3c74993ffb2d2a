SPECIFICATION PartsSpec
CONSTANTS
    r1 = r1
    r2 = r2
    k1 = k1
    k2 = k2
    c1 = c1
    s1 = s1
    w1 = w1
    None = None
    Requests <- MCRequests
    Keys <- MCKeys
    MaxTasks = 2
    MaxFaults = 1
    MaxSlow = 0
    Clients <- MCClients
    MaxEvents = 4
    MaxConnects = 2
    SnapshotLimit = 2
    QueueSize = 2
    MaxTexts = 2
    MaxRetries = 2
    Sessions <- MCSessions
    Writers <- MCWriters
    MaxTurns = 2
    MaxWindows = 2
    MaxMisses = 1
    Workspaces <- MCWriters
INVARIANTS
    OneTaskPerKey
    CompletedMeansBuilt
    InOrder
    AppliedInOrder
    IdMeansShown
    ReadyMeansEnded
PROPERTIES
    ParallelOnlyByChoice
    FoundTaskCompletes
    CatchesUp
    EveryTextEnds
    DrainEnds
    WorkEnds
CHECK_DEADLOCK FALSE
