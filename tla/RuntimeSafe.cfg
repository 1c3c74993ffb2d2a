SPECIFICATION PartsSpec
CONSTANTS
    w1 = w1
    t1 = t1
    t2 = t2
    Workspaces <- MCWorkspaces
    MaxTasks = 2
    ListLimit = 2
    MaxHandlers = 1
    MaxPhases = 0
    MaxRestarts = 1
    MaxQueued = 2
    MaxRunCrashes = 2
    Turns <- MCTurns
    MaxFrames = 2
    MaxFrameCrashes = 1
    BatchSize = 2
INVARIANTS
    PartsTypeOK
    OneWriterPerWorkspace
    OneOutcome
    FrameKept
    NeverCorrupt
    SequenceFresh
PROPERTIES
    EndedStaysEnded
    LaunchInTurn
    ActiveStaysHot
