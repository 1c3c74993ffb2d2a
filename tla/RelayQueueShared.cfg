SPECIFICATION FairSpec
CONSTANTS
    w1 = w1
    w2 = w2
    t1 = t1
    t2 = t2
    wsA = wsA
    None = None
    Workers <- MCWorkers
    Tasks <- MCTasks
    Workspaces <- MCWorkspaces
    WorkspaceOf <- MCWorkspaceOf
    Inputs = {1, 2}
    CanSteer = FALSE
    MaxRound = 1
    MaxFaults = 1
    MaxFreezes = 0
INVARIANTS
    TypeOK
    OneLiveLeasePerWorkspace
PROPERTIES
    StartedFollowupSettles
CHECK_DEADLOCK FALSE
