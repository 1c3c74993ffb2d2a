SPECIFICATION FairSpec
CONSTANTS
    w1 = w1
    w2 = w2
    t1 = t1
    t2 = t2
    wsA = wsA
    None = None
    Workers <- MCWorkers
    Tasks <- MCTasks
    Workspaces <- MCWorkspaces
    WorkspaceOf <- MCWorkspaceOf
    Inputs = {1, 2}
    CanSteer = FALSE
    MaxRound = 1
    MaxFaults = 0
    MaxFreezes = 0
PROPERTIES
    QueuedInputStarts
CHECK_DEADLOCK FALSE
