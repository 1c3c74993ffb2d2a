SPECIFICATION Spec
CONSTANTS
    w1 = w1
    w2 = w2
    t1 = t1
    t2 = t2
    wsA = wsA
    None = None
    Workers <- MCWorkers
    Tasks <- OneTask
    Workspaces <- MCWorkspaces
    WorkspaceOf <- OneTaskWorkspaceOf
    Inputs = {1, 2}
    CanSteer = TRUE
    MaxRound = 2
    MaxFaults = 1
    MaxFreezes = 1
SYMMETRY OneTaskSymmetry
INVARIANTS
    FenceMatchesLease
    OneRoundPerInput
    ConsumedIntoItsRound
    ConsumedInOrder
PROPERTIES
    SettledForever
    ConsumedUnderLease
CHECK_DEADLOCK FALSE
