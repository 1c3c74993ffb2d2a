SPECIFICATION Spec
CONSTANTS
    w1 = w1
    Workspaces <- MCWorkspaces
    MaxTasks = 2
    ListLimit = 2
    MaxHandlers = 1
    MaxPhases = 1
    MaxRestarts = 0
INVARIANT OneWriter
