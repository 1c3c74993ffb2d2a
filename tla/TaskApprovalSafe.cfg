SPECIFICATION Spec
CONSTANTS
    t1 = t1
    t2 = t2
    r1 = r1
    r2 = r2
    h1 = h1
    h2 = h2
    Tasks <- MCOneTask
    Rids <- MCRids
    ReuseIds = FALSE
    Overlap = FALSE
    Kinds = {"command", "permissions"}
    Buttons = {"approve_session", "cancel"}
    Handlers <- MCHandlers
    MaxAsked = 2
    MaxClients = 3
    MaxLost = 1
SYMMETRY MCSymmetry
INVARIANTS DecisionReaches WaitingHasPending
PROPERTY KeepsPromise
