SPECIFICATION Spec
CONSTANTS
    t1 = t1
    t2 = t2
    r1 = r1
    r2 = r2
    h1 = h1
    h2 = h2
    Tasks <- MCTasks
    Rids <- MCRids
    ReuseIds = FALSE
    Overlap = TRUE
    Kinds = {"command"}
    Buttons = {"approve_session", "cancel"}
    Handlers <- MCHandlers
    MaxAsked = 2
    MaxClients = 1
    MaxLost = 1
SYMMETRY MCSymmetry
INVARIANT AnswersOwnRequest
