SPECIFICATION FairSpec
CONSTANTS
    w1 = w1
    w2 = w2
    Workers <- MCWorkers
    MaxRound = 2
    MaxAttempt = 2
    MaxTurns = 2
    MaxFaults = 1
INVARIANTS
    ClaimsAccounted
    SessionIsAwaited
PROPERTIES
    SupersededSealed
    FirstDispatchSettles
CHECK_DEADLOCK FALSE
