SPECIFICATION Spec
CONSTANTS
    w1 = w1
    w2 = w2
    Workers <- MCWorkers
    MaxRounds = 2
    MaxRuns = 2
    MaxCrashes = 0
    Overtake = TRUE
INVARIANT
    ResultOfOwnRound
CHECK_DEADLOCK FALSE
