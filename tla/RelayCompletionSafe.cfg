SPECIFICATION FairSpec
CONSTANTS
    w1 = w1
    w2 = w2
    Workers <- MCWorkers
    MaxRounds = 2
    MaxRuns = 2
    MaxCrashes = 1
    Overtake = FALSE
INVARIANTS
    HandedOnce
    ResultOfOwnRound
PROPERTY
    RunSettles
CHECK_DEADLOCK FALSE
