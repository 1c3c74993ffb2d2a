SPECIFICATION Spec
CONSTANTS
    w1 = w1
    w2 = w2
    Workers <- MCWorkers
    MaxRound = 1
    MaxAttempt = 2
    MaxTurns = 2
    MaxFaults = 0
SYMMETRY MCSymmetry
INVARIANTS
    OneCallPerAttempt
CHECK_DEADLOCK FALSE
