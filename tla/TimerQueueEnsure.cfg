SPECIFICATION TimersSpec
CONSTANTS
    Micro = 2
    MinDuration = 2
    Intervals = {0}
    MaxTime = 4
    MaxTimers = 1
    MaxJumps = 0
INVARIANTS
    EnsureHolds
CHECK_DEADLOCK FALSE
