SPECIFICATION Spec
CONSTANTS
    Threads = {t1, t2}
    capacity_ = 3
    quantum_ = 2
    fill_tick_ = 2
    Counts = {1, 4}
    MaxTime = 4
INVARIANTS
    AssertHolds
CHECK_DEADLOCK FALSE
