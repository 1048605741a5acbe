SPECIFICATION Spec
CONSTANTS
    Threads = {t1, t2}
    NoThread = none
INVARIANTS
    AssertHolds
CHECK_DEADLOCK FALSE
