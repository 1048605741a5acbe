SPECIFICATION FairSpec
CONSTANTS
    Threads = {t1, t2}
    Owner = owner
    Dues = {0, 2, 3}
    PerMilli = 2
    MaxTasks = 2
    MaxTime = 3
    MaxBacks = 1
INVARIANTS
    NothingLost
PROPERTIES
    KeepsOrder
    TasksBegin
    CallsAnswered
CHECK_DEADLOCK FALSE
