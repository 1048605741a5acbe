SPECIFICATION FairSpec
CONSTANTS
    Threads = {t1, t2}
    MaxTasks = 4
    MaxQuits = 2
INVARIANTS
    QueueOrder
    NoStrandedTask
    NoStrandedQuit
PROPERTIES
    TaskRuns
    QuitStops
