SPECIFICATION Spec
CONSTANTS
    Threads = {t1, t2, t3}
    More = {t4}
    NoThread = none
    Nodes = {n1, n2, n3}
    nullptr = nullptr
    Clients = {c1, c2}
    MaxDepth = 2
    MaxTasks = 3
INVARIANTS
    MutualExclusion
    OneOwner
    NoUseAfterDelete
    BlockingTasksRun
PROPERTIES
    FirstInFirstOut
    WaiterLocks
    PoolGoesOn
