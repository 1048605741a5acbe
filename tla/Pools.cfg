SPECIFICATION Spec
CONSTANTS
    Threads = {t1, t2, t3}
    Objects = {o1, o2, o3, o4}
    capacity_ = 3
    max_idle_ = 2
    idle_timeout_ = 1
    quantum_ = 2
    fill_tick_ = 2
    Counts = {1, 4}
    maxsize = 3
    MaxSize = 8
    total_slot_count_ = 8
    Wrap = 8
    Emissions = {1, 2}
    MaxTime = 2
    MaxOps = 5
SYMMETRY Symmetry
INVARIANTS
    ConnsAccounted
    NoneExpired
    RateKept
    NodesAccounted
    TreeExact
    CopyOnWrite
    EmitsSnapshot
PROPERTIES
    LastInFirstOut
CHECK_DEADLOCK FALSE
