SPECIFICATION PartsSpec
CONSTANTS
    Channels = {c1, c2, c3}
    Revents = {"IN", "HUP"}
    Fds = {0, 3, 4}
    Micro = 2
    MinDuration = 2
    Intervals = {0, 3}
    MaxTime = 6
    MaxTimers = 2
    MaxJumps = 1
    Bytes = {1, 2}
    kDefaultPrependSize = 2
    kExtraBufSize = 2
    InitialSizes = {0, 1, 3}
    MaxWrite = 2
    MaxReadable = 4
SYMMETRY Symmetry
INVARIANTS
    PollerConsistent
    TimersWatched
    Punctual
    TickedOnce
    PartsInOrder
    ReserveSuffices
PROPERTIES
    ImplementsPollSet
    ImplementsByteQueue
