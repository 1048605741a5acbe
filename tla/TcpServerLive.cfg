SPECIFICATION FairSpec
CONSTANTS
    Conns = {c1}
    Listener = listener
    Sizes = {2}
    MaxSends = 1
    MaxRecv = 1
PROPERTIES
    ClosedIsDestroyed
    ShutdownCompletes
