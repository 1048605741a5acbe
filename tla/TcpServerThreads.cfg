SPECIFICATION ThreadsSpec
CONSTANTS
    Conns = {c1}
    Listener = listener
    Sizes = {1}
    MaxSends = 1
    MaxRecv = 0
    Threads = {t1}
    NoConn = noConn
INVARIANT SendIsThreadSafe
