SPECIFICATION Spec
CONSTANTS
    Conns = {c1, c2}
    Listener = listener
    Sizes = {1}
    MaxSends = 1
    MaxRecv = 1
SYMMETRY Symmetry
INVARIANTS
    EnsuresHold
    NoDangling
    PollSetExact
    FinAfterFlush
PROPERTIES
    CallbackOrder
    RemovedWhenIdle
