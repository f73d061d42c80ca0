\* The configuration the hosts ship: no on_write_done handler, on Linux.
SPECIFICATION Spec
CONSTANTS
    Messages = {m1, m2, m3}
    CloseOp = CloseOp
    HasWriteDone = FALSE
    AbortIs89 = FALSE
    MaxCloses = 2
SYMMETRY Symmetric
INVARIANTS
    TypeOK
    OneWriteInFlight
    HandedInOrder
    OnlineIsReading
PROPERTY ImplementsOutbox
\* a session that is over does nothing more
CHECK_DEADLOCK FALSE
