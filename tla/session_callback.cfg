\* A host that registers on_write_done, on macOS: read_handler flushes.  No
\* symmetry: two of the properties are temporal.
SPECIFICATION FairSpec
CONSTANTS
    Messages = {m1, m2, m3}
    CloseOp = CloseOp
    HasWriteDone = TRUE
    AbortIs89 = TRUE
    MaxCloses = 1
INVARIANTS
    HandBackBalance
    OnlyStaleTwice
    QueueHasWriter
PROPERTIES
    CloseEnds
    EndedDrains
\* a session that is over does nothing more
CHECK_DEADLOCK FALSE
