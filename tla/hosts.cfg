\* Both hosts: a session made at once, and one made when the name is resolved.
SPECIFICATION HostFairSpec
CONSTANTS
    Messages = {m1, m2}
    CloseOp = CloseOp
    HasWriteDone = FALSE
    AbortIs89 = FALSE
    MaxCloses = 1
INVARIANTS
    NothingOutlivesHost
    ReadySendsBinary
PROPERTIES
    DestructorReturns
    LookupFailureIsReported
\* the object is gone in the end
CHECK_DEADLOCK FALSE
