\* A lookup that fails.
SPECIFICATION HostSpec
CONSTANTS
    Messages = {m1}
    CloseOp = CloseOp
    HasWriteDone = FALSE
    AbortIs89 = FALSE
    MaxCloses = 1
INVARIANT ConnectIsResolved
CHECK_DEADLOCK FALSE
