\* A listener that is started, stopped and started again.
SPECIFICATION FairSpec
CONSTANTS
    Connections = {c1, c2, c3}
    None = None
    MaxStarts = 3
INVARIANTS
    OneSocketUser
    NeverBlocked
    DeliveredOnce
    OpenAccepts
    EndReported
PROPERTY StopEnds
\* nobody starts the listener again in the end
CHECK_DEADLOCK FALSE
