\* Four callers at once.
SPECIFICATION FairSpec
CONSTANT Requests = {r1, r2, r3, r4}
INVARIANTS
    TypeOK
    OneLookup
PROPERTY KeepsPromise
\* every request is answered
CHECK_DEADLOCK FALSE
