\* Two of the threads of Max.
SPECIFICATION MovementSpec
CONSTANTS
    Threads = {main, scheduler}
    Types = {"JOINT", "LIN"}
    Size = 2
    MaxCalls = 5
INVARIANT SentIsWhole
\* the number of calls is bounded
CHECK_DEADLOCK FALSE
