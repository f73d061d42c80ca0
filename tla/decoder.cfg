\* Two threads, and jobs posted before, during and after stop().
SPECIFICATION FairSpec
CONSTANTS
    Workers = {w1, w2}
    Jobs = {j1, j2, j3}
    None = None
    MaxStops = 2
INVARIANT EarlyJobsDone
PROPERTIES
    NothingAfterStop
    StopEnds
\* everything is stopped in the end
CHECK_DEADLOCK FALSE
