SPECIFICATION BoundedSpec
CONSTANTS
    Callers = {c1, c2, c3}
    Others = {o1}
    Files = {f1, f2}
    Free = Free
    MaxRequests = 2
    BurstSize = 0
    TimeWindow = 1
    MaxConcurrent = 2
    MaxTime = 2
    MaxWrites = 1
SYMMETRY Symmetry
INVARIANT WindowBound
INVARIANT ConcurrencyBound
INVARIANT ToldIsDone
INVARIANT CommitsAreGuarded
PROPERTY RefusalJustified
CHECK_DEADLOCK FALSE
