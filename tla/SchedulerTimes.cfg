SPECIFICATION Spec
CONSTANTS
    Ids = {s1}
    Freqs = {1, 2}
    CatchUp = 1
    MaxTime = 3
    MaxTicks = 2
    MaxRequests = 2
    MaxFailures = 0
INVARIANT RunsAtTheirTime
CHECK_DEADLOCK FALSE
