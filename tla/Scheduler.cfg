\* One schedule with two frequencies, four time steps, two ticks that may
\* overlap, and a few requests, failed writes and crashes.
SPECIFICATION FairSpec
CONSTANTS
    Ids = {s1}
    Freqs = {1, 2}
    CatchUp = 1
    MaxTime = 3
    MaxTicks = 2
    MaxRequests = 3
    MaxFailures = 1
INVARIANTS
    TypeOK
    OneRunPerSchedule
    SlotServedOnce
PROPERTIES
    RemovedForGood
    RunNowLeavesScheduleAlone
    DueIsHandled
CHECK_DEADLOCK FALSE
