\* Three updates, two failing file operations and one crash: enough for a
\* failed update to be followed by one that publishes it, for one to wait
\* behind another, and for a restart between any two steps.
SPECIFICATION FairSpec
CONSTANTS
    Updates = {u1, u2, u3}
    MaxCrashes = 1
    MaxFaults = 2
INVARIANTS
    TypeOK
    OneWriter
    NeverTorn
    AckedSurvive
    MemoryAccounted
PROPERTIES
    IsDurableDocument
    Settles
CHECK_DEADLOCK FALSE
