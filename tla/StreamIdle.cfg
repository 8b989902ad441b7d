SPECIFICATION Spec
CONSTANTS
    MaxEvents = 2
    MaxChunk = 3
    IdleTicks = 3
INVARIANT QuietMeansGone
CHECK_DEADLOCK FALSE
