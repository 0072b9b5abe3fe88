SPECIFICATION FairSpec
CONSTANTS
    Chunks = 2
    MaxFaults = 2
    MaxCancels = 2
CHECK_DEADLOCK FALSE
INVARIANTS
    ClosedMeansReleased
    ClosedOnce
    ReleasedBeforeReturn
    CancelledOpenReleased
    CopiedIsWhole
PROPERTIES
    FirstErrorKept
    StreamsEnd
