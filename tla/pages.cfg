SPECIFICATION MCSpec
CONSTANTS
    Documents <- MCDocuments
    Times <- MCTimes
    Partitions = {"own", "other"}
    Limits <- MCLimits
    MaxPageLimit = 2
    MaxChanges = 2
    MaxFaults = 1
CHECK_DEADLOCK FALSE
INVARIANTS
    CursorSkipsNothing
    OffsetDrift
PROPERTIES
    PagesDescend
    PageWithinListing
