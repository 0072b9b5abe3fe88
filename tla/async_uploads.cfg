SPECIFICATION AsyncFairSpec
CONSTANTS
    p1 = p1  f1 = f1  x1 = x1  x2 = x2  k1 = k1
    Partitions = {p1}
    Filenames = {f1}
    Contents = {x1, x2}
    IdemKeys = {k1}
    None = None
    Callers = {c1, c2}
    Requests <- RetriedRequests
    MaxDoc = 3
    MaxFaults = 1
    LostReplies = FALSE
    MaxCalls = 3
    RowLocks = FALSE
    Crashes = FALSE
    MaxCancels = 2
INVARIANTS
    IdempotentOnce
    ClaimOwnership
    ReplayIsCompleted
    CancelledOrphanAccounted
    CancelledContentIntact
PROPERTIES
    CancelledPendingResolves
CHECK_DEADLOCK FALSE
