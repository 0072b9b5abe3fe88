SPECIFICATION Spec
CONSTANTS
    p1 = p1  p2 = p2  f1 = f1  x1 = x1  x2 = x2  k1 = k1
    Partitions = {p1, p2}
    Filenames = {f1}
    Contents = {x1, x2}
    IdemKeys = {k1}
    None = None
    Callers = {c1, c2}
    Requests <- ContendingRequests
    MaxDoc = 1
    MaxFaults = 0
    LostReplies = FALSE
    MaxCalls = 2
    RowLocks = TRUE
    Crashes = FALSE
INVARIANT ContentIntact
CHECK_DEADLOCK FALSE
