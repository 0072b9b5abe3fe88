SPECIFICATION Spec
CONSTANTS
    p1 = p1  p2 = p2  f1 = f1  x1 = x1  x2 = x2  k1 = k1
    Partitions = {p1, p2}
    Filenames = {f1}
    Contents = {x1, x2}
    IdemKeys = {k1}
    None = None
    Callers = {c1}
    Requests <- RetriedRequests
    MaxDoc = 2
    MaxFaults = 1
    LostReplies = FALSE
    MaxCalls = 2
    RowLocks = TRUE
    Crashes = FALSE
INVARIANT RegisteredNotDuplicate
CHECK_DEADLOCK FALSE
