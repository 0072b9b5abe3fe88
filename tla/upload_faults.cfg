SPECIFICATION Spec
CONSTANTS
    p1 = p1  p2 = p2  f1 = f1  x1 = x1  x2 = x2  k1 = k1
    Partitions = {p1, p2}
    Filenames = {f1}
    Contents = {x1, x2}
    IdemKeys = {k1}
    None = None
    Callers = {c1, c2}
    Requests <- AllocatedRequests
    MaxDoc = 3
    MaxFaults = 2
    LostReplies = TRUE
    MaxCalls = 3
    RowLocks = FALSE
    Crashes = TRUE
SYMMETRY Symmetry
INVARIANTS
    TypeOK
    ResultMatchesRequest
    ContentIntact
PROPERTIES
    ImplementsRegistry
CHECK_DEADLOCK FALSE
