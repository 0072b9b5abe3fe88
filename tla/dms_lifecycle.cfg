SPECIFICATION DmsSpec
CONSTANTS
    p1 = p1  p2 = p2  f1 = f1  x1 = x1  x2 = x2  k1 = k1
    Partitions = {p1, p2}
    Filenames = {f1}
    Contents = {x1, x2}
    IdemKeys = {k1}
    None = None
    Callers = {c1, c2}
    Clients = {d1}
    Operators = {o1, o2}
    Resetters = {}
    NativeOperators = {o2}
    NativeResetters = {}
    MaxRecoveryCancels = 1
    Library <- NoDocuments
    Requests <- PlainUploads
    DocRequests <- Deletions
    RepairRequests <- PurgeOfUploads
    Scopes <- Nothing
    MaxDoc = 3
    MaxFaults = 2
    LostReplies = TRUE
    Crashes = TRUE
    RowLocks = TRUE
    NestedIds = {}
    PurgeTold = TRUE
    MaxCalls = 2
    MaxDocCalls = 1
    MaxRepairs = 1
    MaxResets = 0
INVARIANTS
    ContentUnlessReset
PROPERTIES
    PurgedIsOrphan
CHECK_DEADLOCK FALSE
