SPECIFICATION DmsSpec
CONSTANTS
    p1 = p1  p2 = p2  f1 = f1  x1 = x1  x2 = x2  k1 = k1
    Partitions = {p1, p2}
    Filenames = {f1}
    Contents = {x1, x2}
    IdemKeys = {k1}
    None = None
    Callers = {c1}
    Clients = {}
    Operators = {o1}
    Resetters = {}
    NativeOperators = {}
    NativeResetters = {}
    MaxRecoveryCancels = 0
    Library <- NoDocuments
    Requests <- PlainUpload
    DocRequests <- Nothing
    RepairRequests <- PurgeOfOne
    Scopes <- Nothing
    MaxDoc = 2
    MaxFaults = 0
    LostReplies = FALSE
    Crashes = FALSE
    RowLocks = TRUE
    NestedIds = {}
    PurgeTold = FALSE
    MaxCalls = 1
    MaxDocCalls = 0
    MaxRepairs = 1
    MaxResets = 0
PROPERTIES
    PurgedIsOrphan
CHECK_DEADLOCK FALSE
