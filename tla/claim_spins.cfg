SPECIFICATION DmsFairSpec
CONSTANTS
    p1 = p1  p2 = p2  f1 = f1  x1 = x1  x2 = x2  k1 = k1
    Partitions = {p1, p2}
    Filenames = {f1}
    Contents = {x1, x2}
    IdemKeys = {k1}
    None = None
    Callers = {c1, c2}
    Clients = {}
    Operators = {}
    Resetters = {s1}
    NativeOperators = {}
    NativeResetters = {}
    MaxRecoveryCancels = 0
    Library <- NoDocuments
    Requests <- KeyedUpload
    DocRequests <- Nothing
    RepairRequests <- Nothing
    Scopes <- OneScope
    MaxDoc = 2
    MaxFaults = 0
    LostReplies = FALSE
    Crashes = FALSE
    RowLocks = TRUE
    NestedIds = {}
    PurgeTold = FALSE
    MaxCalls = 2
    MaxDocCalls = 0
    MaxRepairs = 0
    MaxResets = 1
PROPERTIES
    ClaimReturns
CHECK_DEADLOCK FALSE
