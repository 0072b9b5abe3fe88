SPECIFICATION RecoverySpec
CONSTANTS
    p1 = p1  p2 = p2  f1 = f1  x1 = x1  x2 = x2  k1 = k1
    Partitions = {p1, p2}
    Filenames = {f1}
    Contents = {x1, x2}
    IdemKeys = {k1}
    None = None
    Callers = {}
    Clients = {d1}
    Operators = {o1, o2}
    Resetters = {s1}
    NativeOperators = {o2}
    NativeResetters = {s1}
    MaxRecoveryCancels = 1
    Library <- TwoDocuments
    Requests <- Nothing
    DocRequests <- OneDeletion
    RepairRequests <- Repairs
    Scopes <- BothScopes
    MaxDoc = 2
    MaxFaults = 1
    LostReplies = TRUE
    Crashes = TRUE
    RowLocks = TRUE
    NestedIds = {}
    PurgeTold = FALSE
    MaxCalls = 0
    MaxDocCalls = 1
    MaxRepairs = 2
    MaxResets = 1
INVARIANTS
    ContentUnlessReset
    ReadyMeansEmpty
PROPERTIES
    CompletionTakesDeleted
    PartitionIsolation
CHECK_DEADLOCK FALSE
