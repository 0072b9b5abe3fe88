SPECIFICATION AsyncDocFairSpec
CONSTANTS
    p1 = p1  p2 = p2  f1 = f1  x1 = x1  x2 = x2
    Partitions = {p1, p2}
    Filenames = {f1}
    Contents = {x1, x2}
    IdemKeys = {}
    None = None
    Clients = {c1, c2, c3}
    DocRequests <- SharedRequests
    Library <- TwoDocuments
    MaxDoc = 2
    MaxFaults = 2
    LostReplies = TRUE
    Crashes = TRUE
    MaxDocCalls = 3
    MaxDocCancels = 1
INVARIANTS
    AvailableHasContent
    DeletionLeavesNothing
    DeletedIsFinal
    NoFalseInconsistency
    LateRemovalTakesDeleted
PROPERTIES
    UndisturbedDeletingSettles
CHECK_DEADLOCK FALSE
