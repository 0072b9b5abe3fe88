SPECIFICATION FairSpec
CONSTANTS
    t1 = t1  t2 = t2
    Tasks = {t1, t2}
    Methods <- MCMethods
    Contexts = {"alice"}
    None = None
    Items = 2
    MaxCalls = 2
    MaxTrouble = 2
    MaxCancels = 1
CHECK_DEADLOCK FALSE
INVARIANTS
    AskedWithOwnContext
    BatchGoesOn
    AuditTellsApplied
    InitOnce
    CancelWaits
    RefusalComesFirst
PROPERTIES
    CallEnds
