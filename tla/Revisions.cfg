SPECIFICATION Spec
CONSTANTS
    NumOps = 3
    PoolSize = 1
    NumReplicas = 2
    NumParts = 2
    Kinds = {k}
    MaxItems = 1
    MaxFaults = 1
    None = None
INVARIANTS
    LiveIsRecorded
    LatestDeployedIsLive
    RevisionsWereLive
    ConflictsAreForeign
PROPERTIES
    RequestsEnd
CHECK_DEADLOCK FALSE
