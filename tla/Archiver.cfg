SPECIFICATION Spec
CONSTANTS
    NumIds = 3
    Legacy = {1}
    MaxTime = 5
    LastStamp = 2
    InsertTimeout = 1
    Replicas = {a, b}
    MaxAge = 2
    DayLen = 2
    MaxFaults = 2
    None = None
INVARIANTS
    ChainIntact
    DetectsAlteration
    RowsKept
PROPERTIES
    TableDrains
CHECK_DEADLOCK FALSE
