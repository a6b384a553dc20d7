\* Three packages, two connections, either side connects.
SPECIFICATION WireSpec
CONSTANTS
    MaxPuts = 3
    MaxConnections = 2
CHECK_DEADLOCK FALSE
INVARIANTS
    WireTypeOK
    OnlyReadIsForgotten
    NextOrFirst
PROPERTIES
    AcksIncrease
    PendingArrives
