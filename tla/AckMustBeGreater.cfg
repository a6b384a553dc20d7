\* A repeated acknowledgement.
SPECIFICATION WireSpec
CONSTANTS
    MaxPuts = 3
    MaxConnections = 2
CHECK_DEADLOCK FALSE
PROPERTY AckMustBeGreater
