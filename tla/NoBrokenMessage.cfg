\* A package resent, and read before.
SPECIFICATION WireSpec
CONSTANTS
    MaxPuts = 3
    MaxConnections = 2
CHECK_DEADLOCK FALSE
INVARIANT NoBrokenMessage
