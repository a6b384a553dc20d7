\* Two values, two keys, four changes; four messages; two extensions bound
\* twice; three calls; three connections and two events of the editor.
SPECIFICATION Spec
CONSTANTS
    Values = {v1, v2}
    Keys = {k1, k2}
    NoValue = none
    MaxChanges = 4
    MaxLength = 3
    MaxMessages = 4
    MaxSends = 2
    MaxBinds = 2
    MaxCalls = 3
    MaxConnections = 3
    MaxEvents = 2
CHECK_DEADLOCK FALSE
INVARIANTS
    PropertyConverges
    MapConverges
    PendingIsOnItsWay
    ListReplicates
    
    BrokerKeepsOrder
    ExtDelivers
    ExtConnects
    CallEnds
    ReplacedUnused
    AliveFollowsConnection
