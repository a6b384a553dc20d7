------------------------------ MODULE MCProtocol ------------------------------
(***************************************************************************)
(* The parts of the protocol above the wire, for TLC.  They share nothing  *)
(* but the wire, of which each needs only that it keeps the order of its   *)
(* own messages, so they are explored one at a time and not in product:    *)
(* `part' says which, and the others stay as they are in the beginning.    *)
(* The entities have the variables for their messages in common.           *)
(***************************************************************************)
EXTENDS Integers, Sequences

CONSTANTS
    Values, Keys, NoValue, MaxChanges, MaxLength,
    MaxMessages, MaxSends, MaxBinds, MaxCalls, MaxConnections, MaxEvents

\* Tasks are counted.
ASSUME MaxCallsAssumption == MaxCalls \in Nat

VARIABLES
    part,
    channel, changes, careless,
    value, master_version,
    map, next_version, pendingForAck, dangling,
    list, list_version, list_bound, conflict, crossed,
    set, told, untold,
    scheduler, subscription, mq, tasks, custom, closure, arrived, delivered,
    dropped, crashed, racers, stale,
    bound, binds, connected, flushing, sendQ, sending, sent, realWire,
    received,
    made, is_sync, held, result, sync_task_id, caller, requests, working,
    responses, queue, setting, ended, actions, used_dead, threw, refused,
    connection, wire_at, main_queue, connecting, EditorModel, bound_models, with_end,
    RdIsModelAlive, viewing, GameControl, events, firing, used_dead_model

Property == INSTANCE RdProperty
Map == INSTANCE RdMap
List == INSTANCE RdList WITH next_version <- list_version, bound <- list_bound
SetOf == INSTANCE RdSet
Broker == INSTANCE MessageBroker
Ext == INSTANCE ExtWire
Call == INSTANCE RdCall
Link == INSTANCE RiderLink WITH used_dead <- used_dead_model

shared == <<channel, changes, careless>>
property_vars == <<value, master_version>>
map_vars == <<map, next_version, pendingForAck, dangling>>
list_vars == <<list, list_version, list_bound, conflict, crossed>>
set_vars == <<set, told, untold>>
broker_vars == <<scheduler, subscription, mq, tasks, custom, closure, arrived, delivered,
    dropped, crashed, racers, stale>>
ext_vars == <<bound, binds, connected, flushing, sendQ, sending, sent, realWire,
    received>>
call_vars == <<made, is_sync, held, result, sync_task_id, caller, requests, working,
    responses, queue, setting, ended, actions, used_dead, threw, refused>>
link_vars == <<connection, wire_at, main_queue, connecting, EditorModel, bound_models, with_end,
    RdIsModelAlive, viewing, GameControl, events, firing, used_dead_model>>
vars == <<part, shared, property_vars, map_vars, list_vars, set_vars, broker_vars, ext_vars,
    call_vars, link_vars>>

Init ==
    /\ part \in {"property", "map", "list", "set", "broker", "ext", "call", "link"}
    /\ Property!Init /\ Map!Init /\ List!Init /\ SetOf!Init /\ Broker!Init
    /\ Ext!Init /\ Call!Init /\ Link!Init
    /\ part # "property" => value["master"] = CHOOSE v \in Values : TRUE
    /\ part # "broker" => scheduler = "default"

PropertyNext == part = "property" /\ Property!Next
    /\ UNCHANGED <<part, careless, map_vars, list_vars, set_vars, broker_vars, ext_vars, call_vars, link_vars>>

MapNext == part = "map" /\ Map!Next
    /\ UNCHANGED <<part, property_vars, list_vars, set_vars, broker_vars, ext_vars, call_vars, link_vars>>

ListNext == part = "list" /\ List!Next
    /\ UNCHANGED <<part, careless, property_vars, map_vars, set_vars, broker_vars, ext_vars, call_vars, link_vars>>

SetNext == part = "set" /\ SetOf!Next
    /\ UNCHANGED <<part, property_vars, map_vars, list_vars, broker_vars, ext_vars, call_vars, link_vars>>

BrokerNext == part = "broker" /\ Broker!Next
    /\ UNCHANGED <<part, shared, property_vars, map_vars, list_vars, set_vars, ext_vars, call_vars, link_vars>>

ExtNext == part = "ext" /\ Ext!Next
    /\ UNCHANGED <<part, shared, property_vars, map_vars, list_vars, set_vars, broker_vars, call_vars, link_vars>>

CallNext == part = "call" /\ Call!Next
    /\ UNCHANGED <<part, shared, property_vars, map_vars, list_vars, set_vars, broker_vars, ext_vars, link_vars>>

LinkNext == part = "link" /\ Link!Next
    /\ UNCHANGED <<part, shared, property_vars, map_vars, list_vars, set_vars, broker_vars, ext_vars, call_vars>>

Next ==
    \/ PropertyNext \/ MapNext \/ ListNext \/ SetNext
    \/ BrokerNext \/ ExtNext \/ CallNext \/ LinkNext

Spec == Init /\ [][Next]_vars

-----------------------------------------------------------------------------
\* The ends of a property agree when nothing is on its way (RdPropertyBase).
PropertyConverges == part = "property" => Property!PropertyConverges

\* The ends of a map agree on every key used with care (RdMap).
MapConverges == part = "map" => Map!MapConverges

\* A key is pending as long as its change or acknowledgement is on its way
\* (RdMap, pendingForAck).
PendingIsOnItsWay == part = "map" => Map!PendingIsOnItsWay

\* The ends of a list agree when they take turns, and notice when they do not
\* (RdList, next_version).
ListReplicates == part = "list" => List!ListReplicates

\* An end of a set holds what the last told change left of a value, less what the
\* end cleared without telling, unless the last told changes met (RdSet).
SetConverges == part = "set" => SetOf!SetConverges

\* An entity gets its messages in order and all of them, before and after it is
\* subscribed, but for those that meet a closure at its end (MessageBroker).
BrokerKeepsOrder == part = "broker" => Broker!BrokerKeepsOrder

\* What is sent through an extension arrives in order, and all of it (ExtWire).
ExtDelivers == part = "ext" => Ext!ExtDelivers

\* Two extensions that are bound find each other (RdExtBase).
ExtConnects == part = "ext" => Ext!ExtConnects

\* No task waits beyond the lifetime of its call (RdCall, WiredRdTaskImpl).
CallEnds == part = "call" => Call!CallEnds

\* A model of the plugin is replaced when nobody uses it (RiderLink).
ReplacedUnused == part = "link" => Link!ReplacedUnused

\* There is a model, and a control, exactly if there is a connection (RiderLink).
AliveFollowsConnection == part = "link" => Link!AliveFollowsConnection
=============================================================================
