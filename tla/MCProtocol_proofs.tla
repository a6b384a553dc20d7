--------------------------- MODULE MCProtocol_proofs ---------------------------
(***************************************************************************)
(* What is proved of the parts of the protocol holds of all of them        *)
(* together: a part that is not being explored stands still, and a step of *)
(* the one that is, is a step of its module.                               *)
(***************************************************************************)
EXTENDS MCProtocol, TLAPS

EntityProofs == INSTANCE Entities_proofs
BrokerProofs == INSTANCE MessageBroker_proofs
ConnectionProofs == INSTANCE Connections_proofs

\* What holds of a part when it is the one explored.
OfProperty == part = "property" => EntityProofs!PropertyInv
OfMap == part = "map" => EntityProofs!MapInv
OfList == part = "list" => EntityProofs!ListInv
OfSet == part = "set" => EntityProofs!SetInv
OfBroker == part = "broker" => BrokerProofs!BInv
OfExt == part = "ext" => ConnectionProofs!ExtInv
OfCall == part = "call" => ConnectionProofs!CallInv
OfLink == part = "link" => ConnectionProofs!LinkInv

-----------------------------------------------------------------------------
(* The parts of the protocol.                                              *)

\* Whichever part takes a step, the others are not explored.
LEMMA OnePart ==
    ASSUME [Next]_vars
    PROVE  /\ part' = part
           /\ part = "property" => Property!Next \/ UNCHANGED Property!vars
           /\ part = "map" => Map!Next \/ UNCHANGED Map!vars
           /\ part = "list" => List!Next \/ UNCHANGED List!vars
           /\ part = "set" => SetOf!Next \/ UNCHANGED SetOf!vars
           /\ part = "broker" => Broker!Next \/ UNCHANGED Broker!vars
           /\ part = "ext" => Ext!Next \/ UNCHANGED Ext!vars
           /\ part = "call" => Call!Next \/ UNCHANGED Call!vars
           /\ part = "link" => Link!Next \/ UNCHANGED Link!vars
<1>1. CASE UNCHANGED vars
  BY <1>1 DEF vars, shared, property_vars, map_vars, list_vars, set_vars, broker_vars,
              ext_vars, call_vars, link_vars, Property!vars, Map!vars, List!vars, SetOf!vars,
              Broker!vars, Ext!vars, Call!vars, Link!vars
<1>2. CASE Next
  BY <1>2 DEF Next, PropertyNext, MapNext, ListNext, SetNext, BrokerNext, ExtNext, CallNext, LinkNext
<1>3. QED
  BY <1>1, <1>2

-----------------------------------------------------------------------------
(* The property.                                                           *)

LEMMA PropertyInit == Init => EntityProofs!Property!Init
  BY DEF Init, Property!Init, EntityProofs!Property!Init, Property!Ends, EntityProofs!Property!Ends

LEMMA PropertySteps == Property!Next => EntityProofs!Property!Next
  BY DEF Property!Next, EntityProofs!Property!Next, Property!Ends, EntityProofs!Property!Ends,
         Property!Set, EntityProofs!Property!Set,
         Property!on_wire_received, EntityProofs!Property!on_wire_received,
         Property!version_of_change, EntityProofs!Property!version_of_change,
         Property!rejected, EntityProofs!Property!rejected,
         Property!Message, EntityProofs!Property!Message, Property!Other, EntityProofs!Property!Other,
         Property!Sent, EntityProofs!Property!Sent, Property!Taken, EntityProofs!Property!Taken

\* The ends of a property agree when nothing is on its way, whatever changes
\* have crossed (RdPropertyBase).
THEOREM PropertyCorrect == Spec => []PropertyConverges
<1>1. Init => OfProperty
  BY PropertyInit, EntityProofs!PropertyInit DEF OfProperty
<1>2. OfProperty /\ [Next]_vars => OfProperty'
  <2> SUFFICES ASSUME part = "property", EntityProofs!PropertyInv, [Next]_vars
               PROVE  EntityProofs!PropertyInv'
    BY OnePart DEF OfProperty
  <2>1. EntityProofs!Property!Next \/ UNCHANGED EntityProofs!Property!vars
    BY OnePart, PropertySteps DEF Property!vars, EntityProofs!Property!vars
  <2>2. QED
    BY <2>1, EntityProofs!PropertySteps
<1>3. OfProperty => PropertyConverges
  <2>1. EntityProofs!PropertyInv => EntityProofs!Property!PropertyConverges
    BY EntityProofs!PropertyAgrees
  <2>2. QED
    BY <2>1 DEF OfProperty, PropertyConverges, Property!PropertyConverges,
                EntityProofs!Property!PropertyConverges, Property!Quiet, EntityProofs!Property!Quiet,
                Property!Ends, EntityProofs!Property!Ends
<1>4. QED
  BY <1>1, <1>2, <1>3, PTL DEF Spec

-----------------------------------------------------------------------------
(* The map.                                                                *)

LEMMA MapInit == Init => EntityProofs!Map!Init
  BY DEF Init, Map!Init, EntityProofs!Map!Init,
         Map!Ends, EntityProofs!Map!Ends,
         Map!None, EntityProofs!Map!None

LEMMA MapSteps == Map!Next => EntityProofs!Map!Next
  BY DEF Map!Next, EntityProofs!Map!Next,
         Map!Ends, EntityProofs!Map!Ends,
         Map!Set, EntityProofs!Map!Set,
         Map!RemoveKey, EntityProofs!Map!RemoveKey,
         Map!Clear, EntityProofs!Map!Clear,
         Map!ReceiveAck, EntityProofs!Map!ReceiveAck,
         Map!ReceiveChange, EntityProofs!Map!ReceiveChange,
         Map!send, EntityProofs!Map!send,
         Map!pend, EntityProofs!Map!pend,
         Map!removes, EntityProofs!Map!removes,
         Map!Pending, EntityProofs!Map!Pending,
         Map!MayFind, EntityProofs!Map!MayFind,
         Map!Position, EntityProofs!Map!Position,
         Map!Message, EntityProofs!Map!Message,
         Map!OpOf, EntityProofs!Map!OpOf,
         Map!None, EntityProofs!Map!None,
         Map!Other, EntityProofs!Map!Other,
         Map!Sent, EntityProofs!Map!Sent,
         Map!Taken, EntityProofs!Map!Taken,
         Map!ToSet, EntityProofs!Map!ToSet,
         Map!SetToSeq, EntityProofs!Map!SetToSeq,
         Map!Cardinality, EntityProofs!Map!Cardinality,
         Map!IsInjective, EntityProofs!Map!IsInjective,
         Map!Acknowledged, EntityProofs!Map!Acknowledged,
         Map!accepts, EntityProofs!Map!accepts,
         Map!acks, EntityProofs!Map!acks

LEMMA MapInductive == (Init => OfMap) /\ (OfMap /\ [Next]_vars => OfMap')
<1>1. Init => OfMap
  BY MapInit, EntityProofs!MapInit DEF OfMap
<1>2. ASSUME part = "map", EntityProofs!MapInv, [Next]_vars PROVE EntityProofs!MapInv'
  <2>1. EntityProofs!Map!Next \/ UNCHANGED EntityProofs!Map!vars
    BY <1>2, OnePart, MapSteps DEF Map!vars, EntityProofs!Map!vars
  <2>2. QED
    BY <1>2, <2>1, EntityProofs!MapSteps
<1>3. QED
  BY <1>1, <1>2, OnePart DEF OfMap

\* The ends of a map agree, when nothing is on its way, on every key used with
\* care (RdMap).
THEOREM MapCorrect == Spec => []MapConverges
<1>1. OfMap => MapConverges
  <2>1. EntityProofs!MapInv => EntityProofs!Map!MapConverges
    BY EntityProofs!MapAgrees
  <2>2. QED
    BY <2>1 DEF OfMap, MapConverges, Map!MapConverges, EntityProofs!Map!MapConverges,
         Map!Quiet, EntityProofs!Map!Quiet,
         Map!Ends, EntityProofs!Map!Ends
<1>2. QED
  BY <1>1, MapInductive, PTL DEF Spec

\* A key used with care is pending exactly as long as one change of it, or its
\* acknowledgement, is on its way (RdMap, pendingForAck).
THEOREM PendingCorrect == Spec => []PendingIsOnItsWay
<1>1. OfMap => PendingIsOnItsWay
  <2>1. EntityProofs!MapInv => EntityProofs!Map!PendingIsOnItsWay
    BY EntityProofs!MapPending
  <2>2. QED
    BY <2>1 DEF OfMap, PendingIsOnItsWay, Map!PendingIsOnItsWay, EntityProofs!Map!PendingIsOnItsWay,
         Map!OnItsWay, EntityProofs!Map!OnItsWay,
         Map!Cardinality, EntityProofs!Map!Cardinality,
         Map!None, EntityProofs!Map!None
<1>2. QED
  BY <1>1, MapInductive, PTL DEF Spec

-----------------------------------------------------------------------------
(* The set.                                                                *)

LEMMA SetInit == Init => EntityProofs!SetOf!Init
  BY DEF Init, SetOf!Init, EntityProofs!SetOf!Init,
         SetOf!Ends, EntityProofs!SetOf!Ends

LEMMA SetSteps == SetOf!Next => EntityProofs!SetOf!Next
  BY DEF SetOf!Next, EntityProofs!SetOf!Next,
         SetOf!Ends, EntityProofs!SetOf!Ends,
         SetOf!Change, EntityProofs!SetOf!Change,
         SetOf!Clear, EntityProofs!SetOf!Clear,
         SetOf!on_wire_received, EntityProofs!SetOf!on_wire_received,
         SetOf!send, EntityProofs!SetOf!send,
         SetOf!Sent, EntityProofs!SetOf!Sent,
         SetOf!Taken, EntityProofs!SetOf!Taken,
         SetOf!Other, EntityProofs!SetOf!Other,
         SetOf!SetToSeq, EntityProofs!SetOf!SetToSeq,
         SetOf!applied, EntityProofs!SetOf!applied,
         SetOf!Coming, EntityProofs!SetOf!Coming,
         SetOf!ToSet, EntityProofs!SetOf!ToSet,
         SetOf!Cardinality, EntityProofs!SetOf!Cardinality,
         SetOf!IsInjective, EntityProofs!SetOf!IsInjective

LEMMA SetInductive == (Init => OfSet) /\ (OfSet /\ [Next]_vars => OfSet')
<1>1. Init => OfSet
  BY SetInit, EntityProofs!SetInit DEF OfSet
<1>2. ASSUME part = "set", EntityProofs!SetInv, [Next]_vars PROVE EntityProofs!SetInv'
  <2>1. EntityProofs!SetOf!Next \/ UNCHANGED EntityProofs!SetOf!vars
    BY <1>2, OnePart, SetSteps DEF SetOf!vars, EntityProofs!SetOf!vars
  <2>2. QED
    BY <1>2, <2>1, EntityProofs!SetSteps
<1>3. QED
  BY <1>1, <1>2, OnePart DEF OfSet

\* An end of a set that no change of a value is on its way to holds what the last
\* told change, of either end, left of it, less what the end has cleared since
\* without telling, unless the last told changes of the value met on the wire
\* (RdSet).
THEOREM SetCorrect == Spec => []SetConverges
<1>1. OfSet => SetConverges
  <2>1. EntityProofs!SetInv => EntityProofs!SetOf!SetConverges
    BY EntityProofs!SetAgrees
  <2>2. QED
    BY <2>1 DEF OfSet, SetConverges, SetOf!SetConverges, EntityProofs!SetOf!SetConverges,
         SetOf!Coming, EntityProofs!SetOf!Coming,
         SetOf!ToSet, EntityProofs!SetOf!ToSet,
         SetOf!Ends, EntityProofs!SetOf!Ends
<1>2. QED
  BY <1>1, SetInductive, PTL DEF Spec

-----------------------------------------------------------------------------
(* The list.                                                               *)

LEMMA ListInit == Init => EntityProofs!List!Init
  BY DEF Init, List!Init, EntityProofs!List!Init, List!Ends, EntityProofs!List!Ends

LEMMA ListChange ==
    ASSUME NEW s, NEW q, List!local_change(s, q)
    PROVE  EntityProofs!List!local_change(s, q)
  BY DEF List!local_change, EntityProofs!List!local_change,
         List!AllApplied, EntityProofs!List!AllApplied,
         List!Applied, EntityProofs!List!Applied,
         List!InsertAt, EntityProofs!List!InsertAt,
         List!ReplaceAt, EntityProofs!List!ReplaceAt,
         List!RemoveAt, EntityProofs!List!RemoveAt,
         List!send, EntityProofs!List!send,
         List!numbered, EntityProofs!List!numbered,
         List!Sent, EntityProofs!List!Sent,
         List!Other, EntityProofs!List!Other

LEMMA ListRemovals == \A l, I : List!Removals(l, I) = EntityProofs!List!Removals(l, I)
  BY DEF List!Removals, EntityProofs!List!Removals,
         List!Removal, EntityProofs!List!Removal,
         List!Event, EntityProofs!List!Event

LEMMA ListSteps == List!Next => EntityProofs!List!Next
<1>1. ASSUME NEW s, List!on_wire_received(s) PROVE EntityProofs!List!on_wire_received(s)
  BY <1>1 DEF List!on_wire_received, EntityProofs!List!on_wire_received,
         List!Applied, EntityProofs!List!Applied,
         List!InsertAt, EntityProofs!List!InsertAt,
         List!ReplaceAt, EntityProofs!List!ReplaceAt,
         List!RemoveAt, EntityProofs!List!RemoveAt,
         List!Taken, EntityProofs!List!Taken
<1>2. ASSUME NEW s, List!Bind(s) PROVE EntityProofs!List!Bind(s)
  BY <1>2 DEF List!Bind, EntityProofs!List!Bind,
         List!Add, EntityProofs!List!Add, List!Event, EntityProofs!List!Event,
         List!send, EntityProofs!List!send,
         List!numbered, EntityProofs!List!numbered,
         List!Sent, EntityProofs!List!Sent,
         List!Other, EntityProofs!List!Other
<1>3. ASSUME NEW s, NEW i, NEW v
      PROVE  /\ List!add(s, i, v) => EntityProofs!List!add(s, i, v)
             /\ List!set(s, i, v) => EntityProofs!List!set(s, i, v)
             /\ List!removeAt(s, i) => EntityProofs!List!removeAt(s, i)
             /\ List!remove(s, v) => EntityProofs!List!remove(s, v)
  BY ListChange DEF List!add, EntityProofs!List!add, List!set, EntityProofs!List!set,
         List!removeAt, EntityProofs!List!removeAt, List!remove, EntityProofs!List!remove,
         List!Add, EntityProofs!List!Add, List!Update, EntityProofs!List!Update,
         List!Removal, EntityProofs!List!Removal, List!Event, EntityProofs!List!Event
<1>4. ASSUME NEW s, NEW elements
      PROVE  /\ List!clear(s) => EntityProofs!List!clear(s)
             /\ List!removeAll(s, elements) => EntityProofs!List!removeAll(s, elements)
  BY ListChange, ListRemovals DEF List!clear, EntityProofs!List!clear,
         List!removeAll, EntityProofs!List!removeAll
<1>5. QED
  BY <1>1, <1>2, <1>3, <1>4 DEF List!Next, EntityProofs!List!Next, List!Ends, EntityProofs!List!Ends

LEMMA ListInductive == (Init => OfList) /\ (OfList /\ [Next]_vars => OfList')
<1>1. Init => OfList
  BY ListInit, EntityProofs!ListInit DEF OfList
<1>2. ASSUME part = "list", EntityProofs!ListInv, [Next]_vars PROVE EntityProofs!ListInv'
  <2>1. EntityProofs!List!Next \/ UNCHANGED EntityProofs!List!vars
    BY <1>2, OnePart, ListSteps DEF List!vars, EntityProofs!List!vars
  <2>2. QED
    BY <1>2, <2>1, EntityProofs!ListNextKeeps
<1>3. QED
  BY <1>1, <1>2, OnePart DEF OfList

\* The ends of a list that change it in turns agree when nothing is on its way,
\* and only changes that cross are taken for a conflict (RdList, next_version).
THEOREM ListCorrect == Spec => []ListReplicates
<1>1. OfList => ListReplicates
  <2>1. EntityProofs!ListInv => EntityProofs!List!ListReplicates
    BY EntityProofs!ListAgrees
  <2>2. QED
    BY <2>1 DEF OfList, ListReplicates, List!ListReplicates, EntityProofs!List!ListReplicates,
         List!Quiet, EntityProofs!List!Quiet,
         List!Ends, EntityProofs!List!Ends
<1>2. QED
  BY <1>1, ListInductive, PTL DEF Spec

-----------------------------------------------------------------------------
(* The broker.                                                             *)

LEMMA BrokerInit == Init => BrokerProofs!Init
  BY DEF Init, Broker!Init, BrokerProofs!Init, Broker!NoMq, BrokerProofs!NoMq,
         Broker!NotRunning, BrokerProofs!NotRunning, Broker!At, BrokerProofs!At

LEMMA BrokerSteps == Broker!Next => BrokerProofs!Next
  BY DEF Broker!Next, BrokerProofs!Next,
         Broker!advise_on, BrokerProofs!advise_on, Broker!Unsubscribe, BrokerProofs!Unsubscribe,
         Broker!dispatch, BrokerProofs!dispatch,
         Broker!DispatchUnknown, BrokerProofs!DispatchUnknown,
         Broker!DispatchDefault, BrokerProofs!DispatchDefault,
         Broker!DispatchCustom, BrokerProofs!DispatchCustom, Broker!m, BrokerProofs!m,
         Broker!Meets, BrokerProofs!Meets, Broker!ClosureMoves, BrokerProofs!ClosureMoves,
         Broker!RunInvoke, BrokerProofs!RunInvoke, Broker!RunCustom, BrokerProofs!RunCustom,
         Broker!ClosureTakes, BrokerProofs!ClosureTakes,
         Broker!ClosureInvokes, BrokerProofs!ClosureInvokes,
         Broker!ClosureErases, BrokerProofs!ClosureErases,
         Broker!ClosureForwards, BrokerProofs!ClosureForwards,
         Broker!invoke, BrokerProofs!invoke, Broker!Execute, BrokerProofs!Execute,
         Broker!Subscribed, BrokerProofs!Subscribed, Broker!Closure, BrokerProofs!Closure,
         Broker!NoMq, BrokerProofs!NoMq, Broker!NotRunning, BrokerProofs!NotRunning,
         Broker!At, BrokerProofs!At, Broker!ToSet, BrokerProofs!ToSet

\* An entity gets each of its messages once, in order and all of them, before and
\* after it is subscribed, except that one which is dispatched between a closure's
\* last look at the queue and its end may be lost, or overtake what the closure
\* forwards (MessageBroker).
THEOREM BrokerCorrect == Spec => []BrokerKeepsOrder
<1>1. Init => OfBroker
  BY BrokerInit, BrokerProofs!InitHolds DEF OfBroker
<1>2. OfBroker /\ [Next]_vars => OfBroker'
  <2> SUFFICES ASSUME part = "broker", BrokerProofs!BInv, [Next]_vars
               PROVE  BrokerProofs!BInv'
    BY OnePart DEF OfBroker
  <2>1. BrokerProofs!Next \/ UNCHANGED BrokerProofs!vars
    BY OnePart, BrokerSteps DEF Broker!vars, BrokerProofs!vars
  <2>2. QED
    BY <2>1, BrokerProofs!StepHolds
<1>3. OfBroker => BrokerKeepsOrder
  <2>1. BrokerProofs!BInv => BrokerProofs!BrokerKeepsOrder
    BY BrokerProofs!InOrderAndAll
  <2>2. QED
    BY <2>1 DEF OfBroker, BrokerKeepsOrder, Broker!BrokerKeepsOrder,
                BrokerProofs!BrokerKeepsOrder, Broker!Waiting, BrokerProofs!Waiting,
                Broker!Closure, BrokerProofs!Closure, Broker!ToSet, BrokerProofs!ToSet
<1>4. QED
  BY <1>1, <1>2, <1>3, PTL DEF Spec
-----------------------------------------------------------------------------
(* The extensions.                                                         *)

LEMMA ExtInit == Init => ConnectionProofs!Ext!Init
  BY DEF Init, Ext!Init, ConnectionProofs!Ext!Init,
         Ext!Ends, ConnectionProofs!Ext!Ends

LEMMA ExtSteps == Ext!Next => ConnectionProofs!Ext!Next
  BY DEF Ext!Next, ConnectionProofs!Ext!Next,
         Ext!Bind, ConnectionProofs!Ext!Bind,
         Ext!Unbind, ConnectionProofs!Ext!Unbind,
         Ext!Dropped, ConnectionProofs!Ext!Dropped,
         Ext!ReceiveReady, ConnectionProofs!Ext!ReceiveReady,
         Ext!ReceiveState, ConnectionProofs!Ext!ReceiveState,
         Ext!Flush, ConnectionProofs!Ext!Flush,
         Ext!ReceivePayload, ConnectionProofs!Ext!ReceivePayload,
         Ext!Send, ConnectionProofs!Ext!Send,
         Ext!SendAtOnce, ConnectionProofs!Ext!SendAtOnce,
         Ext!Receives, ConnectionProofs!Ext!Receives,
         Ext!connected_set, ConnectionProofs!Ext!connected_set,
         Ext!ready_answered, ConnectionProofs!Ext!ready_answered,
         Ext!must_wait, ConnectionProofs!Ext!must_wait,
         Ext!State, ConnectionProofs!Ext!State,
         Ext!Payload, ConnectionProofs!Ext!Payload,
         Ext!ToOther, ConnectionProofs!Ext!ToOther,
         Ext!Ends, ConnectionProofs!Ext!Ends,
         Ext!Other, ConnectionProofs!Ext!Other

LEMMA ExtInductive == (Init => OfExt) /\ (OfExt /\ [Next]_vars => OfExt')
<1>1. Init => OfExt
  BY ExtInit, ConnectionProofs!ExtInit DEF OfExt
<1>2. ASSUME part = "ext", ConnectionProofs!ExtInv, [Next]_vars PROVE ConnectionProofs!ExtInv'
  <2>1. ConnectionProofs!Ext!Next \/ UNCHANGED ConnectionProofs!Ext!vars
    BY <1>2, OnePart, ExtSteps DEF Ext!vars, ConnectionProofs!Ext!vars
  <2>2. QED
    BY <1>2, <2>1, ConnectionProofs!ExtSteps
<1>3. QED
  BY <1>1, <1>2, OnePart DEF OfExt

\* What is sent through an extension arrives in order, and all of it as long as
\* neither end has been unbound (ExtWire).
THEOREM ExtDeliversCorrect == Spec => []ExtDelivers
<1>1. OfExt => ExtDelivers
  <2>1. ConnectionProofs!ExtInv => ConnectionProofs!Ext!ExtDelivers
    BY ConnectionProofs!ExtOrder
  <2>2. QED
    BY <2>1 DEF OfExt, ExtDelivers, Ext!ExtDelivers, ConnectionProofs!Ext!ExtDelivers,
         Ext!NoneUnbound, ConnectionProofs!Ext!NoneUnbound,
         Ext!Carries, ConnectionProofs!Ext!Carries,
         Ext!Waiting, ConnectionProofs!Ext!Waiting,
         Ext!Ends, ConnectionProofs!Ext!Ends,
         Ext!Other, ConnectionProofs!Ext!Other
<1>2. QED
  BY <1>1, ExtInductive, PTL DEF Spec

\* Two extensions that are bound have found each other when nothing is on its
\* way, in whatever order they came and went (RdExtBase).
THEOREM ExtConnectsCorrect == Spec => []ExtConnects
<1>1. OfExt => ExtConnects
  <2>1. ConnectionProofs!ExtInv => ConnectionProofs!Ext!ExtConnects
    BY ConnectionProofs!ExtMeet
  <2>2. QED
    BY <2>1 DEF OfExt, ExtConnects, Ext!ExtConnects, ConnectionProofs!Ext!ExtConnects,
         Ext!Ends, ConnectionProofs!Ext!Ends
<1>2. QED
  BY <1>1, ExtInductive, PTL DEF Spec

-----------------------------------------------------------------------------
(* The calls.                                                              *)

LEMMA CallInit == Init => ConnectionProofs!Call!Init
  BY DEF Init, Call!Init, ConnectionProofs!Call!Init,
         Call!Tasks, ConnectionProofs!Call!Tasks,
         Call!Nobody, ConnectionProofs!Call!Nobody,
         Call!Nothing, ConnectionProofs!Call!Nothing,
         Call!Setters, ConnectionProofs!Call!Setters

LEMMA CallSteps == Call!Next => ConnectionProofs!Call!Next
  BY DEF Call!Next, ConnectionProofs!Call!Next,
         Call!start, ConnectionProofs!Call!start,
         Call!sync, ConnectionProofs!Call!sync,
         Call!SyncRefused, ConnectionProofs!Call!SyncRefused,
         Call!SyncReturns, ConnectionProofs!Call!SyncReturns,
         Call!SyncThrows, ConnectionProofs!Call!SyncThrows,
         Call!Drop, ConnectionProofs!Call!Drop,
         Call!Answer, ConnectionProofs!Call!Answer,
         Call!Receive, ConnectionProofs!Call!Receive,
         Call!ReceiveResponse, ConnectionProofs!Call!ReceiveResponse,
         Call!SetQueued, ConnectionProofs!Call!SetQueued,
         Call!Put, ConnectionProofs!Call!Put,
         Call!End, ConnectionProofs!Call!End,
         Call!Cancel, ConnectionProofs!Call!Cancel,
         Call!make, ConnectionProofs!Call!make,
         Call!without, ConnectionProofs!Call!without,
         Call!Look, ConnectionProofs!Call!Look,
         Call!task, ConnectionProofs!Call!task,
         Call!Free, ConnectionProofs!Call!Free,
         Call!Defined, ConnectionProofs!Call!Defined,
         Call!Tasks, ConnectionProofs!Call!Tasks,
         Call!Nobody, ConnectionProofs!Call!Nobody,
         Call!Nothing, ConnectionProofs!Call!Nothing,
         Call!Setters, ConnectionProofs!Call!Setters

LEMMA CallInductive == (Init => OfCall) /\ (OfCall /\ [Next]_vars => OfCall')
<1>1. Init => OfCall
  BY CallInit, ConnectionProofs!CallInit DEF OfCall
<1>2. ASSUME part = "call", ConnectionProofs!CallInv, [Next]_vars PROVE ConnectionProofs!CallInv'
  <2>1. ConnectionProofs!Call!Next \/ UNCHANGED ConnectionProofs!Call!vars
    BY <1>2, OnePart, CallSteps DEF Call!vars, ConnectionProofs!Call!vars
  <2>2. QED
    BY <1>2, <2>1, ConnectionProofs!CallSteps, MaxCallsAssumption
<1>3. QED
  BY <1>1, <1>2, OnePart DEF OfCall

\* No task that is held waits beyond the lifetime of its call, and a synchronous
\* call is refused only after one that threw (RdCall, WiredRdTaskImpl).
THEOREM CallsCorrect == Spec => []CallEnds
<1>1. OfCall => CallEnds
  <2>1. ConnectionProofs!CallInv => ConnectionProofs!Call!CallEnds
    BY ConnectionProofs!CallsEnd
  <2>2. QED
    BY <2>1 DEF OfCall, CallEnds, Call!CallEnds, ConnectionProofs!Call!CallEnds,
         Call!Defined, ConnectionProofs!Call!Defined,
         Call!Nobody, ConnectionProofs!Call!Nobody,
         Call!Nothing, ConnectionProofs!Call!Nothing
<1>2. QED
  BY <1>1, CallInductive, PTL DEF Spec

-----------------------------------------------------------------------------
(* The models of the plugin.                                               *)

LEMMA LinkInit == Init => ConnectionProofs!Link!Init
  BY DEF Init, Link!Init, ConnectionProofs!Link!Init,
         Link!Null, ConnectionProofs!Link!Null,
         Link!NotFiring, ConnectionProofs!Link!NotFiring

LEMMA LinkSteps == Link!Next => ConnectionProofs!Link!Next
  BY DEF Link!Next, ConnectionProofs!Link!Next,
         Link!Connect, ConnectionProofs!Link!Connect,
         Link!Disconnect, ConnectionProofs!Link!Disconnect,
         Link!QueueEnd, ConnectionProofs!Link!QueueEnd,
         Link!Unbind, ConnectionProofs!Link!Unbind,
         Link!ConnectModel, ConnectionProofs!Link!ConnectModel,
         Link!AddEnd, ConnectionProofs!Link!AddEnd,
         Link!SetAlive, ConnectionProofs!Link!SetAlive,
         Link!EndModel, ConnectionProofs!Link!EndModel,
         Link!RunView, ConnectionProofs!Link!RunView,
         Link!RunAction, ConnectionProofs!Link!RunAction,
         Link!ViewModel, ConnectionProofs!Link!ViewModel,
         Link!ScheduleModelAction, ConnectionProofs!Link!ScheduleModelAction,
         Link!ShutdownControl, ConnectionProofs!Link!ShutdownControl,
         Link!FireAsyncAction, ConnectionProofs!Link!FireAsyncAction,
         Link!Fire, ConnectionProofs!Link!Fire,
         Link!Send, ConnectionProofs!Link!Send,
         Link!NextTask, ConnectionProofs!Link!NextTask,
         Link!set, ConnectionProofs!Link!set,
         Link!add_end, ConnectionProofs!Link!add_end,
         Link!Terminated, ConnectionProofs!Link!Terminated,
         Link!Task, ConnectionProofs!Link!Task,
         Link!Queue, ConnectionProofs!Link!Queue,
         Link!NotFiring, ConnectionProofs!Link!NotFiring,
         Link!Unlocked, ConnectionProofs!Link!Unlocked,
         Link!Defined, ConnectionProofs!Link!Defined,
         Link!Null, ConnectionProofs!Link!Null

LEMMA LinkInductive == (Init => OfLink) /\ (OfLink /\ [Next]_vars => OfLink')
<1>1. Init => OfLink
  BY LinkInit, ConnectionProofs!LinkInit DEF OfLink
<1>2. ASSUME part = "link", ConnectionProofs!LinkInv, [Next]_vars PROVE ConnectionProofs!LinkInv'
  <2>1. ConnectionProofs!Link!Next \/ UNCHANGED ConnectionProofs!Link!vars
    BY <1>2, OnePart, LinkSteps DEF Link!vars, ConnectionProofs!Link!vars
  <2>2. QED
    BY <1>2, <2>1, ConnectionProofs!LinkSteps
<1>3. QED
  BY <1>1, <1>2, OnePart DEF OfLink

\* A model of the plugin is replaced when neither the log's thread nor a control
\* uses it (RiderLink, ConnectModel).
THEOREM ReplacedCorrect == Spec => []ReplacedUnused
<1>1. OfLink => ReplacedUnused
  <2>1. ConnectionProofs!LinkInv => ConnectionProofs!Link!ReplacedUnused
    BY ConnectionProofs!LinkReplaces
  <2>2. QED
    BY <2>1 DEF OfLink, ReplacedUnused, Link!ReplacedUnused, ConnectionProofs!Link!ReplacedUnused,
         Link!Null, ConnectionProofs!Link!Null
<1>2. QED
  BY <1>1, LinkInductive, PTL DEF Spec

\* There is a model, and a control, exactly if there is a connection, whatever
\* has come and gone while the tasks were waiting (RiderLink).
THEOREM AliveCorrect == Spec => []AliveFollowsConnection
<1>1. OfLink => AliveFollowsConnection
  <2>1. ConnectionProofs!LinkInv => ConnectionProofs!Link!AliveFollowsConnection
    BY ConnectionProofs!LinkFollows
  <2>2. QED
    BY <2>1 DEF OfLink, AliveFollowsConnection, Link!AliveFollowsConnection, ConnectionProofs!Link!AliveFollowsConnection,
         Link!Defined, ConnectionProofs!Link!Defined,
         Link!Null, ConnectionProofs!Link!Null
<1>2. QED
  BY <1>1, LinkInductive, PTL DEF Spec
=============================================================================
