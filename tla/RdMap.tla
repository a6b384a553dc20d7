-------------------------------- MODULE RdMap --------------------------------
(***************************************************************************)
(* A map of the protocol.  The master numbers its changes, and as long as  *)
(* one of a key is not acknowledged it rejects what the slave says of the  *)
(* key.  The changes of the slave have no number and no acknowledgement.   *)
(*                                                                         *)
(* pendingForAck is keyed by pointers to keys, and emplace leaves an entry *)
(* that is there as it is.  `dangling' are the keys whose entry points to  *)
(* a key that is no more: whether a lookup finds it is undefined.          *)
(***************************************************************************)
EXTENDS RdReactive, FiniteSets

CONSTANTS
    Keys,
    Values,
    NoValue,
    MaxChanges      \* bound on the local changes

VARIABLES map, next_version, pendingForAck, dangling, channel, changes,
          careless      \* history: the keys that were not used with care
vars == <<map, next_version, pendingForAck, dangling, channel, changes, careless>>

None == 0
Message(op, version, k, v) == [op |-> op, version |-> version, key |-> k, value |-> v]
OpOf(v) == IF v = NoValue THEN "remove" ELSE "put"

Init ==
    /\ map = [s \in Ends |-> [k \in Keys |-> NoValue]]
    /\ next_version = 0
    /\ pendingForAck = [k \in Keys |-> None]
    /\ dangling = {}
    /\ channel = [s \in Ends |-> <<>>]
    /\ changes = 0
    /\ careless = {}

Position(keys, k) == CHOOSE i \in 1 .. Len(keys) : keys[i] = k

\* What a lookup in pendingForAck can say.
MayFind(k) == IF k \in dangling THEN BOOLEAN ELSE {pendingForAck[k] # None}

-----------------------------------------------------------------------------
(* Local changes.                                                          *)

\* The master emplaces the next version of each key: a second change of a
\* key that is pending stays under the version of the first.
pend(s, keys) ==
    IF s = "slave" THEN UNCHANGED <<next_version, pendingForAck>>
    ELSE /\ next_version' = next_version + Len(keys)
         /\ \E found \in SUBSET ToSet(keys) :
               /\ \A k \in ToSet(keys) : (k \in found) \in MayFind(k)
               /\ pendingForAck' = [k \in Keys |->
                     IF k \in ToSet(keys) \ found THEN next_version + Position(keys, k)
                     ELSE pendingForAck[k]]

\* The handler of init: what an end has changed in the keys, in that order.
send(s, keys) ==
    /\ pend(s, keys)
    /\ channel' = Sent(channel, s, [i \in 1 .. Len(keys) |->
          Message(OpOf(map'[s][keys[i]]), IF s = "master" THEN next_version + i ELSE None,
                  keys[i], map'[s][keys[i]])])

\* The key of an addition lives in the map until it is removed; the one of a
\* removal is gone when the call returns.
removes(s, keys) == dangling' = IF s = "master" THEN dangling \cup keys ELSE dangling

Pending(k) == k \in dangling \/ pendingForAck[k] # None

Set(s, k, v) ==
    /\ changes < MaxChanges /\ changes' = changes + 1
    /\ v # map[s][k]
    /\ map' = [map EXCEPT ![s][k] = v]
    /\ send(s, <<k>>)
    /\ careless' = IF s = "master" /\ Pending(k) THEN careless \cup {k} ELSE careless
    /\ UNCHANGED dangling

RemoveKey(s, k) ==
    /\ changes < MaxChanges /\ changes' = changes + 1
    /\ map[s][k] # NoValue
    /\ map' = [map EXCEPT ![s][k] = NoValue]
    /\ send(s, <<k>>)
    /\ removes(s, {k})
    /\ careless' = IF s = "master" THEN careless \cup {k} ELSE careless

\* clear fires one removal after the other and then empties the map.  When a
\* handler reads the map meanwhile, its get ends the local change, and the
\* removals that are still to come are not sent.
Clear(s) ==
    LET present == {k \in Keys : map[s][k] # NoValue} IN
    /\ changes < MaxChanges /\ changes' = changes + 1
    /\ map' = [map EXCEPT ![s] = [k \in Keys |-> NoValue]]
    /\ \E told \in SUBSET present \ {{}} :
          /\ send(s, SetToSeq(told))
          /\ careless' = careless \cup (IF s = "master" THEN present ELSE present \ told)
    /\ removes(s, present)

-----------------------------------------------------------------------------
(* on_wire_received.                                                       *)

\* An acknowledgement takes the entry out if it has that version.  An entry
\* of a later version stays, and one of an earlier version, or none, is an
\* error in the log.
Acknowledged(k, version) ==
    \E found \in MayFind(k) :
       IF found /\ pendingForAck[k] = version
       THEN /\ pendingForAck' = [pendingForAck EXCEPT ![k] = None]
            /\ dangling' = dangling \ {k}
       ELSE UNCHANGED <<pendingForAck, dangling>>

ReceiveAck(s) ==
    /\ channel[s] # <<>> /\ Head(channel[s]).op = "ack"
    /\ s = "master"
    /\ Acknowledged(Head(channel[s]).key, Head(channel[s]).version)
    /\ channel' = Taken(channel, s)
    /\ UNCHANGED <<map, next_version, changes, careless>>

\* Mistake: the master accepts every change of the slave.
accepts_all(s, m) == {TRUE}

accepts(s, m) == IF m.version # None \/ s = "slave" THEN {TRUE} ELSE {~found : found \in MayFind(m.key)}

\* Mistake: the acknowledgement is sent only for what changed the map.
acks_of_changes(s, m) ==
    IF m.version # None /\ map[s][m.key] # m.value
    THEN <<Message("ack", m.version, m.key, NoValue)>> ELSE <<>>

\* Every change with a version is acknowledged.
acks(s, m) == IF m.version # None THEN <<Message("ack", m.version, m.key, NoValue)>> ELSE <<>>

ReceiveChange(s) ==
    /\ channel[s] # <<>> /\ Head(channel[s]).op # "ack"
    /\ LET m == Head(channel[s]) IN
       /\ \E accepted \in accepts(s, m) :
             map' = IF accepted THEN [map EXCEPT ![s][m.key] = m.value] ELSE map
       /\ channel' = Sent(Taken(channel, s), s, acks(s, m))
    /\ UNCHANGED <<next_version, pendingForAck, dangling, changes, careless>>

Next == \E s \in Ends :
    \/ \E k \in Keys : RemoveKey(s, k) \/ \E v \in Values : Set(s, k, v)
    \/ Clear(s) \/ ReceiveAck(s) \/ ReceiveChange(s)

Spec == Init /\ [][Next]_vars

-----------------------------------------------------------------------------
(* Properties.  A key is used with care when the master never removes it,  *)
(* never changes it while the change before is pending, and no handler     *)
(* reads the map during a clear.                                           *)

TypeOK ==
    /\ map \in [Ends -> [Keys -> Values \cup {NoValue}]]
    /\ next_version \in Nat
    /\ pendingForAck \in [Keys -> Nat]
    /\ dangling \subseteq Keys /\ careless \subseteq Keys

\* When nothing is on its way the ends agree on every key used with care,
\* though both may have changed it at the same time.
MapConverges == Quiet(channel) =>
    \A k \in Keys \ careless : map["master"][k] = map["slave"][k]

OnItsWay(k) ==
    {i \in 1 .. Len(channel["slave"]) : channel["slave"][i].key = k /\ channel["slave"][i].version # None} \cup
    {-i : i \in {j \in 1 .. Len(channel["master"]) : channel["master"][j].op = "ack" /\ channel["master"][j].key = k}}

\* A key used with care is pending exactly as long as one change of it, or
\* its acknowledgement, is on its way: the slave is not shut out for good,
\* and no acknowledgement comes to an entry that is not there.
PendingIsOnItsWay == \A k \in Keys \ careless :
    Cardinality(OnItsWay(k)) = (IF pendingForAck[k] = None THEN 0 ELSE 1)
=============================================================================
