------------------------------ MODULE RdProperty ------------------------------
(***************************************************************************)
(* A property of the protocol: both ends may set it at any time.  The      *)
(* master counts its changes, and rejects a change of the slave that was   *)
(* made before the slave had seen the master's last one.                   *)
(***************************************************************************)
EXTENDS RdReactive

CONSTANTS
    Values,
    MaxChanges      \* bound on the local changes

VARIABLES value, master_version, channel, changes
vars == <<value, master_version, channel, changes>>

Message(version, v) == [version |-> version, value |-> v]

\* The ends are bound with the same value, or with none, which is a value here.
Init ==
    /\ \E v \in Values : value = [s \in Ends |-> v]
    /\ master_version = [s \in Ends |-> 0]
    /\ channel = [s \in Ends |-> <<>>]
    /\ changes = 0

\* The handler of init counts the changes of the master only.
version_of_change(s) == IF s = "master" THEN master_version[s] + 1 ELSE master_version[s]

\* To set the value that it has changes nothing, and nothing is sent.
Set(s, v) ==
    /\ changes < MaxChanges
    /\ v # value[s]
    /\ value' = [value EXCEPT ![s] = v]
    /\ master_version' = [master_version EXCEPT ![s] = version_of_change(s)]
    /\ channel' = Sent(channel, s, <<Message(version_of_change(s), v)>>)
    /\ changes' = changes + 1

\* Mistake: the master accepts every change.
rejected_never(s, version) == FALSE

rejected(s, version) == s = "master" /\ version < master_version[s]

on_wire_received(s) ==
    /\ channel[s] # <<>>
    /\ LET m == Head(channel[s]) IN
       IF rejected(s, m.version)
       THEN UNCHANGED <<value, master_version>>
       ELSE /\ master_version' = [master_version EXCEPT ![s] = m.version]
            /\ value' = [value EXCEPT ![s] = m.value]
    /\ channel' = Taken(channel, s)
    /\ UNCHANGED changes

Next == \E s \in Ends : on_wire_received(s) \/ \E v \in Values : Set(s, v)

Spec == Init /\ [][Next]_vars

-----------------------------------------------------------------------------
TypeOK ==
    /\ value \in [Ends -> Values]
    /\ master_version \in [Ends -> Nat]
    /\ channel \in [Ends -> Seq([version : Nat, value : Values])]
    /\ changes \in Nat

\* When nothing is on its way the ends agree, whatever changes have crossed.
PropertyConverges ==
    Quiet(channel) => value["master"] = value["slave"] /\ master_version["master"] = master_version["slave"]
=============================================================================
