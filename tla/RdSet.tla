-------------------------------- MODULE RdSet --------------------------------
(***************************************************************************)
(* A set of the protocol: changes carry neither a number nor the end that  *)
(* prevails.                                                               *)
(*                                                                         *)
(* A change is told when the other end gets a message of it.  Not all are: *)
(* a handler that asks the set for anything during a clear ends the local  *)
(* change, and the removals that are still to come stay at that end.       *)
(***************************************************************************)
EXTENDS RdReactive

CONSTANTS
    Values,
    MaxChanges      \* bound on the local changes

VARIABLES set, channel, changes,
          told,         \* history: the values whose last told change added them
          untold,       \* history: for each end, what it removed since without telling
          careless      \* history: the values whose last told change met one of the other end
vars == <<set, channel, changes, told, untold, careless>>

Init ==
    /\ set = [s \in Ends |-> {}]
    /\ channel = [s \in Ends |-> <<>>]
    /\ changes = 0
    /\ told = {} /\ untold = [s \in Ends |-> {}]
    /\ careless = {}

\* The values of which a change is on its way to an end.
Coming(s) == {m.value : m \in ToSet(channel[s])}

\* The handler of init: what an end changed and tells.
send(s, kind, values) ==
    /\ channel' = Sent(channel, s, SetToSeq({[kind |-> kind, value |-> v] : v \in values}))
    /\ told' = IF kind = "add" THEN told \cup values ELSE told \ values
    /\ careless' = (careless \ values) \cup (values \cap Coming(s))

\* Adding what is there, or removing what is not, fires nothing.
Change(s, kind, v) ==
    /\ changes < MaxChanges /\ changes' = changes + 1
    /\ (v \in set[s]) = (kind = "remove")
    /\ set' = [set EXCEPT ![s] = IF kind = "add" THEN @ \cup {v} ELSE @ \ {v}]
    /\ send(s, kind, {v})
    /\ untold' = [e \in Ends |-> untold[e] \ {v}]

\* All that the set held is fired, and only then is it emptied.  The first
\* removal is told in any case.  One that is not told remains without effect
\* if a change of the value is still to come.
Clear(s) ==
    /\ changes < MaxChanges /\ changes' = changes + 1
    /\ \E heard \in SUBSET set[s] \ {{}} :
          /\ send(s, "remove", heard)
          /\ untold' = [e \in Ends |-> (untold[e] \ heard) \cup
                          (IF e = s THEN set[s] \ (heard \cup Coming(s)) ELSE {})]
    /\ set' = [set EXCEPT ![s] = {}]

\* Mistake: a removal from the wire is dropped.
applied_add_only(values, m) == values \cup {m.value}

applied(values, m) == IF m.kind = "add" THEN values \cup {m.value} ELSE values \ {m.value}

on_wire_received(s) ==
    /\ channel[s] # <<>>
    /\ set' = [set EXCEPT ![s] = applied(@, Head(channel[s]))]
    /\ channel' = Taken(channel, s)
    /\ UNCHANGED <<changes, told, untold, careless>>

Next == \E s \in Ends :
    \/ \E v \in Values, kind \in {"add", "remove"} : Change(s, kind, v)
    \/ Clear(s) \/ on_wire_received(s)

Spec == Init /\ [][Next]_vars

-----------------------------------------------------------------------------
\* An end that no change of a value is on its way to has the value exactly if
\* the last told change, of either end, added it and the end has not removed
\* it since without telling.  So the ends agree on all that they have told of,
\* they differ in all that one of them has cleared untold, which nothing on the
\* wire repairs, and the next told change of such a value makes them agree
\* again (init, clear, on_wire_received).  Of a value whose last changes met on
\* the wire nothing is said: until one of the ends changes it once more, the
\* ends may differ.
SetConverges == \A s \in Ends : \A v \in Values \ (careless \cup Coming(s)) :
    v \in set[s] <=> v \in told /\ v \notin untold[s]
=============================================================================
