-------------------------------- MODULE RdList --------------------------------
(***************************************************************************)
(* A list of the protocol: both ends count the changes they make and those *)
(* they receive, and every change carries its number.  An end that gets a  *)
(* number it does not expect asserts that the list is not modified from    *)
(* two sides; what becomes of the list after that is not followed.         *)
(*                                                                         *)
(* What a list holds when it is bound is sent then, as additions.  The     *)
(* wire keeps what comes for a list that is not bound yet.                 *)
(***************************************************************************)
EXTENDS RdReactive

CONSTANTS
    Values,
    MaxLength,      \* bound on the length of a list
    MaxChanges      \* bound on the local changes

VARIABLES list, next_version, bound, channel, changes,
          conflict,     \* a version was not the one expected
          crossed       \* history: an end sent while something was on its way to it
vars == <<list, next_version, bound, channel, changes, conflict, crossed>>

Event(op, index, v) == [op |-> op, index |-> index, value |-> v]
Add(i, v) == Event("add", i, v)
Update(i, v) == Event("update", i, v)
\* A removal carries no value; the one removed stands in its place.
Removal(l, i) == Event("remove", i, l[i])

Init ==
    /\ list = [s \in Ends |-> <<>>]
    /\ next_version = [s \in Ends |-> 1]
    /\ bound = [s \in Ends |-> FALSE]
    /\ channel = [s \in Ends |-> <<>>]
    /\ changes = 0
    /\ conflict = FALSE /\ crossed = FALSE

\* What an event does to a list.
Applied(l, e) ==
    CASE e.op = "add" -> InsertAt(l, e.index, e.value)
      [] e.op = "update" -> ReplaceAt(l, e.index, e.value)
      [] e.op = "remove" -> RemoveAt(l, e.index)

\* What a run of events does to it, one after the other.
AllApplied(l, events) ==
    LET after[k \in 0 .. Len(events)] ==
            IF k = 0 THEN l ELSE Applied(after[k - 1], events[k])
    IN  after[Len(events)]

\* Mistake: the version is the same for all events of one call.
numbered_once(s, events) ==
    [i \in 1 .. Len(events) |-> [version |-> next_version[s], event |-> events[i]]]

numbered(s, events) ==
    [i \in 1 .. Len(events) |-> [version |-> next_version[s] + i - 1, event |-> events[i]]]

send(s, events) ==
    /\ channel' = Sent(channel, s, numbered(s, events))
    /\ next_version' = [next_version EXCEPT ![s] = @ + Len(events)]
    /\ crossed' = (crossed \/ (events # <<>> /\ channel[s] # <<>>))

\* A local change: nothing is sent before the list is bound.
local_change(s, events) ==
    /\ changes < MaxChanges /\ changes' = changes + 1
    /\ events # <<>>
    /\ list' = [list EXCEPT ![s] = AllApplied(@, events)]
    /\ Len(list'[s]) <= MaxLength
    /\ IF bound[s] THEN send(s, events) ELSE UNCHANGED <<next_version, channel, crossed>>
    /\ UNCHANGED <<bound, conflict>>

add(s, i, v) == i <= Len(list[s]) + 1 /\ local_change(s, <<Add(i, v)>>)

\* An update fires even when the value is the same.
set(s, i, v) == i <= Len(list[s]) /\ local_change(s, <<Update(i, v)>>)

removeAt(s, i) == i <= Len(list[s]) /\ local_change(s, <<Removal(list[s], i)>>)

\* The removals of the indices in a set, from the last to the first.
Removals(l, indices) ==
    LET from[k \in 0 .. Len(l)] ==
            IF k = 0 THEN <<>>
            ELSE (IF k \in indices THEN <<Removal(l, k)>> ELSE <<>>) \o from[k - 1]
    IN  from[Len(l)]

\* remove takes out the first that is equal.
remove(s, v) ==
    \E i \in 1 .. Len(list[s]) :
        /\ list[s][i] = v /\ \A j \in 1 .. i - 1 : list[s][j] # v
        /\ local_change(s, <<Removal(list[s], i)>>)

clear(s) == local_change(s, Removals(list[s], DOMAIN list[s]))

\* removeAll is a local change, and removes by the removeAt of this class,
\* which begins another: a debug build stops at the assertion against that,
\* and in a release build every removal is sent.
removeAll(s, elements) ==
    local_change(s, Removals(list[s], {i \in DOMAIN list[s] : list[s][i] \in elements}))

-----------------------------------------------------------------------------
\* init advises its own change under is_local_change, and the advice begins
\* with an addition for every element.
Bind(s) ==
    /\ ~bound[s]
    /\ bound' = [bound EXCEPT ![s] = TRUE]
    /\ send(s, [i \in 1 .. Len(list[s]) |-> Add(i, list[s][i])])
    /\ UNCHANGED <<list, changes, conflict>>

on_wire_received(s) ==
    /\ bound[s] /\ ~conflict
    /\ channel[s] # <<>>
    /\ channel' = Taken(channel, s)
    /\ LET m == Head(channel[s]) IN
       IF m.version = next_version[s]
       THEN /\ next_version' = [next_version EXCEPT ![s] = @ + 1]
            /\ list' = [list EXCEPT ![s] = Applied(@, m.event)]
            /\ UNCHANGED conflict
       ELSE conflict' = TRUE /\ UNCHANGED <<list, next_version>>
    /\ UNCHANGED <<bound, changes, crossed>>

Next == \E s \in Ends :
    \/ \E i \in 1 .. MaxLength : removeAt(s, i) \/ \E v \in Values : add(s, i, v) \/ set(s, i, v)
    \/ \E v \in Values : remove(s, v)
    \/ \E elements \in SUBSET Values : removeAll(s, elements)
    \/ clear(s) \/ Bind(s) \/ on_wire_received(s)

Spec == Init /\ [][Next]_vars

-----------------------------------------------------------------------------
\* The assertion on the version fails only when the ends have really changed
\* the list at the same time; when they take turns, and nothing is on its
\* way, they agree, whatever was in the list before it was bound.
ListReplicates ==
    /\ conflict => crossed
    /\ ~crossed /\ Quiet(channel) /\ bound["master"] /\ bound["slave"] =>
          list["master"] = list["slave"] /\ next_version["master"] = next_version["slave"]
=============================================================================
