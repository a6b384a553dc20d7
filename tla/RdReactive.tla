------------------------------ MODULE RdReactive ------------------------------
(***************************************************************************)
(* What the reactive entities have in common: two ends, of which one is    *)
(* the master where the entity distinguishes them, and between the ends a  *)
(* wire that keeps the order and delivers every message once, as           *)
(* SocketWire shows of the packages.                                       *)
(*                                                                         *)
(* An entity sends a change to the other end when it is made under         *)
(* is_local_change.  A change that comes from the wire is applied by the   *)
(* same methods without it, so it is not sent back.  Each end changes its  *)
(* entities on one thread (assert_threading), so a change with all it      *)
(* sends is one step, and so is a message received.                        *)
(***************************************************************************)
EXTENDS Integers, Sequences, SequencesExt

Ends == {"master", "slave"}
Other(s) == IF s = "master" THEN "slave" ELSE "master"

\* `channel' holds for each end the messages that are on their way to it.
Quiet(channel) == \A s \in Ends : channel[s] = <<>>
Sent(channel, s, messages) == [channel EXCEPT ![Other(s)] = @ \o messages]
Taken(channel, s) == [channel EXCEPT ![s] = Tail(@)]
=============================================================================
