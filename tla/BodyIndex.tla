----------------------------- MODULE BodyIndex ------------------------------
(***************************************************************************)
(* What ConstructTree promises to the force computation, without the tree: *)
(* a set of bodies that exert a force, and their total mass, which agrees  *)
(* with the set whenever no Insert is active.  One Insert adds at most the *)
(* body it is called with and loses at most one body added before.         *)
(***************************************************************************)
EXTENDS Integers

CONSTANTS BodyNum, Mass

VARIABLES
    held,   \* the bodies in the index
    total,  \* the mass the index reports
    next,   \* the next body to insert
    open    \* an Insert is active

vars == <<held, total, next, open>>

\* The sum over the bodies of S, taken in order.
MassOf(S) ==
    LET upTo[b \in 0 .. BodyNum] ==
            IF b = 0 THEN 0 ELSE upTo[b - 1] + (IF b \in S THEN Mass[b] ELSE 0)
    IN  upTo[BodyNum]

Init == held = {} /\ total = 0 /\ next = 1 /\ open = FALSE

Refuse ==
    /\ ~open /\ next =< BodyNum
    /\ next' = next + 1
    /\ UNCHANGED <<held, total, open>>

Open ==
    /\ ~open /\ next =< BodyNum
    /\ open' = TRUE
    /\ UNCHANGED <<held, total, next>>

\* Only one body of the earlier ones, and only before the new one is added.
Displace ==
    /\ open /\ MassOf(held) = total
    /\ \E b \in held : held' = held \ {b}
    /\ UNCHANGED <<total, next, open>>

Add ==
    /\ open /\ next \notin held
    /\ held' = held \cup {next}
    /\ UNCHANGED <<total, next, open>>

Close ==
    /\ open
    /\ held' \in {held, held \cup {next}}
    /\ total' = MassOf(held')
    /\ open' = FALSE
    /\ next' = next + 1

Clear ==
    /\ ~open /\ next > BodyNum
    /\ held' = {} /\ total' = 0 /\ next' = 1
    /\ UNCHANGED open

Next == Refuse \/ Open \/ Displace \/ Add \/ Close \/ Clear

Spec == Init /\ [][Next]_vars
=============================================================================
