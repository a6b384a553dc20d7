------------------------------ MODULE QuadTree ------------------------------
(***************************************************************************)
(* UQuadTree and the loop of ABodySimulator::ConstructTree that fills it.  *)
(*                                                                         *)
(* The tree is a function from paths to nodes: <<>> is the root and        *)
(* Append(n, q) is Children[q] of n.  One call of Insert runs at a time.   *)
(* It is recursive but never forks: at most one child strictly contains a  *)
(* point, so the call stack is the path from the root to the active node   *)
(* and `path' is its top.  `call' says what the top does:                  *)
(*   "idle"      no Insert is active                                       *)
(*   "insert"    Insert entered at `path', whose box contains the body     *)
(*   "aggregate" the child calls are over: recompute Mass and CenterMass   *)
(***************************************************************************)
EXTENDS Geometry, Sequences

CONSTANTS
    BodyNum,        \* number of bodies; body b is Bodies[b - 1]
    Mass,           \* the mass of each body
    SceneBounds,    \* the box of the root
    Places,         \* where MoveAllBodies may leave a body between two trees
    None            \* the null UBodyEntity*

Body == 1 .. BodyNum

ASSUME BodyNumAssumption == BodyNum \in Nat \ {0}
ASSUME MassAssumption == Mass \in [Body -> Nat \ {0}]
ASSUME SceneAssumption == SceneBounds \in Box
ASSUME PlacesAssumption == Places \subseteq Position
ASSUME NoneAssumption == None \notin Int

VARIABLES
    position,   \* UBodyEntity::Position
    tree,       \* the nodes of the QuadTree
    cursor,     \* Index of the loop in ConstructTree
    path,       \* the node of the innermost active Insert
    call,
    inserted    \* the value that the last Insert to return has returned

vars == <<position, tree, cursor, path, call, inserted>>

Path == Seq(Quadrant)

Node == [box : Box, body : Body \cup {None}, subdivided : BOOLEAN,
         empty : BOOLEAN, mass : Nat, centre : Centre]

\* Mistake: a constructor that does not set BodyEntity.
UnsetNode(box) ==
    [box |-> box, body |-> 0, subdivided |-> FALSE,
     empty |-> TRUE, mass |-> 0, centre |-> NoShift]

NewNode(box) ==
    [box |-> box, body |-> None, subdivided |-> FALSE,
     empty |-> TRUE, mass |-> 0, centre |-> NoShift]

\* The branch of Insert that stores the body in an empty node.
Filled(node, b, p) ==
    [box |-> node.box, body |-> b, subdivided |-> node.subdivided,
     empty |-> FALSE, mass |-> Mass[b], centre |-> AtPoint(p)]

NewTree == [n \in {<<>>} |-> NewNode(SceneBounds)]

Parent(n) == SubSeq(n, 1, Len(n) - 1)
Kids(n) == {Append(n, q) : q \in Quadrant}
HasChildren(n) == Kids(n) \cap DOMAIN tree # {}

\* Mistake: the body of a split node is not pushed down.
NoPushDown(node, q) == NewNode(SubBox(node.box, q))

\* The child q that SubDivide creates under `node', and the attempt to push
\* the node's own body down into it.
NewChild(node, q) ==
    LET child == NewNode(SubBox(node.box, q))
        p == position[node.body]
    IN  IF IsInside(child.box, p) THEN Filled(child, node.body, p) ELSE child

-----------------------------------------------------------------------------
(* The sums over the children of n that have a BodyEntity.                 *)

\* Mistake: subdivided children are left out of the sums.
CountedLeaf(n, q) ==
    tree[Append(n, q)].body # None /\ ~tree[Append(n, q)].subdivided

Counted(n, q) == tree[Append(n, q)].body # None

Size(n) == LET one(q) == IF Counted(n, q) THEN 1 ELSE 0
           IN  one(0) + one(1) + one(2) + one(3)

TempMass(n) ==
    LET part(q) == IF Counted(n, q) THEN tree[Append(n, q)].mass ELSE 0
    IN  part(0) + part(1) + part(2) + part(3)

\* Mistake: the mean of the four children, also of those without a body.
MeanOfFour(n) ==
    LET part(q) == IF Counted(n, q) THEN tree[Append(n, q)].centre ELSE NoShift
    IN  Over(Plus(Plus(part(0), part(1)), Plus(part(2), part(3))), 4)

\* Not weighted by mass, and 0/0 when no child has a body.
MeanCentre(n) ==
    LET part(q) == IF Counted(n, q) THEN tree[Append(n, q)].centre ELSE NoShift
    IN  Over(Plus(Plus(part(0), part(1)), Plus(part(2), part(3))), Size(n))

-----------------------------------------------------------------------------
Init ==
    /\ position \in [Body -> Places]
    /\ tree = NewTree
    /\ cursor = 1
    /\ path = <<>>
    /\ call = "idle"
    /\ inserted = FALSE

\* Mistake: the callers' sums are skipped.
ReturnToLoop(n) == path' = <<>> /\ call' = "idle" /\ cursor' = cursor + 1

\* Mistake: the loop of ConstructTree does not advance.
ReturnSameBody(n) ==
    /\ path' = IF n = <<>> THEN <<>> ELSE Parent(n)
    /\ call' = IF n = <<>> THEN "idle" ELSE "aggregate"
    /\ UNCHANGED cursor

\* Return from the Insert at n: to the caller's sums, or to ConstructTree.
Return(n) ==
    IF n = <<>>
    THEN /\ path' = <<>>
         /\ call' = "idle"
         /\ cursor' = cursor + 1
    ELSE /\ path' = Parent(n)
         /\ call' = "aggregate"
         /\ UNCHANGED cursor

\* The root refuses a body that is not strictly inside the scene and moves it
\* to the opposite edge.
Refuse ==
    /\ call = "idle"
    /\ cursor \in Body
    /\ ~IsInside(tree[<<>>].box, position[cursor])
    /\ position' = [position EXCEPT ![cursor] = AdjustPosition(tree[<<>>].box, @)]
    /\ inserted' = FALSE
    /\ cursor' = cursor + 1
    /\ UNCHANGED <<tree, path, call>>

Enter ==
    /\ call = "idle"
    /\ cursor \in Body
    /\ IsInside(tree[<<>>].box, position[cursor])
    /\ call' = "insert"
    /\ path' = <<>>
    /\ UNCHANGED <<position, tree, cursor, inserted>>

Fill ==
    /\ call = "insert"
    /\ tree[path].empty /\ ~HasChildren(path)
    /\ tree' = [tree EXCEPT ![path] = Filled(@, cursor, position[cursor])]
    /\ inserted' = TRUE
    /\ Return(path)
    /\ UNCHANGED position

\* The node keeps its BodyEntity pointer: only the child that accepts the body,
\* if there is one, becomes its leaf.
Subdivide ==
    /\ call = "insert"
    /\ ~(tree[path].empty /\ ~HasChildren(path))
    /\ ~tree[path].subdivided
    /\ tree' = [n \in DOMAIN tree \cup Kids(path) |->
                    IF n \in Kids(path) THEN NewChild(tree[path], n[Len(n)])
                    ELSE IF n = path THEN [tree[n] EXCEPT !.subdivided = TRUE]
                    ELSE tree[n]]
    /\ UNCHANGED <<position, cursor, path, call, inserted>>

Descend(q) ==
    /\ call = "insert"
    /\ tree[path].subdivided
    /\ IsInside(tree[Append(path, q)].box, position[cursor])
    /\ path' = Append(path, q)
    /\ UNCHANGED <<position, tree, cursor, call, inserted>>

\* Mistake: Insert reports a body it has dropped as inserted.
DropUnnoticed ==
    /\ call = "insert"
    /\ tree[path].subdivided
    /\ \A q \in Quadrant : ~IsInside(tree[Append(path, q)].box, position[cursor])
    /\ inserted' = TRUE
    /\ call' = "aggregate"
    /\ UNCHANGED <<position, tree, cursor, path>>

\* All four children refuse the body: it lies on a line between them.
Drop ==
    /\ call = "insert"
    /\ tree[path].subdivided
    /\ \A q \in Quadrant : ~IsInside(tree[Append(path, q)].box, position[cursor])
    /\ inserted' = FALSE
    /\ call' = "aggregate"
    /\ UNCHANGED <<position, tree, cursor, path>>

Aggregate ==
    /\ call = "aggregate"
    /\ tree' = [tree EXCEPT ![path] =
                    [@ EXCEPT !.mass = TempMass(path), !.centre = MeanCentre(path)]]
    /\ Return(path)
    /\ UNCHANGED <<position, inserted>>

Insert == Refuse \/ Enter \/ Fill \/ Subdivide \/ (\E q \in Quadrant : Descend(q))
            \/ Drop \/ Aggregate

\* The next tick: the bodies have moved, the old tree is deleted.
Constructed == call = "idle" /\ cursor > BodyNum

Reconstruct ==
    /\ Constructed
    /\ position' \in [Body -> Places]
    /\ tree' = NewTree
    /\ cursor' = 1
    /\ UNCHANGED <<path, call, inserted>>

Next == Insert \/ Reconstruct

\* A call of Insert runs to its end; nothing forces another tick.
Spec == Init /\ [][Next]_vars /\ WF_vars(Insert)
-----------------------------------------------------------------------------
(* What the tree promises to the force computation.                        *)

TypeOK ==
    /\ position \in [Body -> Position]
    /\ DOMAIN tree \subseteq Path
    /\ tree \in [DOMAIN tree -> Node]
    /\ cursor \in 1 .. BodyNum + 1
    /\ path \in DOMAIN tree
    /\ call \in {"idle", "insert", "aggregate"}
    /\ inserted \in BOOLEAN

\* The Inserts that are active: the sums of these nodes are not yet recomputed.
Active(n) == /\ call # "idle"
             /\ Len(n) =< Len(path)
             /\ SubSeq(path, 1, Len(n)) = n

Holds(n, b) == ~tree[n].subdivided /\ tree[n].body = b
\* A node and all that is below it.
Under(n) == {m \in DOMAIN tree : Len(n) =< Len(m) /\ SubSeq(m, 1, Len(n)) = n}
BodiesUnder(n) == {b \in Body : \E m \in Under(n) : Holds(m, b)}
Held(b) == \E n \in DOMAIN tree : Holds(n, b)

\* The bodies in the leaves and the mass of the root implement BodyIndex.
Index == INSTANCE BodyIndex WITH
    held  <- {b \in Body : Held(b)},
    total <- tree[<<>>].mass,
    next  <- cursor,
    open  <- call # "idle"

\* The point is inside the node but inside none of its children.
OnSplitLine(n, p) ==
    /\ tree[n].subdivided
    /\ IsInside(tree[n].box, p)
    /\ \A q \in Quadrant : ~IsInside(tree[Append(n, q)].box, p)

\* The flags agree with the pointers: a node is subdivided exactly when it has
\* its four children, each with its quarter of the box; it is empty exactly when
\* it has no BodyEntity; a subdivided node is never empty (Insert relies on it
\* when it dereferences BodyEntity to push it down).
Shape ==
    \A n \in DOMAIN tree :
        /\ n # <<>> => Parent(n) \in DOMAIN tree
        /\ IF tree[n].subdivided
           THEN \A q \in Quadrant :
                    /\ Append(n, q) \in DOMAIN tree
                    /\ tree[Append(n, q)].box = SubBox(tree[n].box, q)
           ELSE ~HasChildren(n)
        /\ tree[n].empty <=> tree[n].body = None
        /\ tree[n].subdivided => ~tree[n].empty

\* A leaf's body lies strictly inside the leaf's box, in this tick's positions:
\* the wrap of a later body never moves a body that is already in the tree.
BodiesInTheirBox ==
    \A n \in DOMAIN tree :
        tree[n].body # None => IsInside(tree[n].box, position[tree[n].body])

\* Pushing a body down never leaves it in two leaves.
OneLeafEach ==
    \A m, n \in DOMAIN tree :
        \A b \in Body : Holds(m, b) /\ Holds(n, b) => m = n

\* Which bodies the tree knows: exactly those strictly inside the scene that no
\* subdivided node has between its children.  Insert loses all the others, also
\* those it had stored before the split.
HeldExactly ==
    \A b \in Body : b < cursor =>
        (Held(b) <=> /\ IsInside(SceneBounds, position[b])
                     /\ \A n \in DOMAIN tree : ~OnSplitLine(n, position[b]))

\* The sums of every node outside the active path agree with its children.
SumsFresh ==
    \A n \in DOMAIN tree :
        tree[n].subdivided /\ ~Active(n) =>
            /\ tree[n].mass = TempMass(n)
            /\ tree[n].centre = MeanCentre(n)

\* Mass is conserved through every level of the tree: a node whose Insert is
\* over reports the mass of the bodies its leaves hold, no more and no less.
MassConserved ==
    \A n \in DOMAIN tree : ~Active(n) => tree[n].mass = Index!MassOf(BodiesUnder(n))

\* A centre of mass that is a number lies strictly inside the box of its node,
\* also while the Insert that will recompute it is active.
CentreInBox ==
    \A n \in DOMAIN tree :
        LET c == tree[n].centre
            b == tree[n].box
        IN  tree[n].body # None /\ ~IsNaN(c) =>
                /\ b.x0 * c.den < c.x /\ c.x < b.x1 * c.den
                /\ b.y0 * c.den < c.y /\ c.y < b.y1 * c.den

\* A centre of mass is NaN exactly when some split below lost both its bodies,
\* however many good bodies the node has.
NaNExactlyWhenStarved ==
    call = "idle" =>
        \A n \in DOMAIN tree :
            IsNaN(tree[n].centre) <=> \E m \in Under(n) : tree[m].subdivided /\ Size(m) = 0

\* Insert returns true exactly when the body it was called with is in the tree.
InsertReturns ==
    [][\A b \in Body :
            b = cursor /\ cursor' = b + 1 => (inserted' <=> Held(b)')]_vars

\* What the tree holds and what the root reports change as BodyIndex allows: an
\* Insert adds at most its own body and loses at most one that was in the tree.
ImplementsBodyIndex == Index!Spec

\* ConstructTree always gets through all bodies.
ConstructTerminates == []<>Constructed
=============================================================================
