--------------------------- MODULE BodySimulator ----------------------------
(***************************************************************************)
(* The tick of ABodySimulator.  A Barnes-Hut tick builds the tree (the     *)
(* actions of QuadTree), computes the forces with ParallelFor, one task    *)
(* per body, and moves the bodies; an AllVsAll tick skips the tree.        *)
(*                                                                         *)
(* A velocity is abstracted to whether it is still a number, and a force   *)
(* to what it is the force of: pull[b][c] counts how often the mass of c   *)
(* has been applied to b in this tick.  The displacement of a body in a    *)
(* tick is any of Steps.                                                   *)
(***************************************************************************)
EXTENDS QuadTree, FiniteSets

CONSTANTS
    Types,                      \* values the editor may give SimulationType
    ThetaNum, ThetaDen,         \* Theta as a fraction
    SimGravityDistance,         \* MinimumGravityDistance of the simulator ...
    BodyGravityDistance,        \* ... and the copy its bodies took of it
    Workers,                    \* threads that ParallelFor runs tasks on
    Steps,                      \* possible displacements of a body in one tick
    MaxTicks                    \* bound on the ticks explored

SimulationTypes == {"None", "AllVsAll", "BarnesHut"}

ASSUME TypesAssumption == Types \subseteq SimulationTypes
ASSUME ThetaAssumption == ThetaNum \in Nat /\ ThetaDen \in Nat \ {0}
\* The editor may change the field after InitBodies copied it to the bodies.
ASSUME GravityAssumption == SimGravityDistance \in Nat /\ BodyGravityDistance \in Nat
ASSUME WorkersAssumption == Workers \in Nat \ {0}
ASSUME StepsAssumption == Steps \subseteq Point
ASSUME TicksAssumption == MaxTicks \in Nat

VARIABLES
    phase,      \* where Tick is
    ticks,
    todo,       \* the nodes, or bodies, a task of ParallelFor has yet to visit
    pull,
    finite,     \* whether the velocity of a body is a number
    mesh        \* the instance transforms last sent to InstancedMesh

treeVars == <<position, tree, cursor, path, call, inserted>>
simVars == <<phase, ticks, todo, pull, finite, mesh>>
allVars == <<treeVars, simVars>>

NoPull == [b \in Body |-> [c \in Body |-> 0]]

\* After BeginPlay.  No tree exists: the one of QuadTree!Init stands for the
\* null pointer, nothing reads it before ConstructTree replaces it.
SimInit ==
    /\ Init
    /\ \A b \in Body : position[b] # NaN
    /\ phase = "between"
    /\ ticks = 0
    /\ todo = [b \in Body |-> <<>>]
    /\ pull = NoPull
    /\ finite = [b \in Body |-> TRUE]
    /\ mesh = position

-----------------------------------------------------------------------------
(* The forces.                                                             *)

\* ParallelFor hands the indices to its threads in any order: a task that has
\* not begun waits for a free one.
Begun(b) == todo[b] # IF phase = "forces" THEN << <<>> >> ELSE [i \in Body |-> i]

\* Mistake: a task gives up its thread after every step.
MayRunIfFree(b) ==
    /\ todo[b] # <<>>
    /\ Cardinality({c \in Body : Begun(c) /\ todo[c] # <<>>}) < Workers

MayRun(b) ==
    /\ todo[b] # <<>>
    /\ ~Begun(b) =>
        Cardinality({c \in Body : Begun(c) /\ todo[c] # <<>>}) < Workers

\* The new velocity of b is a number unless the body or the attracting centre is
\* NaN, or the distance it divides by, at least `minimum', is zero.
StaysFinite(b, c, minimum) ==
    /\ finite[b] /\ position[b] # NaN /\ ~IsNaN(c)
    /\ \/ minimum > 0
       \/ c.x # position[b].x * c.den
       \/ c.y # position[b].y * c.den

\* Mistake: a node with a BodyEntity is taken for a leaf, but a split node keeps
\* the pointer.
IsLeafIfBody(n) == tree[n].body # None \/ ~HasChildren(n)

IsLeaf(n) == ~HasChildren(n)

\* GetCenterOfMass of a leaf is the body's Position * Mass.
GetCenterOfMass(n) ==
    LET b == tree[n].body
    IN  IF IsLeaf(n) /\ b # None
        THEN AtPoint([x |-> position[b].x * Mass[b], y |-> position[b].y * Mass[b]])
        ELSE tree[n].centre

GetMass(n) == IF IsLeaf(n) /\ tree[n].body # None THEN Mass[tree[n].body]
              ELSE tree[n].mass

Longest(box) == LET ex == Extent(box.x0, box.x1)
                    ey == Extent(box.y0, box.y1)
                IN  IF ex >= ey THEN ex ELSE ey

\* Mistake: ~(s / d >= Theta), which a NaN satisfies.
FarUnlessNear(b, n) ==
    LET c == GetCenterOfMass(n)
        s == Longest(tree[n].box)
        dx == c.x - position[b].x * c.den
        dy == c.y - position[b].y * c.den
    IN  (position[b] # NaN /\ ~IsNaN(c)) =>
        s * s * ThetaDen * ThetaDen * c.den * c.den
              < ThetaNum * ThetaNum * (dx * dx + dy * dy)

\* s / d < Theta, squared and multiplied out; false when the centre or the body
\* is NaN, and when d is zero.
FarEnough(b, n) ==
    LET c == GetCenterOfMass(n)
        s == Longest(tree[n].box)
        dx == c.x - position[b].x * c.den
        dy == c.y - position[b].y * c.den
    IN  /\ position[b] # NaN /\ ~IsNaN(c)
        /\ s * s * ThetaDen * ThetaDen * c.den * c.den
              < ThetaNum * ThetaNum * (dx * dx + dy * dy)

Times(S) == [c \in Body |-> IF c \in S THEN 1 ELSE 0]

\* One call of CalculateForcesBarnesHut by the task of b.  The leaf branch does
\* not return: a far leaf goes on to the quotient test and is applied again.
Visit(b) ==
    /\ phase = "forces" /\ MayRun(b)
    /\ LET n == Head(todo[b])
           rest == Tail(todo[b])
           leaf == IsLeaf(n) /\ tree[n].body # None
           self == leaf /\ tree[n].body = b
           direct == leaf /\ ~self
           whole == /\ ~self /\ ~tree[n].empty
                    /\ FarEnough(b, n) /\ GetMass(n) > 0
           open == ~self /\ ~tree[n].empty /\ ~FarEnough(b, n) /\ ~IsLeaf(n)
           once == Times(IF direct THEN {tree[n].body} ELSE {})
           again == Times(IF whole THEN BodiesUnder(n) ELSE {})
       IN  /\ pull' = [pull EXCEPT ![b] = [c \in Body |-> @[c] + once[c] + again[c]]]
           /\ finite' = [finite EXCEPT ![b] =
                            IF direct \/ whole
                            THEN StaysFinite(b, GetCenterOfMass(n), BodyGravityDistance) ELSE @]
           /\ todo' = [todo EXCEPT ![b] =
                            IF open THEN [i \in 1 .. 4 |-> Append(n, i - 1)] \o rest
                            ELSE rest]
    /\ UNCHANGED <<treeVars, phase, ticks, mesh>>

\* Mistake: a body attracts itself.
AttractAll(b) ==
    /\ phase = "pairs" /\ MayRun(b)
    /\ pull' = [pull EXCEPT ![b][Head(todo[b])] = @ + 1]
    /\ todo' = [todo EXCEPT ![b] = Tail(@)]
    /\ UNCHANGED <<treeVars, phase, ticks, finite, mesh>>

\* One turn of the inner loop of SimulateCompareAllParallel by the task of b.
Attract(b) ==
    /\ phase = "pairs" /\ MayRun(b)
    /\ LET c == Head(todo[b])
       IN  IF c = b
           THEN UNCHANGED <<pull, finite>>
           ELSE /\ pull' = [pull EXCEPT ![b][c] = @ + 1]
                /\ finite' = [finite EXCEPT ![b] =
                                 /\ position[c] # NaN
                                 /\ StaysFinite(b, AtPoint(position[c]), SimGravityDistance)]
    /\ todo' = [todo EXCEPT ![b] = Tail(@)]
    /\ UNCHANGED <<treeVars, phase, ticks, mesh>>

-----------------------------------------------------------------------------
(* The tick.                                                               *)

TickNone ==
    /\ phase = "between" /\ "None" \in Types /\ ticks < MaxTicks
    /\ ticks' = ticks + 1
    /\ UNCHANGED <<treeVars, phase, todo, pull, finite, mesh>>

TickAllVsAll ==
    /\ phase = "between" /\ "AllVsAll" \in Types /\ ticks < MaxTicks
    /\ phase' = "pairs"
    /\ ticks' = ticks + 1
    /\ todo' = [b \in Body |-> [i \in Body |-> i]]
    /\ pull' = NoPull
    /\ UNCHANGED <<treeVars, finite, mesh>>

TickBarnesHut ==
    /\ phase = "between" /\ "BarnesHut" \in Types /\ ticks < MaxTicks
    /\ phase' = "construct"
    /\ ticks' = ticks + 1
    /\ tree' = NewTree
    /\ cursor' = 1
    /\ pull' = NoPull
    /\ UNCHANGED <<position, path, call, inserted, todo, finite, mesh>>

ConstructTree ==
    /\ phase = "construct"
    /\ Insert
    /\ UNCHANGED simVars

SimulateBarnesHut ==
    /\ phase = "construct" /\ Constructed
    /\ phase' = "forces"
    /\ todo' = [b \in Body |-> << <<>> >>]
    /\ UNCHANGED <<treeVars, ticks, pull, finite, mesh>>

\* MoveAllBodies adjusts the position before the move, and only for AllVsAll.
\* One NaN transform keeps the whole mesh from being updated.
Moved(b, step) ==
    LET p == IF phase = "pairs" THEN AdjustPosition(SceneBounds, position[b])
             ELSE position[b]
    IN  IF p = NaN \/ ~finite[b] THEN NaN
        ELSE [x |-> p.x + step.x, y |-> p.y + step.y]

\* Mistake: the transforms are sent whether they are numbers or not.
MoveAndDraw ==
    /\ phase \in {"pairs", "forces"}
    /\ \A b \in Body : todo[b] = <<>>
    /\ \E step \in [Body -> Steps] :
            position' = [b \in Body |-> Moved(b, step[b])]
    /\ mesh' = position'
    /\ phase' = "between"
    /\ UNCHANGED <<tree, cursor, path, call, inserted, ticks, todo, pull, finite>>

MoveAllBodies ==
    /\ phase \in {"pairs", "forces"}
    /\ \A b \in Body : todo[b] = <<>>
    /\ \E step \in [Body -> Steps] :
            position' = [b \in Body |-> Moved(b, step[b])]
    /\ mesh' = IF \E b \in Body : position'[b] = NaN THEN mesh ELSE position'
    /\ phase' = "between"
    /\ UNCHANGED <<tree, cursor, path, call, inserted, ticks, todo, pull, finite>>

Task(b) == Visit(b) \/ Attract(b)

SimNext == \/ TickNone \/ TickAllVsAll \/ TickBarnesHut
           \/ ConstructTree \/ SimulateBarnesHut
           \/ (\E b \in Body : Task(b))
           \/ MoveAllBodies

\* A tick that has begun runs on: the game thread does not stop and ParallelFor
\* waits for every task.  The engine decides whether there is another tick.
SimSpec == /\ SimInit /\ [][SimNext]_allVars
           /\ WF_allVars(ConstructTree) /\ WF_allVars(SimulateBarnesHut)
           /\ WF_allVars(MoveAllBodies)
           /\ \A b \in Body : WF_allVars(Task(b))

-----------------------------------------------------------------------------
\* Types.  No transform in the mesh is NaN.
SimTypeOK ==
    /\ TypeOK
    /\ phase \in {"between", "construct", "forces", "pairs"}
    /\ ticks \in 0 .. MaxTicks
    /\ todo \in [Body -> Seq(IF phase = "pairs" THEN Body ELSE DOMAIN tree)]
    /\ pull \in [Body -> [Body -> Nat]]
    /\ finite \in [Body -> BOOLEAN]
    /\ mesh \in [Body -> Point]

ForcesDone == phase = "forces" /\ \A b \in Body : todo[b] = <<>>

\* However the tasks interleave, the traversal computes what the tree says: a body
\* is pulled once by all that is under the highest node far enough away, and by
\* the leaves it reaches, other than its own, once and once more when they are
\* far.  A body that the tree has lost pulls nobody.
PullsMatchTree ==
    ForcesDone =>
        \A b, c \in Body :
            /\ ~Held(c) => pull[b][c] = 0
            /\ \A n \in DOMAIN tree : Holds(n, c) =>
                pull[b][c] =
                    IF \E i \in 0 .. Len(n) - 1 : FarEnough(b, SubSeq(n, 1, i)) THEN 1
                    ELSE IF b = c THEN 0
                    ELSE IF FarEnough(b, n) THEN 2 ELSE 1

\* The naive method applies every other body exactly once, in both directions.
PairsOnceEach ==
    phase = "pairs" /\ (\A b \in Body : todo[b] = <<>>) =>
        \A b, c \in Body : pull[b][c] = IF b = c THEN 0 ELSE 1

\* Every body is in the scene, edge included, when Barnes-Hut reads positions,
\* wherever the last move, by either method, has left it.
InSceneAtForces ==
    phase = "forces" =>
        \A b \in Body : position[b] # NaN =>
            /\ SceneBounds.x0 =< position[b].x /\ position[b].x =< SceneBounds.x1
            /\ SceneBounds.y0 =< position[b].y /\ position[b].y =< SceneBounds.y1

\* The NaN centre of a starved node and a NaN body never spread in a Barnes-Hut
\* tick: a position that is a number stays one.
NaNContained ==
    [][phase = "forces" => \A b \in Body : position[b] # NaN => position'[b] # NaN]_allVars

\* A tick ends.
TickEnds == phase # "between" ~> phase = "between"

-----------------------------------------------------------------------------
\* The README calls the method Barnes-Hut: it approximates the sum over all
\* other bodies, each of which is part of exactly one term of it.
OneTermPerBody ==
    ForcesDone => \A b, c \in Body : b # c => pull[b][c] =< 1

\* A body exerts no force on itself.
ExcludeSelf ==
    ForcesDone => \A b \in Body : pull[b][b] = 0
=============================================================================
