------------------------ MODULE BodySimulator_proofs ------------------------
(***************************************************************************)
(* Proofs about the tick: for every number of bodies and threads, every    *)
(* scene and every displacement, whichever types of simulation follow one  *)
(* another.                                                                *)
(*                                                                         *)
(* The invariants of the tree are those of a tree being built.  They break *)
(* when the bodies move, which no node of the tree knows of, so here they  *)
(* hold from ConstructTree to the end of the forces only.                  *)
(***************************************************************************)
EXTENDS BodySimulator, QuadTree_proofs

\* No call of Insert is active outside ConstructTree.
Calm == phase # "construct" => path = <<>> /\ call = "idle"

\* The tree is what ConstructTree builds, until the bodies move.
TreeBuilt ==
    /\ phase \in {"construct", "forces"} => IInv /\ GInv
    /\ phase = "forces" => cursor = BodyNum + 1

InBounds(p) == p # NaN =>
    /\ SceneBounds.x0 =< p.x /\ p.x =< SceneBounds.x1
    /\ SceneBounds.y0 =< p.y /\ p.y =< SceneBounds.y1

\* A body that Insert was called with has been wrapped, if need be.
Wrapped == phase \in {"construct", "forces"} =>
    \A b \in Body : b < cursor \/ (b = cursor /\ call # "idle") => InBounds(position[b])

NoTask == phase \in {"between", "construct"} => \A b \in Body : todo[b] = <<>>

\* The bodies that the task of b has been through.
Through(b) == BodyNum - Len(todo[b])

\* A task goes through the bodies in order and applies each once.
InTurn == phase = "pairs" => \A b \in Body :
    /\ Through(b) >= 0
    /\ \A i \in 1 .. Len(todo[b]) : todo[b][i] = Through(b) + i
    /\ \A c \in Body : pull[b][c] = IF b # c /\ c =< Through(b) THEN 1 ELSE 0

SInv == SimTypeOK /\ Calm /\ TreeBuilt /\ Wrapped /\ NoTask /\ InTurn

-----------------------------------------------------------------------------
(* Building the tree.                                                      *)

\* A new tree satisfies the tree's invariants, wherever the bodies are.
NewlyBuilt ==
    /\ position \in [Body -> Position] /\ inserted \in BOOLEAN
    /\ tree = NewTree /\ cursor = 1 /\ path = <<>> /\ call = "idle"

LEMMA NewTreeHolds == NewlyBuilt => IInv /\ GInv
<1> SUFFICES ASSUME NewlyBuilt PROVE IInv /\ GInv
  OBVIOUS
<1> USE DEF NewlyBuilt
<1>1. TypeOK
  BY NewTreeInv, BodyNumAssumption DEF TypeOK
<1>2. \A n \in DOMAIN tree : n = <<>> /\ tree[n] = NewNode(SceneBounds)
  BY NewTreeInv
<1>3. Shape
  <2>1. \A q \in Quadrant : Append(<<>>, q) # <<>>
    BY NewTreeInv, AppendPath
  <2>2. Kids(<<>>) \cap DOMAIN tree = {}
    BY <1>2, <2>1 DEF Kids
  <2>3. QED
    BY <1>2, <2>2 DEF Shape, NewNode, HasChildren
<1>4. CallInv /\ BodiesInTheirBox /\ Earlier
  BY <1>2, NewTreeInv DEF CallInv, BodiesInTheirBox, Earlier, NewNode
<1>5. GInv
  BY NewTreeGeometry DEF GInv, SeenHeld, Seen, Body
<1>6. QED
  BY <1>1, <1>3, <1>4, <1>5 DEF IInv

LEMMA InsertKeeps == IInv /\ GInv /\ Insert => IInv' /\ GInv'
  BY NextInv, NextGInv DEF Next

\* The wrap leads to the edge of the scene, and leaves alone what is inside.
LEMMA WrapInBounds ==
    ASSUME NEW p \in Position
    PROVE  /\ InBounds(AdjustPosition(SceneBounds, p))
           /\ IsInside(SceneBounds, p) => InBounds(p)
<1>1. /\ SceneBounds.x0 \in Int /\ SceneBounds.x1 \in Int /\ SceneBounds.x0 =< SceneBounds.x1
      /\ SceneBounds.y0 \in Int /\ SceneBounds.y1 \in Int /\ SceneBounds.y0 =< SceneBounds.y1
  BY SceneAssumption DEF Box
<1>2. CASE p = NaN
  BY <1>2 DEF AdjustPosition, InBounds, IsInside
<1>3. CASE p # NaN
  <2>1. p.x \in Int /\ p.y \in Int
    BY <1>3 DEF Position, Point
  <2>2. AdjustPosition(SceneBounds, p).x = Wrap(p.x, SceneBounds.x0, SceneBounds.x1)
        /\ AdjustPosition(SceneBounds, p).y = Wrap(p.y, SceneBounds.y0, SceneBounds.y1)
    BY <1>3 DEF AdjustPosition
  <2>3. QED
    BY <1>1, <2>1, <2>2 DEF InBounds, IsInside, Wrap
<1>4. QED
  BY <1>2, <1>3

\* Each body is wrapped when its turn comes, and not moved by a later one.
LEMMA InsertWraps == IInv /\ phase = "construct" /\ Wrapped /\ Insert /\ UNCHANGED phase => Wrapped'
<1> SUFFICES ASSUME IInv, phase = "construct", Wrapped, Insert, UNCHANGED phase
             PROVE  Wrapped'
  OBVIOUS
<1>1. /\ position \in [Body -> Position] /\ cursor \in Int
      /\ <<>> \in DOMAIN tree /\ tree[<<>>].box = SceneBounds
      /\ call # "idle" => cursor \in Body
  BY DEF IInv, TypeOK, CallInv
<1>2. \A b \in Body : b \in Int
  BY DEF Body
<1>3. \A b \in Body : b < cursor \/ (b = cursor /\ call # "idle") => InBounds(position[b])
  BY DEF Wrapped
<1>4. CASE Refuse
  <2>1. /\ cursor \in Body /\ cursor' = cursor + 1 /\ call = "idle" /\ call' = "idle"
        /\ position' = [position EXCEPT ![cursor] = AdjustPosition(SceneBounds, position[cursor])]
    BY <1>1, <1>4 DEF Refuse
  <2>2. \A b \in Body : InBounds(position[b]) \/ b = cursor => InBounds(position'[b])
    BY <1>1, <2>1, WrapInBounds DEF InBounds
  <2>3. QED
    BY <1>1, <1>2, <1>3, <2>1, <2>2 DEF Wrapped, InBounds
<1>5. CASE Enter
  <2>1. cursor \in Body /\ cursor' = cursor /\ position' = position /\ InBounds(position[cursor])
    BY <1>1, <1>5, WrapInBounds DEF Enter
  <2>2. QED
    BY <1>3, <2>1 DEF Wrapped, InBounds
<1>6. CASE Fill \/ Aggregate
  <2>1. position' = position /\ call # "idle"
        /\ (cursor' = cursor \/ (cursor' = cursor + 1 /\ call' = "idle"))
    BY <1>6 DEF Fill, Aggregate, Return
  <2>2. QED
    BY <1>1, <1>2, <1>3, <2>1 DEF Wrapped, InBounds
<1>7. CASE Subdivide \/ Drop \/ \E q \in Quadrant : Descend(q)
  <2>1. position' = position /\ call # "idle" /\ cursor' = cursor
    BY <1>7 DEF Subdivide, Drop, Descend
  <2>2. QED
    BY <1>3, <2>1 DEF Wrapped, InBounds
<1>8. QED
  BY <1>4, <1>5, <1>6, <1>7 DEF Insert

LEMMA ConstructKeeps == SInv /\ ConstructTree => SInv'
<1> SUFFICES ASSUME SInv, ConstructTree PROVE SInv'
  OBVIOUS
<1>1. /\ phase = "construct" /\ Insert
      /\ phase' = "construct" /\ ticks' = ticks /\ todo' = todo
      /\ pull' = pull /\ finite' = finite /\ mesh' = mesh
  BY DEF ConstructTree, simVars
<1>2. IInv' /\ GInv'
  BY <1>1, InsertKeeps DEF SInv, TreeBuilt
<1>3. Wrapped'
  BY <1>1, InsertWraps DEF SInv, TreeBuilt
<1>4. \A b \in Body : todo'[b] = <<>>
  BY <1>1 DEF SInv, NoTask
<1>5. SimTypeOK'
  <2>1. TypeOK'
    BY <1>2 DEF IInv
  <2>2. todo' \in [Body -> Seq(DOMAIN tree')]
    <3>1. todo' = [b \in Body |-> <<>>]
      BY <1>1, <1>4 DEF SInv, SimTypeOK
    <3>2. QED
      BY <3>1, EmptySeq
  <2>3. QED
    BY <1>1, <2>1, <2>2 DEF SInv, SimTypeOK
<1>6. QED
  BY <1>1, <1>2, <1>3, <1>4, <1>5 DEF SInv, Calm, TreeBuilt, NoTask, InTurn

-----------------------------------------------------------------------------
(* The forces.                                                             *)

LEMMA FromTasks ==
    ASSUME SimTypeOK, phase = "forces", IInv, NEW b \in Body, todo[b] # <<>>
    PROVE  /\ Head(todo[b]) \in DOMAIN tree
           /\ Tail(todo[b]) \in Seq(DOMAIN tree)
           /\ ~IsLeaf(Head(todo[b])) =>
                [i \in 1 .. 4 |-> Append(Head(todo[b]), i - 1)] \o Tail(todo[b]) \in Seq(DOMAIN tree)
<1> DEFINE D == DOMAIN tree
           n == Head(todo[b])
           rest == Tail(todo[b])
<1>1. todo[b] \in Seq(D)
  BY DEF SimTypeOK
<1> HIDE DEF D
<1>2. n \in D /\ rest \in Seq(D)
  BY <1>1, HeadTailProperties
<1>3. ASSUME ~IsLeaf(n)
      PROVE  [i \in 1 .. 4 |-> Append(n, i - 1)] \o rest \in Seq(D)
  <2> DEFINE kids == [i \in 1 .. 4 |-> Append(n, i - 1)]
  <2>1. tree[n].subdivided
    BY <1>2, <1>3 DEF IInv, Shape, IsLeaf, D
  <2>2. \A q \in Quadrant : Append(n, q) \in D
    BY <1>2, <2>1 DEF IInv, Shape, D
  <2>3. \A i \in 1 .. 4 : Append(n, i - 1) \in D
    BY <2>2 DEF Quadrant
  <2>4. kids \in Seq(D)
    BY <2>3
  <2> HIDE DEF kids
  <2>5. kids \o rest \in Seq(D)
    BY <1>2, <2>4, ConcatProperties
  <2>6. QED
    BY <2>5 DEF kids
<1>4. QED
  BY <1>2, <1>3 DEF D

LEMMA TimesType == ASSUME NEW S PROVE Times(S) \in [Body -> Nat]
  BY DEF Times

LEMMA VisitKeeps == ASSUME SInv, NEW b \in Body, Visit(b) PROVE SInv'
<1>1. /\ phase = "forces" /\ todo[b] # <<>>
      /\ phase' = phase /\ ticks' = ticks /\ mesh' = mesh /\ UNCHANGED treeVars
  BY DEF Visit, MayRun
<1>2. /\ SimTypeOK /\ IInv /\ GInv /\ Calm /\ TreeBuilt /\ Wrapped
  BY <1>1 DEF SInv, TreeBuilt
<1> DEFINE n == Head(todo[b])
           rest == Tail(todo[b])
           leaf == IsLeaf(n) /\ tree[n].body # None
           self == leaf /\ tree[n].body = b
           direct == leaf /\ ~self
           whole == /\ ~self /\ ~tree[n].empty
                    /\ FarEnough(b, n) /\ GetMass(n) > 0
           open == ~self /\ ~tree[n].empty /\ ~FarEnough(b, n) /\ ~IsLeaf(n)
           once == Times(IF direct THEN {tree[n].body} ELSE {})
           again == Times(IF whole THEN BodiesUnder(n) ELSE {})
           stays == StaysFinite(b, GetCenterOfMass(n), BodyGravityDistance)
           more == [i \in 1 .. 4 |-> Append(n, i - 1)] \o rest
<1>3. /\ pull' = [pull EXCEPT ![b] = [c \in Body |-> @[c] + once[c] + again[c]]]
      /\ finite' = [finite EXCEPT ![b] = IF direct \/ whole THEN stays ELSE @]
      /\ todo' = [todo EXCEPT ![b] = IF open THEN more ELSE rest]
  BY DEF Visit
<1>4. once \in [Body -> Nat] /\ again \in [Body -> Nat]
  BY TimesType
<1>5. rest \in Seq(DOMAIN tree) /\ (open => more \in Seq(DOMAIN tree))
  BY <1>1, <1>2, FromTasks
<1>6. stays \in BOOLEAN
  BY DEF StaysFinite
<1> HIDE DEF once, again, stays, open, more, rest, direct, whole
<1>7. pull' \in [Body -> [Body -> Nat]]
  <2>1. pull \in [Body -> [Body -> Nat]]
    BY <1>2 DEF SimTypeOK
  <2>2. [c \in Body |-> pull[b][c] + once[c] + again[c]] \in [Body -> Nat]
    BY <1>4, <2>1
  <2>3. QED
    BY <1>3, <2>1, <2>2
<1>8. finite' \in [Body -> BOOLEAN]
  <2>1. finite \in [Body -> BOOLEAN]
    BY <1>2 DEF SimTypeOK
  <2>2. QED
    BY <1>3, <1>6, <2>1
<1>9. todo' \in [Body -> Seq(DOMAIN tree)]
  <2>1. todo \in [Body -> Seq(DOMAIN tree)]
    BY <1>1, <1>2 DEF SimTypeOK
  <2>2. QED
    BY <1>3, <1>5, <2>1
<1>10. UNCHANGED <<position, tree, cursor, path, call, inserted>>
  BY <1>1 DEF treeVars
<1>11. TypeOK' /\ IInv' /\ GInv'
  <2>1. UNCHANGED vars
    BY <1>10 DEF vars
  <2>2. QED
    BY <1>2, <2>1, NextInv, NextGInv DEF IInv
<1>12. SimTypeOK'
  BY <1>1, <1>2, <1>7, <1>8, <1>9, <1>10, <1>11 DEF SimTypeOK
<1>13. QED
  BY <1>1, <1>2, <1>10, <1>11, <1>12 DEF SInv, Calm, TreeBuilt, Wrapped, InBounds, NoTask, InTurn

\* One turn of the inner loop keeps the order and the count.
LEMMA AttractKeeps == ASSUME SInv, NEW b \in Body, Attract(b) PROVE SInv'
<1>1. /\ phase = "pairs" /\ todo[b] # <<>>
      /\ phase' = phase /\ ticks' = ticks /\ mesh' = mesh
      /\ UNCHANGED <<position, tree, cursor, path, call, inserted>>
      /\ todo' = [todo EXCEPT ![b] = Tail(@)]
  BY DEF Attract, MayRun, treeVars
<1> DEFINE c == Head(todo[b])
           stays == /\ position[c] # NaN
                    /\ StaysFinite(b, AtPoint(position[c]), SimGravityDistance)
<1>2. IF c = b THEN UNCHANGED <<pull, finite>>
      ELSE /\ pull' = [pull EXCEPT ![b][c] = @ + 1]
           /\ finite' = [finite EXCEPT ![b] = stays]
  BY DEF Attract
<1>3. stays \in BOOLEAN
  BY DEF StaysFinite
<1>4. SimTypeOK /\ InTurn
  BY DEF SInv
<1>5. /\ pull \in [Body -> [Body -> Nat]] /\ finite \in [Body -> BOOLEAN]
      /\ todo \in [Body -> Seq(Body)]
  BY <1>1, <1>4 DEF SimTypeOK
<1>6. /\ Tail(todo[b]) \in Seq(Body) /\ Len(todo[b]) \in Nat \ {0} /\ Len(Tail(todo[b])) = Len(todo[b]) - 1
      /\ c \in Body /\ c = todo[b][1]
      /\ \A i \in 1 .. Len(todo[b]) - 1 : Tail(todo[b])[i] = todo[b][i + 1]
  BY <1>1, <1>5, HeadTailProperties, LenProperties
<1> HIDE DEF c, stays
<1>7. pull' \in [Body -> [Body -> Nat]]
  <2>1. pull[b] \in [Body -> Nat]
    BY <1>5
  <2>2. [pull[b] EXCEPT ![c] = @ + 1] \in [Body -> Nat]
    BY <1>6, <2>1
  <2>3. [pull EXCEPT ![b] = [pull[b] EXCEPT ![c] = @ + 1]] \in [Body -> [Body -> Nat]]
    BY <1>5, <2>2
  <2>4. QED
    BY <1>2, <1>5, <2>3
<1>8. finite' \in [Body -> BOOLEAN]
  BY <1>2, <1>3, <1>5
<1>9. todo' \in [Body -> Seq(Body)]
  BY <1>1, <1>5, <1>6
<1>10. SimTypeOK'
  <2>1. TypeOK'
    BY <1>1, <1>4 DEF SimTypeOK, TypeOK
  <2>2. QED
    BY <1>1, <1>4, <1>7, <1>8, <1>9, <2>1 DEF SimTypeOK
<1>11. ASSUME NEW d \in Body
       PROVE  /\ Through(d)' >= 0
              /\ \A i \in 1 .. Len(todo'[d]) : todo'[d][i] = Through(d)' + i
              /\ \A e \in Body : pull'[d][e] = IF d # e /\ e =< Through(d)' THEN 1 ELSE 0
  <2>1. /\ Through(d) >= 0
        /\ \A i \in 1 .. Len(todo[d]) : todo[d][i] = Through(d) + i
        /\ \A e \in Body : pull[d][e] = IF d # e /\ e =< Through(d) THEN 1 ELSE 0
    BY <1>1, <1>4 DEF InTurn
  <2>2. CASE d # b
    <3>1. todo'[d] = todo[d] /\ pull'[d] = pull[d]
      BY <1>1, <1>2, <1>5, <2>2
    <3>2. QED
      BY <2>1, <3>1 DEF Through
  <2>3. CASE d = b
    <3>1. todo'[d] = Tail(todo[b])
      BY <1>1, <1>5, <2>3
    <3>2. /\ Through(d)' = Through(b) + 1 /\ Through(b) \in Nat
          /\ c = Through(b) + 1
      <4>1. Through(d)' = BodyNum - (Len(todo[b]) - 1) /\ Through(b) = BodyNum - Len(todo[b])
        BY <1>6, <3>1 DEF Through
      <4>2. Through(b) >= 0 /\ todo[b][1] = Through(b) + 1
        <5>1. 1 \in 1 .. Len(todo[b])
          BY <1>6
        <5>2. QED
          BY <2>1, <2>3, <5>1
      <4>3. QED
        BY <1>6, <4>1, <4>2, BodyNumAssumption
    <3>3. \A i \in 1 .. Len(todo'[d]) : todo'[d][i] = Through(d)' + i
      BY <1>6, <2>1, <2>3, <3>1, <3>2
    <3>4. ASSUME NEW e \in Body
          PROVE  pull'[b][e] = IF b # e /\ e =< Through(b) + 1 THEN 1 ELSE 0
      <4>1. pull[b][e] = IF b # e /\ e =< Through(b) THEN 1 ELSE 0
        BY <2>1, <2>3
      <4>2. e \in Int /\ b \in Int
        BY DEF Body
      <4>3. CASE e = c /\ c # b
        <5>1. pull'[b][e] = pull[b][e] + 1
          BY <1>2, <1>5, <4>3
        <5>2. QED
          BY <3>2, <4>1, <4>2, <4>3, <5>1
      <4>4. CASE e # c \/ c = b
        <5>1. pull'[b][e] = pull[b][e]
          <6>1. CASE c = b
            BY <1>2, <6>1
          <6>2. CASE c # b
            <7>1. pull' = [pull EXCEPT ![b] = [pull[b] EXCEPT ![c] = @ + 1]] /\ e # c
              BY <1>2, <1>5, <4>4, <6>2
            <7>2. pull[b] \in [Body -> Nat]
              BY <1>5
            <7>3. QED
              BY <1>5, <7>1, <7>2
          <6>3. QED
            BY <6>1, <6>2
        <5>2. QED
          BY <3>2, <4>1, <4>2, <4>4, <5>1
      <4>5. QED
        BY <4>3, <4>4
    <3>5. QED
      BY <2>3, <3>2, <3>3, <3>4
  <2>4. QED
    BY <2>2, <2>3
<1>12. InTurn'
  BY <1>11 DEF InTurn
<1>13. QED
  BY <1>1, <1>10, <1>12 DEF SInv, Calm, TreeBuilt, Wrapped, NoTask

-----------------------------------------------------------------------------
(* The tick.                                                               *)

LEMMA SimInitHolds == SimInit => SInv
<1> SUFFICES ASSUME SimInit PROVE SInv
  OBVIOUS
<1>1. /\ Init /\ phase = "between" /\ ticks = 0
      /\ todo = [b \in Body |-> <<>>] /\ pull = NoPull /\ finite = [b \in Body |-> TRUE]
      /\ mesh = position
  BY DEF SimInit
<1>2. TypeOK
  BY <1>1, InitInv DEF IInv
<1>3. mesh \in [Body -> Point]
  BY <1>1, <1>2 DEF SimInit, TypeOK, Position
<1>4. SimTypeOK
  <2>1. pull \in [Body -> [Body -> Nat]] /\ finite \in [Body -> BOOLEAN]
    BY <1>1 DEF NoPull
  <2>2. todo \in [Body -> Seq(DOMAIN tree)]
    BY <1>1, EmptySeq
  <2>3. QED
    BY <1>1, <1>2, <1>3, <2>1, <2>2, TicksAssumption DEF SimTypeOK
<1>5. QED
  BY <1>1, <1>4 DEF SInv, Init, Calm, TreeBuilt, Wrapped, NoTask, InTurn

LEMMA TickNoneKeeps == SInv /\ TickNone => SInv'
<1> SUFFICES ASSUME SInv, TickNone PROVE SInv'
  OBVIOUS
<1>1. /\ phase = "between" /\ phase' = phase /\ ticks < MaxTicks /\ ticks' = ticks + 1
      /\ UNCHANGED <<position, tree, cursor, path, call, inserted, todo, pull, finite, mesh>>
  BY DEF TickNone, treeVars
<1>2. SimTypeOK'
  BY <1>1, TicksAssumption DEF SInv, SimTypeOK, TypeOK
<1>3. QED
  BY <1>1, <1>2 DEF SInv, Calm, TreeBuilt, Wrapped, NoTask, InTurn

LEMMA TickAllVsAllKeeps == SInv /\ TickAllVsAll => SInv'
<1> SUFFICES ASSUME SInv, TickAllVsAll PROVE SInv'
  OBVIOUS
<1>1. /\ phase = "between" /\ phase' = "pairs" /\ ticks < MaxTicks /\ ticks' = ticks + 1
      /\ todo' = [b \in Body |-> [i \in Body |-> i]] /\ pull' = NoPull
      /\ UNCHANGED <<position, tree, cursor, path, call, inserted, finite, mesh>>
  BY DEF TickAllVsAll, treeVars
<1> DEFINE all == [i \in Body |-> i]
<1>2. all \in Seq(Body) /\ Len(all) = BodyNum /\ \A i \in 1 .. BodyNum : all[i] = i
  BY BodyNumAssumption DEF Body
<1> HIDE DEF all
<1>3. \A b \in Body : todo'[b] = all
  BY <1>1 DEF all
<1>4. SimTypeOK'
  <2>1. todo' \in [Body -> Seq(Body)]
    BY <1>1, <1>2 DEF all
  <2>2. pull' \in [Body -> [Body -> Nat]]
    BY <1>1 DEF NoPull
  <2>3. QED
    BY <1>1, <2>1, <2>2, TicksAssumption DEF SInv, SimTypeOK, TypeOK
<1>5. InTurn'
  <2>1. \A b \in Body : Through(b)' = 0
    BY <1>2, <1>3, BodyNumAssumption DEF Through
  <2>2. \A b, c \in Body : pull'[b][c] = 0 /\ c > 0
    BY <1>1 DEF NoPull, Body
  <2>3. \A b, c \in Body : c > 0 => ~(c =< Through(b)')
    <3>1. \A c \in Body : c > 0 => ~(c =< 0)
      BY DEF Body
    <3>2. QED
      BY <2>1, <3>1
  <2>4. \A b \in Body : \A i \in 1 .. Len(todo'[b]) : todo'[b][i] = Through(b)' + i
    BY <1>2, <1>3, <2>1
  <2>5. \A b \in Body : Through(b)' >= 0
    BY <2>1
  <2>6. QED
    BY <2>2, <2>3, <2>4, <2>5 DEF InTurn
<1>6. QED
  BY <1>1, <1>4, <1>5 DEF SInv, Calm, TreeBuilt, Wrapped, NoTask

LEMMA TickBarnesHutKeeps == SInv /\ TickBarnesHut => SInv'
<1> SUFFICES ASSUME SInv, TickBarnesHut PROVE SInv'
  OBVIOUS
<1>1. /\ phase = "between" /\ phase' = "construct" /\ ticks < MaxTicks /\ ticks' = ticks + 1
      /\ tree' = NewTree /\ cursor' = 1 /\ pull' = NoPull
      /\ UNCHANGED <<position, path, call, inserted, todo, finite, mesh>>
  BY DEF TickBarnesHut
<1>2. /\ path' = <<>> /\ call' = "idle"
      /\ position' \in [Body -> Position] /\ inserted' \in BOOLEAN
  BY <1>1 DEF SInv, Calm, SimTypeOK, TypeOK
<1>3. IInv' /\ GInv'
  <2>1. NewlyBuilt'
    BY <1>1, <1>2 DEF NewlyBuilt, NewTree
  <2>2. (NewlyBuilt => IInv /\ GInv)'
    BY NewTreeHolds, PTL
  <2>3. QED
    BY <2>1, <2>2
<1>4. \A b \in Body : todo'[b] = <<>>
  BY <1>1 DEF SInv, NoTask
<1>5. SimTypeOK'
  <2>1. todo' = [b \in Body |-> <<>>]
    BY <1>1, <1>4 DEF SInv, SimTypeOK
  <2>2. todo' \in [Body -> Seq(DOMAIN tree')]
    BY <2>1, EmptySeq
  <2>3. pull' \in [Body -> [Body -> Nat]]
    BY <1>1 DEF NoPull
  <2>4. TypeOK'
    BY <1>3 DEF IInv
  <2>5. QED
    BY <1>1, <2>2, <2>3, <2>4, TicksAssumption DEF SInv, SimTypeOK
<1>6. Wrapped'
  BY <1>1, <1>2 DEF Wrapped, Body
<1>7. QED
  BY <1>1, <1>2, <1>3, <1>4, <1>5, <1>6 DEF SInv, Calm, TreeBuilt, NoTask, InTurn

LEMMA SimulateKeeps == SInv /\ SimulateBarnesHut => SInv'
<1> SUFFICES ASSUME SInv, SimulateBarnesHut PROVE SInv'
  OBVIOUS
<1>1. /\ phase = "construct" /\ phase' = "forces" /\ call = "idle" /\ cursor > BodyNum
      /\ todo' = [b \in Body |-> << <<>> >>] /\ ticks' = ticks
      /\ UNCHANGED <<position, tree, cursor, path, call, inserted, pull, finite, mesh>>
  BY DEF SimulateBarnesHut, Constructed, treeVars
<1>2. IInv /\ GInv
  BY <1>1 DEF SInv, TreeBuilt
<1>3. IInv' /\ GInv'
  BY <1>1, <1>2, NextInv, NextGInv DEF vars
<1>4. path' = <<>> /\ <<>> \in DOMAIN tree /\ cursor' = BodyNum + 1
  BY <1>1, <1>2, BodyNumAssumption DEF IInv, CallInv, TypeOK
<1>5. SimTypeOK'
  <2>1. << <<>> >> \in Seq(DOMAIN tree)
    BY <1>4
  <2>2. todo' \in [Body -> Seq(DOMAIN tree')]
    BY <1>1, <2>1
  <2>3. TypeOK'
    BY <1>3 DEF IInv
  <2>4. QED
    BY <1>1, <2>2, <2>3 DEF SInv, SimTypeOK
<1>6. QED
  BY <1>1, <1>3, <1>4, <1>5 DEF SInv, Calm, TreeBuilt, Wrapped, InBounds, NoTask, InTurn

LEMMA MovedType ==
    ASSUME SimTypeOK, NEW b \in Body, NEW step \in Point
    PROVE  Moved(b, step) \in Position
<1> DEFINE p == IF phase = "pairs" THEN AdjustPosition(SceneBounds, position[b]) ELSE position[b]
<1>1. p \in Position
  BY SceneAssumption, AdjustType DEF SimTypeOK, TypeOK
<1>2. Moved(b, step) = IF p = NaN \/ ~finite[b] THEN NaN ELSE [x |-> p.x + step.x, y |-> p.y + step.y]
  BY DEF Moved
<1> HIDE DEF p
<1>3. CASE p = NaN \/ ~finite[b]
  BY <1>2, <1>3 DEF Position
<1>4. CASE ~(p = NaN \/ ~finite[b])
  BY <1>1, <1>2, <1>4 DEF Position, Point
<1>5. QED
  BY <1>3, <1>4

LEMMA MoveKeeps == SInv /\ MoveAllBodies => SInv'
<1> SUFFICES ASSUME SInv, MoveAllBodies PROVE SInv'
  OBVIOUS
<1>1. /\ phase \in {"pairs", "forces"} /\ phase' = "between"
      /\ \A b \in Body : todo[b] = <<>>
      /\ mesh' = IF \E b \in Body : position'[b] = NaN THEN mesh ELSE position'
      /\ UNCHANGED <<tree, cursor, path, call, inserted, ticks, todo, pull, finite>>
  BY DEF MoveAllBodies
<1>2. SimTypeOK
  BY DEF SInv
<1>3. position' \in [Body -> Position]
  <2>1. PICK step \in [Body -> Steps] : position' = [b \in Body |-> Moved(b, step[b])]
    BY DEF MoveAllBodies
  <2>2. \A b \in Body : step[b] \in Point
    BY StepsAssumption
  <2>3. QED
    BY <1>2, <2>1, <2>2, MovedType
<1>4. mesh' \in [Body -> Point]
  BY <1>1, <1>2, <1>3 DEF SimTypeOK, Position
<1>5. SimTypeOK'
  <2>1. TypeOK'
    BY <1>1, <1>2, <1>3 DEF SimTypeOK, TypeOK
  <2>2. todo' = [b \in Body |-> <<>>]
    BY <1>1, <1>2 DEF SimTypeOK
  <2>3. todo' \in [Body -> Seq(DOMAIN tree')]
    BY <2>2, EmptySeq
  <2>4. QED
    BY <1>1, <1>2, <1>4, <2>1, <2>3 DEF SimTypeOK
<1>6. QED
  BY <1>1, <1>5 DEF SInv, Calm, TreeBuilt, Wrapped, NoTask, InTurn

LEMMA SimStepHolds == SInv /\ [SimNext]_allVars => SInv'
<1> SUFFICES ASSUME SInv, [SimNext]_allVars PROVE SInv'
  OBVIOUS
<1>1. CASE TickNone \/ TickAllVsAll \/ TickBarnesHut
  BY <1>1, TickNoneKeeps, TickAllVsAllKeeps, TickBarnesHutKeeps
<1>2. CASE ConstructTree \/ SimulateBarnesHut \/ MoveAllBodies
  BY <1>2, ConstructKeeps, SimulateKeeps, MoveKeeps
<1>3. ASSUME NEW b \in Body, Task(b) PROVE SInv'
  BY <1>3, VisitKeeps, AttractKeeps DEF Task
<1>4. CASE UNCHANGED allVars
  <2>1. UNCHANGED <<position, tree, cursor, path, call, inserted, phase, ticks, todo, pull, finite, mesh>>
    BY <1>4 DEF allVars, treeVars, simVars
  <2>2. UNCHANGED vars
    BY <2>1 DEF vars
  <2>3. SimTypeOK'
    BY <2>1 DEF SInv, SimTypeOK, TypeOK
  <2>4. TreeBuilt'
    BY <2>1, <2>2, NextInv, NextGInv DEF SInv, TreeBuilt
  <2>5. QED
    BY <2>1, <2>3, <2>4 DEF SInv, Calm, Wrapped, InBounds, NoTask, InTurn, Through
<1>5. QED
  BY <1>1, <1>2, <1>3, <1>4 DEF SimNext

LEMMA SimInductive == SimSpec => []SInv
  BY SimInitHolds, SimStepHolds, PTL DEF SimSpec

-----------------------------------------------------------------------------
\* The tick keeps its types, whatever the types of simulation that follow one another;
\* in particular a task never reaches a node that does not exist, and no transform that
\* is NaN is sent to the mesh.
THEOREM SimTypeCorrect == SimSpec => []SimTypeOK
  BY SimInductive, PTL DEF SInv

\* When the tasks of the naive method are over, every body has been pulled once by each
\* other one, whatever the number of threads (SimulateCompareAllParallel).
THEOREM PairsCorrect == SimSpec => []PairsOnceEach
<1>1. SInv => PairsOnceEach
  <2> SUFFICES ASSUME SInv, phase = "pairs", \A b \in Body : todo[b] = <<>>,
                      NEW b \in Body, NEW c \in Body
               PROVE  pull[b][c] = IF b = c THEN 0 ELSE 1
    BY DEF PairsOnceEach
  <2>1. Through(b) = BodyNum
    BY BodyNumAssumption DEF Through
  <2>2. c =< BodyNum
    BY DEF Body
  <2>3. QED
    BY <2>1, <2>2 DEF SInv, InTurn
<1>2. QED
  BY <1>1, SimInductive, PTL

\* When the forces are computed every body is in the scene or NaN, wherever the moves
\* before have left it, and though Barnes-Hut does not adjust the positions that it moves.
THEOREM InSceneCorrect == SimSpec => []InSceneAtForces
<1>1. SInv => InSceneAtForces
  <2> SUFFICES ASSUME SInv, phase = "forces", NEW b \in Body PROVE InBounds(position[b])
    BY DEF InSceneAtForces, InBounds
  <2>1. b < cursor
    BY BodyNumAssumption DEF SInv, TreeBuilt, Body
  <2>2. QED
    BY <2>1 DEF SInv, Wrapped
<1>2. QED
  BY <1>1, SimInductive, PTL

\* The traversal reads a tree as ConstructTree has built it: what QuadTree is proved to
\* do when bodies are placed at will, it does with the bodies of a simulation.
TreeInTick == phase = "forces" => Shape /\ BodiesInTheirBox /\ HeldExactly

THEOREM TreeInTickCorrect == SimSpec => []TreeInTick
<1>1. SInv => TreeInTick
  BY HeldFromInv DEF SInv, TreeBuilt, TreeInTick, IInv
<1>2. QED
  BY <1>1, SimInductive, PTL

-----------------------------------------------------------------------------
(* NaN.                                                                    *)

\* Outside the naive method a velocity that is no number is that of a body that is NaN.
Numbers == phase # "pairs" => \A b \in Body : finite[b] \/ position[b] = NaN

\* A force is a number if the body is and the centre of mass is.
LEMMA StaysNumber ==
    ASSUME BodyGravityDistance > 0, NEW b \in Body, NEW c,
           finite[b], position[b] # NaN, ~IsNaN(c)
    PROVE  StaysFinite(b, c, BodyGravityDistance)
  BY DEF StaysFinite

LEMMA VisitNumbers ==
    ASSUME BodyGravityDistance > 0, SInv, Numbers, NEW b \in Body, Visit(b)
    PROVE  Numbers'
<1> DEFINE n == Head(todo[b])
           leaf == IsLeaf(n) /\ tree[n].body # None
           self == leaf /\ tree[n].body = b
           direct == leaf /\ ~self
           whole == /\ ~self /\ ~tree[n].empty
                    /\ FarEnough(b, n) /\ GetMass(n) > 0
           stays == StaysFinite(b, GetCenterOfMass(n), BodyGravityDistance)
<1>1. /\ phase = "forces" /\ phase' = phase /\ position' = position
      /\ finite' = [finite EXCEPT ![b] = IF direct \/ whole THEN stays ELSE @]
  BY DEF Visit, treeVars
<1>2. direct => ~IsNaN(GetCenterOfMass(n))
  BY DEF GetCenterOfMass, AtPoint, IsNaN
<1>3. whole => ~IsNaN(GetCenterOfMass(n))
  BY DEF FarEnough
<1>4. (direct \/ whole) /\ finite[b] /\ position[b] # NaN => stays
  BY <1>2, <1>3, StaysNumber
<1> HIDE DEF direct, whole, stays
<1>5. \A c \in Body : finite[c] \/ position[c] = NaN
  BY <1>1 DEF Numbers
<1>6. finite \in [Body -> BOOLEAN]
  BY DEF SInv, SimTypeOK
<1>7. ASSUME NEW c \in Body PROVE finite'[c] \/ position[c] = NaN
  <2>1. CASE c # b
    BY <1>1, <1>5, <1>6, <2>1
  <2>2. CASE c = b /\ (direct \/ whole)
    BY <1>1, <1>4, <1>5, <1>6, <2>2
  <2>3. CASE c = b /\ ~(direct \/ whole)
    BY <1>1, <1>5, <1>6, <2>3
  <2>4. QED
    BY <2>1, <2>2, <2>3
<1>8. QED
  BY <1>1, <1>7 DEF Numbers

LEMMA InsertNumbers == ASSUME SInv, Numbers, ConstructTree PROVE Numbers'
<1>1. phase = "construct" /\ phase' = phase /\ finite' = finite /\ Insert
  BY DEF ConstructTree, simVars
<1>2. position \in [Body -> Position]
  BY DEF SInv, SimTypeOK, TypeOK
<1>3. \A b \in Body : position[b] = NaN => position'[b] = NaN
  <2>1. CASE Refuse
    BY <1>2, <2>1 DEF Refuse, AdjustPosition
  <2>2. CASE ~Refuse
    BY <1>1, <2>2 DEF Insert, Enter, Fill, Subdivide, Descend, Drop, Aggregate
  <2>3. QED
    BY <2>1, <2>2
<1>4. QED
  BY <1>1, <1>3 DEF Numbers

LEMMA MoveNumbers == ASSUME SInv, MoveAllBodies PROVE Numbers'
<1>1. PICK step \in [Body -> Steps] : position' = [b \in Body |-> Moved(b, step[b])]
  BY DEF MoveAllBodies
<1>2. \A b \in Body : ~finite[b] => position'[b] = NaN
  BY <1>1 DEF Moved
<1>3. finite' = finite
  BY DEF MoveAllBodies
<1>4. QED
  BY <1>2, <1>3 DEF Numbers

LEMMA NumbersStep ==
    ASSUME BodyGravityDistance > 0
    PROVE  SInv /\ Numbers /\ [SimNext]_allVars => Numbers'
<1> SUFFICES ASSUME SInv, Numbers, [SimNext]_allVars PROVE Numbers'
  OBVIOUS
<1>1. ASSUME NEW b \in Body, Task(b) PROVE Numbers'
  <2>1. CASE Visit(b)
    BY <2>1, VisitNumbers
  <2>2. CASE Attract(b)
    BY <2>2 DEF Attract, Numbers
  <2>3. QED
    BY <1>1, <2>1, <2>2 DEF Task
<1>2. CASE TickNone \/ TickAllVsAll \/ TickBarnesHut \/ SimulateBarnesHut \/ UNCHANGED allVars
  BY <1>2 DEF TickNone, TickAllVsAll, TickBarnesHut, SimulateBarnesHut, treeVars, simVars,
              allVars, Numbers
<1>3. QED
  BY <1>1, <1>2, InsertNumbers, MoveNumbers DEF SimNext

\* In a Barnes-Hut tick a position that is a number stays one, though starved nodes have
\* a NaN centre: if the bodies have a minimum distance, as they do by default.
THEOREM NaNStays ==
    ASSUME BodyGravityDistance > 0
    PROVE  SimSpec => NaNContained
<1>1. SimInit => Numbers
  BY DEF SimInit, Numbers
<1>2. SInv /\ Numbers /\ [SimNext]_allVars =>
        [phase = "forces" => \A b \in Body : position[b] # NaN => position'[b] # NaN]_allVars
  <2> SUFFICES ASSUME SInv, Numbers, SimNext, phase = "forces", NEW b \in Body, position[b] # NaN
               PROVE  position'[b] # NaN
    OBVIOUS
  <2>1. CASE MoveAllBodies
    <3>1. PICK step \in [Body -> Steps] : position' = [c \in Body |-> Moved(c, step[c])]
      BY <2>1 DEF MoveAllBodies
    <3>2. position[b] \in Point /\ step[b] \in Point /\ finite[b]
      BY StepsAssumption DEF SInv, SimTypeOK, TypeOK, Position, Numbers
    <3>3. position'[b] = [x |-> position[b].x + step[b].x, y |-> position[b].y + step[b].y]
      BY <3>1, <3>2 DEF Moved
    <3>4. position'[b] \in Point
      BY <3>2, <3>3 DEF Point
    <3>5. QED
      BY <3>4, NaNAssumption
  <2>2. CASE ~MoveAllBodies
    <3>1. position' = position
      BY <2>2 DEF SimNext, Task, Visit, Attract, TickNone, TickAllVsAll, TickBarnesHut,
                  ConstructTree, SimulateBarnesHut, treeVars
    <3>2. QED
      BY <3>1
  <2>3. QED
    BY <2>1, <2>2
<1>3. SInv /\ Numbers /\ [SimNext]_allVars => Numbers'
  BY NumbersStep
<1>4. QED
  BY <1>1, <1>2, <1>3, SimInductive, PTL DEF SimSpec, NaNContained

-----------------------------------------------------------------------------
(* The traversal.                                                          *)

\* A leaf that the task with these nodes before it will reach or skip.
Pending(s, n) == \E k \in 1 .. Len(s) : Prefix(s[k], n)

FarAbove(b, n) == \E a \in DOMAIN tree : Prefix(a, n) /\ a # n /\ FarEnough(b, a)

\* How often the body of leaf n pulls b in the end.
Answer(b, c, n) == IF FarAbove(b, n) THEN 1
                   ELSE IF b = c THEN 0
                   ELSE IF FarEnough(b, n) THEN 2 ELSE 1

\* No node before the task of b is above another one, and none is below a node that
\* is far enough; the leaves that are under none of them have pulled b, and
\* the others have not.
Going(b, s, p) ==
    /\ s \in Seq(DOMAIN tree)
    /\ \A i, j \in 1 .. Len(s) : Prefix(s[i], s[j]) => i = j
    /\ \A i \in 1 .. Len(s) : ~FarAbove(b, s[i])
    /\ \A c \in Body : ~Held(c) => p[c] = 0
    /\ \A n \in DOMAIN tree : \A c \in Body :
          Holds(n, c) => p[c] = IF Pending(s, n) THEN 0 ELSE Answer(b, c, n)

\* A subdivided node is visited that is not far: its children take its place.
LEMMA Opens ==
    ASSUME IInv, NEW b \in Body, NEW s, NEW p, Going(b, s, p), s # <<>>,
           NEW m, m = Head(s), tree[m].subdivided, ~FarEnough(b, m),
           NEW t, t = [i \in 1 .. 4 |-> Append(m, i - 1)] \o Tail(s)
    PROVE  Going(b, t, p)
<1> DEFINE D == DOMAIN tree
           kids == [i \in 1 .. 4 |-> Append(m, i - 1)]
           rest == Tail(s)
           k == Len(s)
<1>1. s \in Seq(D) /\ D \subseteq Path
  BY DEF Going, IInv, TypeOK
<1>2. /\ k \in Nat /\ k > 0 /\ m = s[1] /\ m \in D /\ m \in Path
      /\ rest \in Seq(D) /\ Len(rest) = k - 1 /\ \A i \in 1 .. k - 1 : rest[i] = s[i + 1]
  <2> HIDE DEF D
  <2>1. k \in Nat /\ k # 0 /\ m = s[1] /\ m \in D
        /\ rest \in Seq(D) /\ Len(rest) = k - 1 /\ \A i \in 1 .. Len(rest) : rest[i] = s[i + 1]
    BY <1>1, HeadTailProperties, LenProperties
  <2>2. QED
    BY <1>1, <2>1
<1>3. \A q \in Quadrant : /\ Append(m, q) \in D /\ Append(m, q) \in Path /\ Append(m, q) # <<>>
                          /\ Append(m, q) # m /\ Parent(Append(m, q)) = m
                          /\ Len(Append(m, q)) = Len(m) + 1
                          /\ \A r \in Quadrant : Append(m, q) = Append(m, r) => q = r
  BY <1>2, AppendPath DEF IInv, Shape
<1>4. kids \in Seq(D) /\ Len(kids) = 4 /\ \A i \in 1 .. 4 : kids[i] = Append(m, i - 1) /\ i - 1 \in Quadrant
  BY <1>3 DEF Quadrant
<1> HIDE DEF kids, rest, k, D
<1>5. /\ t \in Seq(D) /\ Len(t) = k + 3
      /\ \A i \in 1 .. 4 : t[i] = kids[i]
      /\ \A i \in 5 .. k + 3 : t[i] = s[i - 3] /\ i - 3 \in 2 .. k
  <2>1. t = kids \o rest
    BY DEF kids, rest
  <2>2. /\ t \in Seq(D) /\ Len(t) = Len(kids) + Len(rest)
        /\ \A i \in 1 .. Len(kids) + Len(rest) :
              t[i] = IF i =< Len(kids) THEN kids[i] ELSE rest[i - Len(kids)]
    <3>1. /\ kids \o rest \in Seq(D) /\ Len(kids \o rest) = Len(kids) + Len(rest)
          /\ \A i \in 1 .. Len(kids) + Len(rest) :
                (kids \o rest)[i] = IF i =< Len(kids) THEN kids[i] ELSE rest[i - Len(kids)]
      <4>1. kids \in Seq(D) /\ rest \in Seq(D)
        BY <1>2, <1>4
      <4>2. QED
        BY <4>1, ConcatProperties, ZenonT(20)
    <3>2. QED
      BY <2>1, <3>1
  <2>3. Len(t) = k + 3 /\ \A i \in 1 .. k + 3 : t[i] = IF i =< 4 THEN kids[i] ELSE rest[i - 4]
    <3>1. Len(kids) = 4 /\ Len(rest) = k - 1 /\ 4 + (k - 1) = k + 3
      BY <1>2, <1>4
    <3>2. QED
      BY <2>2, <3>1
  <2>4. ASSUME NEW i \in 5 .. k + 3 PROVE t[i] = s[i - 3] /\ i - 3 \in 2 .. k
    <3>1. i \in 1 .. k + 3 /\ ~(i =< 4) /\ i - 4 \in 1 .. k - 1 /\ (i - 4) + 1 = i - 3 /\ i - 3 \in 2 .. k
      BY <1>2
    <3>2. rest[i - 4] = s[(i - 4) + 1]
      BY <1>2, <3>1
    <3>3. QED
      BY <2>3, <3>1, <3>2
  <2>5. \A i \in 1 .. 4 : i \in 1 .. k + 3 /\ i =< 4
    BY <1>2
  <2>6. \A i \in 1 .. 4 : t[i] = kids[i]
    BY <2>3, <2>5
  <2>7. QED
    BY <2>2, <2>3, <2>4, <2>6
<1>6. \A i \in 1 .. Len(t) : \/ i \in 1 .. 4 /\ t[i] = Append(m, i - 1) /\ i - 1 \in Quadrant
                             \/ i \in 5 .. k + 3 /\ i - 3 \in 2 .. k /\ t[i] = s[i - 3]
  BY <1>2, <1>4, <1>5
<1>7. \A i \in 1 .. k : s[i] \in D /\ s[i] \in Path
  BY <1>1, <1>2, ElementOfSeq DEF k
<1>8. \A i, j \in 1 .. k : Prefix(s[i], s[j]) => i = j
  BY DEF Going, k
<1>9. 1 \in 1 .. k /\ \A i \in 2 .. k : i \in 1 .. k /\ i # 1
  BY <1>2
\* The children and the other nodes are not above one another.
<1>10. ASSUME NEW q \in Quadrant, NEW i \in 2 .. k
       PROVE  ~Prefix(Append(m, q), s[i]) /\ ~Prefix(s[i], Append(m, q))
  <2>1. ~Prefix(m, s[i]) /\ ~Prefix(s[i], m)
    BY <1>2, <1>8, <1>9
  <2>2. ~Prefix(Append(m, q), s[i])
    BY <1>2, <1>7, <1>9, <2>1, OnTheWay
  <2>3. s[i] # Append(m, q)
    BY <1>3, <2>2, PrefixFacts
  <2>4. ~Prefix(s[i], Append(m, q))
    BY <1>3, <1>7, <1>9, <2>1, <2>3, PrefixFacts
  <2>5. QED
    BY <2>2, <2>4
<1>11. ASSUME NEW q \in Quadrant, NEW r \in Quadrant, Prefix(Append(m, q), Append(m, r))
       PROVE  q = r
  <2>1. Append(m, q) = Append(m, r)
    BY <1>3, <1>11, PrefixOrder
  <2>2. QED
    BY <1>3, <2>1
<1>12. ASSUME NEW i \in 1 .. Len(t), NEW j \in 1 .. Len(t), Prefix(t[i], t[j]) PROVE i = j
  <2>1. CASE i \in 1 .. 4 /\ j \in 1 .. 4
    <3>1. i - 1 \in Quadrant /\ j - 1 \in Quadrant /\ t[i] = Append(m, i - 1) /\ t[j] = Append(m, j - 1)
      BY <1>4, <1>5, <2>1
    <3>2. i - 1 = j - 1
      BY <1>11, <1>12, <3>1
    <3>3. QED
      BY <2>1, <3>2
  <2>2. CASE i \in 5 .. k + 3 /\ j \in 5 .. k + 3
    <3>1. i - 3 \in 1 .. k /\ j - 3 \in 1 .. k /\ t[i] = s[i - 3] /\ t[j] = s[j - 3]
      BY <1>2, <1>5, <2>2
    <3>2. i - 3 = j - 3
      BY <1>8, <1>12, <3>1
    <3>3. QED
      BY <2>2, <3>2
  <2>3. CASE i \in 1 .. 4 /\ j \in 5 .. k + 3
    <3>1. i - 1 \in Quadrant /\ t[i] = Append(m, i - 1) /\ j - 3 \in 2 .. k /\ t[j] = s[j - 3]
      BY <1>4, <1>5, <2>3
    <3>2. QED
      BY <1>10, <1>12, <3>1
  <2>4. CASE i \in 5 .. k + 3 /\ j \in 1 .. 4
    <3>1. j - 1 \in Quadrant /\ t[j] = Append(m, j - 1) /\ i - 3 \in 2 .. k /\ t[i] = s[i - 3]
      BY <1>4, <1>5, <2>4
    <3>2. QED
      BY <1>10, <1>12, <3>1
  <2>5. QED
    BY <1>6, <2>1, <2>2, <2>3, <2>4
<1>13. \A i \in 1 .. k : ~FarAbove(b, s[i])
  BY DEF Going, k
<1>14. ASSUME NEW q \in Quadrant PROVE ~FarAbove(b, Append(m, q))
  <2> SUFFICES ASSUME NEW a \in D, Prefix(a, Append(m, q)), a # Append(m, q), FarEnough(b, a)
               PROVE  FALSE
    BY DEF FarAbove, D
  <2>1. Prefix(a, m)
    <3> PICK x : x = Append(m, q)
      OBVIOUS
    <3>1. x \in Path /\ x # <<>> /\ Parent(x) = m /\ a \in Path /\ a # x /\ Prefix(a, x)
      BY <1>1, <1>3
    <3>2. QED
      BY <3>1, PrefixFacts
  <2>2. a # m
    OBVIOUS
  <2>3. FarAbove(b, m)
    BY <2>1, <2>2 DEF FarAbove, D
  <2>4. QED
    BY <1>2, <1>9, <1>13, <2>3
<1>15. \A i \in 1 .. Len(t) : ~FarAbove(b, t[i])
  BY <1>6, <1>9, <1>13, <1>14
<1>16. ASSUME NEW n \in D, NEW c \in Body, Holds(n, c)
       PROVE  Pending(t, n) <=> Pending(s, n)
  <2>1. n # m /\ n \in Path
    BY <1>1, <1>16 DEF Holds
  <2>2. ASSUME Pending(t, n) PROVE Pending(s, n)
    <3>1. PICK i \in 1 .. Len(t) : Prefix(t[i], n)
      BY <2>2 DEF Pending
    <3>2. CASE i \in 1 .. 4
      <4>1. Prefix(m, n)
        <5>1. i - 1 \in Quadrant /\ t[i] = Append(m, i - 1)
          BY <1>4, <1>5, <3>2
        <5>2. PICK q \in Quadrant : t[i] = Append(m, q)
          BY <5>1
        <5>3. Prefix(Append(m, q), n)
          BY <3>1, <5>2
        <5>4. QED
          BY <1>2, <2>1, <5>3, OnTheWay
      <4>2. QED
        BY <1>2, <1>9, <4>1 DEF Pending, k
    <3>3. CASE i \in 5 .. k + 3
      <4>1. PICK j : j = i - 3
        OBVIOUS
      <4>2. j \in 2 .. k /\ t[i] = s[j]
        BY <1>5, <3>3, <4>1
      <4>3. QED
        BY <1>9, <3>1, <4>2 DEF Pending, k
    <3>4. QED
      BY <1>6, <3>2, <3>3
  <2>3. ASSUME Pending(s, n) PROVE Pending(t, n)
    <3>1. PICK i \in 1 .. k : Prefix(s[i], n)
      BY <2>3 DEF Pending, k
    <3>2. CASE i = 1
      <4>1. Prefix(m, n)
        BY <1>2, <3>1, <3>2
      <4>2. PICK q \in Quadrant : Prefix(Append(m, q), n)
        BY <1>2, <2>1, <4>1, OnTheWay DEF Towards
      <4>3. q + 1 \in 1 .. 4 /\ (q + 1) - 1 = q /\ q + 1 \in 1 .. Len(t)
        BY <1>2, <1>5 DEF Quadrant
      <4>4. t[q + 1] = Append(m, q)
        BY <1>4, <1>5, <4>3
      <4>5. QED
        BY <4>2, <4>3, <4>4 DEF Pending
    <3>3. CASE i # 1
      <4>1. i + 3 \in 5 .. k + 3 /\ (i + 3) - 3 = i /\ i + 3 \in 1 .. Len(t)
        BY <1>2, <1>5, <3>3
      <4>2. t[i + 3] = s[i]
        BY <1>5, <4>1
      <4>3. QED
        BY <3>1, <4>1, <4>2 DEF Pending
    <3>4. QED
      BY <3>2, <3>3
  <2>4. QED
    BY <2>2, <2>3
<1>17. \A n \in DOMAIN tree : \A c \in Body :
          Holds(n, c) => p[c] = IF Pending(t, n) THEN 0 ELSE Answer(b, c, n)
  BY <1>16 DEF Going, D
<1>18. QED
  BY <1>5, <1>12, <1>15, <1>17 DEF Going, D

\* The branches of CalculateForcesBarnesHut at node m, and how often they apply c.
Self(b, m) == IsLeaf(m) /\ tree[m].body # None /\ tree[m].body = b
Direct(b, m) == IsLeaf(m) /\ tree[m].body # None /\ tree[m].body # b
Whole(b, m) == /\ ~Self(b, m) /\ ~tree[m].empty
               /\ FarEnough(b, m) /\ GetMass(m) > 0
Gain(b, m, c) == (IF Direct(b, m) /\ c = tree[m].body THEN 1 ELSE 0)
                 + (IF Whole(b, m) /\ c \in BodiesUnder(m) THEN 1 ELSE 0)

LEMMA LeafFlags ==
    ASSUME IInv, NEW m \in DOMAIN tree
    PROVE  /\ IsLeaf(m) <=> ~tree[m].subdivided
           /\ tree[m].empty <=> tree[m].body = None
           /\ tree[m].subdivided => ~tree[m].empty
<1>1. tree[m].subdivided => HasChildren(m)
  <2>1. tree[m].subdivided => Append(m, 0) \in DOMAIN tree /\ 0 \in Quadrant
    BY DEF IInv, Shape, Quadrant
  <2>2. QED
    BY <2>1 DEF HasChildren, Kids
<1>2. QED
  BY <1>1 DEF IInv, Shape, IsLeaf

\* Only bodies in leaves under the node are applied.
LEMMA GainsNothing ==
    ASSUME IInv, GInv, NEW b \in Body, NEW m \in DOMAIN tree, NEW c \in Body,
           \A n \in DOMAIN tree : Holds(n, c) => ~Prefix(m, n)
    PROVE  Gain(b, m, c) = 0
<1>1. ~(Direct(b, m) /\ c = tree[m].body)
  <2> SUFFICES ASSUME Direct(b, m), c = tree[m].body PROVE FALSE
    OBVIOUS
  <2>1. Holds(m, c)
    BY LeafFlags DEF Direct, Holds
  <2>2. Prefix(m, m)
    BY PrefixFacts DEF IInv, TypeOK
  <2>3. QED
    BY <2>1, <2>2
<1>2. c \notin BodiesUnder(m)
  BY UnderPrefix DEF BodiesUnder
<1>3. QED
  BY <1>1, <1>2 DEF Gain

\* And each of them as often as it should be, when the node is not opened.
LEMMA GainsAnswer ==
    ASSUME IInv, GInv, UInv, call = "idle", NEW b \in Body, NEW m \in DOMAIN tree,
           ~FarAbove(b, m), tree[m].subdivided => FarEnough(b, m),
           NEW c \in Body, NEW n \in DOMAIN tree, Holds(n, c), Prefix(m, n)
    PROVE  Gain(b, m, c) = Answer(b, c, n)
<1>1. c \in BodiesUnder(m) /\ c # None
  BY UnderPrefix, NoneAssumption DEF BodiesUnder, Body
<1>2. CASE m = n
  <2>1. /\ IsLeaf(m) /\ tree[m].body = c /\ ~tree[m].empty
        /\ GetMass(m) = Mass[c] /\ Mass[c] > 0
    BY <1>1, <1>2, LeafFlags, MassAssumption DEF Holds, GetMass
  <2>2. ~FarAbove(b, n)
    BY <1>2
  <2>3. CASE b = c
    <3>1. Self(b, m) /\ ~Direct(b, m)
      BY <1>1, <2>1, <2>3 DEF Self, Direct
    <3>2. Gain(b, m, c) = 0
      BY <3>1 DEF Gain, Whole
    <3>3. QED
      BY <2>2, <2>3, <3>2 DEF Answer
  <2>4. CASE b # c
    <3>1. ~Self(b, m) /\ Direct(b, m) /\ c = tree[m].body
      BY <1>1, <2>1, <2>4 DEF Self, Direct
    <3>2. Whole(b, m) <=> FarEnough(b, m)
      BY <2>1, <3>1 DEF Whole
    <3>3. Gain(b, m, c) = IF FarEnough(b, m) THEN 2 ELSE 1
      BY <1>1, <3>1, <3>2 DEF Gain
    <3>4. QED
      BY <1>2, <2>2, <2>4, <3>3 DEF Answer
  <2>5. QED
    BY <2>3, <2>4
<1>3. CASE m # n
  <2>1. tree[m].subdivided
    <3>1. m \in Path
      BY DEF IInv, TypeOK
    <3>2. QED
      BY <1>3, <3>1, Ancestors
  <2>2. ~IsLeaf(m) /\ ~tree[m].empty /\ FarEnough(b, m)
    BY <2>1, LeafFlags
  <2>3. tree[m].mass > 0
    <3>1. Told(m)
      BY DEF UInv, Active
    <3>2. QED
      BY <1>1, <3>1, MassOfMember DEF Told
  <2>4. Whole(b, m) /\ ~Direct(b, m)
    BY <2>2, <2>3 DEF Whole, Self, Direct, GetMass
  <2>5. Gain(b, m, c) = 1
    BY <1>1, <2>4 DEF Gain
  <2>6. FarAbove(b, n)
    BY <1>3, <2>2 DEF FarAbove
  <2>7. QED
    BY <2>5, <2>6 DEF Answer
<1>4. QED
  BY <1>2, <1>3

\* A node is visited and not opened: its leaves have had their turn.
LEMMA Applies ==
    ASSUME IInv, GInv, UInv, call = "idle", NEW b \in Body, NEW s, NEW p, Going(b, s, p), s # <<>>,
           NEW m, m = Head(s), tree[m].subdivided => FarEnough(b, m),
           NEW g, \A c \in Body : g[c] = p[c] + Gain(b, m, c)
    PROVE  Going(b, Tail(s), g)
<1> DEFINE D == DOMAIN tree
           rest == Tail(s)
           k == Len(s)
<1>1. s \in Seq(D) /\ D \subseteq Path
  BY DEF Going, IInv, TypeOK
<1>2. /\ k \in Nat /\ k > 0 /\ m = s[1] /\ m \in D /\ m \in Path
      /\ rest \in Seq(D) /\ Len(rest) = k - 1 /\ \A i \in 1 .. k - 1 : rest[i] = s[i + 1]
  <2> HIDE DEF D
  <2>1. k \in Nat /\ k # 0 /\ m = s[1] /\ m \in D
        /\ rest \in Seq(D) /\ Len(rest) = k - 1 /\ \A i \in 1 .. Len(rest) : rest[i] = s[i + 1]
    BY <1>1, HeadTailProperties, LenProperties
  <2>2. QED
    BY <1>1, <2>1
<1>3. \A i \in 1 .. k : s[i] \in D /\ s[i] \in Path
  BY <1>1, ElementOfSeq
<1>4. /\ \A i, j \in 1 .. k : Prefix(s[i], s[j]) => i = j
      /\ \A i \in 1 .. k : ~FarAbove(b, s[i])
      /\ \A c \in Body : ~Held(c) => p[c] = 0
      /\ \A n \in D : \A c \in Body :
             Holds(n, c) => p[c] = IF Pending(s, n) THEN 0 ELSE Answer(b, c, n)
  BY DEF Going
<1> HIDE DEF D, rest, k
<1>5. \A i \in 1 .. Len(rest) : i + 1 \in 2 .. k /\ i + 1 \in 1 .. k /\ rest[i] = s[i + 1]
  BY <1>2
<1>6. \A i \in 2 .. k : i - 1 \in 1 .. Len(rest) /\ rest[i - 1] = s[i] /\ i \in 1 .. k
  BY <1>2
<1>7. 1 \in 1 .. k
  BY <1>2
<1>8. ASSUME NEW i \in 1 .. Len(rest), NEW j \in 1 .. Len(rest), Prefix(rest[i], rest[j])
      PROVE  i = j
  <2>1. i + 1 = j + 1
    BY <1>4, <1>5, <1>8
  <2>2. QED
    BY <1>2, <2>1
<1>9. \A i \in 1 .. Len(rest) : ~FarAbove(b, rest[i])
  BY <1>4, <1>5
<1>10. ASSUME NEW n \in D
       PROVE  Pending(rest, n) <=> Pending(s, n) /\ ~Prefix(m, n)
  <2>1. n \in Path
    BY <1>1
  <2>2. ASSUME Pending(rest, n) PROVE Pending(s, n) /\ ~Prefix(m, n)
    <3>1. PICK i \in 1 .. Len(rest) : Prefix(rest[i], n)
      BY <2>2 DEF Pending
    <3>2. PICK j : j = i + 1
      OBVIOUS
    <3>3. j \in 1 .. k /\ j # 1 /\ Prefix(s[j], n)
      BY <1>2, <1>5, <3>1, <3>2
    <3>4. ~Prefix(s[j], m) /\ ~Prefix(m, s[j])
      BY <1>2, <1>4, <1>7, <3>3
    <3>5. ~Prefix(m, n)
      BY <1>2, <1>3, <2>1, <3>3, <3>4, PrefixOrder
    <3>6. QED
      BY <3>3, <3>5 DEF Pending, k
  <2>3. ASSUME Pending(s, n), ~Prefix(m, n) PROVE Pending(rest, n)
    <3>1. PICK i \in 1 .. k : Prefix(s[i], n)
      BY <2>3 DEF Pending, k
    <3>2. i \in 2 .. k
      <4>1. i # 1
        BY <1>2, <2>3, <3>1
      <4>2. QED
        BY <1>2, <4>1
    <3>3. QED
      BY <1>6, <3>1, <3>2 DEF Pending
  <2>4. QED
    BY <2>2, <2>3
<1>11. ASSUME NEW c \in Body, ~Held(c) PROVE g[c] = 0
  <2>1. Gain(b, m, c) = 0
    BY <1>2, <1>11, GainsNothing DEF Held, D
  <2>2. QED
    BY <1>4, <1>11, <2>1
<1>12. ASSUME NEW n \in D, NEW c \in Body, Holds(n, c)
       PROVE  g[c] = IF Pending(rest, n) THEN 0 ELSE Answer(b, c, n)
  <2>1. p[c] = IF Pending(s, n) THEN 0 ELSE Answer(b, c, n)
    BY <1>4, <1>12
  <2>2. Answer(b, c, n) \in Nat
    BY DEF Answer
  <2>3. CASE Prefix(m, n)
    <3>1. p[c] = 0
      BY <1>2, <1>7, <2>1, <2>3 DEF Pending, k
    <3>2. ~FarAbove(b, m)
      BY <1>2, <1>4, <1>7
    <3>3. Gain(b, m, c) = Answer(b, c, n)
      BY <1>2, <1>12, <2>3, <3>2, GainsAnswer DEF D
    <3>4. g[c] = Answer(b, c, n)
      BY <2>2, <3>1, <3>3
    <3>5. QED
      BY <1>10, <2>3, <3>4
  <2>4. CASE ~Prefix(m, n)
    <3>1. \A o \in DOMAIN tree : Holds(o, c) => o = n
      BY <1>12, OneLeaf DEF OneLeafEach, D
    <3>2. Gain(b, m, c) = 0
      BY <1>2, <2>4, <3>1, GainsNothing DEF D
    <3>3. g[c] = p[c] + 0 /\ p[c] \in Nat
      BY <2>1, <2>2, <3>2
    <3>4. g[c] = p[c]
      BY <3>3
    <3>5. Pending(rest, n) <=> Pending(s, n)
      BY <1>10, <2>4
    <3>6. QED
      BY <2>1, <3>4, <3>5
  <2>5. QED
    BY <2>3, <2>4
<1>13. QED
  BY <1>2, <1>8, <1>9, <1>11, <1>12 DEF Going, D, rest

PullInv ==
    /\ phase \in {"construct", "forces"} => UInv
    /\ phase = "construct" => pull = NoPull
    /\ phase = "forces" => \A b \in Body : Going(b, todo[b], pull[b])

\* At the root the task of every body has the whole tree before it.
LEMMA Begins ==
    ASSUME IInv, NEW b \in Body, NEW p, \A c \in Body : p[c] = 0
    PROVE  Going(b, << <<>> >>, p)
<1> PICK s : s = << <<>> >>
  OBVIOUS
<1>1. <<>> \in DOMAIN tree /\ DOMAIN tree \subseteq Path
  BY DEF IInv, TypeOK, CallInv
<1>2. s \in Seq(DOMAIN tree) /\ Len(s) = 1 /\ s[1] = <<>>
  BY <1>1
<1>3. \A i \in 1 .. Len(s) : i = 1 /\ s[i] = <<>>
  BY <1>2
<1>4. \A n \in DOMAIN tree : Prefix(n, <<>>) => n = <<>>
  BY <1>1, PrefixFacts
<1>5. \A i \in 1 .. Len(s) : ~FarAbove(b, s[i])
  BY <1>3, <1>4 DEF FarAbove
<1>6. ASSUME NEW n \in DOMAIN tree PROVE Pending(s, n)
  <2>1. n \in Path /\ Len(<<>>) = 0 /\ <<>> \in Path
    BY <1>1, EmptySeq
  <2>2. Prefix(<<>>, n)
    BY <2>1, PrefixElements
  <2>3. 1 \in 1 .. Len(s)
    BY <1>2
  <2>4. QED
    BY <1>2, <2>2, <2>3 DEF Pending
<1>7. \A i, j \in 1 .. Len(s) : i = j
  BY <1>3
<1>8. Going(b, s, p)
  BY <1>2, <1>5, <1>6, <1>7 DEF Going
<1>9. QED
  BY <1>8

\* What a task has before it and behind it depends on the tree and the bodies alone.
LEMMA SameGoing ==
    ASSUME tree' = tree, position' = position, NEW b, NEW s, NEW p
    PROVE  Going(b, s, p)' <=> Going(b, s, p)
<1>1. \A n : FarEnough(b, n)' <=> FarEnough(b, n)
  BY DEF FarEnough, GetCenterOfMass, IsLeaf, HasChildren
<1>2. \A n : FarAbove(b, n)' <=> FarAbove(b, n)
  BY <1>1 DEF FarAbove
<1>3. \A c, n : Answer(b, c, n)' = Answer(b, c, n)
  BY <1>1, <1>2 DEF Answer
<1>4. \A c : Held(c)' <=> Held(c)
  BY DEF Held, Holds
<1>5. QED
  BY <1>2, <1>3, <1>4 DEF Going, Holds

LEMMA SameTold == tree' = tree /\ call = call' /\ path = path' /\ UInv => UInv'
<1> SUFFICES ASSUME tree' = tree, call = call', path = path', UInv PROVE UInv'
  OBVIOUS
<1>1. \A n \in DOMAIN tree : Active(n) => Active(n)'
  BY DEF Active
<1>2. QED
  BY <1>1, SameTreeTold

LEMMA VisitPulls == ASSUME SInv, PullInv, NEW b \in Body, Visit(b) PROVE PullInv'
<1>1. /\ phase = "forces" /\ todo[b] # <<>> /\ phase' = phase
      /\ UNCHANGED <<position, tree, cursor, path, call, inserted>>
  BY DEF Visit, MayRun, treeVars
<1>2. SimTypeOK /\ IInv /\ GInv /\ call = "idle" /\ UInv /\ \A c \in Body : Going(c, todo[c], pull[c])
  BY <1>1 DEF SInv, TreeBuilt, PullInv, Calm
<1> PICK m : m = Head(todo[b])
  OBVIOUS
<1> PICK s, p : s = todo[b] /\ p = pull[b]
  OBVIOUS
<1> DEFINE open == ~Self(b, m) /\ ~tree[m].empty /\ ~FarEnough(b, m) /\ ~IsLeaf(m)
           more == [i \in 1 .. 4 |-> Append(m, i - 1)] \o Tail(s)
           once == Times(IF Direct(b, m) THEN {tree[m].body} ELSE {})
           again == Times(IF Whole(b, m) THEN BodiesUnder(m) ELSE {})
           g == [c \in Body |-> p[c] + once[c] + again[c]]
<1>3. /\ pull' = [pull EXCEPT ![b] = g]
      /\ todo' = [todo EXCEPT ![b] = IF open THEN more ELSE Tail(s)]
  <2>1. /\ Direct(b, m) <=> (IsLeaf(m) /\ tree[m].body # None)
              /\ ~((IsLeaf(m) /\ tree[m].body # None) /\ tree[m].body = b)
        /\ Self(b, m) <=> (IsLeaf(m) /\ tree[m].body # None) /\ tree[m].body = b
    BY DEF Direct, Self
  <2>2. QED
    BY <2>1 DEF Visit, Whole
<1>4. m \in DOMAIN tree
  BY <1>1, <1>2, FromTasks
<1>5. pull \in [Body -> [Body -> Nat]] /\ DOMAIN todo = Body
  BY <1>2 DEF SimTypeOK
<1>6. \A c \in Body : g[c] = p[c] + Gain(b, m, c)
  <2>1. \A c \in Body : p[c] \in Nat
    BY <1>5
  <2>2. \A c \in Body : /\ once[c] = IF Direct(b, m) /\ c = tree[m].body THEN 1 ELSE 0
                        /\ again[c] = IF Whole(b, m) /\ c \in BodiesUnder(m) THEN 1 ELSE 0
    BY DEF Times
  <2>3. \A c \in Body : Gain(b, m, c) = once[c] + again[c]
    BY <2>2 DEF Gain
  <2>4. \A c \in Body : once[c] \in Nat /\ again[c] \in Nat
    BY <2>2
  <2> HIDE DEF once, again
  <2>5. QED
    BY <2>1, <2>3, <2>4
<1>7. open <=> tree[m].subdivided /\ ~FarEnough(b, m)
  BY <1>2, <1>4, LeafFlags DEF Self
<1>8. Going(b, todo'[b], pull'[b])
  <2>1. todo'[b] = (IF open THEN more ELSE Tail(s)) /\ pull'[b] = g
    BY <1>3, <1>5
  <2>2. Going(b, s, p)
    BY <1>2
  <2> HIDE DEF g
  <2>3. CASE open
    <3>1. \A c \in Body : Gain(b, m, c) = 0
      <4>1. ~Direct(b, m) /\ ~Whole(b, m)
        BY <2>3 DEF Direct, Whole
      <4>2. QED
        BY <4>1 DEF Gain
    <3>2. \A c \in Body : p[c] \in Nat
      BY <1>5
    <3>3. \A c \in Body : g[c] = p[c]
      BY <1>6, <3>1, <3>2
    <3>4. Going(b, s, g)
      BY <2>2, <3>3 DEF Going
    <3>5. Going(b, more, g)
      <4>1. tree[m].subdivided /\ ~FarEnough(b, m)
        BY <1>7, <2>3
      <4>2. s # <<>> /\ m = Head(s)
        BY <1>1
      <4> HIDE DEF more
      <4>3. more = [i \in 1 .. 4 |-> Append(m, i - 1)] \o Tail(s)
        BY DEF more
      <4>4. QED
        BY <1>2, <3>4, <4>1, <4>2, <4>3, Opens
    <3>6. QED
      BY <2>1, <2>3, <3>5
  <2>4. CASE ~open
    <3>1. tree[m].subdivided => FarEnough(b, m)
      BY <1>7, <2>4
    <3>2. s # <<>> /\ m = Head(s)
      BY <1>1
    <3>3. Going(b, Tail(s), g)
      BY <1>2, <1>6, <2>2, <3>1, <3>2, Applies
    <3>4. QED
      BY <2>1, <2>4, <3>3
  <2>5. QED
    BY <2>3, <2>4
<1> HIDE DEF g, open, more
<1>9. ASSUME NEW c \in Body, c # b PROVE Going(c, todo'[c], pull'[c])
  <2>1. todo'[c] = todo[c] /\ pull'[c] = pull[c]
    BY <1>3, <1>5, <1>9
  <2>2. QED
    BY <1>2, <2>1
<1>10. ASSUME NEW c \in Body PROVE Going(c, todo[c], pull[c])'
  <2> PICK t, h : t = todo'[c] /\ h = pull'[c]
    OBVIOUS
  <2>1. Going(c, t, h)
    BY <1>8, <1>9
  <2>2. Going(c, t, h)'
    BY <1>1, <2>1, SameGoing
  <2>3. QED
    BY <2>2 DEF Going
<1>11. UInv'
  BY <1>1, <1>2, SameTold
<1>12. QED
  BY <1>1, <1>10, <1>11 DEF PullInv

LEMMA PullStep == SInv /\ PullInv /\ [SimNext]_allVars => PullInv'
<1> SUFFICES ASSUME SInv, PullInv, [SimNext]_allVars PROVE PullInv'
  OBVIOUS
<1>1. CASE TickNone \/ TickAllVsAll \/ MoveAllBodies
  BY <1>1 DEF TickNone, TickAllVsAll, MoveAllBodies, PullInv
<1>2. CASE TickBarnesHut
  <2>1. phase' = "construct" /\ pull' = NoPull /\ (tree = NewTree)'
    BY <1>2 DEF TickBarnesHut, NewTree
  <2>2. UInv'
    BY <2>1, NewTreeTold, PTL
  <2>3. QED
    BY <2>1, <2>2 DEF PullInv, NoPull
<1>3. CASE ConstructTree
  <2>1. phase = "construct" /\ phase' = phase /\ pull' = pull /\ Insert
    BY <1>3 DEF ConstructTree, simVars
  <2>2. IInv /\ GInv /\ UInv
    BY <2>1 DEF SInv, TreeBuilt, PullInv
  <2>3. UInv'
    BY <2>1, <2>2, NextTold DEF Next
  <2>4. QED
    BY <2>1, <2>3 DEF PullInv, NoPull
<1>4. CASE SimulateBarnesHut
  <2>1. /\ phase = "construct" /\ phase' = "forces" /\ todo' = [b \in Body |-> << <<>> >>]
        /\ UNCHANGED <<position, tree, cursor, path, call, inserted, pull>>
    BY <1>4 DEF SimulateBarnesHut, treeVars
  <2>2. IInv /\ UInv /\ pull = NoPull
    BY <2>1 DEF SInv, TreeBuilt, PullInv
  <2>3. UInv'
    BY <2>1, <2>2, SameTold
  <2>4. ASSUME NEW b \in Body PROVE Going(b, todo[b], pull[b])'
    <3> PICK t, h : t = todo'[b] /\ h = pull'[b]
      OBVIOUS
    <3>1. t = << <<>> >> /\ \A c \in Body : h[c] = 0
      BY <2>1, <2>2 DEF NoPull
    <3>2. Going(b, t, h)
      BY <2>2, <3>1, Begins
    <3>3. Going(b, t, h)'
      BY <2>1, <3>2, SameGoing
    <3>4. QED
      BY <3>3 DEF Going
  <2>5. QED
    BY <2>1, <2>3, <2>4 DEF PullInv
<1>5. ASSUME NEW b \in Body, Task(b) PROVE PullInv'
  <2>1. CASE Attract(b)
    BY <2>1 DEF Attract, PullInv
  <2>2. QED
    BY <1>5, <2>1, VisitPulls DEF Task
<1>6. CASE UNCHANGED allVars
  <2>1. UNCHANGED <<position, tree, cursor, path, call, inserted, phase, todo, pull>>
    BY <1>6 DEF allVars, treeVars, simVars
  <2>2. UInv => UInv'
    BY <2>1, SameTold
  <2>3. ASSUME NEW b \in Body, Going(b, todo[b], pull[b]) PROVE Going(b, todo[b], pull[b])'
    <3> PICK t, h : t = todo[b] /\ h = pull[b]
      OBVIOUS
    <3>1. Going(b, t, h)'
      BY <2>1, <2>3, SameGoing
    <3>2. t = todo'[b] /\ h = pull'[b]
      BY <2>1
    <3>3. QED
      BY <3>1, <3>2 DEF Going
  <2>4. QED
    BY <2>1, <2>2, <2>3 DEF PullInv, NoPull
<1>7. QED
  BY <1>1, <1>2, <1>3, <1>4, <1>5, <1>6 DEF SimNext

\* However the tasks interleave, on however many threads, the traversal computes what the
\* tree says: a body is pulled once by all that is under the highest node far enough away,
\* and by the leaves it reaches, other than its own, once and once more when they are far.
THEOREM PullsCorrect == SimSpec => []PullsMatchTree
<1>1. SimInit => PullInv
  BY DEF SimInit, PullInv
<1>2. SInv /\ PullInv => PullsMatchTree
  <2> SUFFICES ASSUME SInv, PullInv, ForcesDone, NEW b \in Body, NEW c \in Body
               PROVE  /\ ~Held(c) => pull[b][c] = 0
                      /\ \A n \in DOMAIN tree : Holds(n, c) =>
                           pull[b][c] =
                               IF \E i \in 0 .. Len(n) - 1 : FarEnough(b, SubSeq(n, 1, i)) THEN 1
                               ELSE IF b = c THEN 0
                               ELSE IF FarEnough(b, n) THEN 2 ELSE 1
    BY DEF PullsMatchTree
  <2>1. IInv /\ todo[b] = <<>> /\ Going(b, todo[b], pull[b])
    BY DEF SInv, TreeBuilt, PullInv, ForcesDone
  <2>2. ASSUME NEW n \in DOMAIN tree PROVE ~Pending(<<>>, n)
    BY EmptySeq DEF Pending
  <2>3. ASSUME NEW n \in DOMAIN tree
        PROVE  FarAbove(b, n) <=> \E i \in 0 .. Len(n) - 1 : FarEnough(b, SubSeq(n, 1, i))
    <3>1. n \in Path /\ DOMAIN tree \subseteq Path /\ Len(n) \in Nat
      BY <2>1, PrefixElements DEF IInv, TypeOK
    <3>2. ASSUME NEW i \in 0 .. Len(n) - 1, FarEnough(b, SubSeq(n, 1, i)) PROVE FarAbove(b, n)
      <4>1. i \in 0 .. Len(n) /\ i # Len(n)
        BY <3>1
      <4> PICK a : a = SubSeq(n, 1, i)
        OBVIOUS
      <4>2. a \in Path /\ Len(a) = i /\ Prefix(a, n)
        BY <3>1, <4>1, Beginning
      <4>3. a \in DOMAIN tree /\ a # n
        BY <2>1, <4>1, <4>2, Ancestors
      <4>4. QED
        BY <3>2, <4>2, <4>3 DEF FarAbove
    <3>3. ASSUME FarAbove(b, n) PROVE \E i \in 0 .. Len(n) - 1 : FarEnough(b, SubSeq(n, 1, i))
      <4>1. PICK a \in DOMAIN tree : Prefix(a, n) /\ a # n /\ FarEnough(b, a)
        BY <3>3 DEF FarAbove
      <4>2. a \in Path /\ Len(a) \in Nat /\ Len(a) =< Len(n) /\ SubSeq(n, 1, Len(a)) = a
        BY <3>1, <4>1, PrefixElements DEF Prefix
      <4>3. Len(a) # Len(n)
        BY <3>1, <4>1, <4>2, PrefixOrder
      <4>4. Len(a) \in 0 .. Len(n) - 1
        BY <3>1, <4>2, <4>3
      <4>5. QED
        BY <4>1, <4>2, <4>4
    <3>4. QED
      BY <3>2, <3>3
  <2>4. QED
    BY <2>1, <2>2, <2>3 DEF Going, Answer
<1>3. QED
  BY <1>1, <1>2, PullStep, SimInductive, PTL DEF SimSpec
=============================================================================
