-------------------------- MODULE QuadTree_proofs ---------------------------
(***************************************************************************)
(* Proofs about QuadTree, for every number of bodies, every mass, every    *)
(* scene and wherever the bodies move between two trees.                   *)
(***************************************************************************)
EXTENDS QuadTree, SequenceTheorems, WellFoundedInduction, TLAPS

-----------------------------------------------------------------------------
(* The boxes that SubDivide makes.                                         *)

\* The children of a box are boxes, inside it.
LEMMA SubBoxType ==
    ASSUME NEW b \in Box, NEW q \in Quadrant
    PROVE  SubBox(b, q) \in Box
<1> DEFINE ex == Extent(b.x0, b.x1)
           ey == Extent(b.y0, b.y1)
<1>1. b.x0 \in Int /\ b.x1 \in Int /\ b.y0 \in Int /\ b.y1 \in Int
  BY DEF Box
<1>2. ex \in Int /\ ey \in Int /\ ex >= 0 /\ ey >= 0
  BY <1>1 DEF Box, Extent
<1>3. QED
  BY <1>1, <1>2 DEF Box, SubBox, Middle

\* A point strictly inside a child is strictly inside its parent.
LEMMA SubBoxInside ==
    ASSUME NEW b \in Box, NEW q \in Quadrant, NEW p \in Position,
           IsInside(SubBox(b, q), p)
    PROVE  IsInside(b, p)
<1> DEFINE ex == Extent(b.x0, b.x1)
           ey == Extent(b.y0, b.y1)
<1>1. b.x0 \in Int /\ b.x1 \in Int /\ b.y0 \in Int /\ b.y1 \in Int
  BY DEF Box
<1>2. /\ ex \in Int /\ ey \in Int /\ ex >= 0 /\ ey >= 0
      /\ b.x0 + ex + ex =< b.x1 /\ b.y0 + ey + ey =< b.y1
  BY <1>1 DEF Box, Extent
<1>3. p # NaN /\ p.x \in Int /\ p.y \in Int
  BY DEF IsInside, Position, Point
<1> HIDE DEF ex, ey
<1>4. QED
  BY <1>1, <1>2, <1>3 DEF IsInside, SubBox, Middle, ex, ey

\* No point is strictly inside two children: the || over the children of Insert
\* and the loop that pushes a body down find at most one that accepts.
THEOREM SiblingsDisjoint ==
    ASSUME NEW b \in Box, NEW q \in Quadrant, NEW r \in Quadrant,
           NEW p \in Position,
           IsInside(SubBox(b, q), p), IsInside(SubBox(b, r), p)
    PROVE  q = r
<1> DEFINE ex == Extent(b.x0, b.x1)
           ey == Extent(b.y0, b.y1)
<1>1. b.x0 \in Int /\ b.x1 \in Int /\ b.y0 \in Int /\ b.y1 \in Int
  BY DEF Box
<1>2. ex \in Int /\ ey \in Int
  BY <1>1 DEF Extent
<1>3. p.x \in Int /\ p.y \in Int
  BY DEF IsInside, Position, Point
<1> HIDE DEF ex, ey
<1>4. \A s \in Quadrant : IsInside(SubBox(b, s), p) =>
          /\ s \in {0, 1} <=> b.x0 + ex < p.x
          /\ s \in {0, 2} <=> p.y < b.y0 + ey
  BY <1>1, <1>2, <1>3 DEF SubBox, Middle, IsInside, ex, ey, Quadrant
<1>5. QED
  BY <1>4 DEF Quadrant

-----------------------------------------------------------------------------
(* Paths.                                                                  *)

LEMMA AppendPath ==
    ASSUME NEW n \in Path, NEW q \in Quadrant
    PROVE  /\ Append(n, q) \in Path
           /\ Append(n, q) # <<>>
           /\ Append(n, q) # n
           /\ Len(Append(n, q)) = Len(n) + 1
           /\ Append(n, q)[Len(Append(n, q))] = q
           /\ Parent(Append(n, q)) = n
<1> DEFINE a == Append(n, q)
<1>1. n \in Seq(Quadrant)
  BY DEF Path
<1>2. /\ a \in Seq(Quadrant) /\ a # <<>>
      /\ Len(a) = Len(n) + 1
      /\ \A i \in 1 .. Len(n) : a[i] = n[i]
      /\ a[Len(n) + 1] = q
  BY <1>1, AppendProperties
<1>3. Len(n) \in Nat
  BY <1>1, LenProperties
<1>4. Parent(a) = SubSeq(a, 1, Len(n))
  BY <1>2, <1>3 DEF Parent
<1>5. \A i \in 1 .. Len(n) : a[i] \in Quadrant
  BY <1>1, <1>2, ElementOfSeq
<1>6. /\ SubSeq(a, 1, Len(n)) \in Seq(Quadrant)
      /\ Len(SubSeq(a, 1, Len(n))) = Len(n)
      /\ \A i \in 1 .. Len(n) : SubSeq(a, 1, Len(n))[i] = a[i]
  <2>1. /\ SubSeq(a, 1, Len(n)) \in Seq(Quadrant)
        /\ Len(SubSeq(a, 1, Len(n))) = IF 1 =< Len(n) THEN Len(n) - 1 + 1 ELSE 0
        /\ \A i \in 1 .. Len(n) - 1 + 1 : SubSeq(a, 1, Len(n))[i] = a[1 + i - 1]
    BY <1>3, <1>5, SubSeqProperties
  <2>2. QED
    BY <2>1, <1>3
<1>7. SubSeq(a, 1, Len(n)) = n
  BY <1>1, <1>2, <1>6, SeqEqual
<1>8. a[Len(a)] = q
  BY <1>2
<1>9. a # n
  BY <1>2, <1>3
<1> HIDE DEF a
<1>10. a \in Path /\ a # <<>> /\ Len(a) = Len(n) + 1 /\ Parent(a) = n
  BY <1>2, <1>4, <1>7 DEF Path
<1>11. QED
  BY <1>8, <1>9, <1>10 DEF a

LEMMA ParentPath ==
    ASSUME NEW n \in Path, n # <<>>
    PROVE  /\ Parent(n) \in Path
           /\ n[Len(n)] \in Quadrant
           /\ n = Append(Parent(n), n[Len(n)])
<1>1. PICK m \in Seq(Quadrant), q \in Quadrant : n = Append(m, q)
  BY SequenceEmptyOrAppend DEF Path
<1>2. Parent(n) = m /\ n[Len(n)] = q
  BY <1>1, AppendPath DEF Path
<1>3. QED
  BY <1>1, <1>2 DEF Path

-----------------------------------------------------------------------------
(* The inductive invariant.  To the type invariant, the shape and the      *)
(* places of the bodies it adds what holds inside the recursion: where the *)
(* active Insert is, and that the tree only knows bodies of earlier calls, *)
(* so that the position that Refuse changes is not one the tree relies on. *)

CallInv ==
    /\ <<>> \in DOMAIN tree /\ tree[<<>>].box = SceneBounds
    /\ call = "idle" => path = <<>>
    /\ call # "idle" => cursor \in Body
    /\ call = "insert" => IsInside(tree[path].box, position[cursor])
    /\ call = "aggregate" => tree[path].subdivided

Earlier ==
    \A n \in DOMAIN tree :
        tree[n].body # None =>
            IF call = "aggregate" THEN tree[n].body =< cursor
            ELSE tree[n].body < cursor

IInv == TypeOK /\ Shape /\ CallInv /\ BodiesInTheirBox /\ Earlier

LEMMA NewNodeType ==
    ASSUME NEW b \in Box
    PROVE  NewNode(b) \in Node
  BY DEF NewNode, Node, NoShift, Centre

LEMMA FilledType ==
    ASSUME NEW node \in Node, NEW b \in Body, NEW p \in Point
    PROVE  /\ Filled(node, b, p) \in Node
           /\ Filled(node, b, p).box = node.box
           /\ Filled(node, b, p).subdivided = node.subdivided
           /\ Filled(node, b, p).body = b
           /\ Filled(node, b, p).empty = FALSE
<1> DEFINE c == AtPoint(p)
<1>1. c \in Centre
  BY DEF AtPoint, Centre, Point
<1>2. Mass[b] \in Nat
  BY MassAssumption
<1>3. Filled(node, b, p) =
          [box |-> node.box, body |-> b, subdivided |-> node.subdivided,
           empty |-> FALSE, mass |-> Mass[b], centre |-> c]
  BY DEF Filled
<1>4. node.box \in Box /\ node.subdivided \in BOOLEAN
  BY DEF Node
<1> HIDE DEF c
<1>5. Filled(node, b, p) \in Node
  BY <1>1, <1>2, <1>3, <1>4 DEF Node
<1>6. QED
  BY <1>3, <1>5

LEMMA NewTreeInv ==
    /\ <<>> \in Path
    /\ DOMAIN NewTree = {<<>>}
    /\ NewTree \in [DOMAIN NewTree -> Node]
    /\ NewTree[<<>>] = NewNode(SceneBounds)
  BY SceneAssumption, NewNodeType DEF NewTree, Path

LEMMA InitInv == Init => IInv
<1> SUFFICES ASSUME Init PROVE IInv
  OBVIOUS
<1> USE NewTreeInv DEF Init
<1>1. TypeOK
  <2>1. position \in [Body -> Position]
    BY PlacesAssumption
  <2>2. cursor \in 1 .. BodyNum + 1
    BY BodyNumAssumption
  <2>3. QED
    BY <2>1, <2>2 DEF TypeOK
<1>2. Shape
  <2>1. ~HasChildren(<<>>)
    <3>1. DOMAIN tree = {<<>>}
      OBVIOUS
    <3>2. \A q \in Quadrant : Append(<<>>, q) # <<>>
      BY AppendPath
    <3>3. QED
      BY <3>1, <3>2 DEF HasChildren, Kids
  <2>2. QED
    BY <2>1 DEF Shape, NewNode
<1>3. CallInv /\ BodiesInTheirBox /\ Earlier
  BY DEF CallInv, BodiesInTheirBox, Earlier, NewNode
<1>4. QED
  BY <1>1, <1>2, <1>3 DEF IInv

\* The sums of an aggregated node have the type of the sums of a node.
LEMMA PlusType ==
    ASSUME NEW c \in Centre, NEW d \in Centre
    PROVE  Plus(c, d) \in Centre
  BY DEF Plus, Centre

LEMMA OverType ==
    ASSUME NEW c \in Centre, NEW k \in Nat
    PROVE  Over(c, k) \in Centre
  BY DEF Over, Centre

LEMMA SumsType ==
    ASSUME TypeOK, NEW n \in Path,
           \A q \in Quadrant : Append(n, q) \in DOMAIN tree
    PROVE  TempMass(n) \in Nat /\ MeanCentre(n) \in Centre
<1>1. \A q \in Quadrant : tree[Append(n, q)].mass \in Nat
  BY DEF TypeOK, Node
<1>2. TempMass(n) \in Nat
  BY <1>1 DEF TempMass, Quadrant
<1>3. Size(n) \in Nat
  BY DEF Size
<1> DEFINE part(q) == IF Counted(n, q) THEN tree[Append(n, q)].centre ELSE NoShift
<1>4. \A q \in Quadrant : part(q) \in Centre
  BY DEF TypeOK, Node, NoShift, Centre
<1>5. part(0) \in Centre /\ part(1) \in Centre /\ part(2) \in Centre /\ part(3) \in Centre
  BY <1>4 DEF Quadrant
<1>6. MeanCentre(n) = Over(Plus(Plus(part(0), part(1)), Plus(part(2), part(3))), Size(n))
  BY DEF MeanCentre
<1> HIDE DEF part
<1>7. Plus(part(0), part(1)) \in Centre /\ Plus(part(2), part(3)) \in Centre
  BY <1>5, PlusType
<1>8. Plus(Plus(part(0), part(1)), Plus(part(2), part(3))) \in Centre
  BY <1>7, PlusType
<1>9. QED
  BY <1>2, <1>3, <1>6, <1>8, OverType

-----------------------------------------------------------------------------
(* Every action preserves the inductive invariant.                         *)

\* The opposite edge is a position.
LEMMA AdjustType ==
    ASSUME NEW b \in Box, NEW p \in Position
    PROVE  AdjustPosition(b, p) \in Position
  BY DEF AdjustPosition, Wrap, Position, Point, Box

LEMMA RefuseInv == IInv /\ Refuse => IInv'
<1> SUFFICES ASSUME IInv, Refuse PROVE IInv'
  OBVIOUS
<1> USE DEF IInv, Refuse
<1>1. cursor \in Body /\ call = "idle" /\ path = <<>> /\ <<>> \in DOMAIN tree
  BY DEF TypeOK, CallInv
<1>2. tree' = tree /\ path' = path /\ call' = call /\ cursor' = cursor + 1
  OBVIOUS
<1>3. \A n \in DOMAIN tree : tree[n].body # None =>
          tree[n].body < cursor /\ position'[tree[n].body] = position[tree[n].body]
  <2> SUFFICES ASSUME NEW n \in DOMAIN tree, tree[n].body # None
               PROVE  /\ tree[n].body < cursor
                      /\ position'[tree[n].body] = position[tree[n].body]
    OBVIOUS
  <2>1. tree[n].body \in Body /\ tree[n].body < cursor
    BY <1>1 DEF TypeOK, Node, Earlier
  <2>2. QED
    BY <2>1, <1>1 DEF TypeOK, Body
<1>4. TypeOK'
  <2>1. position' \in [Body -> Position]
    BY <1>1, AdjustType DEF TypeOK, Node
  <2>2. cursor' \in 1 .. BodyNum + 1
    BY <1>1, BodyNumAssumption DEF TypeOK, Body
  <2>3. QED
    BY <1>2, <2>1, <2>2 DEF TypeOK
<1>5. Shape'
  BY <1>2 DEF Shape, HasChildren
<1>6. CallInv'
  BY <1>1, <1>2 DEF CallInv
<1>7. BodiesInTheirBox'
  BY <1>2, <1>3 DEF BodiesInTheirBox
<1>8. Earlier'
  <2>1. cursor \in Int /\ \A n \in DOMAIN tree : tree[n].body # None => tree[n].body \in Int
    BY <1>1 DEF TypeOK, Node, Body
  <2>2. QED
    BY <1>1, <1>2, <1>3, <2>1 DEF Earlier
<1>9. QED
  BY <1>4, <1>5, <1>6, <1>7, <1>8

LEMMA EnterInv == IInv /\ Enter => IInv'
<1> SUFFICES ASSUME IInv, Enter PROVE IInv'
  OBVIOUS
<1> USE DEF IInv, Enter
<1>1. TypeOK'
  BY DEF TypeOK, CallInv
<1>2. Shape' /\ BodiesInTheirBox'
  BY DEF Shape, HasChildren, BodiesInTheirBox
<1>3. CallInv' /\ Earlier'
  BY DEF CallInv, Earlier
<1>4. QED
  BY <1>1, <1>2, <1>3

\* Where an Insert returns to: the loop of ConstructTree, or a parent that is
\* subdivided.
LEMMA ReturnTo ==
    ASSUME IInv, call # "idle", Return(path)
    PROVE  /\ path' \in DOMAIN tree
           /\ cursor' \in 1 .. BodyNum + 1
           /\ \/ call' = "idle" /\ path' = <<>> /\ cursor' = cursor + 1
              \/ call' = "aggregate" /\ tree[path'].subdivided /\ cursor' = cursor
<1>1. cursor \in Body /\ path \in DOMAIN tree /\ path \in Path
  BY DEF IInv, TypeOK, CallInv
<1>2. CASE path = <<>>
  BY <1>1, <1>2, BodyNumAssumption DEF Return, Body
<1>3. CASE path # <<>>
  <2>1. Parent(path) \in DOMAIN tree
    BY <1>1, <1>3 DEF IInv, Shape
  <2>2. path \in Kids(Parent(path))
    BY <1>1, <1>3, ParentPath DEF Kids
  <2>3. HasChildren(Parent(path))
    BY <1>1, <2>2 DEF HasChildren
  <2>4. tree[Parent(path)].subdivided
    BY <2>1, <2>3 DEF IInv, Shape
  <2>5. cursor \in 1 .. BodyNum + 1
    BY DEF IInv, TypeOK
  <2>6. QED
    BY <1>3, <2>1, <2>4, <2>5 DEF Return
<1>4. QED
  BY <1>2, <1>3

LEMMA FillInv == IInv /\ Fill => IInv'
<1> SUFFICES ASSUME IInv, Fill PROVE IInv'
  OBVIOUS
<1> DEFINE leaf == Filled(tree[path], cursor, position[cursor])
<1>1. /\ cursor \in Body /\ path \in DOMAIN tree /\ call = "insert"
      /\ position[cursor] \in Point /\ IsInside(tree[path].box, position[cursor])
      /\ tree[path] \in Node
  BY DEF IInv, Fill, TypeOK, CallInv, IsInside, Position
<1>2. /\ leaf \in Node /\ leaf.box = tree[path].box
      /\ leaf.subdivided = tree[path].subdivided
      /\ leaf.body = cursor /\ leaf.empty = FALSE
  BY <1>1, FilledType, ZenonT(40)
<1>3. ~tree[path].subdivided
  BY <1>1 DEF IInv, Shape, Fill
<1>4. /\ tree' = [tree EXCEPT ![path] = leaf]
      /\ DOMAIN tree' = DOMAIN tree
      /\ tree'[path] = leaf
      /\ \A n \in DOMAIN tree : n # path => tree'[n] = tree[n]
  BY <1>1 DEF Fill
<1> HIDE DEF leaf
<1>5. /\ path' \in DOMAIN tree
      /\ cursor' \in 1 .. BodyNum + 1
      /\ \/ call' = "idle" /\ path' = <<>> /\ cursor' = cursor + 1
         \/ call' = "aggregate" /\ tree[path'].subdivided /\ cursor' = cursor
  BY <1>1, ReturnTo DEF Fill
<1>6. position' = position /\ inserted' = TRUE
  BY DEF Fill
<1>7. TypeOK'
  <2>1. tree' \in [DOMAIN tree' -> Node]
    BY <1>2, <1>4 DEF IInv, TypeOK
  <2>2. QED
    BY <1>4, <1>5, <1>6, <2>1 DEF IInv, TypeOK
<1>8. Shape'
  <2>1. \A n \in DOMAIN tree : /\ tree'[n].box = tree[n].box
                               /\ tree'[n].subdivided = tree[n].subdivided
    BY <1>2, <1>4
  <2>2. \A n \in DOMAIN tree : tree'[n].empty <=> tree'[n].body = None
    BY <1>1, <1>2, <1>4, NoneAssumption DEF IInv, Shape, Body
  <2>3. \A n \in DOMAIN tree : tree'[n].subdivided => ~tree'[n].empty
    BY <1>2, <1>3, <1>4 DEF IInv, Shape
  <2>4. \A n \in DOMAIN tree : n # <<>> => Parent(n) \in DOMAIN tree
    BY DEF IInv, Shape
  <2>5. \A n \in DOMAIN tree :
            IF tree'[n].subdivided
            THEN \A q \in Quadrant :
                     /\ Append(n, q) \in DOMAIN tree
                     /\ tree'[Append(n, q)].box = SubBox(tree'[n].box, q)
            ELSE Kids(n) \cap DOMAIN tree = {}
    BY <2>1 DEF IInv, Shape, HasChildren
  <2>6. QED
    BY <1>4, <2>2, <2>3, <2>4, <2>5 DEF Shape, HasChildren
<1>9. CallInv'
  <2>1. \A n \in DOMAIN tree : /\ tree'[n].box = tree[n].box
                               /\ tree'[n].subdivided = tree[n].subdivided
    BY <1>2, <1>4
  <2>2. <<>> \in DOMAIN tree' /\ tree'[<<>>].box = SceneBounds
    BY <1>4, <2>1 DEF IInv, CallInv
  <2>3. QED
    BY <1>1, <1>5, <2>1, <2>2 DEF CallInv
<1>10. BodiesInTheirBox'
  BY <1>1, <1>2, <1>4, <1>6 DEF IInv, BodiesInTheirBox
<1>11. Earlier'
  <2>1. cursor \in Int
    BY <1>1 DEF Body
  <2>2. \A n \in DOMAIN tree' : tree'[n].body # None =>
            tree'[n].body \in Int /\ tree'[n].body =< cursor
    BY <1>1, <1>2, <1>4, <2>1 DEF IInv, Earlier, TypeOK, Node, Body
  <2>3. QED
    BY <1>5, <2>1, <2>2 DEF Earlier
<1>12. QED
  BY <1>7, <1>8, <1>9, <1>10, <1>11 DEF IInv

LEMMA DescendInv ==
    ASSUME IInv, NEW q \in Quadrant, Descend(q)
    PROVE  IInv'
<1>1. path \in DOMAIN tree /\ path \in Path
  BY DEF IInv, TypeOK
<1>2. path' \in DOMAIN tree /\ IsInside(tree[path'].box, position[cursor])
  BY <1>1 DEF IInv, Shape, Descend
<1>3. TypeOK'
  BY <1>2 DEF IInv, TypeOK, Descend
<1>4. Shape' /\ BodiesInTheirBox'
  BY DEF IInv, Shape, HasChildren, BodiesInTheirBox, Descend
<1>5. CallInv' /\ Earlier'
  BY <1>2 DEF IInv, CallInv, Earlier, Descend
<1>6. QED
  BY <1>3, <1>4, <1>5 DEF IInv

LEMMA DropInv == IInv /\ Drop => IInv'
<1> SUFFICES ASSUME IInv, Drop PROVE IInv'
  OBVIOUS
<1> USE DEF IInv, Drop
<1>1. TypeOK'
  BY DEF TypeOK
<1>2. Shape' /\ BodiesInTheirBox'
  BY DEF Shape, HasChildren, BodiesInTheirBox
<1>3. CallInv'
  BY DEF CallInv
<1>4. Earlier'
  <2>1. cursor \in Int /\ \A n \in DOMAIN tree : tree[n].body # None => tree[n].body \in Int
    BY DEF TypeOK, Node, Body, CallInv
  <2>2. QED
    BY <2>1 DEF Earlier
<1>5. QED
  BY <1>1, <1>2, <1>3, <1>4

LEMMA AggregateInv == IInv /\ Aggregate => IInv'
<1> SUFFICES ASSUME IInv, Aggregate PROVE IInv'
  OBVIOUS
<1> DEFINE node == [tree[path] EXCEPT !.mass = TempMass(path),
                                      !.centre = MeanCentre(path)]
<1>1. /\ path \in DOMAIN tree /\ path \in Path /\ call = "aggregate"
      /\ tree[path] \in Node /\ tree[path].subdivided
  BY DEF IInv, TypeOK, CallInv, Aggregate
<1>2. TempMass(path) \in Nat /\ MeanCentre(path) \in Centre
  BY <1>1, SumsType DEF IInv, Shape
<1>3. /\ node \in Node /\ node.box = tree[path].box
      /\ node.subdivided = tree[path].subdivided
      /\ node.body = tree[path].body /\ node.empty = tree[path].empty
  BY <1>1, <1>2 DEF Node
<1>4. /\ tree' = [tree EXCEPT ![path] = node]
      /\ DOMAIN tree' = DOMAIN tree
      /\ tree'[path] = node
      /\ \A n \in DOMAIN tree : n # path => tree'[n] = tree[n]
  BY <1>1 DEF Aggregate
<1> HIDE DEF node
<1>5. \A n \in DOMAIN tree :
          /\ tree'[n].box = tree[n].box /\ tree'[n].body = tree[n].body
          /\ tree'[n].empty = tree[n].empty
          /\ tree'[n].subdivided = tree[n].subdivided
  BY <1>3, <1>4
<1>6. /\ path' \in DOMAIN tree
      /\ cursor' \in 1 .. BodyNum + 1
      /\ \/ call' = "idle" /\ path' = <<>> /\ cursor' = cursor + 1
         \/ call' = "aggregate" /\ tree[path'].subdivided /\ cursor' = cursor
  BY <1>1, ReturnTo DEF Aggregate
<1>7. position' = position /\ inserted' = inserted
  BY DEF Aggregate
<1>8. TypeOK'
  <2>1. tree' \in [DOMAIN tree' -> Node]
    BY <1>3, <1>4 DEF IInv, TypeOK
  <2>2. QED
    BY <1>4, <1>6, <1>7, <2>1 DEF IInv, TypeOK
<1>9. Shape'
  <2>1. \A n \in DOMAIN tree :
            /\ n # <<>> => Parent(n) \in DOMAIN tree
            /\ tree'[n].empty <=> tree'[n].body = None
            /\ tree'[n].subdivided => ~tree'[n].empty
    BY <1>5 DEF IInv, Shape
  <2>2. \A n \in DOMAIN tree :
            IF tree'[n].subdivided
            THEN \A q \in Quadrant :
                     /\ Append(n, q) \in DOMAIN tree
                     /\ tree'[Append(n, q)].box = SubBox(tree'[n].box, q)
            ELSE Kids(n) \cap DOMAIN tree = {}
    BY <1>5 DEF IInv, Shape, HasChildren
  <2>3. QED
    BY <1>4, <2>1, <2>2 DEF Shape, HasChildren
<1>10. CallInv'
  BY <1>1, <1>4, <1>5, <1>6 DEF IInv, CallInv
<1>11. BodiesInTheirBox'
  BY <1>4, <1>5, <1>7 DEF IInv, BodiesInTheirBox
<1>12. Earlier'
  <2>1. cursor \in Int /\ \A n \in DOMAIN tree : tree[n].body # None => tree[n].body \in Int
    BY <1>1 DEF IInv, TypeOK, Node, Body, CallInv
  <2>2. QED
    BY <1>1, <1>4, <1>5, <1>6, <2>1 DEF IInv, Earlier
<1>13. QED
  BY <1>8, <1>9, <1>10, <1>11, <1>12 DEF IInv

\* A child that SubDivide has just made, with or without the body pushed down.
LEMMA NewChildProperties ==
    ASSUME NEW node \in Node, NEW q \in Quadrant, node.body \in Body,
           position \in [Body -> Position]
    PROVE  LET child == NewChild(node, q)
           IN  /\ child \in Node
               /\ child.box = SubBox(node.box, q)
               /\ ~child.subdivided
               /\ child.empty <=> child.body = None
               /\ child.body # None =>
                      /\ child.body = node.body
                      /\ IsInside(child.box, position[node.body])
<1> DEFINE box == SubBox(node.box, q)
           p == position[node.body]
<1>1. box \in Box
  BY SubBoxType DEF Node
<1>2. NewNode(box) \in Node
  BY <1>1, NewNodeType
<1>3. NewNode(box).box = box /\ ~NewNode(box).subdivided
      /\ NewNode(box).empty /\ NewNode(box).body = None
  BY DEF NewNode
<1> HIDE DEF box
<1>4. CASE IsInside(box, p)
  <2>1. p \in Point
    BY <1>4 DEF IsInside, Position
  <2>2. NewChild(node, q) = Filled(NewNode(box), node.body, p)
    BY <1>3, <1>4 DEF NewChild, box
  <2>3. node.body # None
    BY NoneAssumption DEF Body
  <2> DEFINE child == Filled(NewNode(box), node.body, p)
  <2>4. /\ child \in Node /\ child.box = NewNode(box).box
        /\ child.subdivided = NewNode(box).subdivided
        /\ child.body = node.body /\ child.empty = FALSE
    <3>1. PICK leaf \in Node : leaf = NewNode(box)
      BY <1>2
    <3>2. child = Filled(leaf, node.body, p)
      BY <3>1
    <3> HIDE DEF child
    <3>3. QED
      BY <2>1, <3>1, <3>2, FilledType
  <2> HIDE DEF child
  <2>5. NewChild(node, q) = child
    BY <2>2 DEF child
  <2>6. QED
    BY <1>3, <1>4, <2>3, <2>4, <2>5 DEF box
<1>5. CASE ~IsInside(box, p)
  <2>1. NewChild(node, q) = NewNode(box)
    BY <1>3, <1>5 DEF NewChild, box
  <2>2. QED
    BY <1>2, <1>3, <2>1 DEF box
<1>6. QED
  BY <1>4, <1>5

\* What SubDivide and the push-down make of the tree.
LEMMA SubdivideTree ==
    ASSUME IInv, Subdivide
    PROVE  /\ path \in DOMAIN tree /\ path \in Path /\ call = "insert"
           /\ cursor \in Body /\ tree[path].body \in Body
           /\ tree[path] \in Node /\ ~tree[path].subdivided /\ ~tree[path].empty
           /\ position \in [Body -> Position] /\ DOMAIN tree \subseteq Path
           /\ DOMAIN tree' = DOMAIN tree \cup Kids(path)
           /\ \A q \in Quadrant :
                  /\ Append(path, q) \notin DOMAIN tree
                  /\ tree'[Append(path, q)] = NewChild(tree[path], q)
           /\ tree'[path] \in Node /\ tree'[path].subdivided
           /\ \A n \in DOMAIN tree :
                  /\ n # path => tree'[n] = tree[n]
                  /\ tree'[n].box = tree[n].box
                  /\ tree'[n].body = tree[n].body
                  /\ tree'[n].empty = tree[n].empty
                  /\ tree'[n].mass = tree[n].mass
                  /\ tree'[n].centre = tree[n].centre
<1>1. /\ path \in DOMAIN tree /\ path \in Path /\ call = "insert"
      /\ tree[path] \in Node /\ cursor \in Body
      /\ ~tree[path].subdivided /\ ~HasChildren(path)
      /\ position \in [Body -> Position]
      /\ DOMAIN tree \subseteq Path
  BY DEF IInv, TypeOK, CallInv, Subdivide, Shape
<1>2. ~tree[path].empty /\ tree[path].body \in Body
  BY <1>1 DEF Subdivide, IInv, Shape, Node
<1>3. \A q \in Quadrant : Append(path, q) \notin DOMAIN tree
  BY <1>1 DEF HasChildren, Kids
<1>4. DOMAIN tree' = DOMAIN tree \cup Kids(path)
  BY DEF Subdivide
<1>5. \A q \in Quadrant : tree'[Append(path, q)] = NewChild(tree[path], q)
  <2> SUFFICES ASSUME NEW q \in Quadrant
               PROVE  tree'[Append(path, q)] = NewChild(tree[path], q)
    OBVIOUS
  <2>1. Append(path, q) \in Kids(path)
    BY DEF Kids
  <2>2. Append(path, q)[Len(Append(path, q))] = q
    BY <1>1, AppendPath
  <2>3. QED
    BY <2>1, <2>2 DEF Subdivide
<1> DEFINE split == [tree[path] EXCEPT !.subdivided = TRUE]
<1>6. tree'[path] = split
  <2>1. path \notin Kids(path)
    BY <1>1, <1>3 DEF Kids
  <2>2. QED
    BY <1>1, <2>1 DEF Subdivide
<1>7. \A n \in DOMAIN tree : n # path => tree'[n] = tree[n]
  <2> SUFFICES ASSUME NEW n \in DOMAIN tree, n # path PROVE tree'[n] = tree[n]
    OBVIOUS
  <2>1. n \notin Kids(path)
    BY <1>3 DEF Kids
  <2>2. QED
    BY <2>1 DEF Subdivide
<1>8. /\ split \in Node /\ split.box = tree[path].box /\ split.subdivided
      /\ split.body = tree[path].body /\ split.empty = tree[path].empty
      /\ split.mass = tree[path].mass /\ split.centre = tree[path].centre
  BY <1>1 DEF Node
<1> HIDE DEF split
<1>9. QED
  BY <1>1, <1>2, <1>3, <1>4, <1>5, <1>6, <1>7, <1>8

LEMMA SubdivideInv == IInv /\ Subdivide => IInv'
<1> SUFFICES ASSUME IInv, Subdivide PROVE IInv'
  OBVIOUS
<1> DEFINE kid(q) == NewChild(tree[path], q)
<1>1. /\ path \in DOMAIN tree /\ path \in Path /\ call = "insert"
      /\ tree[path] \in Node /\ cursor \in Body
      /\ ~tree[path].subdivided
      /\ position \in [Body -> Position]
      /\ DOMAIN tree \subseteq Path
  BY SubdivideTree
<1>2. ~tree[path].empty /\ tree[path].body \in Body
  BY SubdivideTree
<1>3. /\ position' = position /\ cursor' = cursor /\ path' = path
      /\ call' = call /\ inserted' = inserted
  BY DEF Subdivide
<1>4. \A q \in Quadrant :
          /\ kid(q) \in Node
          /\ kid(q).box = SubBox(tree[path].box, q)
          /\ ~kid(q).subdivided
          /\ kid(q).empty <=> kid(q).body = None
          /\ kid(q).body # None =>
                 /\ kid(q).body = tree[path].body
                 /\ IsInside(kid(q).box, position[tree[path].body])
  BY <1>1, <1>2, NewChildProperties
<1> HIDE DEF kid
<1>5. \A q \in Quadrant : Append(path, q) \notin DOMAIN tree
  BY SubdivideTree
<1>6. DOMAIN tree' = DOMAIN tree \cup Kids(path)
  BY SubdivideTree
<1>7. \A q \in Quadrant : tree'[Append(path, q)] = kid(q)
  BY SubdivideTree DEF kid
<1>8. tree'[path] \in Node /\ tree'[path].subdivided
  BY SubdivideTree
<1>9. \A n \in DOMAIN tree : n # path => tree'[n] = tree[n]
  BY SubdivideTree
<1>11. \A n \in DOMAIN tree :
           /\ tree'[n].box = tree[n].box
           /\ tree'[n].body = tree[n].body /\ tree'[n].empty = tree[n].empty
           /\ n # path => tree'[n].subdivided = tree[n].subdivided
  BY <1>9, SubdivideTree
<1>12. TypeOK'
  <2>1. Kids(path) \subseteq Path
    BY <1>1, AppendPath DEF Kids
  <2>2. \A n \in Kids(path) : tree'[n] \in Node
    BY <1>4, <1>7 DEF Kids
  <2>3. \A n \in DOMAIN tree : tree'[n] \in Node
    BY <1>8, <1>9 DEF IInv, TypeOK
  <2>4. tree' = [n \in DOMAIN tree' |-> tree'[n]]
    BY <1>6 DEF Subdivide
  <2>5. tree' \in [DOMAIN tree' -> Node]
    BY <1>6, <2>2, <2>3, <2>4
  <2>6. QED
    BY <1>1, <1>3, <1>6, <2>1, <2>5 DEF IInv, TypeOK
<1>13. Shape'
  <2> SUFFICES ASSUME NEW n \in DOMAIN tree'
               PROVE  /\ n # <<>> => Parent(n) \in DOMAIN tree'
                      /\ IF tree'[n].subdivided
                         THEN \A q \in Quadrant :
                                  /\ Append(n, q) \in DOMAIN tree'
                                  /\ tree'[Append(n, q)].box = SubBox(tree'[n].box, q)
                         ELSE Kids(n) \cap DOMAIN tree' = {}
                      /\ tree'[n].empty <=> tree'[n].body = None
                      /\ tree'[n].subdivided => ~tree'[n].empty
    BY DEF Shape, HasChildren
  <2>1. CASE n \in Kids(path)
    <3>1. PICK q \in Quadrant : n = Append(path, q)
      BY <2>1 DEF Kids
    <3>2. Parent(n) = path /\ n \in Path
      BY <1>1, <3>1, AppendPath
    <3>3. \A r \in Quadrant : Append(n, r) \notin DOMAIN tree'
      <4> SUFFICES ASSUME NEW r \in Quadrant PROVE Append(n, r) \notin DOMAIN tree'
        OBVIOUS
      <4>1. Append(n, r) # <<>> /\ Parent(Append(n, r)) = n
            /\ Len(Append(n, r)) = Len(n) + 1
        BY <3>2, AppendPath
      <4>2. Append(n, r) \notin DOMAIN tree
        BY <1>5, <3>1, <4>1 DEF IInv, Shape
      <4>3. Append(n, r) \notin Kids(path)
        <5>1. \A s \in Quadrant : Len(Append(path, s)) = Len(path) + 1
          BY <1>1, AppendPath
        <5>2. Len(n) = Len(path) + 1 /\ Len(path) \in Nat
          BY <1>1, <3>1, <5>1, LenProperties DEF Path
        <5>3. QED
          BY <4>1, <5>1, <5>2 DEF Kids
      <4>4. QED
        BY <1>6, <4>2, <4>3
    <3>4. tree'[n] = kid(q)
      BY <1>7, <3>1
    <3>5. QED
      BY <1>1, <1>4, <1>6, <3>2, <3>3, <3>4 DEF Kids
  <2>2. CASE n = path
    <3>1. tree'[n].subdivided /\ tree'[n].box = tree[path].box
      BY <1>1, <1>8, <1>11, <2>2
    <3>2. \A q \in Quadrant : Append(path, q) \in DOMAIN tree'
      BY <1>6 DEF Kids
    <3>3. \A q \in Quadrant : tree'[Append(path, q)].box = SubBox(tree[path].box, q)
      BY <1>4, <1>7
    <3>4. (n # <<>> => Parent(n) \in DOMAIN tree) /\ (tree[n].empty <=> tree[n].body = None)
      BY <1>1, <2>2 DEF IInv, Shape
    <3>5. QED
      BY <1>1, <1>2, <1>6, <1>11, <2>2, <3>1, <3>2, <3>3, <3>4
  <2>3. CASE n \in DOMAIN tree /\ n # path
    <3>1. tree'[n] = tree[n]
      BY <1>9, <2>3
    <3>2. /\ n # <<>> => Parent(n) \in DOMAIN tree'
          /\ tree'[n].empty <=> tree'[n].body = None
          /\ tree'[n].subdivided => ~tree'[n].empty
      BY <1>6, <2>3, <3>1 DEF IInv, Shape
    <3>3. CASE tree[n].subdivided
      <4>1. \A q \in Quadrant : Append(n, q) \in DOMAIN tree
                /\ tree[Append(n, q)].box = SubBox(tree[n].box, q)
        BY <2>3, <3>3 DEF IInv, Shape
      <4>2. QED
        BY <1>6, <1>11, <3>1, <3>2, <3>3, <4>1
    <3>4. CASE ~tree[n].subdivided
      <4>1. Kids(n) \cap DOMAIN tree = {}
        BY <2>3, <3>4 DEF IInv, Shape, HasChildren
      <4>2. Kids(n) \cap Kids(path) = {}
        <5>1. n \in Path
          BY <1>1, <2>3
        <5>2. ASSUME NEW q \in Quadrant, NEW r \in Quadrant,
                     Append(n, q) = Append(path, r)
              PROVE  FALSE
          <6>1. Parent(Append(n, q)) = n /\ Parent(Append(path, r)) = path
            BY <1>1, <5>1, AppendPath
          <6>2. QED
            BY <2>3, <5>2, <6>1
        <5>3. QED
          BY <5>2 DEF Kids
      <4>3. QED
        BY <1>6, <3>1, <3>2, <3>4, <4>1, <4>2
    <3>5. QED
      BY <3>3, <3>4
  <2>4. QED
    BY <1>6, <2>1, <2>2, <2>3
<1>14. CallInv'
  BY <1>1, <1>3, <1>6, <1>11 DEF IInv, CallInv
<1>15. \A n \in Kids(path) : tree'[n].body # None =>
           /\ tree'[n].body = tree[path].body
           /\ IsInside(tree'[n].box, position[tree[path].body])
  BY <1>4, <1>7 DEF Kids
<1>16. BodiesInTheirBox'
  BY <1>3, <1>6, <1>11, <1>15 DEF IInv, BodiesInTheirBox
<1>17. Earlier'
  <2>1. \A n \in DOMAIN tree : tree[n].body # None => tree[n].body < cursor
    BY <1>1 DEF IInv, Earlier
  <2>2. tree[path].body # None
    BY <1>2, NoneAssumption DEF Body
  <2>3. \A n \in DOMAIN tree' : tree'[n].body # None => tree'[n].body < cursor
    BY <1>1, <1>6, <1>11, <1>15, <2>1, <2>2
  <2>4. QED
    BY <1>1, <1>3, <2>3 DEF Earlier
<1>18. QED
  BY <1>12, <1>13, <1>14, <1>16, <1>17 DEF IInv

LEMMA ReconstructInv == IInv /\ Reconstruct => IInv'
<1> SUFFICES ASSUME IInv, Reconstruct PROVE IInv'
  OBVIOUS
<1>1. position' \in [Body -> Position]
  BY PlacesAssumption DEF Reconstruct
<1>2. /\ tree' = NewTree /\ path' = <<>> /\ cursor' = 1 /\ call' = "idle"
      /\ inserted' = inserted
  BY DEF Reconstruct, Constructed, IInv, CallInv
<1>3. TypeOK'
  BY <1>1, <1>2, NewTreeInv, BodyNumAssumption DEF IInv, TypeOK
<1>4. \A n \in DOMAIN tree' : n = <<>> /\ tree'[n] = NewNode(SceneBounds)
  BY <1>2, NewTreeInv
<1>5. Shape'
  <2>1. \A q \in Quadrant : Append(<<>>, q) # <<>>
    BY NewTreeInv, AppendPath
  <2>2. Kids(<<>>) \cap DOMAIN tree' = {}
    BY <1>4, <2>1 DEF Kids
  <2>3. QED
    BY <1>4, <2>2 DEF Shape, NewNode, HasChildren
<1>6. CallInv' /\ BodiesInTheirBox' /\ Earlier'
  BY <1>2, <1>4, NewTreeInv DEF CallInv, BodiesInTheirBox, Earlier, NewNode
<1>7. QED
  BY <1>3, <1>5, <1>6 DEF IInv

LEMMA NextInv == IInv /\ [Next]_vars => IInv'
<1> SUFFICES ASSUME IInv, [Next]_vars PROVE IInv'
  OBVIOUS
<1>1. CASE Insert
  BY <1>1, RefuseInv, EnterInv, FillInv, SubdivideInv, DescendInv, DropInv,
     AggregateInv DEF Insert
<1>2. CASE Reconstruct
  BY <1>2, ReconstructInv
<1>3. CASE UNCHANGED vars
  BY <1>3 DEF vars, IInv, TypeOK, Shape, CallInv, BodiesInTheirBox, Earlier,
              HasChildren
<1>4. QED
  BY <1>1, <1>2, <1>3 DEF Next

LEMMA Inductive == Spec => []IInv
  BY InitInv, NextInv, PTL DEF Spec

\* Every reachable state of QuadTree has the declared types.
THEOREM TypeCorrect == Spec => []TypeOK
<1>1. IInv => TypeOK
  BY DEF IInv
<1>2. QED
  BY <1>1, Inductive, PTL

\* The flags bIsSubdivided and bIsEmpty agree with Children and BodyEntity in
\* every node, so Insert never dereferences a null BodyEntity or a missing child.
THEOREM ShapeCorrect == Spec => []Shape
<1>1. IInv => Shape
  BY DEF IInv
<1>2. QED
  BY <1>1, Inductive, PTL

\* Whatever the bodies do between two trees, a node's body is strictly inside
\* the box of the node.
THEOREM PlacementCorrect == Spec => []BodiesInTheirBox
<1>1. IInv => BodiesInTheirBox
  BY DEF IInv
<1>2. QED
  BY <1>1, Inductive, PTL

-----------------------------------------------------------------------------
(* Which bodies the tree holds.  The leaves and the split lines divide the *)
(* scene between them: a point of the scene is strictly inside exactly one *)
(* leaf or on the split line of some node, never both.  A leaf that        *)
(* contains the position of a body whose Insert is over holds that body.   *)

InScene ==
    \A n \in DOMAIN tree : \A p \in Position :
        IsInside(tree[n].box, p) => IsInside(SceneBounds, p)

LeavesDisjoint ==
    \A m, n \in DOMAIN tree : \A p \in Position :
        /\ ~tree[m].subdivided /\ IsInside(tree[m].box, p)
        /\ ~tree[n].subdivided /\ IsInside(tree[n].box, p)
        => m = n

Covered ==
    \A p \in Position : IsInside(SceneBounds, p) =>
        \E n \in DOMAIN tree :
            \/ ~tree[n].subdivided /\ IsInside(tree[n].box, p)
            \/ OnSplitLine(n, p)

LinesOutsideLeaves ==
    \A m, n \in DOMAIN tree : \A p \in Position :
        ~tree[m].subdivided /\ OnSplitLine(n, p) => ~IsInside(tree[m].box, p)

Geometric == InScene /\ LeavesDisjoint /\ Covered /\ LinesOutsideLeaves

\* The Insert of b is over, or has nothing left to do but the sums.
Seen(b) == b < cursor \/ (b = cursor /\ call = "aggregate")

SeenHeld ==
    \A b \in Body : \A n \in DOMAIN tree :
        Seen(b) /\ ~tree[n].subdivided /\ IsInside(tree[n].box, position[b])
            => tree[n].body = b

GInv == Geometric /\ SeenHeld

\* An action that keeps the nodes, their boxes and whether they are subdivided
\* keeps the division of the scene.
LEMMA SameGeometry ==
    ASSUME IInv, Geometric, DOMAIN tree' = DOMAIN tree,
           \A n \in DOMAIN tree : /\ tree'[n].box = tree[n].box
                                 /\ tree'[n].subdivided = tree[n].subdivided
    PROVE  Geometric' /\ \A n \in DOMAIN tree : \A p \in Position :
                              OnSplitLine(n, p)' <=> OnSplitLine(n, p)
<1>1. \A n \in DOMAIN tree : tree[n].subdivided =>
          \A q \in Quadrant : Append(n, q) \in DOMAIN tree
  BY DEF IInv, Shape
<1>2. \A n \in DOMAIN tree : \A p \in Position :
          OnSplitLine(n, p)' <=> OnSplitLine(n, p)
  BY <1>1 DEF OnSplitLine
<1>3. InScene' /\ LeavesDisjoint' /\ LinesOutsideLeaves'
  BY <1>2 DEF Geometric, InScene, LeavesDisjoint, LinesOutsideLeaves
<1>4. Covered'
  BY <1>2 DEF Geometric, Covered
<1>5. QED
  BY <1>2, <1>3, <1>4 DEF Geometric

LEMMA SubdivideGeometry == IInv /\ Geometric /\ Subdivide => Geometric'
<1> SUFFICES ASSUME IInv, Geometric, Subdivide PROVE Geometric'
  OBVIOUS
<1>1. /\ path \in DOMAIN tree /\ path \in Path /\ ~tree[path].subdivided
      /\ tree[path].box \in Box
      /\ DOMAIN tree' = DOMAIN tree \cup Kids(path)
      /\ \A q \in Quadrant : Append(path, q) \notin DOMAIN tree
  BY SubdivideTree DEF Node
<1>2. \A q \in Quadrant : /\ tree'[Append(path, q)].box = SubBox(tree[path].box, q)
                          /\ ~tree'[Append(path, q)].subdivided
  BY SubdivideTree, NewChildProperties
<1>3. tree'[path].subdivided
  BY SubdivideTree
<1>4. \A n \in DOMAIN tree : /\ tree'[n].box = tree[n].box
                             /\ n # path => tree'[n].subdivided = tree[n].subdivided
  BY SubdivideTree
<1>5. \A n \in DOMAIN tree : tree[n].subdivided =>
          \A q \in Quadrant : Append(n, q) \in DOMAIN tree
  BY DEF IInv, Shape
\* The lines of the other nodes are as before.
<1>6. \A n \in DOMAIN tree : \A p \in Position :
          n # path => (OnSplitLine(n, p)' <=> OnSplitLine(n, p))
  BY <1>4, <1>5 DEF OnSplitLine
\* A point inside a new child is inside the node that was split.
<1>7. \A q \in Quadrant : \A p \in Position :
          IsInside(tree'[Append(path, q)].box, p) => IsInside(tree[path].box, p)
  BY <1>1, <1>2, SubBoxInside
<1>8. \A k \in Kids(path) : ~tree'[k].subdivided
  BY <1>2 DEF Kids
<1>9. \A k \in Kids(path) : \A p \in Position :
          IsInside(tree'[k].box, p) => IsInside(tree[path].box, p)
  BY <1>7 DEF Kids
<1>10. ASSUME NEW n \in DOMAIN tree', n = path, NEW p \in Position
      PROVE  OnSplitLine(n, p)' <=>
                 /\ IsInside(tree[path].box, p)
                 /\ \A k \in Kids(path) : ~IsInside(tree'[k].box, p)
  <2>1. (\A q \in Quadrant : ~IsInside(tree'[Append(path, q)].box, p))
           <=> \A k \in Kids(path) : ~IsInside(tree'[k].box, p)
    BY DEF Kids
  <2>2. QED
    BY <1>1, <1>3, <1>4, <1>10, <2>1 DEF OnSplitLine
<1>11. InScene'
  BY <1>1, <1>4, <1>9 DEF Geometric, InScene
<1>12. LeavesDisjoint'
  <2> SUFFICES ASSUME NEW m \in DOMAIN tree', NEW n \in DOMAIN tree',
                      NEW p \in Position,
                      ~tree'[m].subdivided, IsInside(tree'[m].box, p),
                      ~tree'[n].subdivided, IsInside(tree'[n].box, p)
               PROVE  m = n
    BY DEF LeavesDisjoint
  <2>1. m # path /\ n # path
    BY <1>3
  <2>2. CASE m \in DOMAIN tree /\ n \in DOMAIN tree
    BY <1>4, <2>1, <2>2 DEF Geometric, LeavesDisjoint
  <2>3. CASE m \in Kids(path) /\ n \in Kids(path)
    <3>1. PICK q \in Quadrant : m = Append(path, q)
      BY <2>3 DEF Kids
    <3>2. PICK r \in Quadrant : n = Append(path, r)
      BY <2>3 DEF Kids
    <3>3. q = r
      BY <1>1, <1>2, <3>1, <3>2, SiblingsDisjoint
    <3>4. QED
      BY <3>1, <3>2, <3>3
  <2>4. CASE m \in DOMAIN tree /\ n \in Kids(path)
    <3>1. IsInside(tree[path].box, p)
      BY <1>9, <2>4
    <3>2. m = path
      BY <1>1, <1>4, <2>1, <2>4, <3>1 DEF Geometric, LeavesDisjoint
    <3>3. QED
      BY <2>1, <3>2
  <2>5. CASE m \in Kids(path) /\ n \in DOMAIN tree
    <3>1. IsInside(tree[path].box, p)
      BY <1>9, <2>5
    <3>2. n = path
      BY <1>1, <1>4, <2>1, <2>5, <3>1 DEF Geometric, LeavesDisjoint
    <3>3. QED
      BY <2>1, <3>2
  <2>6. QED
    BY <1>1, <2>2, <2>3, <2>4, <2>5
<1>13. Covered'
  <2> SUFFICES ASSUME NEW p \in Position, IsInside(SceneBounds, p)
               PROVE  \E n \in DOMAIN tree' :
                          \/ ~tree'[n].subdivided /\ IsInside(tree'[n].box, p)
                          \/ OnSplitLine(n, p)'
    BY DEF Covered
  <2>1. PICK n \in DOMAIN tree :
            \/ ~tree[n].subdivided /\ IsInside(tree[n].box, p)
            \/ OnSplitLine(n, p)
    BY DEF Geometric, Covered
  <2>2. CASE n # path
    BY <1>1, <1>4, <1>6, <2>1, <2>2
  <2>3. CASE n = path
    <3>1. IsInside(tree[path].box, p)
      BY <2>1, <2>3 DEF OnSplitLine
    <3>2. CASE \E k \in Kids(path) : IsInside(tree'[k].box, p)
      BY <1>1, <1>8, <3>2
    <3>3. CASE \A k \in Kids(path) : ~IsInside(tree'[k].box, p)
      BY <1>1, <1>10, <2>3, <3>1, <3>3
    <3>4. QED
      BY <3>2, <3>3
  <2>4. QED
    BY <2>2, <2>3
<1>14. LinesOutsideLeaves'
  <2> SUFFICES ASSUME NEW m \in DOMAIN tree', NEW n \in DOMAIN tree',
                      NEW p \in Position,
                      ~tree'[m].subdivided, OnSplitLine(n, p)'
               PROVE  ~IsInside(tree'[m].box, p)
    BY DEF LinesOutsideLeaves
  <2>1. n \in DOMAIN tree /\ m # path
    BY <1>1, <1>3, <1>8 DEF OnSplitLine
  <2>2. CASE m \in DOMAIN tree /\ n # path
    BY <1>4, <1>6, <2>1, <2>2 DEF Geometric, LinesOutsideLeaves
  <2>3. CASE m \in DOMAIN tree /\ n = path
    <3>1. IsInside(tree[path].box, p)
      BY <1>10, <2>3
    <3>2. IsInside(tree[m].box, p) => m = path
      BY <1>1, <1>4, <2>1, <2>3, <3>1 DEF Geometric, LeavesDisjoint
    <3>3. QED
      BY <1>4, <2>1, <2>3, <3>2
  <2>4. CASE m \in Kids(path) /\ n # path
    <3>1. ~IsInside(tree[path].box, p)
      BY <1>1, <1>6, <2>1, <2>4 DEF Geometric, LinesOutsideLeaves
    <3>2. QED
      BY <1>9, <2>4, <3>1
  <2>5. CASE m \in Kids(path) /\ n = path
    BY <1>10, <2>5
  <2>6. QED
    BY <1>1, <2>2, <2>3, <2>4, <2>5
<1>15. QED
  BY <1>11, <1>12, <1>13, <1>14 DEF Geometric

LEMMA NewTreeGeometry ==
    ASSUME tree = NewTree
    PROVE  Geometric
<1>1. /\ DOMAIN tree = {<<>>} /\ tree[<<>>].box = SceneBounds
      /\ ~tree[<<>>].subdivided
  BY NewTreeInv DEF NewNode
<1>2. InScene /\ LeavesDisjoint /\ Covered
  BY <1>1 DEF InScene, LeavesDisjoint, Covered
<1>3. LinesOutsideLeaves
  BY <1>1 DEF LinesOutsideLeaves, OnSplitLine
<1>4. QED
  BY <1>2, <1>3 DEF Geometric

\* The wrap puts a body on the edge: it is no more inside the scene than before.
LEMMA AdjustOutside ==
    ASSUME NEW b \in Box, NEW p \in Position, ~IsInside(b, p)
    PROVE  ~IsInside(b, AdjustPosition(b, p))
<1>1. CASE p = NaN
  BY <1>1 DEF AdjustPosition, IsInside
<1>2. CASE p # NaN
  <2>1. p.x \in Int /\ p.y \in Int
    BY <1>2 DEF Position, Point
  <2>2. b.x0 \in Int /\ b.x1 \in Int /\ b.y0 \in Int /\ b.y1 \in Int
        /\ b.x0 =< b.x1 /\ b.y0 =< b.y1
    BY DEF Box
  <2>3. QED
    BY <1>2, <2>1, <2>2 DEF AdjustPosition, IsInside, Wrap
<1>3. QED
  BY <1>1, <1>2

LEMMA InitGInv == Init => GInv
<1> SUFFICES ASSUME Init PROVE GInv
  OBVIOUS
<1>1. Geometric
  BY NewTreeGeometry DEF Init
<1>2. SeenHeld
  BY DEF Init, SeenHeld, Seen, Body
<1>3. QED
  BY <1>1, <1>2 DEF GInv

LEMMA RefuseGInv == IInv /\ GInv /\ Refuse => GInv'
<1> SUFFICES ASSUME IInv, GInv, Refuse PROVE GInv'
  OBVIOUS
<1>1. /\ tree' = tree /\ call' = "idle" /\ call = "idle" /\ cursor' = cursor + 1
      /\ cursor \in Body /\ tree[<<>>].box = SceneBounds
      /\ position \in [Body -> Position]
  BY DEF Refuse, IInv, CallInv, TypeOK
<1>2. position' = [position EXCEPT ![cursor] = AdjustPosition(SceneBounds, @)]
  BY <1>1 DEF Refuse
<1>3. position'[cursor] \in Position /\ ~IsInside(SceneBounds, position'[cursor])
  BY <1>1, <1>2, SceneAssumption, AdjustType, AdjustOutside DEF Refuse
<1>4. Geometric'
  BY <1>1, SameGeometry DEF GInv
<1>5. SeenHeld'
  <2> SUFFICES ASSUME NEW b \in Body, NEW n \in DOMAIN tree, b < cursor + 1,
                      ~tree[n].subdivided, IsInside(tree[n].box, position'[b])
               PROVE  tree[n].body = b
    BY <1>1 DEF SeenHeld, Seen
  <2>1. b # cursor
    BY <1>3 DEF GInv, Geometric, InScene
  <2>2. position'[b] = position[b] /\ Seen(b)
    BY <1>1, <1>2, <2>1 DEF Seen, Body
  <2>3. QED
    BY <2>2 DEF GInv, SeenHeld
<1>6. QED
  BY <1>4, <1>5 DEF GInv

LEMMA FillGInv == IInv /\ GInv /\ Fill => GInv'
<1> SUFFICES ASSUME IInv, GInv, Fill PROVE GInv'
  OBVIOUS
<1> DEFINE leaf == Filled(tree[path], cursor, position[cursor])
<1>1. /\ cursor \in Body /\ path \in DOMAIN tree /\ call = "insert"
      /\ position[cursor] \in Point /\ IsInside(tree[path].box, position[cursor])
      /\ tree[path] \in Node /\ position' = position
      /\ position \in [Body -> Position]
  BY DEF IInv, Fill, TypeOK, CallInv, IsInside, Position
<1>2. ~tree[path].subdivided /\ tree[path].body = None
  BY <1>1 DEF IInv, Shape, Fill
<1>3. /\ leaf.body = cursor /\ leaf.box = tree[path].box
      /\ leaf.subdivided = tree[path].subdivided
  BY <1>1, FilledType, ZenonT(40)
<1>4. /\ DOMAIN tree' = DOMAIN tree /\ tree'[path] = leaf
      /\ \A n \in DOMAIN tree : n # path => tree'[n] = tree[n]
  BY <1>1 DEF Fill
<1> HIDE DEF leaf
<1>5. \A n \in DOMAIN tree : /\ tree'[n].box = tree[n].box
                             /\ tree'[n].subdivided = tree[n].subdivided
  BY <1>2, <1>3, <1>4
<1>6. Geometric'
  BY <1>4, <1>5, SameGeometry DEF GInv
<1>7. SeenHeld'
  <2> SUFFICES ASSUME NEW b \in Body, NEW n \in DOMAIN tree, Seen(b)',
                      ~tree[n].subdivided, IsInside(tree[n].box, position[b])
               PROVE  tree'[n].body = b
    BY <1>1, <1>4, <1>5 DEF SeenHeld
  <2>1. b \in Int /\ cursor \in Int
    BY <1>1 DEF Body
  <2>2. cursor' = cursor \/ (cursor' = cursor + 1 /\ call' = "idle")
    BY <1>1, ReturnTo DEF Fill
  <2>3. b < cursor \/ b = cursor
    BY <2>1, <2>2 DEF Seen
  <2>4. CASE b < cursor
    <3>1. tree[n].body = b
      BY <2>4 DEF GInv, SeenHeld, Seen
    <3>2. n # path
      BY <1>2, <3>1, NoneAssumption, <2>1
    <3>3. QED
      BY <1>4, <3>1, <3>2
  <2>5. CASE b = cursor
    <3>1. n = path
      BY <1>1, <1>2, <2>5 DEF GInv, Geometric, LeavesDisjoint
    <3>2. QED
      BY <1>3, <1>4, <2>5, <3>1
  <2>6. QED
    BY <2>3, <2>4, <2>5
<1>8. QED
  BY <1>6, <1>7 DEF GInv

LEMMA SubdivideGInv == IInv /\ GInv /\ Subdivide => GInv'
<1> SUFFICES ASSUME IInv, GInv, Subdivide PROVE GInv'
  OBVIOUS
<1>1. Geometric'
  BY SubdivideGeometry DEF GInv
<1>2. /\ path \in DOMAIN tree /\ call = "insert" /\ tree[path] \in Node
      /\ tree[path].box \in Box /\ tree[path].body \in Body
      /\ ~tree[path].subdivided /\ tree'[path].subdivided
      /\ DOMAIN tree' = DOMAIN tree \cup Kids(path)
      /\ position \in [Body -> Position]
  BY SubdivideTree DEF Node
<1>3. position' = position /\ cursor' = cursor /\ call' = call
  BY DEF Subdivide
<1>4. SeenHeld'
  <2> SUFFICES ASSUME NEW b \in Body, NEW n \in DOMAIN tree', Seen(b),
                      ~tree'[n].subdivided, IsInside(tree'[n].box, position[b])
               PROVE  tree'[n].body = b
    BY <1>3 DEF SeenHeld, Seen
  <2>1. CASE n \in DOMAIN tree
    <3>1. n # path
      BY <1>2
    <3>2. tree'[n] = tree[n]
      BY <2>1, <3>1, SubdivideTree
    <3>3. QED
      BY <2>1, <3>2 DEF GInv, SeenHeld
  <2>2. CASE n \in Kids(path)
    <3>1. PICK q \in Quadrant : n = Append(path, q)
      BY <2>2 DEF Kids
    <3>2. tree'[n] = NewChild(tree[path], q)
      BY <3>1, SubdivideTree
    <3>3. tree'[n].box = SubBox(tree[path].box, q)
      BY <1>2, <3>2, NewChildProperties
    <3>4. IsInside(tree[path].box, position[b])
      BY <1>2, <3>3, SubBoxInside
    <3>5. tree[path].body = b
      BY <1>2, <3>4 DEF GInv, SeenHeld
    <3>6. tree'[n].box = NewNode(SubBox(tree[path].box, q)).box
      BY <3>3 DEF NewNode
    <3>7. tree'[n] = Filled(NewNode(SubBox(tree[path].box, q)), b, position[b])
      BY <3>2, <3>5, <3>6 DEF NewChild
    <3>8. QED
      BY <3>7 DEF Filled
  <2>3. QED
    BY <1>2, <2>1, <2>2
<1>5. QED
  BY <1>1, <1>4 DEF GInv

LEMMA DropGInv == IInv /\ GInv /\ Drop => GInv'
<1> SUFFICES ASSUME IInv, GInv, Drop PROVE GInv'
  OBVIOUS
<1>1. /\ tree' = tree /\ position' = position /\ cursor' = cursor
      /\ call = "insert" /\ path \in DOMAIN tree /\ cursor \in Body
      /\ position[cursor] \in Position
  BY DEF Drop, IInv, TypeOK, CallInv
<1>2. Geometric'
  BY <1>1, SameGeometry DEF GInv
<1>3. OnSplitLine(path, position[cursor])
  BY DEF Drop, OnSplitLine, IInv, CallInv
<1>4. \A n \in DOMAIN tree : ~tree[n].subdivided => ~IsInside(tree[n].box, position[cursor])
  BY <1>1, <1>3 DEF GInv, Geometric, LinesOutsideLeaves
<1>5. SeenHeld'
  BY <1>1, <1>4 DEF GInv, SeenHeld, Seen
<1>6. QED
  BY <1>2, <1>5 DEF GInv

LEMMA AggregateGInv == IInv /\ GInv /\ Aggregate => GInv'
<1> SUFFICES ASSUME IInv, GInv, Aggregate PROVE GInv'
  OBVIOUS
<1>1. /\ path \in DOMAIN tree /\ call = "aggregate" /\ cursor \in Body
      /\ tree[path] \in Node /\ position' = position
  BY DEF IInv, TypeOK, CallInv, Aggregate
<1>2. /\ DOMAIN tree' = DOMAIN tree
      /\ \A n \in DOMAIN tree : /\ tree'[n].box = tree[n].box
                                /\ tree'[n].body = tree[n].body
                                /\ tree'[n].subdivided = tree[n].subdivided
  BY <1>1 DEF Aggregate, Node
<1>3. Geometric'
  BY <1>2, SameGeometry DEF GInv
<1>4. \A b \in Body : Seen(b)' => Seen(b)
  <2>1. cursor' = cursor \/ (cursor' = cursor + 1 /\ call' = "idle")
    BY <1>1, ReturnTo DEF Aggregate
  <2>2. QED
    BY <1>1, <2>1 DEF Seen, Body
<1>5. SeenHeld'
  BY <1>1, <1>2, <1>4 DEF GInv, SeenHeld
<1>6. QED
  BY <1>3, <1>5 DEF GInv

LEMMA NextGInv == IInv /\ GInv /\ [Next]_vars => GInv'
<1> SUFFICES ASSUME IInv, GInv, [Next]_vars PROVE GInv'
  OBVIOUS
<1>1. CASE Enter
  BY <1>1, SameGeometry DEF Enter, GInv, SeenHeld, Seen
<1>2. CASE \E q \in Quadrant : Descend(q)
  BY <1>2, SameGeometry DEF Descend, GInv, SeenHeld, Seen
<1>3. CASE Refuse \/ Fill \/ Subdivide \/ Drop \/ Aggregate
  BY <1>3, RefuseGInv, FillGInv, SubdivideGInv, DropGInv, AggregateGInv
<1>4. CASE Reconstruct
  <2>1. tree' = NewTree /\ cursor' = 1 /\ call' = "idle"
    BY <1>4 DEF Reconstruct, Constructed
  <2>2. Geometric'
    BY <2>1, NewTreeInv DEF Geometric, InScene, LeavesDisjoint, Covered,
                            LinesOutsideLeaves, OnSplitLine, NewNode
  <2>3. SeenHeld'
    BY <2>1 DEF SeenHeld, Seen, Body
  <2>4. QED
    BY <2>2, <2>3 DEF GInv
<1>5. CASE UNCHANGED vars
  BY <1>5, SameGeometry DEF vars, GInv, SeenHeld, Seen
<1>6. QED
  BY <1>1, <1>2, <1>3, <1>4, <1>5 DEF Next, Insert

LEMMA GInductive == Spec => []GInv
<1>1. Init => GInv
  BY InitGInv
<1>2. IInv /\ GInv /\ [Next]_vars => GInv'
  BY NextGInv
<1>3. QED
  BY <1>1, <1>2, Inductive, PTL DEF Spec

LEMMA OneLeaf == IInv /\ GInv => OneLeafEach
<1> SUFFICES ASSUME IInv, GInv, NEW m \in DOMAIN tree, NEW n \in DOMAIN tree,
                    NEW b \in Body, Holds(m, b), Holds(n, b)
             PROVE  m = n
  BY DEF OneLeafEach
<1>1. b # None /\ position[b] \in Position
  BY NoneAssumption DEF IInv, TypeOK, Body
<1>2. IsInside(tree[m].box, position[b]) /\ IsInside(tree[n].box, position[b])
  BY <1>1 DEF IInv, BodiesInTheirBox, Holds
<1>3. QED
  BY <1>1, <1>2 DEF GInv, Geometric, LeavesDisjoint, Holds

\* Pushing a body down never leaves it in two leaves.
THEOREM OneLeafCorrect == Spec => []OneLeafEach
  BY OneLeaf, Inductive, GInductive, PTL

LEMMA HeldFromInv == IInv /\ GInv => HeldExactly
<1> SUFFICES ASSUME IInv, GInv, NEW b \in Body, b < cursor
             PROVE  Held(b) <=> /\ IsInside(SceneBounds, position[b])
                                /\ \A n \in DOMAIN tree : ~OnSplitLine(n, position[b])
  BY DEF HeldExactly
<1>1. b # None /\ position[b] \in Position
  BY NoneAssumption DEF IInv, TypeOK, Body
<1>2. ASSUME NEW m \in DOMAIN tree, Holds(m, b)
      PROVE  /\ IsInside(SceneBounds, position[b])
             /\ \A n \in DOMAIN tree : ~OnSplitLine(n, position[b])
  <2>1. IsInside(tree[m].box, position[b])
    BY <1>1, <1>2 DEF IInv, BodiesInTheirBox, Holds
  <2>2. QED
    BY <1>1, <1>2, <2>1 DEF GInv, Geometric, InScene, LinesOutsideLeaves, Holds
<1>3. ASSUME IsInside(SceneBounds, position[b]),
             \A n \in DOMAIN tree : ~OnSplitLine(n, position[b])
      PROVE  Held(b)
  <2>1. PICK n \in DOMAIN tree :
            ~tree[n].subdivided /\ IsInside(tree[n].box, position[b])
    BY <1>1, <1>3 DEF GInv, Geometric, Covered
  <2>2. tree[n].body = b
    BY <2>1 DEF GInv, SeenHeld, Seen
  <2>3. QED
    BY <2>1, <2>2 DEF Held, Holds
<1>4. QED
  BY <1>2, <1>3 DEF Held

\* Insert loses exactly the bodies that are not strictly inside the scene and
\* those that a subdivided node has between its children: every other body is in
\* the tree once its Insert is over, and stays there while later bodies come.
THEOREM LossCorrect == Spec => []HeldExactly
  BY HeldFromInv, Inductive, GInductive, PTL

-----------------------------------------------------------------------------
(* The sums.  The nodes whose sums may be out of date are the prefixes of  *)
(* the path of the active Insert.                                          *)

Prefix(m, n) == Len(m) =< Len(n) /\ SubSeq(n, 1, Len(m)) = m

LEMMA PrefixFacts ==
    ASSUME NEW m \in Path, NEW n \in Path
    PROVE  /\ Prefix(n, n)
           /\ Prefix(m, <<>>) => m = <<>>
           /\ \A q \in Quadrant : Prefix(m, n) => Prefix(m, Append(n, q))
           /\ n # <<>> /\ m # n /\ Prefix(m, n) => Prefix(m, Parent(n))
<1>1. /\ m \in Seq(Quadrant) /\ n \in Seq(Quadrant)
      /\ Len(m) \in Nat /\ Len(n) \in Nat
  BY LenProperties DEF Path
<1>2. Prefix(n, n)
  BY <1>1, SubSeqFull DEF Prefix
<1>3. Prefix(m, <<>>) => m = <<>>
  BY <1>1, EmptySeq DEF Prefix
\* The elements of a prefix.
<1>4. ASSUME NEW k \in Path
      PROVE  Prefix(m, k) <=> /\ Len(m) =< Len(k)
                              /\ \A i \in 1 .. Len(m) : k[i] = m[i]
  <2>1. k \in Seq(Quadrant) /\ Len(k) \in Nat
    BY <1>4, LenProperties DEF Path
  <2>2. CASE Len(m) =< Len(k)
    <3>1. \A i \in 1 .. Len(m) : k[i] \in Quadrant
      BY <1>1, <2>1, <2>2, ElementOfSeq
    <3>2. /\ SubSeq(k, 1, Len(m)) \in Seq(Quadrant)
          /\ Len(SubSeq(k, 1, Len(m))) = IF 1 =< Len(m) THEN Len(m) - 1 + 1 ELSE 0
          /\ \A i \in 1 .. Len(m) - 1 + 1 : SubSeq(k, 1, Len(m))[i] = k[1 + i - 1]
      BY <1>1, <3>1, SubSeqProperties
    <3>3. /\ Len(SubSeq(k, 1, Len(m))) = Len(m)
          /\ \A i \in 1 .. Len(m) : SubSeq(k, 1, Len(m))[i] = k[i]
      BY <1>1, <3>2
    <3>4. (\A i \in 1 .. Len(m) : k[i] = m[i]) => SubSeq(k, 1, Len(m)) = m
      BY <1>1, <3>2, <3>3, SeqEqual
    <3>5. QED
      BY <2>2, <3>3, <3>4 DEF Prefix
  <2>3. CASE ~(Len(m) =< Len(k))
    BY <2>3 DEF Prefix
  <2>4. QED
    BY <2>2, <2>3
<1>5. ASSUME NEW q \in Quadrant, Prefix(m, n)
      PROVE  Prefix(m, Append(n, q))
  <2> DEFINE a == Append(n, q)
  <2>1. a \in Path /\ Len(a) = Len(n) + 1 /\ \A i \in 1 .. Len(n) : a[i] = n[i]
    BY <1>1, AppendProperties DEF Path
  <2> HIDE DEF a
  <2>2. Len(m) =< Len(n) /\ \A i \in 1 .. Len(m) : n[i] = m[i]
    BY <1>4, <1>5
  <2>3. Len(m) =< Len(a) /\ \A i \in 1 .. Len(m) : a[i] = m[i]
    BY <1>1, <2>1, <2>2
  <2>4. Prefix(m, a)
    BY <1>4, <2>1, <2>3
  <2>5. QED
    BY <2>4 DEF a
<1>6. ASSUME n # <<>>, m # n, Prefix(m, n)
      PROVE  Prefix(m, Parent(n))
  <2>1. PICK k \in Path, q \in Quadrant : n = Append(k, q)
    BY <1>6, ParentPath
  <2>2. Parent(n) = k /\ Len(n) = Len(k) + 1 /\ Len(k) \in Nat
        /\ \A i \in 1 .. Len(k) : n[i] = k[i]
    BY <2>1, AppendPath, AppendProperties, LenProperties DEF Path
  <2>3. Len(m) =< Len(n) /\ \A i \in 1 .. Len(m) : n[i] = m[i]
    BY <1>4, <1>6
  <2>4. Len(m) # Len(n)
    BY <1>1, <1>6, <2>3, SeqEqual
  <2>5. Len(m) =< Len(k) /\ \A i \in 1 .. Len(m) : k[i] = m[i]
    BY <1>1, <2>2, <2>3, <2>4
  <2>6. QED
    BY <1>4, <2>2, <2>5
<1>7. QED
  BY <1>2, <1>3, <1>5, <1>6

\* The sums of n only read its children.
LEMMA SumsLocal ==
    ASSUME NEW n \in Path,
           \A q \in Quadrant :
               /\ tree'[Append(n, q)].body = tree[Append(n, q)].body
               /\ tree'[Append(n, q)].mass = tree[Append(n, q)].mass
               /\ tree'[Append(n, q)].centre = tree[Append(n, q)].centre
    PROVE  TempMass(n)' = TempMass(n) /\ MeanCentre(n)' = MeanCentre(n)
<1>1. \A q \in {0, 1, 2, 3} :
          /\ Counted(n, q)' = Counted(n, q)
          /\ tree'[Append(n, q)].mass = tree[Append(n, q)].mass
          /\ tree'[Append(n, q)].centre = tree[Append(n, q)].centre
  BY DEF Counted, Quadrant
<1>2. TempMass(n)' = TempMass(n)
  BY <1>1 DEF TempMass
<1>3. Size(n)' = Size(n)
  BY <1>1 DEF Size
<1>4. QED
  BY <1>1, <1>2, <1>3 DEF MeanCentre

Fresh(n) == tree[n].mass = TempMass(n) /\ tree[n].centre = MeanCentre(n)

\* A step that leaves a node, its children and its place off the active path as
\* they are leaves its sums fresh.
LEMMA StaysFresh ==
    ASSUME IInv, SumsFresh, NEW n \in DOMAIN tree,
           tree[n].subdivided, ~Active(n),
           tree'[n].mass = tree[n].mass, tree'[n].centre = tree[n].centre,
           \A q \in Quadrant :
               /\ tree'[Append(n, q)].body = tree[Append(n, q)].body
               /\ tree'[Append(n, q)].mass = tree[Append(n, q)].mass
               /\ tree'[Append(n, q)].centre = tree[Append(n, q)].centre
    PROVE  Fresh(n)'
<1>1. n \in Path
  BY DEF IInv, TypeOK
<1>2. tree[n].mass = TempMass(n) /\ tree[n].centre = MeanCentre(n)
  BY DEF SumsFresh
<1>3. TempMass(n)' = TempMass(n) /\ MeanCentre(n)' = MeanCentre(n)
  BY <1>1, SumsLocal
<1>4. QED
  BY <1>2, <1>3 DEF Fresh

LEMMA FillFresh == IInv /\ SumsFresh /\ Fill => SumsFresh'
<1> SUFFICES ASSUME IInv, SumsFresh, Fill PROVE SumsFresh'
  OBVIOUS
<1>1. /\ path \in DOMAIN tree /\ path \in Path /\ call = "insert"
      /\ DOMAIN tree \subseteq Path /\ cursor \in Body
      /\ position[cursor] \in Point /\ tree[path] \in Node
  BY DEF IInv, Fill, TypeOK, CallInv, IsInside, Position
<1>2. ~tree[path].subdivided
  BY <1>1 DEF IInv, Shape, Fill
<1>3. /\ DOMAIN tree' = DOMAIN tree
      /\ \A n \in DOMAIN tree : n # path => tree'[n] = tree[n]
      /\ tree'[path] = Filled(tree[path], cursor, position[cursor])
  BY <1>1 DEF Fill
<1>4. tree'[path].subdivided = tree[path].subdivided
  BY <1>3 DEF Filled
<1> SUFFICES ASSUME NEW n \in DOMAIN tree, tree'[n].subdivided, ~Active(n)'
             PROVE  Fresh(n)'
  BY <1>3 DEF SumsFresh, Fresh
<1>5. n # path /\ tree[n].subdivided /\ n \in Path
  BY <1>1, <1>2, <1>3, <1>4
<1>6. \A q \in Quadrant : Append(n, q) \in DOMAIN tree
  BY <1>5 DEF IInv, Shape
\* A prefix of the path is either the filled leaf or a caller that is now active.
<1>7. ~Active(n) /\ \A q \in Quadrant : Append(n, q) # path
  <2>1. CASE path = <<>>
    <3>1. Prefix(n, path) => n = path
      BY <1>1, <1>5, <2>1, PrefixFacts
    <3>2. \A q \in Quadrant : Append(n, q) # <<>>
      BY <1>5, AppendPath
    <3>3. QED
      BY <1>5, <2>1, <3>1, <3>2 DEF Active, Prefix
  <2>2. CASE path # <<>>
    <3>1. path' = Parent(path) /\ call' = "aggregate"
      BY <2>2 DEF Fill, Return
    <3>2. ~Prefix(n, Parent(path))
      BY <3>1 DEF Active, Prefix
    <3>3. ~Prefix(n, path)
      BY <1>1, <1>5, <2>2, <3>2, PrefixFacts
    <3>4. \A q \in Quadrant : Append(n, q) # path
      <4>1. \A q \in Quadrant : Parent(Append(n, q)) = n
        BY <1>5, AppendPath
      <4>2. Prefix(n, n)
        BY <1>5, PrefixFacts
      <4>3. QED
        BY <3>2, <4>1, <4>2
    <3>5. QED
      BY <3>3, <3>4 DEF Active, Prefix
  <2>3. QED
    BY <2>1, <2>2
<1>8. QED
  BY <1>3, <1>5, <1>6, <1>7, StaysFresh

LEMMA SubdivideFresh == IInv /\ SumsFresh /\ Subdivide => SumsFresh'
<1> SUFFICES ASSUME IInv, SumsFresh, Subdivide PROVE SumsFresh'
  OBVIOUS
<1>1. /\ path \in DOMAIN tree /\ path \in Path /\ DOMAIN tree \subseteq Path
      /\ DOMAIN tree' = DOMAIN tree \cup Kids(path) /\ call = "insert"
  BY SubdivideTree
<1>2. path' = path /\ call' = call
  BY DEF Subdivide
<1>3. \A k \in Kids(path) : ~tree'[k].subdivided
  <2>1. \A q \in Quadrant : ~tree'[Append(path, q)].subdivided
    BY SubdivideTree, NewChildProperties
  <2>2. QED
    BY <2>1 DEF Kids
<1> SUFFICES ASSUME NEW n \in DOMAIN tree', tree'[n].subdivided, ~Active(n)'
             PROVE  Fresh(n)'
  BY DEF SumsFresh, Fresh
<1>4. n \in DOMAIN tree /\ ~Active(n)
  BY <1>1, <1>2, <1>3 DEF Active
<1>5. Active(path)
  BY <1>1, PrefixFacts DEF Active, Prefix
<1>6. n # path
  BY <1>4, <1>5
<1>7. tree[n].subdivided
  BY <1>4, <1>6, SubdivideTree
<1>8. \A q \in Quadrant : Append(n, q) \in DOMAIN tree
  BY <1>4, <1>7 DEF IInv, Shape
<1>9. QED
  BY <1>4, <1>7, <1>8, SubdivideTree, StaysFresh

LEMMA AggregateFresh == IInv /\ SumsFresh /\ Aggregate => SumsFresh'
<1> SUFFICES ASSUME IInv, SumsFresh, Aggregate PROVE SumsFresh'
  OBVIOUS
<1>1. /\ path \in DOMAIN tree /\ path \in Path /\ DOMAIN tree \subseteq Path
      /\ call = "aggregate" /\ tree[path] \in Node /\ tree[path].subdivided
  BY DEF IInv, TypeOK, CallInv, Aggregate
<1>2. /\ DOMAIN tree' = DOMAIN tree
      /\ tree'[path].mass = TempMass(path) /\ tree'[path].centre = MeanCentre(path)
      /\ \A n \in DOMAIN tree : /\ n # path => tree'[n] = tree[n]
                                /\ tree'[n].body = tree[n].body
                                /\ tree'[n].subdivided = tree[n].subdivided
  BY <1>1 DEF Aggregate, Node
<1> SUFFICES ASSUME NEW n \in DOMAIN tree, tree'[n].subdivided, ~Active(n)'
             PROVE  Fresh(n)'
  BY <1>2 DEF SumsFresh, Fresh
<1>3. tree[n].subdivided /\ n \in Path
  BY <1>1, <1>2
<1>4. \A q \in Quadrant : Append(n, q) \in DOMAIN tree /\ Append(n, q) # n
  BY <1>3, AppendPath DEF IInv, Shape
<1>5. CASE n = path
  <2>1. \A q \in Quadrant :
            /\ tree'[Append(n, q)].body = tree[Append(n, q)].body
            /\ tree'[Append(n, q)].mass = tree[Append(n, q)].mass
            /\ tree'[Append(n, q)].centre = tree[Append(n, q)].centre
    BY <1>2, <1>4, <1>5
  <2>2. TempMass(n)' = TempMass(n) /\ MeanCentre(n)' = MeanCentre(n)
    BY <1>3, <2>1, SumsLocal
  <2>3. QED
    BY <1>2, <1>5, <2>2 DEF Fresh
<1>6. CASE n # path
  <2>1. ~Active(n) /\ \A q \in Quadrant : Append(n, q) # path
    <3>1. CASE path = <<>>
      <4>1. Prefix(n, path) => n = path
        BY <1>1, <1>3, <3>1, PrefixFacts
      <4>2. \A q \in Quadrant : Append(n, q) # <<>>
        BY <1>3, AppendPath
      <4>3. QED
        BY <1>6, <3>1, <4>1, <4>2 DEF Active, Prefix
    <3>2. CASE path # <<>>
      <4>1. path' = Parent(path) /\ call' = "aggregate"
        BY <3>2 DEF Aggregate, Return
      <4>2. ~Prefix(n, Parent(path))
        BY <4>1 DEF Active, Prefix
      <4>3. ~Prefix(n, path)
        BY <1>1, <1>3, <1>6, <3>2, <4>2, PrefixFacts
      <4>4. \A q \in Quadrant : Parent(Append(n, q)) = n
        BY <1>3, AppendPath
      <4>5. Prefix(n, n)
        BY <1>3, PrefixFacts
      <4>6. QED
        BY <4>2, <4>3, <4>4, <4>5 DEF Active, Prefix
    <3>3. QED
      BY <3>1, <3>2
  <2>2. QED
    BY <1>2, <1>3, <1>4, <1>6, <2>1, StaysFresh
<1>7. QED
  BY <1>5, <1>6

\* An action that leaves the tree alone and only adds nodes to the active path.
LEMMA SameTreeFresh ==
    ASSUME SumsFresh, tree' = tree,
           \A n \in DOMAIN tree : Active(n) => Active(n)'
    PROVE  SumsFresh'
<1> SUFFICES ASSUME NEW n \in DOMAIN tree, tree[n].subdivided, ~Active(n)'
             PROVE  Fresh(n)'
  BY DEF SumsFresh, Fresh
<1>1. tree[n].mass = TempMass(n) /\ tree[n].centre = MeanCentre(n)
  BY DEF SumsFresh
<1>2. TempMass(n)' = TempMass(n) /\ MeanCentre(n)' = MeanCentre(n)
  BY DEF TempMass, MeanCentre, Size, Counted
<1>3. QED
  BY <1>1, <1>2 DEF Fresh

LEMMA NextFresh == IInv /\ SumsFresh /\ [Next]_vars => SumsFresh'
<1> SUFFICES ASSUME IInv, SumsFresh, [Next]_vars PROVE SumsFresh'
  OBVIOUS
<1>1. CASE Refuse \/ Enter \/ Drop \/ UNCHANGED vars
  <2>1. tree' = tree /\ \A n \in DOMAIN tree : Active(n) => Active(n)'
    BY <1>1 DEF Refuse, Enter, Drop, vars, Active
  <2>2. QED
    BY <2>1, SameTreeFresh
<1>2. ASSUME NEW q \in Quadrant, Descend(q)
      PROVE  SumsFresh'
  <2>1. path \in Path /\ DOMAIN tree \subseteq Path
    BY DEF IInv, TypeOK
  <2>2. \A n \in DOMAIN tree : Prefix(n, path) => Prefix(n, Append(path, q))
    BY <2>1, PrefixFacts
  <2>3. tree' = tree /\ \A n \in DOMAIN tree : Active(n) => Active(n)'
    BY <1>2, <2>2 DEF Descend, Active, Prefix
  <2>4. QED
    BY <2>3, SameTreeFresh
<1>3. CASE Fill \/ Subdivide \/ Aggregate
  BY <1>3, FillFresh, SubdivideFresh, AggregateFresh
<1>4. CASE Reconstruct
  <2>1. tree' = NewTree
    BY <1>4 DEF Reconstruct
  <2>2. \A n \in DOMAIN tree' : ~tree'[n].subdivided
    BY <2>1, NewTreeInv DEF NewNode
  <2>3. QED
    BY <2>2 DEF SumsFresh
<1>5. QED
  BY <1>1, <1>2, <1>3, <1>4 DEF Next, Insert

\* Between two Inserts the mass and the centre of every subdivided node are the
\* sums of its children's, however deep the last Insert went and wherever it
\* lost a body on its way.
THEOREM SumsCorrect == Spec => []SumsFresh
<1>1. Init => SumsFresh
  <2>1. Init => \A n \in DOMAIN tree : ~tree[n].subdivided
    BY NewTreeInv DEF Init, NewNode
  <2>2. QED
    BY <2>1 DEF SumsFresh
<1>2. IInv /\ SumsFresh /\ [Next]_vars => SumsFresh'
  BY NextFresh
<1>3. QED
  BY <1>1, <1>2, Inductive, PTL DEF Spec

-----------------------------------------------------------------------------
(* The centres.  A sum of k centres inside a box lies inside k times the   *)
(* box; the quotient is inside the box.  All is multiplied out, with the   *)
(* denominators, which are positive unless the centre is NaN.              *)

\* In one axis: a sum of quotients x / d and y / e.
LEMMA Bounded ==
    ASSUME NEW lo \in Int, NEW hi \in Int, NEW x \in Int, NEW y \in Int,
           NEW d \in Nat \ {0}, NEW e \in Nat \ {0}, NEW k \in Nat, NEW m \in Nat,
           IF k = 0 THEN x = 0 ELSE lo * k * d < x /\ x < hi * k * d,
           IF m = 0 THEN y = 0 ELSE lo * m * e < y /\ y < hi * m * e
    PROVE  IF k + m = 0 THEN x * e + y * d = 0
           ELSE /\ lo * (k + m) * (d * e) < x * e + y * d
                /\ x * e + y * d < hi * (k + m) * (d * e)
<1>1. \A a, b \in Int : \A f \in Nat \ {0} : a < b => a * f < b * f
  OBVIOUS
<1>2. \A v \in Int : v * (k + m) * (d * e) = (v * k * d) * e + (v * m * e) * d
  OBVIOUS
<1>3. CASE k = 0 /\ m = 0
  BY <1>3
<1>4. CASE k = 0 /\ m # 0
  BY <1>1, <1>2, <1>4
<1>5. CASE k # 0 /\ m = 0
  BY <1>1, <1>2, <1>5
<1>6. CASE k # 0 /\ m # 0
  BY <1>1, <1>2, <1>6
<1>7. QED
  BY <1>3, <1>4, <1>5, <1>6

\* The centre c is a sum of k centres inside the box b, or NaN.
Sums(c, k, b) == c.den > 0 =>
    /\ IF k = 0 THEN c.x = 0 ELSE b.x0 * k * c.den < c.x /\ c.x < b.x1 * k * c.den
    /\ IF k = 0 THEN c.y = 0 ELSE b.y0 * k * c.den < c.y /\ c.y < b.y1 * k * c.den

LEMMA PlusSums ==
    ASSUME NEW b \in Box, NEW c \in Centre, NEW d \in Centre, NEW k \in Nat, NEW m \in Nat,
           c.den >= 0, d.den >= 0, Sums(c, k, b), Sums(d, m, b)
    PROVE  Plus(c, d) \in Centre /\ Plus(c, d).den >= 0 /\ Sums(Plus(c, d), k + m, b)
<1>1. /\ c.x \in Int /\ c.y \in Int /\ c.den \in Int /\ d.x \in Int /\ d.y \in Int /\ d.den \in Int
      /\ b.x0 \in Int /\ b.x1 \in Int /\ b.y0 \in Int /\ b.y1 \in Int
  BY DEF Centre, Box
<1>2. /\ Plus(c, d).x = c.x * d.den + d.x * c.den
      /\ Plus(c, d).y = c.y * d.den + d.y * c.den
      /\ Plus(c, d).den = c.den * d.den
  BY DEF Plus
<1>3. Plus(c, d).den >= 0 /\ (Plus(c, d).den > 0 => c.den > 0 /\ d.den > 0)
  BY <1>1, <1>2
<1>4. ASSUME c.den > 0, d.den > 0
      PROVE  Sums(Plus(c, d), k + m, b)
  <2>1. c.den \in Nat \ {0} /\ d.den \in Nat \ {0}
    BY <1>1, <1>4
  <2>2. /\ IF k = 0 THEN c.x = 0 ELSE b.x0 * k * c.den < c.x /\ c.x < b.x1 * k * c.den
        /\ IF m = 0 THEN d.x = 0 ELSE b.x0 * m * d.den < d.x /\ d.x < b.x1 * m * d.den
        /\ IF k = 0 THEN c.y = 0 ELSE b.y0 * k * c.den < c.y /\ c.y < b.y1 * k * c.den
        /\ IF m = 0 THEN d.y = 0 ELSE b.y0 * m * d.den < d.y /\ d.y < b.y1 * m * d.den
    BY <1>4 DEF Sums
  <2>3. IF k + m = 0 THEN Plus(c, d).x = 0
        ELSE /\ b.x0 * (k + m) * (Plus(c, d).den) < Plus(c, d).x
             /\ Plus(c, d).x < b.x1 * (k + m) * (Plus(c, d).den)
    <3>1. IF k + m = 0 THEN c.x * d.den + d.x * c.den = 0
          ELSE /\ b.x0 * (k + m) * (c.den * d.den) < c.x * d.den + d.x * c.den
               /\ c.x * d.den + d.x * c.den < b.x1 * (k + m) * (c.den * d.den)
      BY <1>1, <2>1, <2>2, Bounded, ZenonT(30)
    <3>2. QED
      BY <1>2, <3>1, ZenonT(30)
  <2>4. IF k + m = 0 THEN Plus(c, d).y = 0
        ELSE /\ b.y0 * (k + m) * (Plus(c, d).den) < Plus(c, d).y
             /\ Plus(c, d).y < b.y1 * (k + m) * (Plus(c, d).den)
    <3>1. IF k + m = 0 THEN c.y * d.den + d.y * c.den = 0
          ELSE /\ b.y0 * (k + m) * (c.den * d.den) < c.y * d.den + d.y * c.den
               /\ c.y * d.den + d.y * c.den < b.y1 * (k + m) * (c.den * d.den)
      BY <1>1, <2>1, <2>2, Bounded, ZenonT(30)
    <3>2. QED
      BY <1>2, <3>1, ZenonT(30)
  <2>5. QED
    BY <2>3, <2>4 DEF Sums
<1>5. QED
  BY <1>3, <1>4, PlusType DEF Sums

Inside(c, b) ==
    /\ b.x0 * c.den < c.x /\ c.x < b.x1 * c.den
    /\ b.y0 * c.den < c.y /\ c.y < b.y1 * c.den

CInv == \A n \in DOMAIN tree :
    /\ tree[n].centre.den >= 0
    /\ tree[n].body # None /\ tree[n].centre.den > 0 => Inside(tree[n].centre, tree[n].box)

LEMMA OverSums ==
    ASSUME NEW b \in Box, NEW c \in Centre, NEW k \in Nat, c.den >= 0, Sums(c, k, b)
    PROVE  /\ Over(c, k).den >= 0
           /\ Over(c, k).den > 0 => Inside(Over(c, k), b)
<1>1. /\ c.x \in Int /\ c.y \in Int /\ c.den \in Int
      /\ b.x0 \in Int /\ b.x1 \in Int /\ b.y0 \in Int /\ b.y1 \in Int
  BY DEF Centre, Box
<1>2. Over(c, k).x = c.x /\ Over(c, k).y = c.y /\ Over(c, k).den = c.den * k
  BY DEF Over, Centre
<1>3. Over(c, k).den >= 0 /\ (Over(c, k).den > 0 => c.den > 0 /\ k > 0)
  BY <1>1, <1>2
<1>4. \A v \in Int : v * (c.den * k) = v * k * c.den
  BY <1>1
<1>5. ASSUME c.den > 0, k > 0 PROVE Inside(Over(c, k), b)
  <2>1. /\ b.x0 * k * c.den < c.x /\ c.x < b.x1 * k * c.den
        /\ b.y0 * k * c.den < c.y /\ c.y < b.y1 * k * c.den
    BY <1>5 DEF Sums
  <2>2. QED
    BY <1>1, <1>2, <1>4, <2>1 DEF Inside
<1>6. QED
  BY <1>3, <1>5

\* In one axis: what is inside an interval is inside a wider one.
LEMMA Wider ==
    ASSUME NEW lo \in Int, NEW lo2 \in Int, NEW hi2 \in Int, NEW hi \in Int,
           NEW d \in Nat \ {0}, NEW x \in Int,
           lo =< lo2, hi2 =< hi, lo2 * d < x, x < hi2 * d
    PROVE  lo * d < x /\ x < hi * d
<1>1. \A v, w \in Int : v =< w => v * d =< w * d
  OBVIOUS
<1>2. lo * d =< lo2 * d /\ hi2 * d =< hi * d
  BY <1>1
<1>3. lo * d \in Int /\ lo2 * d \in Int /\ hi * d \in Int /\ hi2 * d \in Int
  OBVIOUS
<1>4. QED
  BY <1>2, <1>3

\* A child with a body has its centre inside the box of the parent too.
LEMMA KidSums ==
    ASSUME IInv, CInv, NEW n \in DOMAIN tree, tree[n].subdivided, NEW q \in Quadrant
    PROVE  LET c == IF Counted(n, q) THEN tree[Append(n, q)].centre ELSE NoShift
           IN  /\ c \in Centre /\ c.den >= 0
               /\ Sums(c, IF Counted(n, q) THEN 1 ELSE 0, tree[n].box)
<1> DEFINE a == Append(n, q)
           b == tree[n].box
<1>1. a \in DOMAIN tree /\ tree[a].box = SubBox(b, q)
  BY DEF IInv, Shape
<1>2. b \in Box /\ tree[a].centre \in Centre /\ tree[a].centre.den >= 0
  BY <1>1 DEF IInv, TypeOK, Node, CInv
<1> HIDE DEF a, b
<1>3. CASE Counted(n, q)
  <2> DEFINE c == tree[a].centre
             s == SubBox(b, q)
  <2>1. c.den > 0 => Inside(c, s)
    BY <1>1, <1>3 DEF CInv, Counted, a
  <2>2. c.x \in Int /\ c.y \in Int /\ c.den \in Int /\ c.den >= 0
    BY <1>2 DEF Centre
  <2>3. /\ b.x0 \in Int /\ b.x1 \in Int /\ b.y0 \in Int /\ b.y1 \in Int
        /\ s.x0 \in Int /\ s.x1 \in Int /\ s.y0 \in Int /\ s.y1 \in Int
    BY <1>2, SubBoxType DEF Box
  <2>4. b.x0 =< s.x0 /\ s.x1 =< b.x1 /\ b.y0 =< s.y0 /\ s.y1 =< b.y1
    <3> DEFINE ex == Extent(b.x0, b.x1)
               ey == Extent(b.y0, b.y1)
    <3>1. /\ ex \in Int /\ ey \in Int /\ ex >= 0 /\ ey >= 0
          /\ b.x0 + ex + ex =< b.x1 /\ b.y0 + ey + ey =< b.y1
      BY <1>2, <2>3 DEF Box, Extent
    <3> HIDE DEF ex, ey
    <3>2. QED
      BY <2>3, <3>1 DEF SubBox, Middle, ex, ey
  <2> HIDE DEF c, s
  <2>5. ASSUME c.den > 0 PROVE Inside(c, b)
    <3>1. /\ s.x0 * c.den < c.x /\ c.x < s.x1 * c.den
          /\ s.y0 * c.den < c.y /\ c.y < s.y1 * c.den
      BY <2>1, <2>5 DEF Inside
    <3>2. c.den \in Nat \ {0}
      BY <2>2, <2>5
    <3>3. b.x0 * c.den < c.x /\ c.x < b.x1 * c.den
      BY <2>2, <2>3, <2>4, <3>1, <3>2, Wider, ZenonT(30)
    <3>4. b.y0 * c.den < c.y /\ c.y < b.y1 * c.den
      BY <2>2, <2>3, <2>4, <3>1, <3>2, Wider, ZenonT(30)
    <3>5. QED
      BY <3>3, <3>4 DEF Inside
  <2>6. Sums(c, 1, b)
    BY <2>2, <2>3, <2>5 DEF Sums, Inside
  <2>7. QED
    BY <1>2, <1>3, <2>6 DEF a, b, c
<1>4. CASE ~Counted(n, q)
  BY <1>4 DEF NoShift, Centre, Sums
<1>5. QED
  BY <1>3, <1>4

LEMMA MeanInside ==
    ASSUME IInv, CInv, NEW n \in DOMAIN tree, tree[n].subdivided
    PROVE  /\ MeanCentre(n).den >= 0
           /\ MeanCentre(n).den > 0 => Inside(MeanCentre(n), tree[n].box)
<1> DEFINE part(q) == IF Counted(n, q) THEN tree[Append(n, q)].centre ELSE NoShift
           one(q) == IF Counted(n, q) THEN 1 ELSE 0
           b == tree[n].box
<1>1. b \in Box
  BY DEF IInv, TypeOK, Node
<1>2. \A q \in Quadrant : part(q) \in Centre /\ part(q).den >= 0 /\ Sums(part(q), one(q), b)
  BY KidSums
<1>3. \A q \in Quadrant : one(q) \in Nat
  OBVIOUS
<1>4. MeanCentre(n) = Over(Plus(Plus(part(0), part(1)), Plus(part(2), part(3))), Size(n))
  BY DEF MeanCentre
<1>5. Size(n) = one(0) + one(1) + one(2) + one(3)
  BY DEF Size
<1> HIDE DEF part, one, b
<1>6. \A q \in {0, 1, 2, 3} : /\ part(q) \in Centre /\ part(q).den >= 0
                              /\ Sums(part(q), one(q), b) /\ one(q) \in Nat
  BY <1>2, <1>3 DEF Quadrant
<1> DEFINE left == Plus(part(0), part(1))
           right == Plus(part(2), part(3))
<1>7. left \in Centre /\ left.den >= 0 /\ Sums(left, one(0) + one(1), b)
  BY <1>1, <1>6, PlusSums
<1>8. right \in Centre /\ right.den >= 0 /\ Sums(right, one(2) + one(3), b)
  BY <1>1, <1>6, PlusSums
<1> DEFINE k == one(0) + one(1)
           m == one(2) + one(3)
<1>9. k \in Nat /\ m \in Nat /\ k + m = Size(n)
  BY <1>5, <1>6
<1> HIDE DEF left, right, k, m
<1>10. /\ Plus(left, right) \in Centre /\ Plus(left, right).den >= 0
       /\ Sums(Plus(left, right), k + m, b)
  <2>1. Sums(left, k, b) /\ Sums(right, m, b)
    BY <1>7, <1>8 DEF k, m
  <2>2. QED
    BY <1>1, <1>7, <1>8, <1>9, <2>1, PlusSums
<1>11. Sums(Plus(left, right), Size(n), b) /\ Size(n) \in Nat
  BY <1>9, <1>10
<1>12. /\ Over(Plus(left, right), Size(n)).den >= 0
       /\ Over(Plus(left, right), Size(n)).den > 0 => Inside(Over(Plus(left, right), Size(n)), b)
  BY <1>1, <1>10, <1>11, OverSums
<1>13. QED
  BY <1>4, <1>12 DEF left, right, b

\* A leaf's centre is where its body was when it came.
LEMMA FilledInside ==
    ASSUME NEW node \in Node, NEW b \in Body, NEW p \in Point, IsInside(node.box, p)
    PROVE  Filled(node, b, p).centre.den >= 0 /\ Inside(Filled(node, b, p).centre, node.box)
<1>1. Filled(node, b, p).centre = [x |-> p.x, y |-> p.y, den |-> 1]
  BY DEF Filled, AtPoint
<1>2. /\ node.box.x0 \in Int /\ node.box.x1 \in Int /\ node.box.y0 \in Int /\ node.box.y1 \in Int
      /\ p.x \in Int /\ p.y \in Int
  BY DEF Node, Box, Point
<1>3. QED
  BY <1>1, <1>2 DEF Inside, IsInside

LEMMA FillCInv == IInv /\ CInv /\ Fill => CInv'
<1> SUFFICES ASSUME IInv, CInv, Fill PROVE CInv'
  OBVIOUS
<1>1. /\ path \in DOMAIN tree /\ cursor \in Body /\ tree[path] \in Node
      /\ position[cursor] \in Point /\ IsInside(tree[path].box, position[cursor])
  BY DEF IInv, Fill, TypeOK, CallInv, IsInside, Position
<1>2. /\ DOMAIN tree' = DOMAIN tree
      /\ \A n \in DOMAIN tree : n # path => tree'[n] = tree[n]
      /\ tree'[path] = Filled(tree[path], cursor, position[cursor])
  BY <1>1 DEF Fill
<1>3. /\ tree'[path].centre.den >= 0
      /\ Inside(tree'[path].centre, tree'[path].box)
  <2>1. /\ tree'[path].centre.den >= 0
        /\ Inside(tree'[path].centre, tree[path].box)
    BY <1>1, <1>2, FilledInside, ZenonT(30)
  <2>2. tree'[path].box = tree[path].box
    BY <1>2 DEF Filled
  <2>3. QED
    BY <2>1, <2>2
<1>4. QED
  BY <1>2, <1>3 DEF CInv

LEMMA NewChildInside ==
    ASSUME NEW node \in Node, NEW q \in Quadrant, node.body \in Body,
           position \in [Body -> Position]
    PROVE  LET child == NewChild(node, q)
           IN  /\ child.centre.den >= 0
               /\ child.body # None => Inside(child.centre, child.box)
<1> DEFINE box == SubBox(node.box, q)
           p == position[node.body]
<1>1. NewNode(box) \in Node /\ NewNode(box).box = box /\ NewNode(box).body = None
      /\ NewNode(box).centre.den = 1
  BY SubBoxType, NewNodeType DEF Node, NewNode, NoShift
<1> HIDE DEF box
<1>2. CASE IsInside(box, p)
  <2>1. p \in Point
    BY <1>2 DEF IsInside, Position
  <2>2. NewChild(node, q) = Filled(NewNode(box), node.body, p)
    BY <1>1, <1>2 DEF NewChild, box
  <2>3. /\ Filled(NewNode(box), node.body, p).centre.den >= 0
        /\ Inside(Filled(NewNode(box), node.body, p).centre, box)
        /\ Filled(NewNode(box), node.body, p).box = box
    <3>1. IsInside(NewNode(box).box, p)
      BY <1>1, <1>2
    <3>2. /\ Filled(NewNode(box), node.body, p).centre.den >= 0
          /\ Inside(Filled(NewNode(box), node.body, p).centre, NewNode(box).box)
      BY <1>1, <2>1, <3>1, FilledInside, ZenonT(30)
    <3>3. Filled(NewNode(box), node.body, p).box = NewNode(box).box
      BY <1>1, <2>1, FilledType, ZenonT(30)
    <3>4. QED
      BY <1>1, <3>2, <3>3
  <2>4. QED
    BY <2>2, <2>3
<1>3. CASE ~IsInside(box, p)
  BY <1>1, <1>3 DEF NewChild, box
<1>4. QED
  BY <1>2, <1>3

LEMMA SubdivideCInv == IInv /\ CInv /\ Subdivide => CInv'
<1> SUFFICES ASSUME IInv, CInv, Subdivide, NEW n \in DOMAIN tree'
             PROVE  /\ tree'[n].centre.den >= 0
                    /\ tree'[n].body # None /\ tree'[n].centre.den > 0
                          => Inside(tree'[n].centre, tree'[n].box)
  BY DEF CInv
<1>1. CASE n \in DOMAIN tree
  BY <1>1, SubdivideTree DEF CInv
<1>2. CASE n \in Kids(path)
  <2>1. PICK q \in Quadrant : n = Append(path, q)
    BY <1>2 DEF Kids
  <2>2. tree'[n] = NewChild(tree[path], q)
    BY <2>1, SubdivideTree
  <2>3. QED
    BY <2>2, SubdivideTree, NewChildInside
<1>3. QED
  BY <1>1, <1>2, SubdivideTree

LEMMA AggregateCInv == IInv /\ CInv /\ Aggregate => CInv'
<1> SUFFICES ASSUME IInv, CInv, Aggregate PROVE CInv'
  OBVIOUS
<1>1. path \in DOMAIN tree /\ tree[path] \in Node /\ tree[path].subdivided
  BY DEF IInv, TypeOK, CallInv, Aggregate
<1>2. /\ DOMAIN tree' = DOMAIN tree
      /\ tree'[path].centre = MeanCentre(path)
      /\ \A n \in DOMAIN tree : /\ n # path => tree'[n] = tree[n]
                                /\ tree'[n].box = tree[n].box
  BY <1>1 DEF Aggregate, Node
<1>3. QED
  BY <1>1, <1>2, MeanInside DEF CInv

LEMMA NextCInv == IInv /\ CInv /\ [Next]_vars => CInv'
<1> SUFFICES ASSUME IInv, CInv, [Next]_vars PROVE CInv'
  OBVIOUS
<1>1. CASE Refuse \/ Enter \/ Drop \/ (\E q \in Quadrant : Descend(q)) \/ UNCHANGED vars
  BY <1>1 DEF Refuse, Enter, Drop, Descend, vars, CInv
<1>2. CASE Fill \/ Subdivide \/ Aggregate
  BY <1>2, FillCInv, SubdivideCInv, AggregateCInv
<1>3. CASE Reconstruct
  BY <1>3, NewTreeInv DEF Reconstruct, CInv, NewNode, NoShift
<1>4. QED
  BY <1>1, <1>2, <1>3 DEF Next, Insert

\* The centre of mass of a node with a body is strictly inside the node or NaN, though
\* it is a mean of means that weighs no child by its mass, and though bodies are lost.
THEOREM CentreCorrect == Spec => []CentreInBox
<1>1. Init => CInv
  BY NewTreeInv DEF Init, CInv, NewNode, NoShift
<1>2. IInv /\ CInv => CentreInBox
  <2> SUFFICES ASSUME IInv, CInv, NEW n \in DOMAIN tree, tree[n].body # None,
                      ~IsNaN(tree[n].centre)
               PROVE  Inside(tree[n].centre, tree[n].box)
    BY DEF CentreInBox, Inside
  <2>1. tree[n].centre.den \in Int
    BY DEF IInv, TypeOK, Node, Centre
  <2>2. tree[n].centre.den > 0
    BY <2>1 DEF CInv, IsNaN
  <2>3. QED
    BY <2>2 DEF CInv
<1>3. QED
  BY <1>1, <1>2, NextCInv, Inductive, PTL DEF Spec

-----------------------------------------------------------------------------
(* What Insert returns.                                                    *)

Reported == call = "aggregate" => (inserted <=> Held(cursor))

Returned == \A b \in Body : b = cursor /\ cursor' = b + 1 => (inserted' <=> Held(b)')

\* A body whose Insert is not over is in no node.
LEMMA NotYetHeld ==
    ASSUME IInv, call # "aggregate", cursor \in Body
    PROVE  ~Held(cursor)
<1>1. ASSUME NEW n \in DOMAIN tree PROVE tree[n].body # cursor
  <2>1. cursor # None /\ cursor \in Int
    BY NoneAssumption DEF Body
  <2>2. tree[n].body # None => tree[n].body < cursor
    BY DEF IInv, Earlier
  <2>3. QED
    BY <2>1, <2>2
<1>2. QED
  BY <1>1 DEF Held, Holds

LEMMA FillReports ==
    ASSUME IInv, Fill, NEW b \in Body, b = cursor
    PROVE  inserted' /\ Held(b)'
<1>1. /\ path \in DOMAIN tree /\ call = "insert" /\ inserted'
      /\ ~tree[path].subdivided
  BY DEF IInv, Fill, TypeOK, CallInv, Shape
<1>2. /\ DOMAIN tree' = DOMAIN tree
      /\ tree'[path] = Filled(tree[path], b, position[b])
  BY <1>1 DEF Fill
<1>3. ~tree'[path].subdivided /\ tree'[path].body = b
  BY <1>1, <1>2 DEF Filled
<1>4. QED
  BY <1>1, <1>2, <1>3 DEF Held, Holds

LEMMA AggregateReports ==
    ASSUME IInv, Aggregate, NEW b \in Body
    PROVE  inserted' = inserted /\ (Held(b)' <=> Held(b))
<1>1. path \in DOMAIN tree /\ tree[path] \in Node
  BY DEF IInv, TypeOK
<1>2. /\ DOMAIN tree' = DOMAIN tree /\ inserted' = inserted
      /\ \A n \in DOMAIN tree : /\ tree'[n].body = tree[n].body
                                /\ tree'[n].subdivided = tree[n].subdivided
  BY <1>1 DEF Aggregate, Node
<1>3. QED
  BY <1>2 DEF Held, Holds

\* Where the call of an action that ends an Insert goes next.
LEMMA ReturnGoes ==
    ASSUME NEW n, Return(n)
    PROVE  \/ call' = "idle" /\ cursor' = cursor + 1
           \/ call' = "aggregate" /\ cursor' = cursor
  BY DEF Return

LEMMA ReportStep == IInv /\ Reported /\ [Next]_vars => Reported' /\ [Returned]_vars
<1> SUFFICES ASSUME IInv, Reported, [Next]_vars
             PROVE  Reported' /\ [Returned]_vars
  OBVIOUS
<1>1. cursor \in Int /\ (call # "idle" => cursor \in Body)
  BY DEF IInv, TypeOK, CallInv
<1>2. CASE Refuse
  <2>1. /\ call = "idle" /\ call' = "idle" /\ cursor \in Body /\ ~inserted' /\ tree' = tree
    BY <1>2 DEF Refuse
  <2>2. ~Held(cursor)
    BY <2>1, NotYetHeld
  <2>3. QED
    BY <2>1, <2>2 DEF Reported, Returned, Held, Holds
<1>3. CASE Enter \/ Subdivide \/ \E q \in Quadrant : Descend(q)
  <2>1. cursor' = cursor /\ call' # "aggregate"
    BY <1>3 DEF Enter, Subdivide, Descend
  <2>2. QED
    BY <1>1, <2>1 DEF Reported, Returned
<1>4. CASE Fill
  <2>1. /\ cursor \in Body
        /\ \/ call' = "idle" /\ cursor' = cursor + 1
           \/ call' = "aggregate" /\ cursor' = cursor
    BY <1>1, <1>4, ReturnGoes DEF Fill
  <2>2. \A b \in Body : b = cursor => inserted' /\ Held(b)'
    BY <1>4, FillReports
  <2>3. Returned
    BY <2>2 DEF Returned
  <2>4. Reported'
    BY <2>1, <2>2 DEF Reported, Held, Holds
  <2>5. QED
    BY <2>3, <2>4
<1>5. CASE Drop
  <2>1. call = "insert" /\ cursor \in Body /\ cursor' = cursor /\ ~inserted' /\ tree' = tree
    BY <1>1, <1>5 DEF Drop
  <2>2. ~Held(cursor)
    BY <2>1, NotYetHeld
  <2>3. QED
    BY <1>1, <2>1, <2>2 DEF Reported, Returned, Held, Holds
<1>6. CASE Aggregate
  <2>1. /\ call = "aggregate" /\ cursor \in Body
        /\ \/ call' = "idle" /\ cursor' = cursor + 1
           \/ call' = "aggregate" /\ cursor' = cursor
    BY <1>1, <1>6, ReturnGoes DEF Aggregate
  <2>2. \A b \in Body : b = cursor => (inserted' <=> Held(b)')
    BY <1>6, <2>1, AggregateReports DEF Reported
  <2>3. Returned
    BY <2>2 DEF Returned
  <2>4. Reported'
    BY <2>1, <2>2 DEF Reported, Held, Holds
  <2>5. QED
    BY <2>3, <2>4
<1>7. CASE Reconstruct
  <2>1. call' = "idle" /\ cursor' = 1
    BY <1>7 DEF Reconstruct, Constructed
  <2>2. QED
    BY <2>1 DEF Reported, Returned, Body
<1>8. CASE UNCHANGED vars
  BY <1>8 DEF vars, Reported, Held, Holds
<1>9. QED
  BY <1>2, <1>3, <1>4, <1>5, <1>6, <1>7, <1>8 DEF Next, Insert

\* Insert returns true exactly when the tree holds the body it was called with,
\* through all the splits on its way; of the bodies it pushes down it says nothing.
THEOREM ReturnCorrect == Spec => InsertReturns
<1>1. Init => Reported
  BY DEF Init, Reported
<1>2. IInv /\ Reported /\ [Next]_vars => Reported' /\ [Returned]_vars
  BY ReportStep
<1>3. QED
  BY <1>1, <1>2, Inductive, PTL DEF Spec, InsertReturns, Returned

-----------------------------------------------------------------------------
(* Ancestors.  Every prefix of the path of a node is a node, and all but   *)
(* the node itself are subdivided.                                         *)

LEMMA PrefixElements ==
    ASSUME NEW m \in Path, NEW n \in Path
    PROVE  /\ Len(m) \in Nat /\ Len(n) \in Nat
           /\ Prefix(m, n) <=> Len(m) =< Len(n) /\ \A i \in 1 .. Len(m) : n[i] = m[i]
           /\ Len(m) = Len(n) /\ (\A i \in 1 .. Len(m) : n[i] = m[i]) => m = n
<1>1. /\ m \in Seq(Quadrant) /\ n \in Seq(Quadrant)
      /\ Len(m) \in Nat /\ Len(n) \in Nat
  BY LenProperties DEF Path
<1>2. CASE Len(m) =< Len(n)
  <2>1. \A i \in 1 .. Len(m) : n[i] \in Quadrant
    BY <1>1, <1>2, ElementOfSeq
  <2>2. /\ SubSeq(n, 1, Len(m)) \in Seq(Quadrant)
        /\ Len(SubSeq(n, 1, Len(m))) = IF 1 =< Len(m) THEN Len(m) - 1 + 1 ELSE 0
        /\ \A i \in 1 .. Len(m) - 1 + 1 : SubSeq(n, 1, Len(m))[i] = n[1 + i - 1]
    BY <1>1, <2>1, SubSeqProperties
  <2>3. /\ Len(SubSeq(n, 1, Len(m))) = Len(m)
        /\ \A i \in 1 .. Len(m) : SubSeq(n, 1, Len(m))[i] = n[i]
    BY <1>1, <2>2
  <2>4. (\A i \in 1 .. Len(m) : n[i] = m[i]) => SubSeq(n, 1, Len(m)) = m
    BY <1>1, <2>2, <2>3, SeqEqual
  <2>5. QED
    BY <1>1, <1>2, <2>3, <2>4, SeqEqual DEF Prefix
<1>3. CASE ~(Len(m) =< Len(n))
  BY <1>1, <1>3 DEF Prefix
<1>4. QED
  BY <1>2, <1>3

LEMMA PrefixOrder ==
    ASSUME NEW a \in Path, NEW b \in Path, NEW c \in Path
    PROVE  /\ Prefix(a, b) /\ Prefix(b, c) => Prefix(a, c)
           /\ Prefix(a, c) /\ Prefix(b, c) => Prefix(a, b) \/ Prefix(b, a)
           /\ Prefix(a, b) /\ Prefix(b, a) => a = b
           /\ Prefix(a, b) /\ Len(a) = Len(b) => a = b
<1>1. Len(a) \in Nat /\ Len(b) \in Nat /\ Len(c) \in Nat
  BY PrefixElements
<1>2. Prefix(a, b) /\ Prefix(b, c) => Prefix(a, c)
  <2> SUFFICES ASSUME Prefix(a, b), Prefix(b, c) PROVE Prefix(a, c)
    OBVIOUS
  <2>1. Len(a) =< Len(b) /\ \A i \in 1 .. Len(a) : b[i] = a[i]
    BY PrefixElements
  <2>2. Len(b) =< Len(c) /\ \A i \in 1 .. Len(b) : c[i] = b[i]
    BY PrefixElements
  <2>3. Len(a) =< Len(c) /\ \A i \in 1 .. Len(a) : c[i] = a[i]
    BY <1>1, <2>1, <2>2
  <2>4. QED
    BY <2>3, PrefixElements
<1>3. Prefix(a, c) /\ Prefix(b, c) => Prefix(a, b) \/ Prefix(b, a)
  <2> SUFFICES ASSUME Prefix(a, c), Prefix(b, c) PROVE Prefix(a, b) \/ Prefix(b, a)
    OBVIOUS
  <2>1. Len(a) =< Len(c) /\ \A i \in 1 .. Len(a) : c[i] = a[i]
    BY PrefixElements
  <2>2. Len(b) =< Len(c) /\ \A i \in 1 .. Len(b) : c[i] = b[i]
    BY PrefixElements
  <2>3. CASE Len(a) =< Len(b)
    <3>1. \A i \in 1 .. Len(a) : b[i] = a[i]
      BY <1>1, <2>1, <2>2, <2>3
    <3>2. QED
      BY <2>3, <3>1, PrefixElements
  <2>4. CASE Len(b) =< Len(a)
    <3>1. \A i \in 1 .. Len(b) : a[i] = b[i]
      BY <1>1, <2>1, <2>2, <2>4
    <3>2. QED
      BY <2>4, <3>1, PrefixElements
  <2>5. QED
    BY <1>1, <2>3, <2>4
<1>4. Prefix(a, b) /\ Len(a) = Len(b) => a = b
  BY PrefixElements
<1>5. Prefix(a, b) /\ Prefix(b, a) => a = b
  <2> SUFFICES ASSUME Prefix(a, b), Prefix(b, a) PROVE a = b
    OBVIOUS
  <2>1. Len(a) =< Len(b) /\ Len(b) =< Len(a)
    BY PrefixElements
  <2>2. Len(a) = Len(b)
    BY <1>1, <2>1
  <2>3. QED
    BY <1>4, <2>2
<1>6. QED
  BY <1>2, <1>3, <1>4, <1>5

\* The child of a on the way to b.
Towards(a, b) == Append(a, b[Len(a) + 1])

LEMMA OnTheWay ==
    ASSUME NEW a \in Path, NEW b \in Path
    PROVE  /\ Prefix(a, b) /\ a # b =>
                /\ b[Len(a) + 1] \in Quadrant /\ Towards(a, b) \in Path
                /\ Prefix(Towards(a, b), b)
           /\ \A q \in Quadrant : Prefix(Append(a, q), b) =>
                Prefix(a, b) /\ a # b /\ Append(a, q) = Towards(a, b)
<1>0. Len(a) \in Nat /\ Len(b) \in Nat /\ a \in Seq(Quadrant) /\ b \in Seq(Quadrant)
  BY PrefixElements DEF Path
<1>1. ASSUME Prefix(a, b), a # b
      PROVE  /\ b[Len(a) + 1] \in Quadrant /\ Towards(a, b) \in Path
             /\ Prefix(Towards(a, b), b)
  <2>1. Len(a) =< Len(b) /\ (\A i \in 1 .. Len(a) : b[i] = a[i]) /\ Len(a) # Len(b)
    BY <1>1, PrefixElements
  <2>2. Len(a) + 1 \in 1 .. Len(b)
    BY <1>0, <2>1
  <2>3. PICK q : q = b[Len(a) + 1]
    OBVIOUS
  <2>4. q \in Quadrant
    BY <1>0, <2>2, <2>3, ElementOfSeq
  <2> DEFINE k == Append(a, q)
  <2>5. k \in Path /\ Len(k) = Len(a) + 1 /\ (\A i \in 1 .. Len(a) : k[i] = a[i]) /\ k[Len(a) + 1] = q
    BY <1>0, <2>4, AppendProperties DEF Path
  <2> HIDE DEF k
  <2>6. \A i \in 1 .. Len(k) : b[i] = k[i]
    <3>1. \A i \in 1 .. Len(k) : i \in 1 .. Len(a) \/ i = Len(a) + 1
      BY <1>0, <2>5
    <3>2. QED
      BY <2>1, <2>3, <2>5, <3>1
  <2>7. Prefix(k, b)
    BY <1>0, <2>2, <2>5, <2>6, PrefixElements
  <2>8. QED
    BY <2>3, <2>4, <2>5, <2>7 DEF k, Towards
<1>2. ASSUME NEW q \in Quadrant, Prefix(Append(a, q), b)
      PROVE  Prefix(a, b) /\ a # b /\ Append(a, q) = Towards(a, b)
  <2> DEFINE k == Append(a, q)
  <2>1. k \in Path /\ Len(k) = Len(a) + 1 /\ (\A i \in 1 .. Len(a) : k[i] = a[i]) /\ k[Len(a) + 1] = q
    BY <1>0, AppendProperties DEF Path
  <2>2. Prefix(k, b)
    BY <1>2
  <2> HIDE DEF k
  <2>3. Len(k) =< Len(b) /\ \A i \in 1 .. Len(k) : b[i] = k[i]
    BY <2>1, <2>2, PrefixElements
  <2>4. Len(a) + 1 \in 1 .. Len(k) /\ Len(a) =< Len(b) /\ Len(a) # Len(b)
    BY <1>0, <2>1, <2>3
  <2>5. q = b[Len(a) + 1]
    BY <2>1, <2>3, <2>4
  <2>6. \A i \in 1 .. Len(a) : i \in 1 .. Len(k)
    BY <1>0, <2>1
  <2>7. Prefix(a, b)
    BY <2>1, <2>3, <2>4, <2>6, PrefixElements
  <2>8. QED
    BY <2>4, <2>5, <2>7 DEF Towards
<1>3. QED
  BY <1>1, <1>2

LEMMA Least ==
    ASSUME NEW S \in SUBSET Nat, S # {}
    PROVE  \E m \in S : \A n \in S : m =< n
<1>1. PICK m \in S : \A n \in S : ~(<<n, m>> \in OpToRel(<, Nat))
  BY NatLessThanWellFounded, WFMin
<1>2. ASSUME NEW n \in S PROVE m =< n
  <2>1. m \in Nat /\ n \in Nat
    OBVIOUS
  <2>2. n < m => <<n, m>> \in OpToRel(<, Nat)
    BY <2>1 DEF OpToRel
  <2>3. ~(n < m)
    BY <2>2, <1>1
  <2>4. QED
    BY <2>1, <2>3
<1>3. QED
  BY <1>2

\* The first k quadrants of a path.
LEMMA Beginning ==
    ASSUME NEW n \in Path, NEW k \in 0 .. Len(n)
    PROVE  /\ SubSeq(n, 1, k) \in Path /\ Len(SubSeq(n, 1, k)) = k
           /\ Prefix(SubSeq(n, 1, k), n)
           /\ k = Len(n) => SubSeq(n, 1, k) = n
           /\ k > 0 => SubSeq(n, 1, k) # <<>> /\ Parent(SubSeq(n, 1, k)) = SubSeq(n, 1, k - 1)
<1>0. Len(n) \in Nat /\ n \in Seq(Quadrant) /\ k \in Nat
  BY PrefixElements DEF Path
<1>1. ASSUME NEW j \in 0 .. Len(n)
      PROVE  /\ SubSeq(n, 1, j) \in Path /\ Len(SubSeq(n, 1, j)) = j
             /\ \A i \in 1 .. j : SubSeq(n, 1, j)[i] = n[i]
  <2>1. \A i \in 1 .. j : n[i] \in Quadrant
    BY <1>0, ElementOfSeq
  <2>2. /\ SubSeq(n, 1, j) \in Seq(Quadrant)
        /\ Len(SubSeq(n, 1, j)) = IF 1 =< j THEN j - 1 + 1 ELSE 0
        /\ \A i \in 1 .. j - 1 + 1 : SubSeq(n, 1, j)[i] = n[1 + i - 1]
    BY <1>0, <2>1, SubSeqProperties
  <2>3. QED
    BY <1>0, <2>2 DEF Path
<1>2. PICK b : b = SubSeq(n, 1, k)
  OBVIOUS
<1>3. b \in Path /\ Len(b) = k /\ \A i \in 1 .. k : b[i] = n[i]
  BY <1>1, <1>2
<1>4. Prefix(b, n) /\ (k = Len(n) => b = n)
  BY <1>0, <1>3, PrefixElements
<1>5. ASSUME k > 0 PROVE b # <<>> /\ Parent(b) = SubSeq(n, 1, k - 1)
  <2>1. b # <<>>
    BY <1>3, <1>5, EmptySeq
  <2>2. PICK p : p = SubSeq(n, 1, k - 1)
    OBVIOUS
  <2>3. p \in Path /\ Len(p) = k - 1 /\ \A i \in 1 .. k - 1 : p[i] = n[i]
    BY <1>0, <1>1, <1>5, <2>2
  <2>4. Parent(b) \in Path /\ b = Append(Parent(b), b[Len(b)]) /\ b[Len(b)] \in Quadrant
    BY <1>3, <2>1, ParentPath
  <2>5. PICK r, q : r = Parent(b) /\ q = b[Len(b)]
    OBVIOUS
  <2>6. r \in Path /\ q \in Quadrant /\ b = Append(r, q)
    BY <2>4, <2>5
  <2>7. Len(r) \in Nat /\ Len(b) = Len(r) + 1 /\ \A i \in 1 .. Len(r) : b[i] = r[i]
    BY <2>6, AppendProperties, PrefixElements DEF Path
  <2>8. Len(p) = Len(r) /\ \A i \in 1 .. Len(p) : r[i] = p[i]
    BY <1>0, <1>3, <2>3, <2>7
  <2>9. p = r
    BY <2>3, <2>6, <2>8, PrefixElements
  <2>10. QED
    BY <2>1, <2>2, <2>5, <2>9
<1>6. QED
  BY <1>2, <1>3, <1>4, <1>5

LEMMA Ancestors ==
    ASSUME IInv, NEW n \in DOMAIN tree, NEW a \in Path, Prefix(a, n)
    PROVE  /\ a \in DOMAIN tree
           /\ a # n => tree[a].subdivided /\ Towards(a, n) \in DOMAIN tree
<1>0. n \in Path /\ Len(n) \in Nat /\ DOMAIN tree \subseteq Path
  BY PrefixElements DEF IInv, TypeOK
<1> DEFINE D == DOMAIN tree
           S == {j \in Nat : j =< Len(n) /\ SubSeq(n, 1, Len(n) - j) \notin D}
<1>1. S = {}
  <2> SUFFICES ASSUME S # {} PROVE FALSE
    OBVIOUS
  <2>1. PICK j \in S : \A i \in S : j =< i
    <3>1. S \in SUBSET Nat
      OBVIOUS
    <3> HIDE DEF S
    <3>2. QED
      BY <3>1, Least
  <2>2. PICK e : e = Len(n) - j
    OBVIOUS
  <2>11. j \in Nat /\ j =< Len(n) /\ SubSeq(n, 1, e) \notin D
    BY <2>2
  <2>3. SubSeq(n, 1, Len(n)) = n
    BY <1>0, Beginning
  <2>4. j # 0
    <3>1. j = 0 => e = Len(n)
      BY <1>0, <2>2
    <3>2. QED
      BY <2>11, <2>3, <3>1
  <2>5. PICK k : k = Len(n) - (j - 1)
    OBVIOUS
  <2>6. k \in 0 .. Len(n) /\ k > 0 /\ k - 1 = e /\ j - 1 \in Nat /\ j - 1 =< Len(n)
    BY <1>0, <2>2, <2>11, <2>4, <2>5
  <2>7. j - 1 \notin S
    BY <2>1, <2>11
  <2>8. SubSeq(n, 1, k) \in D
    BY <2>5, <2>6, <2>7
  <2>9. Parent(SubSeq(n, 1, k)) \in D
    <3>1. SubSeq(n, 1, k) # <<>>
      BY <1>0, <2>6, Beginning
    <3>2. QED
      BY <2>8, <3>1 DEF IInv, Shape
  <2>10. Parent(SubSeq(n, 1, k)) = SubSeq(n, 1, e)
    BY <1>0, <2>6, Beginning
  <2>12. QED
    BY <2>11, <2>9, <2>10
<1>2. ASSUME NEW b \in Path, Prefix(b, n) PROVE b \in D
  <2>1. Len(b) \in Nat /\ Len(b) =< Len(n) /\ b = SubSeq(n, 1, Len(b))
    BY <1>0, <1>2, PrefixElements DEF Prefix
  <2>2. PICK j : j = Len(n) - Len(b)
    OBVIOUS
  <2>3. j \in Nat /\ j =< Len(n) /\ Len(n) - j = Len(b)
    BY <1>0, <2>1, <2>2
  <2>4. QED
    BY <1>1, <2>1, <2>3
<1>3. ASSUME a # n PROVE tree[a].subdivided /\ Towards(a, n) \in D
  <2>1. n[Len(a) + 1] \in Quadrant /\ Towards(a, n) \in Path /\ Prefix(Towards(a, n), n)
    BY <1>0, <1>3, OnTheWay
  <2>2. Towards(a, n) \in D /\ a \in D
    BY <1>2, <2>1
  <2>3. HasChildren(a)
    BY <2>1, <2>2 DEF HasChildren, Kids, Towards
  <2>4. QED
    BY <2>2, <2>3 DEF IInv, Shape
<1>4. QED
  BY <1>2, <1>3

-----------------------------------------------------------------------------
(* The mass of a set of bodies.                                            *)

Weight(S, b) == IF b \in S THEN Mass[b] ELSE 0

\* What the sum over the bodies 1 .. k has come to.
Sum(f, n, S) ==
    /\ f \in [0 .. n -> Nat]
    /\ f[0] = 0
    /\ \A k \in 1 .. n : f[k] = f[k - 1] + Weight(S, k)

LEMMA WeightType == ASSUME NEW S, NEW k \in 1 .. BodyNum PROVE Weight(S, k) \in Nat
  BY MassAssumption DEF Weight, Body

LEMMA SumExists == ASSUME NEW S PROVE \E f : Sum(f, BodyNum, S)
<1> DEFINE Bad == {n \in Nat : n =< BodyNum /\ ~\E f : Sum(f, n, S)}
<1>1. Bad = {}
  <2> SUFFICES ASSUME Bad # {} PROVE FALSE
    OBVIOUS
  <2>1. PICK n \in Bad : \A k \in Bad : n =< k
    <3>1. Bad \in SUBSET Nat
      OBVIOUS
    <3> HIDE DEF Bad
    <3>2. QED
      BY <3>1, Least
  <2>2. n \in Nat /\ n =< BodyNum /\ ~\E f : Sum(f, n, S)
    BY <2>1
  <2>3. CASE n = 0
    <3> DEFINE f == [k \in 0 .. 0 |-> 0]
    <3>1. f \in [0 .. 0 -> Nat] /\ f[0] = 0 /\ 1 .. 0 = {}
      OBVIOUS
    <3>2. Sum(f, 0, S)
      BY <3>1 DEF Sum
    <3>3. QED
      BY <2>2, <2>3, <3>2
  <2>4. CASE n # 0
    <3> PICK m : m = n - 1
      OBVIOUS
    <3>1. m \in Nat /\ n = m + 1 /\ m =< BodyNum /\ ~(n =< m) /\ n \in 1 .. BodyNum
      BY <2>2, <2>4, BodyNumAssumption
    <3>2. m \notin Bad
      BY <2>1, <3>1
    <3>3. PICK g : Sum(g, m, S)
      BY <3>1, <3>2
    <3>4. g \in [0 .. m -> Nat] /\ g[0] = 0 /\ \A k \in 1 .. m : g[k] = g[k - 1] + Weight(S, k)
      BY <3>3 DEF Sum
    <3>5. g[m] \in Nat /\ Weight(S, n) \in Nat
      BY <3>1, <3>4, WeightType
    <3> DEFINE f == [k \in 0 .. n |-> IF k = n THEN g[m] + Weight(S, n) ELSE g[k]]
    <3>6. \A k \in 0 .. m : k \in 0 .. n /\ k # n
      BY <3>1
    <3>7. \A k \in 0 .. n : k = n \/ k \in 0 .. m
      BY <3>1
    <3>8. f \in [0 .. n -> Nat]
      BY <3>4, <3>5, <3>7
    <3>9. f[n] = g[m] + Weight(S, n) /\ \A k \in 0 .. m : f[k] = g[k]
      BY <3>1, <3>6
    <3> HIDE DEF f
    <3>10. f[0] = 0
      BY <3>1, <3>4, <3>9
    <3>11. ASSUME NEW k \in 1 .. n PROVE f[k] = f[k - 1] + Weight(S, k)
      <4>1. CASE k = n
        <5>1. k - 1 = m /\ m \in 0 .. m
          BY <3>1, <4>1
        <5>2. QED
          BY <3>9, <4>1, <5>1
      <4>2. CASE k # n
        <5>1. k \in 1 .. m /\ k \in 0 .. m /\ k - 1 \in 0 .. m
          BY <3>1, <4>2
        <5>2. QED
          BY <3>4, <3>9, <5>1
      <4>3. QED
        BY <4>1, <4>2
    <3>12. Sum(f, n, S)
      BY <3>8, <3>10, <3>11 DEF Sum
    <3>13. QED
      BY <2>2, <3>12
  <2>5. QED
    BY <2>3, <2>4
<1>2. QED
  BY <1>1, BodyNumAssumption

\* Two sums of the same bodies agree.
LEMMA SumUnique ==
    ASSUME NEW S, NEW f, NEW g, Sum(f, BodyNum, S), g[0] = 0,
           \A k \in 1 .. BodyNum : g[k] = g[k - 1] + Weight(S, k)
    PROVE  g[BodyNum] = f[BodyNum]
<1> DEFINE Bad == {k \in Nat : k =< BodyNum /\ g[k] # f[k]}
<1>1. ASSUME Bad # {} PROVE FALSE
  <2>1. PICK k \in Bad : \A j \in Bad : k =< j
    <3>1. Bad \in SUBSET Nat
      OBVIOUS
    <3> HIDE DEF Bad
    <3>2. QED
      BY <1>1, <3>1, Least
  <2>2. k # 0
    BY <2>1 DEF Sum
  <2>3. k \in 1 .. BodyNum /\ k - 1 \in Nat /\ k - 1 =< BodyNum /\ ~(k =< k - 1)
    BY <2>1, <2>2, BodyNumAssumption
  <2>4. g[k - 1] = f[k - 1]
    BY <2>1, <2>3
  <2>5. g[k] = f[k]
    BY <2>3, <2>4 DEF Sum
  <2>6. QED
    BY <2>1, <2>5
<1>2. QED
  BY <1>1, BodyNumAssumption

LEMMA MassIsSum ==
    ASSUME NEW S
    PROVE  \E f : Sum(f, BodyNum, S) /\ Index!MassOf(S) = f[BodyNum]
<1> DEFINE rec(g) == g = [b \in 0 .. BodyNum |->
                            IF b = 0 THEN 0 ELSE g[b - 1] + (IF b \in S THEN Mass[b] ELSE 0)]
           upTo == CHOOSE g : rec(g)
<1>1. PICK f : Sum(f, BodyNum, S)
  BY SumExists
<1>2. rec(f)
  <2>1. f \in [0 .. BodyNum -> Nat] /\ f[0] = 0
        /\ \A k \in 1 .. BodyNum : f[k] = f[k - 1] + Weight(S, k)
    BY <1>1 DEF Sum
  <2>2. \A b \in 0 .. BodyNum : b = 0 \/ b \in 1 .. BodyNum
    BY BodyNumAssumption
  <2>3. \A b \in 1 .. BodyNum : b # 0
    OBVIOUS
  <2>4. QED
    BY <2>1, <2>2, <2>3 DEF Weight
<1>3. rec(upTo)
  <2> HIDE DEF rec
  <2>1. QED
    BY <1>2
<1>4. Index!MassOf(S) = upTo[BodyNum]
  BY DEF Index!MassOf
<1> HIDE DEF upTo
<1>5. DOMAIN upTo = 0 .. BodyNum /\ upTo[0] = 0
      /\ \A k \in 1 .. BodyNum : upTo[k] = upTo[k - 1] + Weight(S, k)
  <2>1. 0 \in 0 .. BodyNum /\ \A k \in 1 .. BodyNum : k \in 0 .. BodyNum /\ k # 0
    BY BodyNumAssumption
  <2>2. QED
    BY <1>3, <2>1 DEF Weight
<1>6. upTo[BodyNum] = f[BodyNum]
  BY <1>1, <1>5, SumUnique
<1>7. QED
  BY <1>1, <1>4, <1>6

LEMMA MassOfFacts ==
    /\ \A S : Index!MassOf(S) \in Nat
    /\ \A S : (\A b \in Body : b \notin S) => Index!MassOf(S) = 0
    /\ \A S, T : (\A b \in Body : ~(b \in S /\ b \in T)) =>
          Index!MassOf(S \cup T) = Index!MassOf(S) + Index!MassOf(T)
    /\ \A b \in Body : Index!MassOf({b}) = Mass[b]
<1>1. ASSUME NEW S PROVE Index!MassOf(S) \in Nat
  BY MassIsSum, BodyNumAssumption DEF Sum
<1>2. ASSUME NEW S, \A b \in Body : b \notin S PROVE Index!MassOf(S) = 0
  <2>1. PICK f : Sum(f, BodyNum, S) /\ Index!MassOf(S) = f[BodyNum]
    BY MassIsSum
  <2> DEFINE g == [k \in 0 .. BodyNum |-> 0]
  <2>2. \A k \in 1 .. BodyNum : Weight(S, k) = 0 /\ k \in 0 .. BodyNum /\ k - 1 \in 0 .. BodyNum
    BY <1>2, BodyNumAssumption DEF Weight, Body
  <2>3. \A k \in 0 .. BodyNum : g[k] = 0
    OBVIOUS
  <2>4. DOMAIN g = 0 .. BodyNum /\ 0 \in 0 .. BodyNum /\ BodyNum \in 0 .. BodyNum
    BY BodyNumAssumption
  <2> HIDE DEF g
  <2>5. g[0] = 0 /\ g[BodyNum] = 0 /\ \A k \in 1 .. BodyNum : g[k] = g[k - 1] + Weight(S, k)
    BY <2>2, <2>3, <2>4
  <2>6. g[BodyNum] = f[BodyNum]
    BY <2>1, <2>4, <2>5, SumUnique
  <2>7. QED
    BY <2>1, <2>5, <2>6
<1>3. ASSUME NEW S, NEW T, \A b \in Body : ~(b \in S /\ b \in T)
      PROVE  Index!MassOf(S \cup T) = Index!MassOf(S) + Index!MassOf(T)
  <2>1. PICK f : Sum(f, BodyNum, S) /\ Index!MassOf(S) = f[BodyNum]
    BY MassIsSum
  <2>2. PICK h : Sum(h, BodyNum, T) /\ Index!MassOf(T) = h[BodyNum]
    BY MassIsSum
  <2>3. PICK u : Sum(u, BodyNum, S \cup T) /\ Index!MassOf(S \cup T) = u[BodyNum]
    BY MassIsSum
  <2> DEFINE g == [k \in 0 .. BodyNum |-> f[k] + h[k]]
  <2>4. \A k \in 1 .. BodyNum : /\ Weight(S \cup T, k) = Weight(S, k) + Weight(T, k)
                                /\ Weight(S, k) \in Nat /\ Weight(T, k) \in Nat
                                /\ k \in 0 .. BodyNum /\ k - 1 \in 0 .. BodyNum
    <3>1. \A k \in 1 .. BodyNum : /\ Mass[k] \in Nat /\ k \in Body
                                  /\ k \in 0 .. BodyNum /\ k - 1 \in 0 .. BodyNum
      BY MassAssumption, BodyNumAssumption DEF Body
    <3>2. QED
      BY <1>3, <3>1 DEF Weight
  <2>5. \A k \in 0 .. BodyNum : g[k] = f[k] + h[k]
    OBVIOUS
  <2>6. DOMAIN g = 0 .. BodyNum /\ 0 \in 0 .. BodyNum /\ BodyNum \in 0 .. BodyNum
    BY BodyNumAssumption
  <2> HIDE DEF g
  <2>7. /\ f \in [0 .. BodyNum -> Nat] /\ f[0] = 0
        /\ \A k \in 1 .. BodyNum : f[k] = f[k - 1] + Weight(S, k)
    BY <2>1 DEF Sum
  <2>8. /\ h \in [0 .. BodyNum -> Nat] /\ h[0] = 0
        /\ \A k \in 1 .. BodyNum : h[k] = h[k - 1] + Weight(T, k)
    BY <2>2 DEF Sum
  <2>9. ASSUME NEW k \in 1 .. BodyNum PROVE g[k] = g[k - 1] + Weight(S \cup T, k)
    <3>1. PICK a, b, v, w : a = f[k - 1] /\ b = h[k - 1] /\ v = Weight(S, k) /\ w = Weight(T, k)
      OBVIOUS
    <3>2. a \in Nat /\ b \in Nat /\ v \in Nat /\ w \in Nat
      BY <2>4, <2>7, <2>8, <3>1
    <3>3. g[k] = (a + v) + (b + w) /\ g[k - 1] = a + b /\ Weight(S \cup T, k) = v + w
      BY <2>4, <2>5, <2>7, <2>8, <3>1
    <3>4. QED
      BY <3>2, <3>3
  <2>10. g[0] = 0 /\ g[BodyNum] = f[BodyNum] + h[BodyNum]
    BY <2>5, <2>6, <2>7, <2>8
  <2>11. g[BodyNum] = u[BodyNum]
    <3> PICK V : V = S \cup T
      OBVIOUS
    <3>1. Sum(u, BodyNum, V) /\ g[0] = 0 /\ BodyNum \in Nat /\ BodyNum =< BodyNum
      BY <2>3, <2>10, BodyNumAssumption
    <3>2. \A k \in 1 .. BodyNum : g[k] = g[k - 1] + Weight(V, k)
      BY <2>9
    <3>3. QED
      BY <2>6, <3>1, <3>2, SumUnique
  <2>12. QED
    BY <2>1, <2>2, <2>3, <2>10, <2>11
<1>4. ASSUME NEW b \in Body PROVE Index!MassOf({b}) = Mass[b]
  <2>1. PICK f : Sum(f, BodyNum, {b}) /\ Index!MassOf({b}) = f[BodyNum]
    BY MassIsSum
  <2> DEFINE g == [k \in 0 .. BodyNum |-> IF k < b THEN 0 ELSE Mass[b]]
  <2>2. b \in 1 .. BodyNum /\ Mass[b] \in Nat
    BY MassAssumption DEF Body
  <2>3. ASSUME NEW k \in 1 .. BodyNum PROVE g[k] = g[k - 1] + Weight({b}, k)
    <3>1. k \in 0 .. BodyNum /\ k - 1 \in 0 .. BodyNum
      BY BodyNumAssumption
    <3>2. g[k] = (IF k < b THEN 0 ELSE Mass[b]) /\ g[k - 1] = IF k - 1 < b THEN 0 ELSE Mass[b]
      BY <3>1
    <3> HIDE DEF g
    <3>3. k - 1 < b <=> k < b \/ k = b
      BY <2>2
    <3>4. QED
      BY <2>2, <3>2, <3>3 DEF Weight
  <2>4. DOMAIN g = 0 .. BodyNum /\ g[0] = 0 /\ g[BodyNum] = Mass[b]
    <3>1. 0 \in 0 .. BodyNum /\ BodyNum \in 0 .. BodyNum /\ 0 < b /\ ~(BodyNum < b)
      BY <2>2, BodyNumAssumption
    <3>2. QED
      BY <3>1
  <2> HIDE DEF g
  <2>5. g[BodyNum] = f[BodyNum]
    <3> PICK V : V = {b}
      OBVIOUS
    <3>1. Sum(f, BodyNum, V) /\ BodyNum \in Nat /\ BodyNum =< BodyNum
      BY <2>1, BodyNumAssumption
    <3>2. \A k \in 1 .. BodyNum : g[k] = g[k - 1] + Weight(V, k)
      BY <2>3
    <3>3. QED
      BY <2>4, <3>1, <3>2, SumUnique
  <2>6. QED
    BY <2>1, <2>4, <2>5
<1>5. QED
  BY <1>1, <1>2, <1>3, <1>4

LEMMA MassOfMember ==
    ASSUME NEW S, NEW c \in Body, c \in S
    PROVE  /\ Index!MassOf(S) = Index!MassOf(S \ {c}) + Mass[c]
           /\ Index!MassOf(S) > 0
<1> PICK T : T = S \ {c}
  OBVIOUS
<1>1. S = T \cup {c} /\ \A b \in Body : ~(b \in T /\ b \in {c})
  OBVIOUS
<1>2. Index!MassOf(T \cup {c}) = Index!MassOf(T) + Index!MassOf({c})
  BY <1>1, MassOfFacts
<1>3. Index!MassOf({c}) = Mass[c] /\ Index!MassOf(T) \in Nat
  BY MassOfFacts
<1>4. Mass[c] \in Nat /\ Mass[c] > 0
  BY MassAssumption
<1>5. Index!MassOf(S) = Index!MassOf(T) + Mass[c]
  BY <1>1, <1>2, <1>3
<1>6. QED
  BY <1>3, <1>4, <1>5

-----------------------------------------------------------------------------
(* What a node tells of all that is under it, once the Inserts it was      *)
(* active in are over.  The nodes under it are then off the active path,   *)
(* and no step changes them before an Insert comes through the node again. *)

Starves(n) == \E m \in Under(n) : tree[m].subdivided /\ Size(m) = 0
Told(n) ==
    /\ IsNaN(tree[n].centre) <=> Starves(n)
    /\ tree[n].mass = Index!MassOf(BodiesUnder(n))
UInv == \A n \in DOMAIN tree : ~Active(n) => Told(n)

LEMMA UnderPrefix ==
    ASSUME NEW n
    PROVE  Under(n) = {m \in DOMAIN tree : Prefix(n, m)}
  BY DEF Under, Prefix

\* Below a leaf there is nothing.
LEMMA UnderLeaf ==
    ASSUME IInv, NEW n \in DOMAIN tree, ~tree[n].subdivided
    PROVE  Under(n) = {n}
<1>1. n \in Path /\ Prefix(n, n)
  BY PrefixFacts DEF IInv, TypeOK
<1>2. ASSUME NEW m \in DOMAIN tree, Prefix(n, m) PROVE m = n
  BY <1>1, <1>2, Ancestors
<1>3. QED
  BY <1>1, <1>2, UnderPrefix

\* And below a subdivided node there is what is below its children.
LEMMA UnderSplit ==
    ASSUME IInv, NEW n \in DOMAIN tree, tree[n].subdivided
    PROVE  /\ n \in Under(n)
           /\ \A q \in Quadrant : Append(n, q) \in DOMAIN tree /\ Under(Append(n, q)) \subseteq Under(n)
           /\ \A m \in Under(n) : m = n \/ \E q \in Quadrant : m \in Under(Append(n, q))
<1>1. n \in Path /\ DOMAIN tree \subseteq Path /\ Prefix(n, n)
  BY PrefixFacts DEF IInv, TypeOK
<1>2. \A q \in Quadrant : Append(n, q) \in DOMAIN tree /\ Append(n, q) \in Path
  BY <1>1, AppendPath DEF IInv, Shape
<1>3. ASSUME NEW q \in Quadrant, NEW m \in DOMAIN tree, Prefix(Append(n, q), m)
      PROVE  Prefix(n, m)
  BY <1>1, <1>3, OnTheWay
<1>4. ASSUME NEW m \in DOMAIN tree, Prefix(n, m), m # n
      PROVE  \E q \in Quadrant : Prefix(Append(n, q), m)
  BY <1>1, <1>4, OnTheWay DEF Towards
<1>5. QED
  BY <1>1, <1>2, <1>3, <1>4, UnderPrefix

\* When an Insert returns, the node it was at is the only one whose Inserts
\* are over.
LEMMA ReturnedFrom ==
    ASSUME IInv, Return(path), NEW n \in Path, n # path, ~Active(n)'
    PROVE  ~Prefix(n, path)
<1>1. path \in Path
  BY DEF IInv, TypeOK
<1>2. CASE path = <<>>
  BY <1>1, <1>2, PrefixFacts
<1>3. CASE path # <<>>
  <2>1. path' = Parent(path) /\ call' = "aggregate"
    BY <1>3 DEF Return
  <2>2. ~Prefix(n, Parent(path))
    BY <2>1 DEF Active, Prefix
  <2>3. QED
    BY <1>1, <1>3, <2>2, PrefixFacts
<1>4. QED
  BY <1>2, <1>3

\* A node off the active path, and all under it, are not changed.
LEMMA OffPath ==
    ASSUME IInv, NEW n \in DOMAIN tree, ~Prefix(n, path), NEW m \in Under(n)
    PROVE  m # path /\ \A q \in Quadrant : Append(m, q) # path
<1>1. m \in DOMAIN tree /\ Prefix(n, m) /\ m \in Path /\ n \in Path
  BY UnderPrefix DEF IInv, TypeOK
<1>2. QED
  BY <1>1, PrefixFacts

LEMMA SameUnder ==
    ASSUME IInv, NEW n \in DOMAIN tree, Told(n), Under(n)' = Under(n),
           \A m \in Under(n) :
               /\ tree'[m] = tree[m]
               /\ tree[m].subdivided =>
                    \A q \in Quadrant : tree'[Append(m, q)].body = tree[Append(m, q)].body
    PROVE  Told(n)'
<1>1. n \in Under(n)
  <2>1. n \in Path
    BY DEF IInv, TypeOK
  <2>2. QED
    BY <2>1, PrefixFacts, UnderPrefix
<1>2. ASSUME NEW m \in Under(n), tree[m].subdivided PROVE Size(m)' = Size(m)
  BY <1>2 DEF Size, Counted, Quadrant
<1>3. Starves(n)' = Starves(n)
  BY <1>2 DEF Starves
<1>4. BodiesUnder(n)' = BodiesUnder(n)
  BY DEF BodiesUnder, Holds
<1>5. QED
  BY <1>1, <1>3, <1>4 DEF Told

LEMMA ActivePrefix ==
    ASSUME NEW n
    PROVE  Active(n) <=> call # "idle" /\ Prefix(n, path)
  BY DEF Active, Prefix

\* A node off the active path when an action has left its tree alone.
LEMMA SameTreeTold ==
    ASSUME UInv, tree' = tree, \A n \in DOMAIN tree : Active(n) => Active(n)'
    PROVE  UInv'
<1>1. \A n : /\ Starves(n)' = Starves(n) /\ BodiesUnder(n)' = BodiesUnder(n)
  BY DEF Starves, BodiesUnder, Under, Holds, Size, Counted
<1>2. \A n : Told(n) => Told(n)'
  BY <1>1 DEF Told
<1>3. QED
  BY <1>2 DEF UInv

LEMMA NewTreeTold == tree = NewTree => UInv
<1> SUFFICES ASSUME tree = NewTree PROVE UInv
  OBVIOUS
<1>1. DOMAIN tree = {<<>>} /\ tree[<<>>] = NewNode(SceneBounds)
  BY DEF NewTree
<1>2. \A n \in DOMAIN tree : /\ ~tree[n].subdivided /\ tree[n].body = None
                             /\ tree[n].centre.den = 1
  BY <1>1 DEF NewNode, NoShift
<1>3. \A n : ~Starves(n) /\ BodiesUnder(n) = {}
  BY <1>2, NoneAssumption DEF Starves, BodiesUnder, Holds, Under, Body
<1>4. \A n \in DOMAIN tree : tree[n].mass = 0
  BY <1>1 DEF NewNode
<1>5. QED
  BY <1>2, <1>3, <1>4, MassOfFacts DEF UInv, Told, IsNaN

LEMMA FillTold == IInv /\ UInv /\ Fill => UInv'
<1> SUFFICES ASSUME IInv, UInv, Fill, NEW n \in DOMAIN tree', ~Active(n)'
             PROVE  Told(n)'
  BY DEF UInv
<1>1. /\ path \in DOMAIN tree /\ cursor \in Body /\ tree[path] \in Node
      /\ tree[path].empty /\ ~tree[path].subdivided /\ Return(path)
      /\ DOMAIN tree \subseteq Path /\ call # "idle"
  BY DEF IInv, Fill, TypeOK, CallInv, Shape
<1>2. /\ DOMAIN tree' = DOMAIN tree
      /\ \A m \in DOMAIN tree : m # path => tree'[m] = tree[m]
      /\ tree'[path] = Filled(tree[path], cursor, position[cursor])
  BY <1>1 DEF Fill
<1>3. \A m : Under(m)' = Under(m)
  BY <1>2 DEF Under
<1>4. CASE n = path
  <2>1. Under(n) = {n}
    BY <1>1, <1>4, UnderLeaf
  <2>2. Under(n)' = {n}
    BY <1>3, <2>1
  <2>3. /\ ~tree'[n].subdivided /\ tree'[n].centre.den = 1
        /\ tree'[n].mass = Mass[cursor] /\ tree'[n].body = cursor
    BY <1>1, <1>2, <1>4 DEF Filled, AtPoint
  <2>4. BodiesUnder(n)' = {cursor}
    BY <1>1, <2>2, <2>3 DEF BodiesUnder, Holds
  <2> PICK c : c = cursor
    OBVIOUS
  <2>7. tree'[n].mass = Index!MassOf(BodiesUnder(n)')
    BY <1>1, <2>3, <2>4, MassOfFacts
  <2>5. ~Starves(n)' /\ ~IsNaN(tree[n].centre)'
    BY <2>2, <2>3 DEF Starves, IsNaN
  <2>6. QED
    BY <2>5, <2>7 DEF Told
<1>5. CASE n # path
  <2>1. n \in DOMAIN tree /\ n \in Path
    BY <1>1, <1>2
  <2>2. ~Prefix(n, path)
    BY <1>1, <1>5, <2>1, ReturnedFrom
  <2>3. Told(n)
    BY <2>1, <2>2, ActivePrefix DEF UInv
  <2>4. \A m \in Under(n) : /\ m \in DOMAIN tree /\ m # path
                            /\ \A q \in Quadrant : Append(m, q) # path
    BY <2>1, <2>2, OffPath DEF Under
  <2>5. \A m \in Under(n) :
            /\ tree'[m] = tree[m]
            /\ tree[m].subdivided =>
                 \A q \in Quadrant : tree'[Append(m, q)].body = tree[Append(m, q)].body
    BY <1>2, <2>4 DEF IInv, Shape
  <2>6. QED
    BY <1>3, <2>1, <2>3, <2>5, SameUnder
<1>6. QED
  BY <1>4, <1>5

\* What SubDivide adds are leaves, and all of it under active nodes.
LEMMA SubdivideUnder ==
    ASSUME IInv, Subdivide
    PROVE  /\ \A n \in DOMAIN tree : ~Prefix(n, path) => Under(n)' = Under(n)
           /\ \A k \in Kids(path) : Under(k)' = {k}
<1>1. /\ path \in Path /\ DOMAIN tree \subseteq Path
      /\ DOMAIN tree' = DOMAIN tree \cup Kids(path)
      /\ \A q \in Quadrant : Append(path, q) \notin DOMAIN tree
  BY SubdivideTree
<1>2. \A q \in Quadrant : Append(path, q) \in Path /\ Append(path, q) # <<>>
          /\ Parent(Append(path, q)) = path /\ Len(Append(path, q)) = Len(path) + 1
  BY <1>1, AppendPath
<1>3. \A n : Under(n)' = {m \in DOMAIN tree' : Prefix(n, m)}
  BY DEF Under, Prefix
<1>4. ASSUME NEW n \in DOMAIN tree, ~Prefix(n, path) PROVE Under(n)' = Under(n)
  <2>1. ASSUME NEW q \in Quadrant PROVE ~Prefix(n, Append(path, q))
    <3>1. n # Append(path, q) /\ n \in Path
      BY <1>1
    <3>2. QED
      BY <1>2, <1>4, <3>1, PrefixFacts
  <2>2. \A m \in DOMAIN tree' : Prefix(n, m) => m \in DOMAIN tree
    BY <1>1, <2>1 DEF Kids
  <2>3. QED
    BY <1>1, <1>3, <2>2, UnderPrefix
<1>5. ASSUME NEW k \in Kids(path) PROVE Under(k)' = {k}
  <2> PICK q \in Quadrant : k = Append(path, q)
    BY DEF Kids
  <2>1. k \in Path /\ k \in DOMAIN tree' /\ k \notin DOMAIN tree /\ Prefix(k, k)
    BY <1>1, <1>2, PrefixFacts DEF Kids
  <2>2. ASSUME NEW m \in DOMAIN tree', Prefix(k, m) PROVE m = k
    <3>1. CASE m \in DOMAIN tree
      BY <2>1, <2>2, <3>1, Ancestors
    <3>2. CASE m \in Kids(path)
      <4>1. PICK r \in Quadrant : m = Append(path, r)
        BY <3>2 DEF Kids
      <4>2. m \in Path /\ Len(k) = Len(m)
        BY <1>2, <4>1
      <4>3. QED
        BY <2>1, <2>2, <4>2, PrefixOrder
    <3>3. QED
      BY <1>1, <3>1, <3>2
  <2>3. QED
    BY <1>3, <2>1, <2>2
<1>6. QED
  BY <1>4, <1>5

LEMMA SubdivideTold == IInv /\ UInv /\ Subdivide => UInv'
<1> SUFFICES ASSUME IInv, UInv, Subdivide, NEW n \in DOMAIN tree', ~Active(n)'
             PROVE  Told(n)'
  BY DEF UInv
<1>1. path' = path /\ call' = call /\ call = "insert"
  BY DEF Subdivide
<1>2. ~Active(n) /\ ~Prefix(n, path)
  BY <1>1 DEF Active, Prefix
<1>3. CASE n \in DOMAIN tree
  <2>1. Told(n)
    BY <1>2, <1>3 DEF UInv
  <2>2. \A m \in Under(n) : /\ m \in DOMAIN tree /\ m # path
                            /\ \A q \in Quadrant : Append(m, q) # path
    BY <1>2, <1>3, OffPath DEF Under
  <2>3. \A m \in Under(n) :
            /\ tree'[m] = tree[m]
            /\ tree[m].subdivided =>
                 \A q \in Quadrant : tree'[Append(m, q)].body = tree[Append(m, q)].body
    BY <2>2, SubdivideTree DEF IInv, Shape
  <2>4. QED
    BY <1>2, <1>3, <2>1, <2>3, SubdivideUnder, SameUnder
<1>4. CASE n \in Kids(path)
  <2>1. PICK q \in Quadrant : n = Append(path, q)
    BY <1>4 DEF Kids
  <2>2. /\ tree'[n] = NewChild(tree[path], q)
        /\ tree[path].body \in Body /\ None \notin Body
    BY <2>1, SubdivideTree, NoneAssumption DEF Body
  <2>3. /\ ~tree'[n].subdivided /\ tree'[n].centre.den = 1
        /\ \/ tree'[n].body = None /\ tree'[n].mass = 0
           \/ tree'[n].body \in Body /\ tree'[n].mass = Mass[tree'[n].body]
    BY <2>2 DEF NewChild, NewNode, Filled, AtPoint, NoShift
  <2>4. Under(n)' = {n}
    BY <1>4, SubdivideUnder
  <2>5. ~Starves(n)' /\ ~IsNaN(tree[n].centre)'
    BY <2>3, <2>4 DEF Starves, IsNaN
  <2>6. BodiesUnder(n)' = IF tree'[n].body = None THEN {} ELSE {tree'[n].body}
    BY <2>2, <2>3, <2>4 DEF BodiesUnder, Holds
  <2>7. tree'[n].mass = Index!MassOf(BodiesUnder(n)')
    BY <2>2, <2>3, <2>6, MassOfFacts
  <2>8. QED
    BY <2>5, <2>7 DEF Told
<1>5. QED
  BY <1>3, <1>4, SubdivideTree

\* A child without a body tells nothing of it, and a child with one what is under it.
LEMMA KidTells ==
    ASSUME IInv, UInv, call = "aggregate", NEW q \in Quadrant
    PROVE  /\ Append(path, q) \in DOMAIN tree
           /\ Starves(Append(path, q)) <=> Counted(path, q) /\ IsNaN(tree[Append(path, q)].centre)
           /\ Index!MassOf(BodiesUnder(Append(path, q))) =
                  IF Counted(path, q) THEN tree[Append(path, q)].mass ELSE 0
<1> PICK k : k = Append(path, q)
  OBVIOUS
<1>1. path \in DOMAIN tree /\ path \in Path /\ tree[path].subdivided
  BY DEF IInv, TypeOK, CallInv
<1>2. k \in DOMAIN tree /\ k \in Path
  BY <1>1 DEF IInv, TypeOK, Shape
<1>3. ~Active(k)
  <2>1. Len(k) = Len(path) + 1 /\ Len(path) \in Nat
    BY <1>1, AppendPath, PrefixElements
  <2>2. QED
    BY <2>1 DEF Active
<1>4. Told(k)
  BY <1>2, <1>3 DEF UInv
<1>5. CASE tree[k].body # None
  BY <1>2, <1>4, <1>5 DEF Told, Counted
<1>6. CASE tree[k].body = None
  <2>1. ~tree[k].subdivided
    BY <1>2, <1>6 DEF IInv, Shape
  <2>2. Under(k) = {k}
    BY <1>2, <2>1, UnderLeaf
  <2>3. BodiesUnder(k) = {}
    BY <1>6, <2>2, NoneAssumption DEF BodiesUnder, Holds, Body
  <2>4. ~Starves(k)
    BY <2>1, <2>2 DEF Starves
  <2>5. ~Counted(path, q)
    BY <1>6 DEF Counted
  <2>6. QED
    BY <1>2, <2>3, <2>4, <2>5, MassOfFacts
<1>7. QED
  BY <1>5, <1>6

\* 0/0 and NaN: the mean of the centres of the children.
LEMMA MeanNaN ==
    ASSUME IInv, call = "aggregate"
    PROVE  IsNaN(MeanCentre(path)) <=>
               \/ Size(path) = 0
               \/ \E q \in Quadrant : Counted(path, q) /\ IsNaN(tree[Append(path, q)].centre)
<1> DEFINE part(q) == IF Counted(path, q) THEN tree[Append(path, q)].centre ELSE NoShift
           one(q) == IF Counted(path, q) THEN 1 ELSE 0
<1>1. /\ path \in DOMAIN tree /\ tree[path].subdivided
      /\ \A q \in Quadrant : Append(path, q) \in DOMAIN tree
  BY DEF IInv, TypeOK, CallInv, Shape
<1>2. \A q \in Quadrant : tree[Append(path, q)].centre \in Centre
  BY <1>1 DEF IInv, TypeOK, Node
<1>3. \A q \in Quadrant : /\ part(q).den \in Int
                          /\ part(q).den = 0 <=> Counted(path, q) /\ IsNaN(tree[Append(path, q)].centre)
  BY <1>2 DEF NoShift, IsNaN, Centre
<1>4. Size(path) \in Int
  BY DEF Size
<1>5. MeanCentre(path) = Over(Plus(Plus(part(0), part(1)), Plus(part(2), part(3))), Size(path))
  BY DEF MeanCentre
<1> HIDE DEF part, one
<1>6. MeanCentre(path).den = ((part(0).den * part(1).den) * (part(2).den * part(3).den)) * Size(path)
  <2>1. \A c, d : Plus(c, d).den = c.den * d.den
    BY DEF Plus
  <2>2. \A c, d, n : Over(Plus(c, d), n).den = Plus(c, d).den * n
    BY DEF Over, Plus
  <2>3. QED
    BY <1>5, <2>1, <2>2
<1>7. \A u, v \in Int : u * v = 0 <=> u = 0 \/ v = 0
  OBVIOUS
<1>8. \A q \in {0, 1, 2, 3} : part(q).den \in Int
  BY <1>3 DEF Quadrant
<1>9. part(0).den * part(1).den \in Int /\ part(2).den * part(3).den \in Int
      /\ (part(0).den * part(1).den) * (part(2).den * part(3).den) \in Int
  BY <1>8
<1>10. MeanCentre(path).den = 0 <=>
          \/ Size(path) = 0 \/ part(0).den = 0 \/ part(1).den = 0
          \/ part(2).den = 0 \/ part(3).den = 0
  <2>1. PICK u, v, w : u = part(0).den * part(1).den /\ v = part(2).den * part(3).den /\ w = u * v
    OBVIOUS
  <2>2. u = 0 <=> part(0).den = 0 \/ part(1).den = 0
    BY <1>7, <1>8, <2>1
  <2>3. v = 0 <=> part(2).den = 0 \/ part(3).den = 0
    BY <1>7, <1>8, <2>1
  <2>4. u \in Int /\ v \in Int /\ w \in Int
    BY <1>9, <2>1
  <2>5. w = 0 <=> u = 0 \/ v = 0
    BY <1>7, <2>1, <2>4
  <2>6. MeanCentre(path).den = w * Size(path)
    BY <1>6, <2>1
  <2>7. MeanCentre(path).den = 0 <=> w = 0 \/ Size(path) = 0
    BY <1>4, <1>7, <2>4, <2>6
  <2>8. QED
    BY <2>2, <2>3, <2>5, <2>7
<1>11. (part(0).den = 0 \/ part(1).den = 0 \/ part(2).den = 0 \/ part(3).den = 0) <=>
          \E q \in Quadrant : part(q).den = 0
  BY DEF Quadrant
<1>12. QED
  BY <1>3, <1>10, <1>11 DEF IsNaN

\* No body is under two children, and none but those under the children is under the
\* node.
LEMMA KidBodies ==
    ASSUME IInv, GInv, NEW n \in DOMAIN tree, tree[n].subdivided
    PROVE  /\ \A q, r \in Quadrant : \A c \in Body :
                 c \in BodiesUnder(Append(n, q)) /\ c \in BodiesUnder(Append(n, r)) => q = r
           /\ \A c : c \in BodiesUnder(n) <=> \E q \in Quadrant : c \in BodiesUnder(Append(n, q))
<1>1. n \in Path /\ DOMAIN tree \subseteq Path
  BY DEF IInv, TypeOK
<1>2. ASSUME NEW q \in Quadrant, NEW r \in Quadrant, NEW c \in Body,
             c \in BodiesUnder(Append(n, q)), c \in BodiesUnder(Append(n, r))
      PROVE  q = r
  <2>1. PICK k \in DOMAIN tree : Prefix(Append(n, q), k) /\ Holds(k, c)
    BY <1>2, UnderPrefix DEF BodiesUnder
  <2>2. PICK m \in DOMAIN tree : Prefix(Append(n, r), m) /\ Holds(m, c)
    BY <1>2, UnderPrefix DEF BodiesUnder
  <2>3. k = m
    BY <2>1, <2>2, OneLeaf DEF OneLeafEach
  <2>4. k \in Path
    BY <1>1
  <2>5. Append(n, q) = Towards(n, k)
    BY <1>1, <2>1, <2>4, OnTheWay
  <2>6. Append(n, r) = Towards(n, k)
    BY <1>1, <2>2, <2>3, <2>4, OnTheWay
  <2>7. QED
    BY <1>1, <2>5, <2>6, AppendPath
<1>3. ASSUME NEW c
      PROVE  c \in BodiesUnder(n) <=> \E q \in Quadrant : c \in BodiesUnder(Append(n, q))
  <2>1. /\ \A q \in Quadrant : Under(Append(n, q)) \subseteq Under(n)
        /\ \A m \in Under(n) : m = n \/ \E q \in Quadrant : m \in Under(Append(n, q))
    BY UnderSplit
  <2>2. ~Holds(n, c)
    BY DEF Holds
  <2>3. QED
    BY <2>1, <2>2 DEF BodiesUnder
<1>4. QED
  BY <1>2, <1>3

\* The mean of the path tells what is under it.
LEMMA AggregateTells ==
    ASSUME IInv, GInv, UInv, call = "aggregate"
    PROVE  /\ IsNaN(MeanCentre(path)) <=> Starves(path)
           /\ TempMass(path) = Index!MassOf(BodiesUnder(path))
<1>1. path \in DOMAIN tree /\ tree[path].subdivided
  BY DEF IInv, TypeOK, CallInv
<1>2. /\ path \in Under(path)
      /\ \A q \in Quadrant : Append(path, q) \in DOMAIN tree /\ Under(Append(path, q)) \subseteq Under(path)
      /\ \A m \in Under(path) : m = path \/ \E q \in Quadrant : m \in Under(Append(path, q))
  BY <1>1, UnderSplit
<1>3. Starves(path) <=> Size(path) = 0 \/ \E q \in Quadrant : Starves(Append(path, q))
  <2>1. ASSUME Starves(path) PROVE Size(path) = 0 \/ \E q \in Quadrant : Starves(Append(path, q))
    BY <1>2, <2>1 DEF Starves
  <2>2. ASSUME Size(path) = 0 PROVE Starves(path)
    BY <1>1, <1>2, <2>2 DEF Starves
  <2>3. ASSUME NEW q \in Quadrant, Starves(Append(path, q)) PROVE Starves(path)
    BY <1>2, <2>3 DEF Starves
  <2>4. QED
    BY <2>1, <2>2, <2>3
<1>4. IsNaN(MeanCentre(path)) <=> Starves(path)
  BY <1>3, MeanNaN, KidTells
<1>5. TempMass(path) = Index!MassOf(BodiesUnder(path))
  <2> DEFINE part(q) == IF Counted(path, q) THEN tree[Append(path, q)].mass ELSE 0
             U(q) == BodiesUnder(Append(path, q))
  <2>1. TempMass(path) = part(0) + part(1) + part(2) + part(3)
    BY DEF TempMass
  <2>2. \A q \in Quadrant : Index!MassOf(U(q)) = part(q)
    BY <1>1, KidTells
  <2>3. /\ \A q, r \in Quadrant : \A c \in Body : c \in U(q) /\ c \in U(r) => q = r
        /\ \A c : c \in BodiesUnder(path) <=> \E q \in Quadrant : c \in U(q)
    BY <1>1, KidBodies
  <2> HIDE DEF part, U
  <2>4. 0 \in Quadrant /\ 1 \in Quadrant /\ 2 \in Quadrant /\ 3 \in Quadrant
        /\ \A q \in Quadrant : q = 0 \/ q = 1 \/ q = 2 \/ q = 3
    BY DEF Quadrant
  <2>5. BodiesUnder(path) = (U(0) \cup U(1)) \cup (U(2) \cup U(3))
    BY <2>3, <2>4
  <2>6. Index!MassOf(U(0) \cup U(1)) = part(0) + part(1)
    <3>1. \A c \in Body : ~(c \in U(0) /\ c \in U(1))
      BY <2>3, <2>4
    <3>2. QED
      BY <2>2, <2>4, <3>1, MassOfFacts
  <2>7. Index!MassOf(U(2) \cup U(3)) = part(2) + part(3)
    <3>1. \A c \in Body : ~(c \in U(2) /\ c \in U(3))
      BY <2>3, <2>4
    <3>2. QED
      BY <2>2, <2>4, <3>1, MassOfFacts
  <2>8. Index!MassOf((U(0) \cup U(1)) \cup (U(2) \cup U(3))) =
            Index!MassOf(U(0) \cup U(1)) + Index!MassOf(U(2) \cup U(3))
    <3>1. \A c \in Body : ~(c \in U(0) \cup U(1) /\ c \in U(2) \cup U(3))
      BY <2>3, <2>4
    <3>2. QED
      BY <3>1, MassOfFacts
  <2>9. part(0) \in Nat /\ part(1) \in Nat /\ part(2) \in Nat /\ part(3) \in Nat
    BY <2>2, <2>4, MassOfFacts
  <2>10. QED
    BY <2>1, <2>5, <2>6, <2>7, <2>8, <2>9
<1>6. QED
  BY <1>4, <1>5

LEMMA AggregateTold == IInv /\ GInv /\ UInv /\ Aggregate => UInv'
<1> SUFFICES ASSUME IInv, GInv, UInv, Aggregate, NEW n \in DOMAIN tree', ~Active(n)'
             PROVE  Told(n)'
  BY DEF UInv
<1>1. /\ path \in DOMAIN tree /\ tree[path] \in Node /\ DOMAIN tree \subseteq Path
      /\ call = "aggregate" /\ Return(path)
  BY DEF IInv, Aggregate, TypeOK
<1>2. /\ DOMAIN tree' = DOMAIN tree
      /\ \A m \in DOMAIN tree : m # path => tree'[m] = tree[m]
      /\ tree'[path].mass = TempMass(path) /\ tree'[path].centre = MeanCentre(path)
      /\ \A m \in DOMAIN tree : /\ tree'[m].body = tree[m].body
                                /\ tree'[m].subdivided = tree[m].subdivided
  BY <1>1 DEF Aggregate, Node
<1>3. \A m : Under(m)' = Under(m)
  BY <1>2 DEF Under
<1>4. CASE n = path
  <2>1. path \in DOMAIN tree /\ tree[path].subdivided
    BY <1>1 DEF IInv, CallInv
  <2>2. ASSUME NEW m \in DOMAIN tree, tree[m].subdivided PROVE Size(m)' = Size(m)
    <3>1. \A q \in {0, 1, 2, 3} : Append(m, q) \in DOMAIN tree
      BY <2>2 DEF IInv, Shape, Quadrant
    <3>2. \A q \in {0, 1, 2, 3} : Counted(m, q)' = Counted(m, q)
      BY <1>2, <3>1 DEF Counted
    <3>3. QED
      BY <3>2 DEF Size
  <2>3. Starves(n)' <=> Starves(n)
    <3>1. \A m \in Under(n) : m \in DOMAIN tree
      BY DEF Under
    <3>2. QED
      BY <1>2, <1>3, <2>2, <3>1 DEF Starves
  <2>4. BodiesUnder(n)' = BodiesUnder(n)
    <3>1. \A m \in Under(n) : m \in DOMAIN tree
      BY DEF Under
    <3>2. QED
      BY <1>2, <1>3, <3>1 DEF BodiesUnder, Holds
  <2>5. tree'[n].mass = TempMass(path) /\ tree'[n].centre = MeanCentre(path)
    BY <1>2, <1>4
  <2>6. /\ IsNaN(MeanCentre(path)) <=> Starves(n)
        /\ TempMass(path) = Index!MassOf(BodiesUnder(n))
    BY <1>1, <1>4, AggregateTells
  <2>7. QED
    BY <2>3, <2>4, <2>5, <2>6 DEF Told
<1>5. CASE n # path
  <2>1. n \in DOMAIN tree /\ n \in Path
    BY <1>1, <1>2
  <2>2. ~Prefix(n, path)
    BY <1>1, <1>5, <2>1, ReturnedFrom
  <2>3. Told(n)
    BY <1>1, <2>1, <2>2, ActivePrefix DEF UInv
  <2>4. \A m \in Under(n) : /\ m \in DOMAIN tree /\ m # path
                            /\ \A q \in Quadrant : Append(m, q) # path
    BY <2>1, <2>2, OffPath DEF Under
  <2>5. \A m \in Under(n) :
            /\ tree'[m] = tree[m]
            /\ tree[m].subdivided =>
                 \A q \in Quadrant : tree'[Append(m, q)].body = tree[Append(m, q)].body
    BY <1>2, <2>4 DEF IInv, Shape
  <2>6. QED
    BY <1>3, <2>1, <2>3, <2>5, SameUnder
<1>6. QED
  BY <1>4, <1>5

LEMMA NextTold == IInv /\ GInv /\ UInv /\ [Next]_vars => UInv'
<1> SUFFICES ASSUME IInv, GInv, UInv, [Next]_vars PROVE UInv'
  OBVIOUS
<1>1. path \in Path /\ path \in DOMAIN tree /\ DOMAIN tree \subseteq Path /\ (call = "idle" => path = <<>>)
  BY DEF IInv, TypeOK, CallInv
<1>2. CASE Refuse \/ Enter \/ Drop \/ UNCHANGED vars
  <2>1. tree' = tree /\ (call # "idle" => path' = path /\ call' # "idle")
    BY <1>2 DEF Refuse, Enter, Drop, vars
  <2>2. \A n \in DOMAIN tree : Active(n) => Active(n)'
    BY <2>1 DEF Active
  <2>3. QED
    BY <2>1, <2>2, SameTreeTold
<1>3. ASSUME NEW q \in Quadrant, Descend(q) PROVE UInv'
  <2>1. tree' = tree /\ path' = Append(path, q) /\ call' = call
    BY <1>3 DEF Descend
  <2>2. ASSUME NEW n \in DOMAIN tree, Active(n) PROVE Active(n)'
    <3>1. Prefix(n, path) /\ call # "idle"
      BY <2>2, ActivePrefix
    <3>2. Prefix(n, Append(path, q))
      BY <1>1, <3>1, PrefixFacts
    <3>3. QED
      BY <2>1, <3>1, <3>2 DEF Active, Prefix
  <2>3. QED
    BY <2>1, <2>2, SameTreeTold
<1>4. CASE Fill \/ Subdivide \/ Aggregate
  BY <1>4, FillTold, SubdivideTold, AggregateTold
<1>5. CASE Reconstruct
  <2>1. (tree = NewTree)'
    BY <1>5 DEF Reconstruct, NewTree
  <2>2. QED
    BY <2>1, NewTreeTold, PTL
<1>6. QED
  BY <1>2, <1>3, <1>4, <1>5 DEF Next, Insert

LEMMA Tells == Spec => []UInv
<1>1. Init => UInv
  BY NewTreeTold DEF Init
<1>2. QED
  BY <1>1, NextTold, Inductive, GInductive, PTL DEF Spec

\* Between two Inserts a centre of mass is NaN exactly when some split in the
\* tree under it lost both its bodies: the 0/0 there spreads to all its
\* ancestors, whatever else they hold, and nothing else makes one.
THEOREM StarvedCorrect == Spec => []NaNExactlyWhenStarved
<1>1. UInv => NaNExactlyWhenStarved
  <2> SUFFICES ASSUME UInv, call = "idle", NEW n \in DOMAIN tree
               PROVE  IsNaN(tree[n].centre) <=> \E m \in Under(n) : tree[m].subdivided /\ Size(m) = 0
    BY DEF NaNExactlyWhenStarved
  <2>1. Told(n)
    BY DEF UInv, Active
  <2>2. QED
    BY <2>1 DEF Told, Starves
<1>2. QED
  BY <1>1, Tells, PTL

\* Mass is conserved through every level of the tree, whichever bodies are displaced or
\* dropped: a node whose Insert is over reports the mass of the bodies its leaves hold.
THEOREM MassCorrect == Spec => []MassConserved
<1>1. UInv => MassConserved
  BY DEF UInv, Told, MassConserved
<1>2. QED
  BY <1>1, Tells, PTL

-----------------------------------------------------------------------------
(* The refinement of BodyIndex.                                            *)

Bodies == {b \in Body : Held(b)}

Balanced == tree[<<>>].mass = Index!MassOf(Bodies)

\* Once a split has lost a body, only empty leaves are before the Insert.
EmptyLeaf(n) == ~tree[n].subdivided /\ tree[n].body = None
Emptied == \/ EmptyLeaf(path)
           \/ tree[path].subdivided /\ \A q \in Quadrant : EmptyLeaf(Append(path, q))

IndexInv == call = "insert" => Balanced \/ Emptied

LEMMA RootBodies == IInv => BodiesUnder(<<>>) = Bodies
<1> SUFFICES ASSUME IInv PROVE BodiesUnder(<<>>) = Bodies
  OBVIOUS
<1>1. DOMAIN tree \subseteq Path /\ <<>> \in Path /\ Len(<<>>) = 0
  BY EmptySeq DEF IInv, TypeOK, CallInv
<1>2. \A n \in DOMAIN tree : Prefix(<<>>, n)
  BY <1>1, PrefixElements
<1>3. Under(<<>>) = DOMAIN tree
  BY <1>2, UnderPrefix
<1>4. QED
  BY <1>3 DEF BodiesUnder, Bodies, Held

LEMMA RootBalanced == IInv /\ UInv /\ call = "idle" => Balanced
<1> SUFFICES ASSUME IInv, UInv, call = "idle" PROVE Balanced
  OBVIOUS
<1>1. <<>> \in DOMAIN tree /\ ~Active(<<>>)
  BY DEF IInv, CallInv, Active
<1>2. Told(<<>>)
  BY <1>1 DEF UInv
<1>3. QED
  BY <1>2, RootBodies DEF Told, Balanced

LEMMA RootBalancedNext == IInv' /\ UInv' /\ call' = "idle" => tree'[<<>>].mass = Index!MassOf(Bodies)'
<1>1. (IInv /\ UInv /\ call = "idle" => Balanced)'
  BY RootBalanced, PTL
<1>2. QED
  BY <1>1 DEF Balanced

\* What fills a leaf, and what recomputes the sums.
LEMMA FillBodies ==
    ASSUME IInv, Fill
    PROVE  /\ Bodies' = Bodies \cup {cursor} /\ cursor \in Body /\ cursor \notin Bodies
           /\ path # <<>> => tree'[<<>>].mass = tree[<<>>].mass
<1>1. /\ path \in DOMAIN tree /\ cursor \in Body /\ tree[path].empty /\ ~tree[path].subdivided
      /\ call = "insert" /\ tree[path].body = None /\ <<>> \in DOMAIN tree
  BY DEF IInv, Fill, TypeOK, CallInv, Shape
<1>2. /\ DOMAIN tree' = DOMAIN tree
      /\ \A n \in DOMAIN tree : n # path => tree'[n] = tree[n]
      /\ tree'[path] = Filled(tree[path], cursor, position[cursor])
  BY <1>1 DEF Fill
<1>3. ~tree'[path].subdivided /\ tree'[path].body = cursor
  BY <1>1, <1>2 DEF Filled
<1>4. ASSUME NEW b \in Body PROVE Held(b)' <=> Held(b) \/ b = cursor
  <2>1. b # None
    BY NoneAssumption DEF Body
  <2>2. \A n \in DOMAIN tree : Holds(n, b)' <=> Holds(n, b) \/ (n = path /\ b = cursor)
    BY <1>1, <1>2, <1>3, <2>1 DEF Holds
  <2>3. QED
    BY <1>1, <1>2, <2>2 DEF Held
<1>5. ~Held(cursor)
  BY <1>1, NotYetHeld
<1>6. QED
  BY <1>1, <1>2, <1>4, <1>5 DEF Bodies

LEMMA AggregateBodies ==
    ASSUME IInv, Aggregate
    PROVE  /\ Bodies' = Bodies
           /\ path # <<>> => tree'[<<>>].mass = tree[<<>>].mass
<1>1. path \in DOMAIN tree /\ tree[path] \in Node /\ <<>> \in DOMAIN tree
  BY DEF IInv, TypeOK, CallInv
<1>2. path # <<>> => tree'[<<>>] = tree[<<>>]
  BY <1>1 DEF Aggregate
<1>3. \A b \in Body : Held(b)' <=> Held(b)
  BY AggregateReports
<1>4. QED
  BY <1>2, <1>3 DEF Bodies

\* A split loses at most the body of the node, and then leaves nothing to split.
LEMMA SubdivideBodies ==
    ASSUME IInv, GInv, Subdivide
    PROVE  /\ tree'[<<>>].mass = tree[<<>>].mass /\ ~Emptied
           /\ \/ Bodies' = Bodies
              \/ \E b \in Bodies : Bodies' = Bodies \ {b} /\ Emptied'
<1>1. /\ path \in DOMAIN tree /\ path \in Path /\ tree[path].body \in Body
      /\ ~tree[path].subdivided /\ ~tree[path].empty
      /\ DOMAIN tree' = DOMAIN tree \cup Kids(path)
      /\ \A q \in Quadrant : Append(path, q) \notin DOMAIN tree
                             /\ tree'[Append(path, q)] = NewChild(tree[path], q)
      /\ tree'[path].subdivided
      /\ \A n \in DOMAIN tree : n # path => tree'[n] = tree[n]
  BY SubdivideTree
<1>2. tree'[<<>>].mass = tree[<<>>].mass
  BY SubdivideTree DEF IInv, CallInv
<1>3. ~Emptied
  BY <1>1, NoneAssumption DEF Emptied, EmptyLeaf, Body
<1> PICK d : d = tree[path].body
  OBVIOUS
<1>4. \A q \in Quadrant : LET k == NewChild(tree[path], q)
                          IN  ~k.subdivided /\ (k.body = None \/ k.body = d)
  BY DEF NewChild, NewNode, Filled
<1>5. d \in Body /\ None \notin Body /\ Holds(path, d)
  BY <1>1, NoneAssumption DEF Body, Holds
<1>6. ASSUME NEW b \in Body, b # d PROVE Held(b)' <=> Held(b)
  <2>1. \A n \in DOMAIN tree : Holds(n, b)' <=> Holds(n, b)
    BY <1>1, <1>6 DEF Holds
  <2>2. ASSUME NEW n \in Kids(path) PROVE ~Holds(n, b)'
    <3>1. PICK q \in Quadrant : n = Append(path, q)
      BY DEF Kids
    <3>2. tree'[n] = NewChild(tree[path], q)
      BY <1>1, <3>1
    <3>3. b # None /\ tree'[n].body # b
      BY <1>4, <1>5, <1>6, <3>2
    <3>4. QED
      BY <3>3 DEF Holds
  <2>3. QED
    BY <1>1, <2>1, <2>2 DEF Held
<1>7. d \in Bodies
  BY <1>1, <1>5 DEF Bodies, Held
<1>8. CASE \E q \in Quadrant : NewChild(tree[path], q).body = d
  <2>1. PICK q \in Quadrant : NewChild(tree[path], q).body = d
    BY <1>8
  <2>2. PICK k : k = Append(path, q)
    OBVIOUS
  <2>3. k \in DOMAIN tree' /\ ~tree'[k].subdivided /\ tree'[k].body = d
    BY <1>1, <1>4, <2>1, <2>2 DEF Kids
  <2>4. Held(d)'
    BY <2>3 DEF Held, Holds
  <2>5. Bodies' = Bodies
    BY <1>6, <1>7, <2>4 DEF Bodies
  <2>6. QED
    BY <1>2, <1>3, <2>5
<1>9. CASE \A q \in Quadrant : NewChild(tree[path], q).body # d
  <2>1. \A q \in Quadrant : LET k == tree'[Append(path, q)] IN ~k.subdivided /\ k.body = None
    BY <1>1, <1>4, <1>9
  <2>2. Emptied'
    <3>1. path' = path
      BY DEF Subdivide
    <3>2. QED
      BY <1>1, <2>1, <3>1 DEF Emptied, EmptyLeaf
  <2>3. ~Held(d)'
    <3>1. \A n \in DOMAIN tree : ~Holds(n, d)'
      <4>1. \A n \in DOMAIN tree : n # path => ~Holds(n, d)
        BY <1>1, <1>5, OneLeaf DEF OneLeafEach
      <4>2. QED
        BY <1>1, <4>1 DEF Holds
    <3>2. \A n \in Kids(path) : ~Holds(n, d)'
      BY <1>1, <1>5, <2>1 DEF Holds, Kids
    <3>3. QED
      BY <1>1, <3>1, <3>2 DEF Held
  <2>4. Bodies' = Bodies \ {d}
    BY <1>6, <1>7, <2>3 DEF Bodies
  <2>5. QED
    BY <1>2, <1>3, <1>7, <2>2, <2>4
<1>10. QED
  BY <1>8, <1>9

LEMMA InsertIndex == IInv /\ IInv' /\ GInv /\ UInv /\ UInv' /\ IndexInv /\ Insert => IndexInv' /\ [Index!Next]_(Index!vars)
<1> SUFFICES ASSUME IInv, IInv', GInv, UInv, UInv', IndexInv, Insert
             PROVE  IndexInv' /\ [Index!Next]_(Index!vars)
  OBVIOUS
<1>1. cursor \in Int /\ (cursor \in Body => cursor =< BodyNum) /\ (call = "idle" => path = <<>>)
  BY DEF IInv, TypeOK, CallInv, Body
<1>2. CASE Refuse
  <2>1. /\ call = "idle" /\ call' = "idle" /\ cursor \in Body /\ cursor' = cursor + 1 /\ tree' = tree
    BY <1>2 DEF Refuse
  <2>2. Bodies' = Bodies
    BY <2>1 DEF Bodies, Held, Holds
  <2>3. Index!Refuse
    BY <1>1, <2>1, <2>2 DEF Index!Refuse, Bodies
  <2>4. QED
    BY <2>1, <2>3 DEF Index!Next, IndexInv
<1>3. CASE Enter
  <2>1. /\ call = "idle" /\ call' = "insert" /\ cursor \in Body /\ cursor' = cursor /\ tree' = tree
    BY <1>3 DEF Enter
  <2>2. Bodies' = Bodies
    BY <2>1 DEF Bodies, Held, Holds
  <2>3. Index!Open
    BY <1>1, <2>1, <2>2 DEF Index!Open, Bodies
  <2>4. Balanced'
    BY <2>1, <2>2, RootBalanced DEF Balanced
  <2>5. QED
    BY <2>3, <2>4 DEF Index!Next, IndexInv
<1>4. CASE Fill
  <2>1. /\ Bodies' = Bodies \cup {cursor} /\ cursor \in Body /\ cursor \notin Bodies
        /\ path # <<>> => tree'[<<>>].mass = tree[<<>>].mass
    BY <1>4, FillBodies
  <2>2. call = "insert" /\ Return(path)
    BY <1>4 DEF Fill
  <2>3. CASE path = <<>>
    <3>1. call' = "idle" /\ cursor' = cursor + 1
      BY <2>2, <2>3 DEF Return
    <3>2. tree'[<<>>].mass = Index!MassOf(Bodies)'
      BY <3>1, RootBalancedNext
    <3>3. Index!Close
      BY <2>1, <2>2, <3>1, <3>2 DEF Index!Close, Bodies
    <3>4. QED
      BY <3>1, <3>3 DEF Index!Next, IndexInv
  <2>4. CASE path # <<>>
    <3>1. call' = "aggregate" /\ cursor' = cursor
      BY <2>2, <2>4 DEF Return
    <3>2. Index!Add
      BY <2>1, <2>2, <2>4, <3>1 DEF Index!Add, Bodies
    <3>3. QED
      BY <3>1, <3>2 DEF Index!Next, IndexInv
  <2>5. QED
    BY <2>3, <2>4
<1>5. CASE Subdivide
  <2>1. /\ tree'[<<>>].mass = tree[<<>>].mass /\ ~Emptied
        /\ \/ Bodies' = Bodies
           \/ \E b \in Bodies : Bodies' = Bodies \ {b} /\ Emptied'
    BY <1>5, SubdivideBodies
  <2>2. call = "insert" /\ call' = "insert" /\ cursor' = cursor
    BY <1>5 DEF Subdivide
  <2>3. Balanced
    BY <2>1, <2>2 DEF IndexInv
  <2>4. CASE Bodies' = Bodies
    <3>1. UNCHANGED Index!vars
      BY <2>1, <2>2, <2>4 DEF Index!vars, Bodies
    <3>2. Balanced'
      BY <2>1, <2>3, <2>4 DEF Balanced
    <3>3. QED
      BY <3>1, <3>2 DEF IndexInv
  <2>5. ASSUME NEW b \in Bodies, Bodies' = Bodies \ {b}, Emptied'
        PROVE  IndexInv' /\ [Index!Next]_(Index!vars)
    <3>1. Index!Displace
      BY <2>1, <2>2, <2>3, <2>5 DEF Index!Displace, Bodies, Balanced
    <3>2. QED
      BY <2>5, <3>1 DEF Index!Next, IndexInv
  <2>6. QED
    BY <2>1, <2>4, <2>5
<1>6. ASSUME NEW q \in Quadrant, Descend(q) PROVE IndexInv' /\ [Index!Next]_(Index!vars)
  <2>1. /\ call = "insert" /\ call' = "insert" /\ cursor' = cursor /\ tree' = tree
        /\ tree[path].subdivided /\ path' = Append(path, q)
    BY <1>6 DEF Descend
  <2>2. Bodies' = Bodies
    BY <2>1 DEF Bodies, Held, Holds
  <2>3. UNCHANGED Index!vars
    BY <2>1, <2>2 DEF Index!vars, Bodies
  <2>4. Balanced => Balanced'
    BY <2>1, <2>2 DEF Balanced
  <2>5. Emptied => Emptied'
    BY <2>1 DEF Emptied, EmptyLeaf
  <2>6. QED
    BY <2>1, <2>3, <2>4, <2>5 DEF IndexInv
<1>7. CASE Drop
  <2>1. call = "insert" /\ call' = "aggregate" /\ cursor' = cursor /\ tree' = tree
    BY <1>7 DEF Drop
  <2>2. Bodies' = Bodies
    BY <2>1 DEF Bodies, Held, Holds
  <2>3. UNCHANGED Index!vars
    BY <2>1, <2>2 DEF Index!vars, Bodies
  <2>4. QED
    BY <2>1, <2>3 DEF IndexInv
<1>8. CASE Aggregate
  <2>1. Bodies' = Bodies /\ (path # <<>> => tree'[<<>>].mass = tree[<<>>].mass)
    BY <1>8, AggregateBodies
  <2>2. call = "aggregate" /\ Return(path)
    BY <1>8 DEF Aggregate
  <2>3. CASE path = <<>>
    <3>1. call' = "idle" /\ cursor' = cursor + 1
      BY <2>2, <2>3 DEF Return
    <3>2. tree'[<<>>].mass = Index!MassOf(Bodies)'
      BY <3>1, RootBalancedNext
    <3>3. Index!Close
      BY <2>1, <2>2, <3>1, <3>2 DEF Index!Close, Bodies
    <3>4. QED
      BY <3>1, <3>3 DEF Index!Next, IndexInv
  <2>4. CASE path # <<>>
    <3>1. call' = "aggregate" /\ cursor' = cursor
      BY <2>2, <2>4 DEF Return
    <3>2. UNCHANGED Index!vars
      BY <2>1, <2>2, <2>4, <3>1 DEF Index!vars, Bodies
    <3>3. QED
      BY <3>1, <3>2 DEF IndexInv
  <2>5. QED
    BY <2>3, <2>4
<1>9. QED
  BY <1>2, <1>3, <1>4, <1>5, <1>6, <1>7, <1>8 DEF Insert

LEMMA ReconstructIndex == IInv /\ Reconstruct => IndexInv' /\ Index!Clear
<1> SUFFICES ASSUME IInv, Reconstruct PROVE IndexInv' /\ Index!Clear
  OBVIOUS
<1>1. /\ call = "idle" /\ call' = "idle" /\ cursor > BodyNum /\ cursor' = 1 /\ tree' = NewTree
  BY DEF Reconstruct, Constructed
<1>2. DOMAIN tree' = {<<>>} /\ tree'[<<>>] = NewNode(SceneBounds)
  BY <1>1 DEF NewTree
<1>3. tree'[<<>>].mass = 0 /\ tree'[<<>>].body = None
  BY <1>2 DEF NewNode
<1>4. \A b \in Body : ~Held(b)'
  BY <1>2, <1>3, NoneAssumption DEF Held, Holds, Body
<1>5. Index!Clear
  BY <1>1, <1>3, <1>4 DEF Index!Clear
<1>6. QED
  BY <1>1, <1>5 DEF IndexInv

\* Seen from outside, the tree is a set of bodies and their total mass: one Insert adds at
\* most its own body and loses at most one inserted earlier, and only its end changes the
\* total, to the mass of the bodies that are left.
THEOREM IndexCorrect == Spec => ImplementsBodyIndex
<1>1. Init => Index!Init /\ IndexInv
  <2> SUFFICES ASSUME Init PROVE Index!Init /\ IndexInv
    OBVIOUS
  <2>1. DOMAIN tree = {<<>>} /\ tree[<<>>] = NewNode(SceneBounds) /\ call = "idle" /\ cursor = 1
    BY DEF Init, NewTree
  <2>2. tree[<<>>].mass = 0 /\ tree[<<>>].body = None
    BY <2>1 DEF NewNode
  <2>3. \A b \in Body : ~Held(b)
    BY <2>1, <2>2, NoneAssumption DEF Held, Holds, Body
  <2>4. QED
    BY <2>1, <2>2, <2>3 DEF Index!Init, IndexInv
<1>2. IInv /\ IInv' /\ GInv /\ UInv /\ UInv' /\ IndexInv /\ [Next]_vars => IndexInv' /\ [Index!Next]_(Index!vars)
  <2> SUFFICES ASSUME IInv, IInv', GInv, UInv, UInv', IndexInv, [Next]_vars
               PROVE  IndexInv' /\ [Index!Next]_(Index!vars)
    OBVIOUS
  <2>1. CASE Insert
    BY <2>1, InsertIndex
  <2>2. CASE Reconstruct
    BY <2>2, ReconstructIndex DEF Index!Next
  <2>3. CASE UNCHANGED vars
    BY <2>3 DEF vars, IndexInv, Balanced, Emptied, EmptyLeaf, Index!vars, Bodies, Held, Holds
  <2>4. QED
    BY <2>1, <2>2, <2>3 DEF Next
<1>3. QED
  BY <1>1, <1>2, Inductive, GInductive, Tells, PTL DEF Spec, ImplementsBodyIndex, Index!Spec
=============================================================================
