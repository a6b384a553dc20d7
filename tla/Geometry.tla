------------------------------ MODULE Geometry ------------------------------
(***************************************************************************)
(* The plane the bodies live in.  Coordinates are the representable values *)
(* of a coordinate, in order: a finite-precision lattice, here the         *)
(* integers.  Halving a box rounds to the lattice, so two points cannot be *)
(* separated for ever, as with the doubles of FVector2D.  A position with  *)
(* a NaN coordinate is the single value NaN, for which every comparison    *)
(* is false.                                                               *)
(***************************************************************************)
EXTENDS Integers

CONSTANT NaN

Point == [x : Int, y : Int]

ASSUME NaNAssumption == NaN \notin Point

Position == Point \cup {NaN}

\* An FBox2D {lo, hi} in each axis.
Box == {b \in [x0 : Int, x1 : Int, y0 : Int, y1 : Int] :
            b.x0 =< b.x1 /\ b.y0 =< b.y1}

\* FBox2D::IsInside is strict on all four sides.
IsInside(box, p) ==
    /\ p # NaN
    /\ box.x0 < p.x /\ p.x < box.x1
    /\ box.y0 < p.y /\ p.y < box.y1

\* Half of a side: GetCenterAndExtents returns lo + Extent as the centre.
Extent(lo, hi) == (hi - lo) \div 2
Middle(lo, hi) == lo + Extent(lo, hi)

\* Mistake: only one side wraps.
WrapOneSide(v, lo, hi) == IF v < lo THEN hi ELSE v

\* The coordinate leaves on one side and comes back on the other, ON the edge.
Wrap(v, lo, hi) == IF v < lo THEN hi ELSE IF v > hi THEN lo ELSE v

AdjustPosition(box, p) ==
    IF p = NaN THEN NaN
    ELSE [x |-> Wrap(p.x, box.x0, box.x1), y |-> Wrap(p.y, box.y0, box.y1)]

\* The four children in the order SubDivide inserts them.
Quadrant == 0 .. 3

SubBox(box, q) ==
    LET cx == Middle(box.x0, box.x1)
        cy == Middle(box.y0, box.y1)
        ex == Extent(box.x0, box.x1)
        ey == Extent(box.y0, box.y1)
    IN  [x0 |-> IF q \in {0, 1} THEN cx ELSE cx - ex,
         x1 |-> IF q \in {0, 1} THEN cx + ex ELSE cx,
         y0 |-> IF q \in {0, 2} THEN cy - ey ELSE cy,
         y1 |-> IF q \in {0, 2} THEN cy ELSE cy + ey]

\* A centre of mass: a quotient of sums.  A zero denominator is the 0/0 of the
\* code, a NaN, and it spreads through every sum and quotient it enters.
Centre == [x : Int, y : Int, den : Int]
AtPoint(p) == [x |-> p.x, y |-> p.y, den |-> 1]
NoShift == [x |-> 0, y |-> 0, den |-> 1]
IsNaN(c) == c.den = 0

Plus(c, d) == [x |-> c.x * d.den + d.x * c.den,
               y |-> c.y * d.den + d.y * c.den,
               den |-> c.den * d.den]
\* Mistake: a guard against zero hides that there is nothing to average.
OverAtLeastOne(c, n) == [c EXCEPT !.den = @ * (IF n = 0 THEN 1 ELSE n)]

Over(c, n) == [c EXCEPT !.den = @ * n]
=============================================================================
