---------------------------- MODULE MCQuadTree ------------------------------
(* Small instances of QuadTree.                                            *)
EXTENDS QuadTree

P(i, j) == [x |-> i, y |-> j]

\* Bodies of different masses.  One side of the scene halves exactly down to
\* the lattice, the other is odd: its halves leave the last row uncovered.
MCMass == [b \in Body |-> 2 ^ b]
MCScene == [x0 |-> 0, x1 |-> 8, y0 |-> -2, y1 |-> 13]

\* Pairs that share one or more quadrants, points on the split lines of the
\* first and the second level and in an uncovered row, the edge, outside, NaN.
MCPlaces == {P(1, -1), P(1, 2), P(3, -1), P(2, -1), P(4, 3), P(6, 12), P(7, 9),
             P(0, 3), P(9, -3), NaN}

=============================================================================
