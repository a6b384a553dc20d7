-------------------------- MODULE MCBodySimulator ---------------------------
(* Small instances of BodySimulator.                                       *)
EXTENDS BodySimulator

P(i, j) == [x |-> i, y |-> j]

MCScene == [x0 |-> 0, x1 |-> 32, y0 |-> 0, y1 |-> 32]
MCMass == [b \in Body |-> b]

\* A pair close together, two bodies in other quadrants and one on the first split line.
MCPlaces == {P(1, 1), P(2, 3), P(31, 31), P(31, 15), P(16, 7)}
MCSteps == {P(0, 0)}

\* Few places, several ticks: bodies meet, cross the edge and come back.
EdgePlaces == {P(1, 1), P(31, 9)}
EdgeSteps == {P(0, 0), P(2, -1)}
=============================================================================
