--------------------------- MODULE MCRunSimulator ---------------------------
(***************************************************************************)
(* Instances of RunSimulator for TLC: the row-pointer arrays of all graphs *)
(* with a_h rows of at most MaxDegree edges each, and the well-formed ones *)
(* among them.                                                             *)
(***************************************************************************)
EXTENDS RunSimulator

CONSTANT MaxDegree

AllGraphs ==
  {g \in [0 .. a_h -> 0 .. a_h * MaxDegree] :
     g[0] = 0 /\ \A i \in 1 .. a_h : g[i] - g[i - 1] \in 0 .. MaxDegree}

WellFormedGraphs == {g \in AllGraphs : WellFormed(g)}

(* Some block of rows has more edges than one line of the buffer holds.    *)
TwoEdgeLines(g) ==
  \E b \in 1 .. Blocks :
    g[BlockEnd(b)] - g[BlockEnd(b - 1)] > CACHE_LINE_COUNT

(* Those with fewer edges than rows, rows of two edges beside empty ones,  *)
(* and those with as many where a block needs two lines of edges, so that  *)
(* both are in flight and return in either order.                          *)
LineGraphs ==
  {g \in WellFormedGraphs :
     \/ g[a_h] < a_h
     \/ g[a_h] = a_h /\ TwoEdgeLines(g)}

(* An x_repeat at and below the 0 it is meant to start with. *)
NotAbove == {-1, 0}
=============================================================================
