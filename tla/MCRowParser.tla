----------------------------- MODULE MCRowParser -----------------------------
(* Every row-pointer array with rows of at most MaxDegree edges. *)
EXTENDS InputPhase

CONSTANT MaxDegree

AllGraphs ==
  {g \in [0 .. a_h -> 0 .. a_h * MaxDegree] :
     g[0] = 0 /\ \A i \in 1 .. a_h : g[i] - g[i - 1] \in 0 .. MaxDegree}
=============================================================================
