----------------------------- MODULE InputPhase -----------------------------
(***************************************************************************)
(* What main() does before it starts to simulate: DataReader parses the    *)
(* row pointers, then Distributer hands rows and edges to the units.       *)
(***************************************************************************)
EXTENDS RowParser, Distributer

InputInit == Init /\ DistInit

InputNext ==
  \/ ParseToken /\ UNCHANGED distVars
  \/ parse_count = a_h /\ Distribute /\ UNCHANGED vars

InputSpec == InputInit /\ [][InputNext]_<<vars, distVars>>
=============================================================================
