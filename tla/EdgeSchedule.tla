---------------------------- MODULE EdgeSchedule ----------------------------
(***************************************************************************)
(* What the A*XW loop is there to do, without readers, queues or memory:   *)
(* take the blocks in order, and for each one make w_fold passes over its  *)
(* edges, in order, multiplying one edge at a time.                        *)
(***************************************************************************)
EXTENDS DataReader

VARIABLES
  block,    (* the current block, Blocks + 1 at the end                     *)
  pass,     (* passes over it that are complete                             *)
  edge      (* the edge to be multiplied next                               *)

scheduleVars == <<block, pass, edge>>

FirstEdge(b) == adjrowindex[BlockEnd(b - 1)]
LastEdge(b)  == adjrowindex[BlockEnd(b)] - 1

ScheduleInit ==
  /\ block = 1
  /\ pass = 0
  /\ edge = 0

Multiply ==
  /\ block <= Blocks
  /\ edge < LastEdge(block)
  /\ edge' = edge + 1
  /\ UNCHANGED <<block, pass>>

FinishPass ==
  /\ block <= Blocks
  /\ edge = LastEdge(block)
  /\ pass + 1 < w_fold
  /\ pass' = pass + 1
  /\ edge' = FirstEdge(block)
  /\ UNCHANGED block

FinishBlock ==
  /\ block <= Blocks
  /\ edge = LastEdge(block)
  /\ pass + 1 = w_fold
  /\ block' = block + 1
  /\ pass' = 0
  /\ edge' = edge + 1

ScheduleNext == Multiply \/ FinishPass \/ FinishBlock

ScheduleSpec == ScheduleInit /\ [][ScheduleNext]_scheduleVars
=============================================================================
