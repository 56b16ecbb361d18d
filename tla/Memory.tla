------------------------------- MODULE Memory -------------------------------
(***************************************************************************)
(* What the memory system promises DRAMInterface.  A transaction is known  *)
(* by the address region it falls in: A_ROW and A_COL lie below            *)
(* WEIGHT_START, XW (features) and AXW (results) above it.  Only AXW is    *)
(* ever written.                                                           *)
(*                                                                         *)
(* An accepted transaction is called back once, in any order and after any *)
(* delay; a transaction may be refused for a while.  The write buffer      *)
(* matters to the exit test of the main loop.  A controller with a unified *)
(* queue has none; one without keeps its last lines for ever: every result *)
(* line goes to the same address, since write_address is never advanced,   *)
(* and the single line that the merged writes leave never starts a drain.  *)
(*                                                                         *)
(* DRAMInterface is built on this module, and DRAMSystem, the model of     *)
(* DRAMsim3, is shown to implement it.                                     *)
(***************************************************************************)
EXTENDS Integers

CONSTANT unified_queue    (* of the memory's configuration                  *)

ASSUME MemoryAssumption == unified_queue \in BOOLEAN

Region == {"A_ROW", "A_COL", "XW", "AXW"}

VARIABLES
  accepted,         (* per region, transactions inside the memory          *)
  write_buffered    (* is there a line in the memory's write buffer?       *)

MemoryInit ==
  /\ accepted = [r \in Region |-> 0]
  /\ write_buffered = FALSE

(* The memory takes a transaction. *)
MemoryAccept(region) ==
  /\ accepted' = [accepted EXCEPT ![region] = @ + 1]
  /\ write_buffered' = \/ write_buffered
                       \/ region = "AXW" /\ ~unified_queue

(* The memory calls back for a transaction it took. *)
MemoryComplete(region) ==
  /\ accepted[region] > 0
  /\ accepted' = [accepted EXCEPT ![region] = @ - 1]
  /\ UNCHANGED write_buffered

MemoryNext == \E r \in Region : MemoryAccept(r) \/ MemoryComplete(r)

(* No region waits for ever: weak fairness of MemoryComplete(r), written   *)
(* with its guard.                                                         *)
MemoryAnswers(r) ==
  \/ []<>(accepted[r] = 0)
  \/ []<><<MemoryComplete(r)>>_<<accepted, write_buffered>>

MemorySpec ==
  /\ MemoryInit
  /\ [][MemoryNext]_<<accepted, write_buffered>>
  /\ \A r \in Region : MemoryAnswers(r)
=============================================================================
