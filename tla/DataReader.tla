----------------------------- MODULE DataReader -----------------------------
(***************************************************************************)
(* The input of the simulator, as DataReader leaves it behind.             *)
(*                                                                         *)
(* adjrowindex is the row-pointer array of the adjacency matrix in CSR     *)
(* form: row i owns the edges adjrowindex[i-1] .. adjrowindex[i] - 1.      *)
(* DataReader cuts the rows into blocks of max_v rows (the last one may be *)
(* shorter) and queues, per block, the number of row pointers              *)
(* (vertex_req_count) and of edges (edge_req_count) that the readers will  *)
(* fetch.  The queues are fixed here as functions of the block number;     *)
(* each consumer keeps the number of entries it has popped.                *)
(* Column indices are not modelled: nothing in the A*XW loop tells one     *)
(* edge from another, only how many there are.                             *)
(***************************************************************************)
EXTENDS Integers, Sequences

CONSTANTS
  a_h,                (* rows of the adjacency matrix                       *)
  max_v,              (* rows of a block ("MAX VERTICES OF T CACHE")        *)
  w_fold,             (* passes over a block: w_fold = w_w                  *)
  CACHE_LINE_COUNT,   (* entries in one cache line                          *)
  Graphs              (* the row-pointer arrays the data file may hold      *)

(* The code divides by max_v and by CACHE_LINE_COUNT, and pop_count is     *)
(* compared with CACHE_LINE_COUNT - 1 after an increment.                  *)
ASSUME SizesAssumption ==
  /\ a_h \in Nat \ {0}
  /\ max_v \in Nat \ {0}
  /\ w_fold \in Nat \ {0}
  /\ CACHE_LINE_COUNT \in Nat \ {0}

(* A CSR row-pointer array starts at 0 and never decreases. *)
ASSUME GraphsAssumption ==
  \A g \in Graphs :
    /\ g \in [0 .. a_h -> Nat]
    /\ g[0] = 0
    /\ \A i, j \in 0 .. a_h : i <= j => g[i] <= g[j]

VARIABLE adjrowindex  (* the array read from the data file, never changed  *)

(* ceil((double)n / d) *)
CeilDiv(n, d) == (n + d - 1) \div d

-----------------------------------------------------------------------------
(***************************************************************************)
(* The block partition computed by GetUint64Val.                           *)
(***************************************************************************)

Blocks == CeilDiv(a_h, max_v)

(* The last row of block b, and so the row before the first one of b + 1.  *)
BlockEnd(b) == IF b * max_v <= a_h THEN b * max_v ELSE a_h

(* Does the pass over a block end with this row?  The test of the readers. *)
EndsBlock(row) == row % max_v = 0 \/ row = a_h

(* The first entry of the array, 0, is counted with the first block. *)
vertex_req_count(b) ==
  BlockEnd(b) - BlockEnd(b - 1) + (IF b = 1 THEN 1 ELSE 0)

edge_req_count(b) ==
  adjrowindex[BlockEnd(b)] - adjrowindex[BlockEnd(b - 1)]

(* Result lines written at the end of every pass. *)
WriteBurst == CeilDiv(a_h, CACHE_LINE_COUNT)

(* Faulty variant of InitialAxwCount: the last block is not counted. *)
InitialAxwCount_OneBlockLess == WriteBurst * w_fold * (Blocks - 1)

(* tot_axw_count at the start: a burst for every pass over every block. *)
InitialAxwCount == WriteBurst * w_fold * Blocks
=============================================================================
