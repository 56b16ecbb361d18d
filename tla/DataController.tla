--------------------------- MODULE DataController ---------------------------
(***************************************************************************)
(* DataController: holds the CSR arrays and turns a completed read into    *)
(* the next entries of its array.  It never looks at the address: the      *)
(* n-th completed line gets the n-th portion, a line never crosses the end *)
(* of a block, and its own copies of the per-block counts say where that   *)
(* end is.                                                                 *)
(***************************************************************************)
EXTENDS EdgeReader

VARIABLES
  dc,       (* v_limit, e_limit: entries of the current block returned so
               far; v_popped, e_popped: entries popped off the queues
               vertex_req_count_cnt and edge_req_count_cnt; rows: entries
               popped off adjrowindex                                       *)
  a_data    (* the line returned in this cycle: its type, its row pointers
               or the number of its edges                                   *)

NoData == [type |-> "none", rows |-> <<>>, edges |-> 0]

DataControllerInit ==
  /\ dc = [v_limit |-> 0, e_limit |-> 0, v_popped |-> 0, e_popped |-> 0,
           rows |-> 0]
  /\ a_data = NoData

(* front() of a queue of counts: stale memory once the queue is exhausted. *)
FrontCounts(popped, entries) == IF popped < Blocks THEN {entries} ELSE StaleCounts

(* Entry k of the row-pointer array; behind its end the queue returns      *)
(* stale memory, for which 0 stands.                                       *)
RowEntry(k) == IF k \in 0 .. a_h THEN adjrowindex[k] ELSE 0

(* Faulty variant of EndsBlockLine: a full last line does not end a block. *)
EndsBlockLine_Strict(limit, count) == limit + CACHE_LINE_COUNT > count

(* Does the next line end the block? *)
EndsBlockLine(limit, count) == limit + CACHE_LINE_COUNT >= count

(* A line ends with its block; a negative size gives an empty line. *)
LineSize(limit, count) ==
  IF ~EndsBlockLine(limit, count) THEN CACHE_LINE_COUNT
  ELSE IF limit <= count THEN count - limit ELSE 0

AdjRowDataReturn ==
  \E count \in FrontCounts(dc.v_popped, vertex_req_count(dc.v_popped + 1)) :
    LET ends == EndsBlockLine(dc.v_limit, count)
        size == LineSize(dc.v_limit, count)
    IN  /\ a_data' = [type  |-> "A_ROW",
                      rows  |-> [i \in 1 .. size |-> RowEntry(dc.rows + i - 1)],
                      edges |-> 0]
        /\ dc' = [dc EXCEPT
                    !.v_limit  = IF ends THEN 0 ELSE @ + CACHE_LINE_COUNT,
                    !.v_popped = IF ends THEN @ + 1 ELSE @,
                    !.rows     = @ + size]

AdjColDataReturn ==
  \E count \in FrontCounts(dc.e_popped, edge_req_count(dc.e_popped + 1)) :
    LET ends == EndsBlockLine(dc.e_limit, count)
    IN  /\ a_data' = [type  |-> "A_COL",
                      rows  |-> <<>>,
                      edges |-> LineSize(dc.e_limit, count)]
        /\ dc' = [dc EXCEPT
                    !.e_limit  = IF ends THEN 0 ELSE @ + CACHE_LINE_COUNT,
                    !.e_popped = IF ends THEN @ + 1 ELSE @]
=============================================================================
