----------------------------- MODULE Distributer -----------------------------
(***************************************************************************)
(* Distributer::Distribute: the rows of the matrix and their edges are     *)
(* handed out to the accelerators, all to the first one (DIVISION_TYPE 0)  *)
(* or by number of edges (DIVISION_TYPE 1).  One step is one turn of the   *)
(* loop over the row pointers.                                             *)
(*                                                                         *)
(* Edges are taken from the front of one queue, so the edges of a unit are *)
(* known by their number.  If the edges are used up before the last unit   *)
(* has begun, that unit takes the front of an empty queue; the model stops *)
(* there (overrun), for what follows is undefined.                         *)
(***************************************************************************)
EXTENDS DataReader, SequencesExt

CONSTANT MaxUnits

VARIABLES
  DIVISION_TYPE, tot_acc,   (* from the configuration file                 *)
  unit,                     (* the unit being served, i in the code        *)
  rows,                     (* adjrowindex[unit] of the class              *)
  cols,                     (* the size of adjcolindex[unit]               *)
  row_start, row_end,       (* a_row_info[unit]                            *)
  popped,                   (* row pointers taken from tmp_adjrow          *)
  last,                     (* edges handed to the units before            *)
  overrun

distVars == <<DIVISION_TYPE, tot_acc, unit, rows, cols, row_start, row_end,
              popped, last, overrun>>

Unit == 0 .. MaxUnits - 1

Edges == adjrowindex[a_h]

unit_edge == CeilDiv(Edges, tot_acc)

(* The pointers still in tmp_adjrow after k have been taken. *)
PointersAfter(k) == [i \in 1 .. a_h - k |-> adjrowindex[k + i]]

(* The pointer 0 is popped before the loop, which gives each unit its own. *)
DistInit ==
  /\ DIVISION_TYPE \in {0, 1}
  /\ tot_acc \in 1 .. MaxUnits
  /\ unit = 0
  /\ rows = [u \in Unit |-> <<>>]
  /\ cols = [u \in Unit |-> 0]
  /\ row_start = [u \in Unit |-> 0]
  /\ row_end = [u \in Unit |-> 0]
  /\ popped = 0
  /\ last = 0
  /\ overrun = FALSE

(* DIVISION_TYPE 0 copies both queues to the first unit, whose last row it *)
(* gives as x_h, the number of rows.                                       *)
CopyAll ==
  /\ DIVISION_TYPE = 0
  /\ unit < tot_acc
  /\ rows' = [rows EXCEPT ![0] = <<0>> \o PointersAfter(0)]
  /\ cols' = [cols EXCEPT ![0] = Edges]
  /\ row_end' = [row_end EXCEPT ![0] = a_h]
  /\ popped' = a_h
  /\ unit' = tot_acc
  /\ UNCHANGED <<DIVISION_TYPE, tot_acc, row_start, last, overrun>>

(* Faulty variant of Given: the rows of a unit are not made to start at 0. *)
Given_Absolute(pointers) == pointers

(* What a unit is given for row pointers: they start at 0 again. *)
Given(pointers) == [i \in DOMAIN pointers |-> pointers[i] - last]

(* row_end of a unit that ends with row r; the last unit's is set again    *)
(* after the loop.                                                         *)
LastRow(r) == IF unit = tot_acc - 1 THEN a_h - 1 ELSE r

(* One row; with the last edge, all rows that are left. *)
TakeRow ==
  LET own  == IF rows[unit] = <<>> THEN <<0>> ELSE rows[unit]
      upto == own \o Given(<<adjrowindex[popped + 1]>>)
      back == Last(upto)
      size == back - Last(own)
      left == Edges - SumFunction(cols) - size
      all  == upto \o Given(PointersAfter(popped + 1))
  IN  /\ DIVISION_TYPE = 1
      /\ ~overrun /\ unit < tot_acc /\ popped < a_h
      /\ row_start' = IF rows[unit] = <<>>
                      THEN [row_start EXCEPT ![unit] = popped] ELSE row_start
      /\ cols' = [cols EXCEPT ![unit] = @ + size]
      /\ row_end' = IF left # 0 /\ back < unit_edge THEN row_end
                    ELSE [row_end EXCEPT ![unit] = LastRow(popped)]
      /\ \/ /\ left = 0
            /\ rows' = [rows EXCEPT ![unit] = all]
            /\ popped' = a_h
            /\ unit' = unit + 1
            /\ UNCHANGED last
         \/ /\ left # 0
            /\ rows' = [rows EXCEPT ![unit] = upto]
            /\ popped' = popped + 1
            /\ unit' = IF back >= unit_edge THEN unit + 1 ELSE unit
            /\ last' = IF back >= unit_edge THEN last + back ELSE last
      /\ UNCHANGED <<DIVISION_TYPE, tot_acc, overrun>>

(* front() of tmp_adjrow, which is empty. *)
Overrun ==
  /\ DIVISION_TYPE = 1
  /\ ~overrun /\ unit < tot_acc /\ popped = a_h
  /\ overrun' = TRUE
  /\ UNCHANGED <<DIVISION_TYPE, tot_acc, unit, rows, cols, row_start, row_end,
                 popped, last>>

Distribute == CopyAll \/ TakeRow \/ Overrun

(* The rows of a unit. *)
axw_count(u) == IF rows[u] = <<>> THEN 0 ELSE Len(rows[u]) - 1

(* The units hold, one after the other, the rows of the matrix with their  *)
(* edges: the k-th pointer of a unit is the pointer of its k-th row,       *)
(* counted from the edges that earlier units hold (Distribute).  In the    *)
(* end every row and every edge is handed out once, also the rows without  *)
(* edges at the end, and if no unit went without, row_end is right.  An    *)
(* overrun loses nothing.                                                  *)
Divided ==
  LET Before(u) == SumFunctionOnSet(cols, 0 .. u - 1)
      done == overrun \/ unit = tot_acc
  IN  /\ \A u \in Unit : rows[u] # <<>> =>
           /\ cols[u] = Last(rows[u])
           /\ row_start[u] = SumFunction([v \in 0 .. u - 1 |-> axw_count(v)])
           /\ \A k \in DOMAIN rows[u] :
                rows[u][k] + Before(u) = adjrowindex[row_start[u] + k - 1]
      /\ done => /\ SumFunction(cols) = Edges
                 /\ SumFunction([u \in Unit |-> axw_count(u)]) = a_h
      /\ DIVISION_TYPE = 1 /\ unit = tot_acc =>
           \A u \in 0 .. unit - 1 : row_end[u] = row_start[u] + axw_count(u) - 1
=============================================================================
