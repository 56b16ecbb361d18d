----------------------------- MODULE EdgeReader -----------------------------
(***************************************************************************)
(* EdgeReader: fetches the edges of a block, consumes one per cycle for    *)
(* the row whose pointer the VertexReader handed over last (OuterProduct), *)
(* keeps them in e_cache for the other passes over the block, and at the   *)
(* end of a pass writes the result, one line per cycle (Write).            *)
(* Edges are counted, not named: eq and e_cache are their lengths.         *)
(***************************************************************************)
EXTENDS VertexReader

VARIABLE er   (* the fields of the one EdgeReader, with its globals last_v,
                 v_arch and block_cnt                                       *)

EdgeReaderInit ==
  \E garbage \in XRepeatGarbage :
    er = [x_repeat        |-> garbage,
          pre_row         |-> 0,
          pre_row_archive |-> 0,
          cur_v           |-> 0,
          last_v          |-> 0,
          v_arch          |-> 0,
          remain_col_num  |-> 0,
          can_receive     |-> TRUE,
          q_space         |-> 0,
          eq              |-> 0,
          e_cache         |-> 0,
          e_cache_idx     |-> 0,
          tot_read_cnt    |-> CeilDiv(edge_req_count(1), CACHE_LINE_COUNT),
          pre_read_cnt    |-> 0,
          popped          |-> 1,
          req_need        |-> TRUE,
          do_write        |-> FALSE,
          write_count     |-> WriteBurst,
          block_cnt       |-> 0]

-----------------------------------------------------------------------------

(* ReceiveData(queue): a line with `edges' edges arrives. *)
ER_ReceiveData(edges) == er' = [er EXCEPT !.eq = @ + edges]

(* Faulty variant of DegreeOf: another pass over the block goes unnoticed. *)
DegreeOf_NoReplay(vertex) == vertex - er.cur_v

(* The degree of the row that ends with the pointer `vertex'.  A pointer   *)
(* smaller than the one before it begins another pass over the block.      *)
DegreeOf(vertex) ==
  vertex - (IF er.cur_v > vertex THEN er.last_v ELSE er.cur_v)

(* ReceiveData(vertex).  The difference of two uint64_t: a degree below 0  *)
(* stands for a wrapped one.                                               *)
ER_ReceiveVertex(vertex) ==
  LET row      == er.pre_row + 1
      emptyEnd == DegreeOf(vertex) = 0 /\ row = a_h
  IN  IF vertex = NoVertex
      THEN UNCHANGED er
      ELSE er' = [er EXCEPT
                    !.cur_v = vertex,
                    !.v_arch = vertex,
                    !.remain_col_num = DegreeOf(vertex),
                    !.can_receive = (DegreeOf(vertex) = 0),
                    !.pre_row = IF emptyEnd THEN 0 ELSE row,
                    !.do_write = @ \/ emptyEnd]

ER_IsEndOperation ==
  er.pre_read_cnt = er.tot_read_cnt /\ QueueEmpty(er.popped)

ER_Request ==
  LET q_space == er.q_space + CACHE_LINE_COUNT
      read    == er.pre_read_cnt + 1
  IN  /\ er' = [er EXCEPT
                  !.q_space = q_space,
                  !.pre_read_cnt = read,
                  !.req_need = ~(LessThanALineLeft(q_space)
                                 \/ read = er.tot_read_cnt)]
      /\ DRAMRequest("A_COL")

(* The request turn of the main loop, as for the VertexReader. *)
ER_RequestTurn ==
  \/ /\ ER_IsEndOperation
     /\ er' = [er EXCEPT !.req_need = FALSE]
     /\ UNCHANGED t_queue
  \/ /\ ~ER_IsEndOperation
     /\ er.req_need
     /\ ER_Request
  \/ /\ ~ER_IsEndOperation
     /\ ~er.req_need
     /\ UNCHANGED <<er, t_queue>>

-----------------------------------------------------------------------------
(***************************************************************************)
(* OuterProduct: one edge of the current row.                              *)
(***************************************************************************)

ConsumesFresh  == er.eq > 0 /\ er.remain_col_num # 0 /\ er.x_repeat = 0
ConsumesCached == er.remain_col_num # 0 /\ er.x_repeat > 0

RowDone  == er.remain_col_num = 1
PassDone == RowDone /\ EndsBlock(er.pre_row)

(* Faulty variant of RowAfter: the row is not set back for the next pass. *)
RowAfter_NoReset == er.pre_row

(* The row after this edge: the end of a pass goes back to the block's     *)
(* first.                                                                  *)
RowAfter == IF PassDone THEN er.pre_row_archive ELSE er.pre_row

(* Faulty variant of CacheIndexAfter: the next pass starts where this ends. *)
CacheIndexAfter_NoReset == er.e_cache_idx + 1

CacheIndexAfter == IF PassDone THEN 0 ELSE er.e_cache_idx + 1

(* The first pass: the edge leaves the queue and is cached. *)
OuterProductFresh ==
  /\ ConsumesFresh
  /\ er' = [er EXCEPT
              !.eq = @ - 1,
              !.e_cache = @ + 1,
              !.q_space = @ - 1,
              !.req_need = \/ @
                           \/ /\ er.pre_read_cnt < er.tot_read_cnt
                              /\ MoreThanALineLeft(er.q_space - 1),
              !.remain_col_num = @ - 1,
              !.can_receive = @ \/ RowDone,
              !.pre_row = RowAfter,
              !.x_repeat = IF PassDone THEN 1 ELSE 0,
              !.do_write = @ \/ PassDone]

(* A later pass, which is not the last or does not end with this edge. *)
OuterProductCached ==
  /\ ConsumesCached
  /\ ~(PassDone /\ er.x_repeat = w_fold - 1)
  /\ er' = [er EXCEPT
              !.e_cache_idx = CacheIndexAfter,
              !.remain_col_num = @ - 1,
              !.can_receive = @ \/ RowDone,
              !.pre_row = RowAfter,
              !.x_repeat = IF PassDone THEN @ + 1 ELSE @,
              !.do_write = @ \/ PassDone]

(* Faulty variant of ER_NextBlock: last_v is not brought up to date. *)
ER_KeepsLastV(lines) ==
  [er EXCEPT !.e_cache_idx = 0, !.e_cache = 0, !.remain_col_num = 0,
             !.x_repeat = 0, !.block_cnt = @ + 1, !.tot_read_cnt = lines,
             !.pre_read_cnt = 0, !.popped = @ + 1,
             !.can_receive = (er.pre_row # a_h),
             !.req_need = @ \/ er.pre_row # a_h,
             !.pre_row_archive = er.pre_row, !.do_write = TRUE]

(* Faulty variant of ER_NextBlock: e_cache is not cleared. *)
ER_KeepsCache(lines) ==
  [er EXCEPT !.e_cache_idx = 0, !.remain_col_num = 0,
             !.x_repeat = 0, !.block_cnt = @ + 1, !.tot_read_cnt = lines,
             !.pre_read_cnt = 0, !.popped = @ + 1,
             !.can_receive = (er.pre_row # a_h),
             !.req_need = @ \/ er.pre_row # a_h,
             !.pre_row_archive = er.pre_row, !.last_v = er.v_arch,
             !.do_write = TRUE]

(* The state after the last edge of the last pass; `lines' are to be       *)
(* fetched for the next block.                                             *)
ER_NextBlock(lines) ==
  [er EXCEPT !.e_cache_idx = 0, !.e_cache = 0, !.remain_col_num = 0,
             !.x_repeat = 0, !.block_cnt = @ + 1, !.tot_read_cnt = lines,
             !.pre_read_cnt = 0, !.popped = @ + 1,
             !.can_receive = (er.pre_row # a_h),
             !.req_need = @ \/ er.pre_row # a_h,
             !.pre_row_archive = er.pre_row, !.last_v = er.v_arch,
             !.do_write = TRUE]

OuterProductLast ==
  /\ ConsumesCached
  /\ PassDone /\ er.x_repeat = w_fold - 1
  /\ \E lines \in NextLineCounts(er.popped, edge_req_count(er.popped + 1)) :
       er' = ER_NextBlock(lines)

(* No edge to consume. *)
OuterProductIdle ==
  /\ ~ConsumesFresh /\ ~ConsumesCached
  /\ UNCHANGED er

OuterProduct ==
  OuterProductFresh \/ OuterProductCached \/ OuterProductLast \/ OuterProductIdle

-----------------------------------------------------------------------------

(* Faulty variant of WriteCountAfter: the count is not reloaded. *)
WriteCountAfter_NoReload == er.write_count - 1

(* Faulty variant of WriteCountAfter: one line too many is reloaded. *)
WriteCountAfter_OneMore ==
  IF er.write_count = 1 THEN WriteBurst + 1 ELSE er.write_count - 1

WriteCountAfter ==
  IF er.write_count = 1 THEN WriteBurst ELSE er.write_count - 1

(* One line of the result per cycle while do_write is up. *)
Write ==
  \/ /\ er.do_write
     /\ DRAMRequest("AXW")
     /\ er' = [er EXCEPT !.write_count = WriteCountAfter,
                         !.do_write = (er.write_count # 1)]
  \/ /\ ~er.do_write
     /\ UNCHANGED <<er, t_queue>>
=============================================================================
