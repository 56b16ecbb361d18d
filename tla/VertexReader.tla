---------------------------- MODULE VertexReader ----------------------------
(***************************************************************************)
(* VertexReader: fetches the row pointers of a block line by line, hands   *)
(* them to the EdgeReader one at a time, keeps them in v_cache, and hands  *)
(* the cached ones out again for each of the other w_fold - 1 passes over  *)
(* the block.  Every CACHE_LINE_COUNT - 1 pops it asks the memory for the  *)
(* next feature line and lowers f_flag, which stops the hand-over until    *)
(* that line has arrived.                                                  *)
(***************************************************************************)
EXTENDS DataReader, DRAMInterface

CONSTANTS
  MAX_QUEUE_SIZE,     (* 1000000 in Common.h                                *)
  XRepeatGarbage,     (* what x_repeat, an int never set, may hold         *)
  StaleCounts         (* what front() of an empty queue may return          *)

ASSUME ReaderAssumption ==
  /\ MAX_QUEUE_SIZE \in Nat
  /\ XRepeatGarbage \subseteq Int
  /\ StaleCounts \subseteq Nat

VARIABLES
  vr,       (* the fields of the one VertexReader                           *)
  f_flag    (* the feature line asked for last has arrived                  *)

(* The value TransferData returns when it has nothing to hand over. *)
NoVertex == -1

(* MAX_QUEUE_SIZE - q_space is a uint64_t: above the limit it wraps to a   *)
(* huge number.                                                            *)
LessThanALineLeft(q_space) ==
  q_space <= MAX_QUEUE_SIZE /\ MAX_QUEUE_SIZE - q_space < CACHE_LINE_COUNT

MoreThanALineLeft(q_space) ==
  q_space > MAX_QUEUE_SIZE \/ MAX_QUEUE_SIZE - q_space > CACHE_LINE_COUNT

(* Lines of the next block, popped off a queue of which `popped' entries   *)
(* are gone.  The code calls front() and pop() even when the queue is      *)
(* empty.                                                                  *)
NextLineCounts(popped, entries) ==
  IF popped < Blocks THEN {CeilDiv(entries, CACHE_LINE_COUNT)} ELSE StaleCounts

(* empty() of such a queue: popping an empty std::queue leaves one that    *)
(* claims to hold elements.                                                *)
QueueEmpty(popped) == popped = Blocks

VertexReaderInit ==
  /\ \E garbage \in XRepeatGarbage :
       vr = [x_repeat        |-> garbage,
             pre_row         |-> 0,
             pre_row_archive |-> 0,
             pop_count       |-> 0,
             q_space         |-> 0,
             vq              |-> <<>>,
             v_cache         |-> <<>>,
             v_cache_idx     |-> 0,
             tot_read_cnt    |-> CeilDiv(vertex_req_count(1), CACHE_LINE_COUNT),
             pre_read_cnt    |-> 0,
             popped          |-> 1,
             req_need        |-> TRUE,
             q_empty         |-> TRUE]
  /\ f_flag = FALSE

-----------------------------------------------------------------------------

(* A leading 0 of a line is dropped: it is taken for the first pointer of  *)
(* the array, which ends no row.                                           *)
VR_ReceiveData(line) ==
  LET rows == IF line # <<>> /\ Head(line) = 0 THEN Tail(line) ELSE line
  IN  vr' = [vr EXCEPT !.vq = @ \o rows, !.q_empty = FALSE]

VR_IsEndOperation ==
  vr.pre_read_cnt = vr.tot_read_cnt /\ QueueEmpty(vr.popped)

VR_Request ==
  LET q_space == vr.q_space + CACHE_LINE_COUNT
      read    == vr.pre_read_cnt + 1
  IN  /\ vr' = [vr EXCEPT
                  !.q_space = q_space,
                  !.pre_read_cnt = read,
                  !.req_need = ~(LessThanALineLeft(q_space)
                                 \/ read = vr.tot_read_cnt)]
      /\ DRAMRequest("A_ROW")

(* The request turn of the main loop: TurnOffFlag once everything has been *)
(* asked for, otherwise at most one line a cycle.                          *)
VR_RequestTurn ==
  \/ /\ VR_IsEndOperation
     /\ vr' = [vr EXCEPT !.req_need = FALSE]
     /\ UNCHANGED t_queue
  \/ /\ ~VR_IsEndOperation
     /\ vr.req_need
     /\ VR_Request
  \/ /\ ~VR_IsEndOperation
     /\ ~vr.req_need
     /\ UNCHANGED <<vr, t_queue>>

(* Faulty variant of RequestF: f_flag is not lowered. *)
RequestF_KeepsFlag ==
  /\ DRAMRequest("XW")
  /\ UNCHANGED f_flag

RequestF ==
  /\ DRAMRequest("XW")
  /\ f_flag' = FALSE

-----------------------------------------------------------------------------
(***************************************************************************)
(* TransferData.                                                           *)
(***************************************************************************)

IsFresh  == vr.vq # <<>> /\ vr.x_repeat = 0
IsReplay == vr.vq = <<>> /\ vr.x_repeat > 0

(* What the call may return; v_cache[] is not bounds-checked. *)
VR_Vertices ==
  IF IsFresh THEN {Head(vr.vq)}
  ELSE IF ~IsReplay THEN {NoVertex}
  ELSE IF vr.v_cache_idx < Len(vr.v_cache) THEN {vr.v_cache[vr.v_cache_idx + 1]}
  ELSE StaleCounts

(* The feature line is requested one pop before the last of a line, and    *)
(* once more on the last row but one of the matrix.                        *)
FeatureTurn ==
  IF \/ vr.pop_count + 1 = CACHE_LINE_COUNT - 1
     \/ vr.pre_row + 1 = a_h - 1
  THEN RequestF
  ELSE UNCHANGED <<t_queue, f_flag>>

PopCountAfter ==
  IF \/ vr.pop_count + 1 = CACHE_LINE_COUNT
     \/ vr.pre_row + 1 = a_h - 1
  THEN 0 ELSE vr.pop_count + 1

(* The first pass over the block: a pointer leaves the queue. *)
TransferFresh ==
  LET row  == vr.pre_row + 1
      last == EndsBlock(row)
  IN  /\ IsFresh
      /\ FeatureTurn
      /\ vr' = [vr EXCEPT
                  !.vq = Tail(@),
                  !.v_cache = Append(@, Head(vr.vq)),
                  !.q_space = @ - 1,
                  !.pop_count = PopCountAfter,
                  !.req_need = \/ @
                               \/ /\ vr.pre_read_cnt < vr.tot_read_cnt
                                  /\ MoreThanALineLeft(vr.q_space - 1),
                  !.pre_row = IF last THEN vr.pre_row_archive ELSE row,
                  !.x_repeat = IF last THEN 1 ELSE 0]

(* Faulty variant of VR_NextBlock: v_cache_idx is not reset. *)
VR_KeepsIndex(row, lines) ==
  [vr EXCEPT !.pre_row = row, !.pre_row_archive = row,
             !.v_cache = <<>>, !.pop_count = PopCountAfter, !.x_repeat = 0,
             !.tot_read_cnt = lines, !.pre_read_cnt = 0, !.popped = @ + 1,
             !.q_empty = TRUE, !.req_need = (row # a_h)]

(* Faulty variant of VR_NextBlock: req_need is not raised again. *)
VR_NoRequest(row, lines) ==
  [vr EXCEPT !.pre_row = row, !.pre_row_archive = row, !.v_cache_idx = 0,
             !.v_cache = <<>>, !.pop_count = PopCountAfter, !.x_repeat = 0,
             !.tot_read_cnt = lines, !.pre_read_cnt = 0, !.popped = @ + 1,
             !.q_empty = TRUE, !.req_need = FALSE]

(* The state after the last pass over a block, which ended with `row';     *)
(* `lines' are to be fetched for the next one.                             *)
VR_NextBlock(row, lines) ==
  [vr EXCEPT !.pre_row = row, !.pre_row_archive = row, !.v_cache_idx = 0,
             !.v_cache = <<>>, !.pop_count = PopCountAfter, !.x_repeat = 0,
             !.tot_read_cnt = lines, !.pre_read_cnt = 0, !.popped = @ + 1,
             !.q_empty = TRUE, !.req_need = (row # a_h)]

(* A later pass: a cached pointer is handed out again. *)
TransferReplay ==
  LET row      == vr.pre_row + 1
      last     == vr.v_cache_idx + 1 = max_v \/ row = a_h
      lastPass == vr.x_repeat = w_fold - 1
  IN  /\ IsReplay
      /\ FeatureTurn
      /\ \/ /\ ~last
            /\ vr' = [vr EXCEPT !.pre_row = row,
                                !.v_cache_idx = @ + 1,
                                !.pop_count = PopCountAfter]
         \/ /\ last /\ ~lastPass
            /\ vr' = [vr EXCEPT !.pre_row = vr.pre_row_archive,
                                !.v_cache_idx = 0,
                                !.pop_count = PopCountAfter,
                                !.x_repeat = @ + 1]
         \/ /\ last /\ lastPass
            /\ \E lines \in NextLineCounts(vr.popped,
                                           vertex_req_count(vr.popped + 1)) :
                 vr' = VR_NextBlock(row, lines)

(* Neither a pointer to pop nor one to replay: the call has no effect. *)
TransferNothing ==
  /\ ~IsFresh /\ ~IsReplay
  /\ UNCHANGED <<vr, t_queue, f_flag>>

VR_TransferData == TransferFresh \/ TransferReplay \/ TransferNothing
=============================================================================
