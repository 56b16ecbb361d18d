---------------------------- MODULE RunSimulator ----------------------------
(***************************************************************************)
(* The A*XW loop of main(): one cycle of the accelerator per iteration.    *)
(* pc names the step of the loop that comes next; the memory acts inside   *)
(* the two calls AddTransaction ("add") and UpdateCycle ("tick").          *)
(* There is one memory and one accelerator (MAX_DRAM = 1, tot_acc = 1, as  *)
(* in every configuration shipped), so the per-unit loops have one round.  *)
(***************************************************************************)
EXTENDS DataController, FiniteSets

VARIABLE pc

vars == <<adjrowindex, t_queue, accepted, write_buffered, f_address,
          w_address, f_read_complete, w_read_complete, tot_axw_count,
          vr, f_flag, er, dc, a_data, pc>>

Steps == {"dram", "vrReceive", "vrRequest", "erReceive", "vertex",
          "erRequest", "outer", "write", "add", "tick", "test", "done"}

(* The state in which the loop is entered: the constructors have run and   *)
(* the first feature line has been requested (RequestF).                   *)
Init ==
  /\ adjrowindex \in Graphs
  /\ DRAMInit
  /\ t_queue = <<"XW">>
  /\ tot_axw_count = InitialAxwCount
  /\ VertexReaderInit
  /\ EdgeReaderInit
  /\ DataControllerInit
  /\ pc = "dram"

Goto(from, to) == pc = from /\ pc' = to

-----------------------------------------------------------------------------

(* DRAM and DataController turns: at most one completed read is taken, and *)
(* reads of the adjacency matrix go first.                                 *)
TakeRowLine ==
  /\ Goto("dram", "vrReceive")
  /\ GetFReadData
  /\ Head(f_address) = "A_ROW"
  /\ AdjRowDataReturn
  /\ UNCHANGED <<adjrowindex, vr, f_flag, er>>

TakeColLine ==
  /\ Goto("dram", "vrReceive")
  /\ GetFReadData
  /\ Head(f_address) = "A_COL"
  /\ AdjColDataReturn
  /\ UNCHANGED <<adjrowindex, vr, f_flag, er>>

(* Faulty variant of TakeFeature: f_flag is not raised. *)
TakeFeature_KeepsFlag ==
  /\ Goto("dram", "vrReceive")
  /\ ~f_read_complete
  /\ GetWReadData
  /\ a_data' = NoData
  /\ UNCHANGED <<adjrowindex, vr, f_flag, er, dc>>

TakeFeature ==
  /\ Goto("dram", "vrReceive")
  /\ ~f_read_complete
  /\ GetWReadData
  /\ f_flag' = TRUE
  /\ a_data' = NoData
  /\ UNCHANGED <<adjrowindex, vr, er, dc>>

TakeNothing ==
  /\ Goto("dram", "vrReceive")
  /\ ~f_read_complete /\ ~w_read_complete
  /\ a_data' = NoData
  /\ UNCHANGED <<adjrowindex, dramVars, vr, f_flag, er, dc>>

VertexReaderReceives ==
  /\ Goto("vrReceive", "vrRequest")
  /\ IF a_data.type = "A_ROW" THEN VR_ReceiveData(a_data.rows)
                              ELSE UNCHANGED vr
  /\ UNCHANGED <<adjrowindex, dramVars, f_flag, er, dc, a_data>>

VertexReaderRequests ==
  /\ Goto("vrRequest", "erReceive")
  /\ VR_RequestTurn
  /\ UNCHANGED <<adjrowindex, memVars, f_flag, er, dc, a_data>>

EdgeReaderReceives ==
  /\ Goto("erReceive", "vertex")
  /\ IF a_data.type = "A_COL" THEN ER_ReceiveData(a_data.edges)
                              ELSE UNCHANGED er
  /\ UNCHANGED <<adjrowindex, dramVars, vr, f_flag, dc, a_data>>

(* The hand-over of a row pointer: both ends ready and the features here. *)
CanHandOver == er.can_receive /\ ~vr.q_empty /\ f_flag

HandOverVertex ==
  /\ Goto("vertex", "erRequest")
  /\ CanHandOver
  /\ VR_TransferData
  /\ \E vertex \in VR_Vertices : ER_ReceiveVertex(vertex)
  /\ UNCHANGED <<adjrowindex, memVars, dc, a_data>>

NoHandOver ==
  /\ Goto("vertex", "erRequest")
  /\ ~CanHandOver
  /\ UNCHANGED <<adjrowindex, dramVars, vr, f_flag, er, dc, a_data>>

EdgeReaderRequests ==
  /\ Goto("erRequest", "outer")
  /\ ER_RequestTurn
  /\ UNCHANGED <<adjrowindex, memVars, vr, f_flag, dc, a_data>>

EdgeReaderMultiplies ==
  /\ Goto("outer", "write")
  /\ OuterProduct
  /\ UNCHANGED <<adjrowindex, dramVars, vr, f_flag, dc, a_data>>

EdgeReaderWrites ==
  /\ Goto("write", "add")
  /\ Write
  /\ UNCHANGED <<adjrowindex, memVars, vr, f_flag, dc, a_data>>

-----------------------------------------------------------------------------

(* AddTransaction goes on until the queue is empty or the memory refuses. *)
AddTransaction ==
  /\ Goto("add", "add")
  /\ AcceptTransaction
  /\ UNCHANGED <<adjrowindex, vr, f_flag, er, dc, a_data>>

EndAddTransaction ==
  /\ Goto("add", "tick")
  /\ UNCHANGED <<adjrowindex, dramVars, vr, f_flag, er, dc, a_data>>

(* UpdateCycle: the memory may complete any of its transactions ... *)
CompleteRead(region) ==
  /\ Goto("tick", "tick")
  /\ ReadCompleteCallback(region)
  /\ UNCHANGED <<adjrowindex, vr, f_flag, er, dc, a_data>>

CompleteWrite ==
  /\ Goto("tick", "tick")
  /\ WriteCompleteCallback
  /\ UNCHANGED <<adjrowindex, vr, f_flag, er, dc, a_data>>

(* ... and then returns. *)
EndUpdateCycle ==
  /\ Goto("tick", "test")
  /\ UNCHANGED <<adjrowindex, dramVars, vr, f_flag, er, dc, a_data>>

IsOver == tot_axw_count = 0 /\ ~WriteExist

ExitTest ==
  /\ pc = "test"
  /\ pc' = IF IsOver THEN "done" ELSE "dram"
  /\ UNCHANGED <<adjrowindex, dramVars, vr, f_flag, er, dc, a_data>>

Terminated == pc = "done" /\ UNCHANGED vars

-----------------------------------------------------------------------------

TakeTurn == TakeRowLine \/ TakeColLine \/ TakeFeature \/ TakeNothing

LoopStep ==
  \/ TakeTurn
  \/ VertexReaderReceives \/ VertexReaderRequests
  \/ EdgeReaderReceives
  \/ HandOverVertex \/ NoHandOver
  \/ EdgeReaderRequests \/ EdgeReaderMultiplies \/ EdgeReaderWrites
  \/ EndAddTransaction \/ EndUpdateCycle \/ ExitTest

Next ==
  \/ LoopStep
  \/ AddTransaction
  \/ \E region \in {"A_ROW", "A_COL", "XW"} : CompleteRead(region)
  \/ CompleteWrite
  \/ Terminated

Spec == Init /\ [][Next]_vars

(***************************************************************************)
(* The loop keeps turning; the memory goes on accepting and completing     *)
(* transactions.  Strong fairness, because the memory is offered a step at *)
(* two points of each cycle only.                                          *)
(***************************************************************************)
Fairness ==
  /\ WF_vars(LoopStep)
  /\ SF_vars(AddTransaction)
  /\ \A region \in {"A_ROW", "A_COL", "XW"} : SF_vars(CompleteRead(region))
  /\ SF_vars(CompleteWrite)

FairSpec == Spec /\ Fairness

-----------------------------------------------------------------------------
(***************************************************************************)
(* Properties.                                                             *)
(***************************************************************************)

VRType ==
  [x_repeat : Int, pre_row : Nat, pre_row_archive : Nat, pop_count : Nat,
   q_space : Int, vq : Seq(Nat), v_cache : Seq(Nat), v_cache_idx : Nat,
   tot_read_cnt : Nat, pre_read_cnt : Nat, popped : Nat \ {0},
   req_need : BOOLEAN, q_empty : BOOLEAN]

ERType ==
  [x_repeat : Int, pre_row : Nat, pre_row_archive : Nat, cur_v : Nat,
   last_v : Nat, v_arch : Nat, remain_col_num : Int, can_receive : BOOLEAN,
   q_space : Int, eq : Nat, e_cache : Nat, e_cache_idx : Nat,
   tot_read_cnt : Nat, pre_read_cnt : Nat, popped : Nat \ {0},
   req_need : BOOLEAN, do_write : BOOLEAN, write_count : Nat \ {0},
   block_cnt : Nat]

DCType ==
  [v_limit : Nat, e_limit : Nat, v_popped : Nat, e_popped : Nat, rows : Nat]

DataType ==
  [type : {"none", "A_ROW", "A_COL"}, rows : Seq(Nat), edges : Nat]

DRAMTypeOK ==
  /\ t_queue \in Seq(Region)
  /\ accepted \in [Region -> Nat]
  /\ write_buffered \in BOOLEAN
  /\ f_address \in Seq({"A_ROW", "A_COL"})
  /\ w_address \in Seq({"XW"})
  /\ f_read_complete \in BOOLEAN
  /\ w_read_complete \in BOOLEAN
  /\ tot_axw_count \in Int

(* Type correctness of the whole state: in particular write_count never    *)
(* reaches 0, since Write reloads it when it sends the last line.          *)
TypeOK ==
  /\ adjrowindex \in Graphs
  /\ DRAMTypeOK
  /\ vr \in VRType
  /\ f_flag \in BOOLEAN
  /\ er \in ERType
  /\ dc \in DCType
  /\ a_data \in DataType
  /\ pc \in Steps

-----------------------------------------------------------------------------

QueuedAt(region) == {i \in DOMAIN t_queue : t_queue[i] = region}
CompletedAt(region) == {i \in DOMAIN f_address : f_address[i] = region}

(* Requests to a region that no one has taken the answer of yet. *)
InFlight(region) ==
  Cardinality(QueuedAt(region)) + accepted[region]
    + Cardinality(CompletedAt(region))

NoFeatureRead ==
  QueuedAt("XW") = {} /\ accepted["XW"] = 0 /\ w_address = <<>>

OneFeatureRead ==
  \/ /\ \E i \in DOMAIN t_queue : QueuedAt("XW") = {i}
     /\ accepted["XW"] = 0 /\ w_address = <<>>
  \/ /\ QueuedAt("XW") = {}
     /\ accepted["XW"] = 1 /\ w_address = <<>>
  \/ /\ QueuedAt("XW") = {}
     /\ accepted["XW"] = 0 /\ Len(w_address) = 1

(* f_flag is the only thing that holds back the hand-over of a row until   *)
(* its features are there.  While it is down exactly one feature read is   *)
(* on its way, from t_queue through the memory to w_address; while it is   *)
(* up there is none.  A second one would raise the flag too early, a lost  *)
(* one would stop the loop for good.                                       *)
FeatureHandshake == IF f_flag THEN NoFeatureRead ELSE OneFeatureRead

(* The two flags the DRAM turn looks at say which completion queues hold   *)
(* an address; what FeatureHandshake needs to be inductive.                *)
CompletionFlags ==
  /\ f_read_complete = (f_address # <<>>)
  /\ w_read_complete = (w_address # <<>>)

IInv == TypeOK /\ CompletionFlags /\ FeatureHandshake

(* DataController does not look at the address of a completed read: it     *)
(* serves the next line of whatever block its own counts are in.  That is  *)
(* sound because the row lines asked for, less those in flight, are always *)
(* the lines DataController has served of the VertexReader's block; it is  *)
(* never ahead, so its queue of counts is never read when empty.           *)
RowLinesAccounted ==
  IF vr.popped <= Blocks
  THEN /\ dc.v_popped \in {vr.popped - 1, vr.popped}
       /\ vr.pre_read_cnt =
            InFlight("A_ROW") + (IF dc.v_popped = vr.popped
                                 THEN vr.tot_read_cnt
                                 ELSE dc.v_limit \div CACHE_LINE_COUNT)
  ELSE dc.v_popped = Blocks /\ InFlight("A_ROW") = 0

(* None of the unsigned counters is decremented below 0: q_space, the      *)
(* space a reader believes to have used, is never less than what its queue *)
(* holds and the lines on their way will bring, although lines are counted *)
(* when they are asked for and entries when they are used; the edges left  *)
(* of a row are a difference of two row pointers; and the writes still to  *)
(* be acknowledged cover the writes on their way.                          *)
NoUnderflow ==
  /\ vr.q_space >= Len(vr.vq) + CACHE_LINE_COUNT * InFlight("A_ROW")
  /\ er.q_space >= er.eq + CACHE_LINE_COUNT * InFlight("A_COL")
  /\ er.remain_col_num >= 0
  /\ tot_axw_count >= InFlight("AXW")

(* TransferData reads v_cache[v_cache_idx] without a check: the index is   *)
(* in range whenever a pass over cached pointers goes on.                  *)
VertexCacheInBounds == IsReplay => vr.v_cache_idx < Len(vr.v_cache)

-----------------------------------------------------------------------------
(***************************************************************************)
(* The code keeps the two readers together only on some inputs: every      *)
(* block ends with a row that has edges, not all edges of a block belong   *)
(* to its first row, a pass takes long enough for the burst of writes that *)
(* the pass before it began, and no line of the first block begins with a  *)
(* second 0.  The README says what happens otherwise.                      *)
(***************************************************************************)
WellFormed(g) ==
  /\ \A b \in 1 .. Blocks :
       LET first == BlockEnd(b - 1) + 1
           last  == BlockEnd(b)
       IN  /\ g[last - 1] < g[last]
           /\ g[first] < g[last]
           /\ g[last] - g[first - 1]
                + Cardinality({i \in first .. last : g[i - 1] = g[i]})
              >= WriteBurst
  /\ \A i \in 1 .. BlockEnd(1) : i % CACHE_LINE_COUNT = 0 => g[i] > 0

(* As RowLinesAccounted, for the edge lines and the EdgeReader.  A block   *)
(* without edges breaks it: the EdgeReader then asks for lines that        *)
(* DataController serves from the blocks behind.                           *)
ColLinesAccounted ==
  IF er.popped <= Blocks
  THEN /\ dc.e_popped \in {er.popped - 1, er.popped}
       /\ er.pre_read_cnt =
            InFlight("A_COL") + (IF dc.e_popped = er.popped
                                 THEN er.tot_read_cnt
                                 ELSE dc.e_limit \div CACHE_LINE_COUNT)
  ELSE dc.e_popped = Blocks /\ InFlight("A_COL") = 0

(* OuterProduct reads e_cache[e_cache_idx] without a check: the index is   *)
(* in range whenever a cached edge is multiplied.                          *)
EdgeCacheInBounds == ConsumesCached => er.e_cache_idx < er.e_cache

(* The edge OuterProduct multiplies next, numbered through the matrix. *)
NextEdge ==
  er.last_v + (IF er.x_repeat = 0 THEN er.e_cache ELSE er.e_cache_idx)

(* Every edge is multiplied for its own row: the EdgeReader derives the    *)
(* row's edges from two pointers and the pass it believes to be in, and    *)
(* the result agrees with the row-pointer array.                           *)
EdgeInRow ==
  er.remain_col_num > 0 =>
    /\ NextEdge = er.cur_v - er.remain_col_num
    /\ adjrowindex[er.pre_row - 1] <= NextEdge
    /\ NextEdge < adjrowindex[er.pre_row]

(* The two readers count rows, passes and blocks on their own, and nothing *)
(* compares the counts; whenever a hand-over is possible they agree.       *)
InStep ==
  er.can_receive /\ ~vr.q_empty =>
    /\ er.x_repeat = vr.x_repeat
    /\ er.pre_row = vr.pre_row
    /\ er.popped = vr.popped

Passes == er.block_cnt * w_fold + er.x_repeat

(* The writes not yet acknowledged, less those on their way and those left *)
(* of the current burst, are the bursts of the passes still to come: no    *)
(* burst is cut short by the end of the next pass, none is written twice.  *)
WriteBudget ==
  tot_axw_count - InFlight("AXW") - (IF er.do_write THEN er.write_count ELSE 0)
    = WriteBurst * (Blocks * w_fold - Passes)

(* The loop is left only after every pass over every block, with every     *)
(* result line written and acknowledged.                                   *)
DoneMeansAllBlocks ==
  pc = "done" => er.block_cnt = Blocks /\ InFlight("AXW") = 0

Schedule == INSTANCE EdgeSchedule WITH
              block <- er.popped, pass <- er.x_repeat, edge <- NextEdge

(* The loop implements the schedule: each edge of each block once per      *)
(* pass, in order, w_fold passes, blocks in order.                         *)
ImplementsSchedule == Schedule!ScheduleSpec

(* Every result line is eventually written and acknowledged, and no more:  *)
(* neither reader waits for the other for ever.                            *)
WritesAcknowledged == <>[](tot_axw_count = 0)

(* The loop ends: "AXW OPERATION OVER". *)
Termination == <>(pc = "done")
=============================================================================
