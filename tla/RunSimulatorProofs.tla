------------------------- MODULE RunSimulatorProofs -------------------------
(***************************************************************************)
(* For every size of the matrix, the blocks, the lines and the queues, and *)
(* every graph: type correctness of the A*XW loop and the handshake on     *)
(* feature reads.                                                          *)
(***************************************************************************)
EXTENDS RunSimulator, SequenceTheorems, TLAPS

-----------------------------------------------------------------------------
(***************************************************************************)
(* The block partition.                                                    *)
(***************************************************************************)

(* Rounding up a quotient, as the ceil() calls of the readers do, gives a  *)
(* natural number, at least 1 for a dividend of at least 1.                *)
LEMMA CeilDivType ==
  ASSUME NEW n \in Nat, NEW d \in Nat \ {0}
  PROVE  CeilDiv(n, d) \in Nat /\ (n > 0 => CeilDiv(n, d) > 0)
  BY DEF CeilDiv

(* The last row of a block lies in the matrix, and blocks do not overlap   *)
(* (the block boundaries of GetUint64Val).                                 *)
LEMMA BlockEndType ==
  ASSUME NEW b \in Nat
  PROVE  /\ BlockEnd(b) \in 0 .. a_h
         /\ BlockEnd(b) <= BlockEnd(b + 1)
<1>1. max_v \in Nat /\ a_h \in Nat
  BY SizesAssumption
<1>2. b * max_v \in Nat /\ (b + 1) * max_v = b * max_v + max_v
  BY <1>1
<1> QED
  BY <1>1, <1>2 DEF BlockEnd

(* The counts queued by GetUint64Val are natural numbers. *)
LEMMA ReqCountType ==
  ASSUME adjrowindex \in Graphs, NEW b \in Nat
  PROVE  /\ vertex_req_count(b + 1) \in Nat
         /\ edge_req_count(b + 1) \in Nat
<1>1. /\ BlockEnd(b) \in 0 .. a_h
      /\ BlockEnd(b + 1) \in 0 .. a_h
      /\ BlockEnd(b) <= BlockEnd(b + 1)
  BY BlockEndType
<1>2. (b + 1) - 1 = b
  OBVIOUS
<1>3. vertex_req_count(b + 1) \in Nat
  BY <1>1, <1>2, SizesAssumption DEF vertex_req_count
<1>4. /\ adjrowindex[BlockEnd(b)] \in Nat
      /\ adjrowindex[BlockEnd(b + 1)] \in Nat
      /\ adjrowindex[BlockEnd(b)] <= adjrowindex[BlockEnd(b + 1)]
  BY <1>1, GraphsAssumption
<1>5. edge_req_count(b + 1) \in Nat
  BY <1>2, <1>4 DEF edge_req_count
<1> QED
  BY <1>3, <1>5

(* The burst of result lines is at least one line long. *)
LEMMA WriteBurstType == WriteBurst \in Nat \ {0}
  BY CeilDivType, SizesAssumption DEF WriteBurst

(* The lines fetched for the next block, the stale ones included. *)
LEMMA NextLineCountsType ==
  ASSUME NEW popped \in Nat, NEW entries \in Nat,
         NEW lines \in NextLineCounts(popped, entries)
  PROVE  lines \in Nat
  BY CeilDivType, SizesAssumption, ReaderAssumption DEF NextLineCounts

-----------------------------------------------------------------------------
(***************************************************************************)
(* Type correctness of the readers' operations.  The values of the fields  *)
(* first (arithmetic), then the record (none).                             *)
(***************************************************************************)

(* A line of row pointers joins the VertexReader's queue. *)
LEMMA VRReceiveType ==
  ASSUME vr \in VRType, NEW line \in Seq(Nat), VR_ReceiveData(line)
  PROVE  vr' \in VRType
<1> DEFINE rows == IF line # <<>> /\ Head(line) = 0 THEN Tail(line) ELSE line
<1>1. rows \in Seq(Nat)
  OBVIOUS
<1>2. vr.vq \in Seq(Nat)
  BY DEF VRType
<1>3. vr.vq \o rows \in Seq(Nat)
  BY <1>1, <1>2
<1>4. vr' = [vr EXCEPT !.vq = vr.vq \o rows, !.q_empty = FALSE]
  BY DEF VR_ReceiveData
<1> HIDE DEF rows
<1> QED
  BY <1>3, <1>4, ZenonT(60) DEF VRType

(* The request turn of the VertexReader. *)
LEMMA VRRequestType ==
  ASSUME vr \in VRType, VR_RequestTurn
  PROVE  vr' \in VRType
<1>1. /\ vr.q_space + CACHE_LINE_COUNT \in Int
      /\ vr.pre_read_cnt + 1 \in Nat
  BY SizesAssumption DEF VRType
<1>2. CASE vr' = [vr EXCEPT !.req_need = FALSE]
  BY <1>2, ZenonT(60) DEF VRType
<1>3. CASE VR_Request
  BY <1>1, <1>3, ZenonT(60) DEF VR_Request, VRType
<1> QED
  BY <1>2, <1>3 DEF VR_RequestTurn

(* TransferData of the VertexReader. *)
LEMMA VRTransferType ==
  ASSUME adjrowindex \in Graphs, vr \in VRType, VR_TransferData
  PROVE  vr' \in VRType
<1>0. PopCountAfter \in Nat
  <2>1. vr.pop_count + 1 \in Nat
    BY DEF VRType
  <2> QED
    BY <2>1 DEF PopCountAfter
<1>1. /\ vr.pre_row + 1 \in Nat
      /\ vr.pre_row_archive \in Nat
      /\ vr.v_cache_idx + 1 \in Nat
      /\ vr.x_repeat + 1 \in Int
      /\ vr.q_space - 1 \in Int
      /\ vr.popped \in Nat
      /\ vr.popped + 1 \in Nat \ {0}
  <2>1. /\ vr.pre_row \in Nat /\ vr.pre_row_archive \in Nat
        /\ vr.v_cache_idx \in Nat /\ vr.x_repeat \in Int
        /\ vr.q_space \in Int /\ vr.popped \in Nat \ {0}
    BY DEF VRType
  <2> QED
    BY <2>1
<1>2. CASE TransferFresh
  <2> DEFINE again == \/ vr.req_need
                      \/ /\ vr.pre_read_cnt < vr.tot_read_cnt
                         /\ MoreThanALineLeft(vr.q_space - 1)
             row   == IF EndsBlock(vr.pre_row + 1) THEN vr.pre_row_archive
                                                   ELSE vr.pre_row + 1
             pass  == IF EndsBlock(vr.pre_row + 1) THEN 1 ELSE 0
  <2>1. /\ Tail(vr.vq) \in Seq(Nat)
        /\ Append(vr.v_cache, Head(vr.vq)) \in Seq(Nat)
    BY <1>2 DEF TransferFresh, IsFresh, VRType
  <2>2. row \in Nat /\ pass \in Int
    BY <1>1
  <2>3. again \in BOOLEAN
    BY DEF VRType
  <2>4. vr' = [vr EXCEPT !.vq = Tail(vr.vq),
                         !.v_cache = Append(vr.v_cache, Head(vr.vq)),
                         !.q_space = vr.q_space - 1,
                         !.pop_count = PopCountAfter,
                         !.req_need = again,
                         !.pre_row = row,
                         !.x_repeat = pass]
    BY <1>2, ZenonT(60) DEF TransferFresh
  <2> HIDE DEF again, row, pass
  <2> QED
    BY <1>0, <1>1, <2>1, <2>2, <2>3, <2>4, ZenonT(60) DEF VRType
<1>3. CASE TransferReplay
  <2> DEFINE row == vr.pre_row + 1
  <2>1. CASE vr' = [vr EXCEPT !.pre_row = row, !.v_cache_idx = @ + 1,
                              !.pop_count = PopCountAfter]
    BY <1>0, <1>1, <2>1, ZenonT(60) DEF VRType
  <2>2. CASE vr' = [vr EXCEPT !.pre_row = vr.pre_row_archive,
                              !.v_cache_idx = 0,
                              !.pop_count = PopCountAfter,
                              !.x_repeat = @ + 1]
    <3>1. 0 \in Nat
      OBVIOUS
    <3> QED
      BY <1>0, <1>1, <2>2, <3>1, ZenonT(60) DEF VRType
  <2>3. ASSUME NEW lines \in NextLineCounts(vr.popped,
                                            vertex_req_count(vr.popped + 1)),
               vr' = VR_NextBlock(row, lines)
        PROVE  vr' \in VRType
    <3>1. lines \in Nat
      BY <1>1, ReqCountType, NextLineCountsType
    <3>2. 0 \in Nat /\ 0 \in Int /\ <<>> \in Seq(Nat) /\ (row # a_h) \in BOOLEAN
      OBVIOUS
    <3> QED
      BY <1>0, <1>1, <2>3, <3>1, <3>2, ZenonT(60) DEF VR_NextBlock, VRType
  <2> QED
    BY <1>3, <2>1, <2>2, <2>3 DEF TransferReplay
<1>4. CASE TransferNothing
  BY <1>4 DEF TransferNothing
<1> QED
  BY <1>2, <1>3, <1>4 DEF VR_TransferData

(* What TransferData returns is a row pointer or the sentinel. *)
LEMMA VRVertexType ==
  ASSUME vr \in VRType, NEW vertex \in VR_Vertices, vertex # NoVertex
  PROVE  vertex \in Nat
<1>1. CASE IsFresh
  <2>1. Head(vr.vq) \in Nat
    BY <1>1 DEF IsFresh, VRType
  <2> QED
    BY <1>1, <2>1 DEF VR_Vertices
<1>2. CASE ~IsFresh /\ vr.v_cache_idx < Len(vr.v_cache)
  <2>1. vr.v_cache[vr.v_cache_idx + 1] \in Nat
    BY <1>2 DEF VRType
  <2> QED
    BY <1>2, <2>1 DEF VR_Vertices
<1>3. CASE ~IsFresh /\ ~(vr.v_cache_idx < Len(vr.v_cache))
  BY <1>3, ReaderAssumption DEF VR_Vertices
<1> QED
  BY <1>1, <1>2, <1>3

(* The EdgeReader takes a row pointer. *)
LEMMA ERVertexType ==
  ASSUME vr \in VRType, er \in ERType, NEW vertex \in VR_Vertices,
         ER_ReceiveVertex(vertex)
  PROVE  er' \in ERType
<1>1. CASE vertex = NoVertex
  BY <1>1 DEF ER_ReceiveVertex
<1>2. CASE vertex # NoVertex
  <2> DEFINE emptyEnd == DegreeOf(vertex) = 0 /\ er.pre_row + 1 = a_h
             row      == IF emptyEnd THEN 0 ELSE er.pre_row + 1
             write    == er.do_write \/ emptyEnd
  <2>1. vertex \in Nat
    BY <1>2, VRVertexType
  <2>2. DegreeOf(vertex) \in Int
    BY <2>1 DEF DegreeOf, ERType
  <2>3. row \in Nat
    BY DEF ERType
  <2>4. write \in BOOLEAN /\ (DegreeOf(vertex) = 0) \in BOOLEAN
    BY DEF ERType
  <2>5. er' = [er EXCEPT !.cur_v = vertex,
                         !.v_arch = vertex,
                         !.remain_col_num = DegreeOf(vertex),
                         !.can_receive = (DegreeOf(vertex) = 0),
                         !.pre_row = row,
                         !.do_write = write]
    BY <1>2, ZenonT(60) DEF ER_ReceiveVertex
  <2> HIDE DEF emptyEnd, row, write
  <2> QED
    BY <2>1, <2>2, <2>3, <2>4, <2>5, ZenonT(60) DEF ERType
<1> QED
  BY <1>1, <1>2

(* A line of edges joins the EdgeReader's queue. *)
LEMMA ERReceiveType ==
  ASSUME er \in ERType, NEW edges \in Nat, ER_ReceiveData(edges)
  PROVE  er' \in ERType
<1>1. er.eq + edges \in Nat
  BY DEF ERType
<1> QED
  BY <1>1, ZenonT(60) DEF ER_ReceiveData, ERType

(* The request turn of the EdgeReader. *)
LEMMA ERRequestType ==
  ASSUME er \in ERType, ER_RequestTurn
  PROVE  er' \in ERType
<1>1. /\ er.q_space + CACHE_LINE_COUNT \in Int
      /\ er.pre_read_cnt + 1 \in Nat
  BY SizesAssumption DEF ERType
<1>2. CASE er' = [er EXCEPT !.req_need = FALSE]
  BY <1>2, ZenonT(60) DEF ERType
<1>3. CASE ER_Request
  BY <1>1, <1>3, ZenonT(60) DEF ER_Request, ERType
<1> QED
  BY <1>2, <1>3 DEF ER_RequestTurn

(* OuterProduct of the EdgeReader. *)
LEMMA OuterProductType ==
  ASSUME adjrowindex \in Graphs, er \in ERType, OuterProduct
  PROVE  er' \in ERType
<1> DEFINE receive == er.can_receive \/ RowDone
           write   == er.do_write \/ PassDone
           again   == \/ er.req_need
                      \/ /\ er.pre_read_cnt < er.tot_read_cnt
                         /\ MoreThanALineLeft(er.q_space - 1)
           first   == IF PassDone THEN 1 ELSE 0
           next    == IF PassDone THEN er.x_repeat + 1 ELSE er.x_repeat
<1>1. /\ RowAfter \in Nat
      /\ CacheIndexAfter \in Nat
      /\ er.e_cache + 1 \in Nat
      /\ er.q_space - 1 \in Int
      /\ er.remain_col_num - 1 \in Int
      /\ first \in Int
      /\ next \in Int
  BY DEF RowAfter, CacheIndexAfter, ERType
<1>2. receive \in BOOLEAN /\ write \in BOOLEAN /\ again \in BOOLEAN
  BY DEF ERType
<1>3. CASE OuterProductFresh
  <2>1. er.eq - 1 \in Nat
    BY <1>3 DEF OuterProductFresh, ConsumesFresh, ERType
  <2>2. er' = [er EXCEPT !.eq = er.eq - 1,
                         !.e_cache = er.e_cache + 1,
                         !.q_space = er.q_space - 1,
                         !.req_need = again,
                         !.remain_col_num = er.remain_col_num - 1,
                         !.can_receive = receive,
                         !.pre_row = RowAfter,
                         !.x_repeat = first,
                         !.do_write = write]
    BY <1>3, ZenonT(60) DEF OuterProductFresh
  <2> HIDE DEF receive, write, again, first
  <2> QED
    BY <1>1, <1>2, <2>1, <2>2, ZenonT(90) DEF ERType
<1>4. CASE OuterProductCached
  <2>1. er' = [er EXCEPT !.e_cache_idx = CacheIndexAfter,
                         !.remain_col_num = er.remain_col_num - 1,
                         !.can_receive = receive,
                         !.pre_row = RowAfter,
                         !.x_repeat = next,
                         !.do_write = write]
    BY <1>4, ZenonT(60) DEF OuterProductCached
  <2> HIDE DEF receive, write, next
  <2> QED
    BY <1>1, <1>2, <2>1, ZenonT(60) DEF ERType
<1>5. CASE OuterProductLast
  <2> DEFINE more == er.pre_row # a_h
  <2>1. PICK lines \in NextLineCounts(er.popped, edge_req_count(er.popped + 1)) :
          er' = ER_NextBlock(lines)
    BY <1>5 DEF OuterProductLast
  <2>2. /\ er.popped \in Nat
        /\ er.popped + 1 \in Nat \ {0}
        /\ er.block_cnt + 1 \in Nat
        /\ er.pre_row \in Nat
        /\ er.v_arch \in Nat
        /\ 0 \in Nat /\ 0 \in Int
    BY DEF ERType
  <2>3. lines \in Nat
    BY <2>2, ReqCountType, NextLineCountsType
  <2>4. more \in BOOLEAN /\ (er.req_need \/ more) \in BOOLEAN
    BY DEF ERType
  <2> QED
    BY <2>1, <2>2, <2>3, <2>4, ZenonT(90) DEF ER_NextBlock, ERType
<1>6. CASE OuterProductIdle
  BY <1>6 DEF OuterProductIdle
<1> QED
  BY <1>3, <1>4, <1>5, <1>6 DEF OuterProduct

(* Write of the EdgeReader: the count of a burst stays above 0. *)
LEMMA WriteType ==
  ASSUME er \in ERType, Write
  PROVE  er' \in ERType
<1>1. WriteCountAfter \in Nat \ {0}
  BY WriteBurstType DEF WriteCountAfter, ERType
<1>2. (er.write_count # 1) \in BOOLEAN
  OBVIOUS
<1> QED
  BY <1>1, <1>2, ZenonT(60) DEF Write, ERType

-----------------------------------------------------------------------------
(***************************************************************************)
(* The request queue.                                                      *)
(***************************************************************************)

(* DRAMRequest appends one request of the region named, and no other. *)
LEMMA QueueAppend ==
  ASSUME t_queue \in Seq(Region), NEW region \in Region, DRAMRequest(region)
  PROVE  /\ t_queue' \in Seq(Region)
         /\ region # "XW" => QueuedAt("XW")' = QueuedAt("XW")
         /\ region = "XW" =>
              QueuedAt("XW")' = QueuedAt("XW") \cup {Len(t_queue) + 1}
         /\ DOMAIN t_queue' = DOMAIN t_queue \cup {Len(t_queue) + 1}
<1>1. t_queue' = Append(t_queue, region)
  BY DEF DRAMRequest
<1>2. /\ t_queue' \in Seq(Region)
      /\ DOMAIN t_queue = 1 .. Len(t_queue)
      /\ DOMAIN t_queue' = 1 .. (Len(t_queue) + 1)
      /\ \A i \in 1 .. Len(t_queue) : t_queue'[i] = t_queue[i]
      /\ t_queue'[Len(t_queue) + 1] = region
      /\ Len(t_queue) \in Nat
  BY <1>1
<1> QED
  BY <1>2 DEF QueuedAt

(* The memory takes the head of the queue: the feature read is at the head *)
(* and leaves, or it moves one place up, or there is none.                 *)
LEMMA QueueTail ==
  ASSUME t_queue \in Seq(Region), t_queue # <<>>, t_queue' = Tail(t_queue)
  PROVE  /\ t_queue' \in Seq(Region)
         /\ Head(t_queue) \in Region
         /\ QueuedAt("XW") = {} =>
              Head(t_queue) # "XW" /\ QueuedAt("XW")' = {}
         /\ \A i \in DOMAIN t_queue :
              QueuedAt("XW") = {i} =>
                IF Head(t_queue) = "XW"
                THEN QueuedAt("XW")' = {}
                ELSE \E j \in DOMAIN t_queue' : QueuedAt("XW")' = {j}
<1>1. /\ t_queue' \in Seq(Region)
      /\ Head(t_queue) = t_queue[1]
      /\ Head(t_queue) \in Region
      /\ Len(t_queue) \in Nat \ {0}
      /\ DOMAIN t_queue = 1 .. Len(t_queue)
      /\ DOMAIN t_queue' = 1 .. (Len(t_queue) - 1)
      /\ \A k \in 1 .. (Len(t_queue) - 1) : t_queue'[k] = t_queue[k + 1]
  OBVIOUS
<1>2. ASSUME QueuedAt("XW") = {}
      PROVE  Head(t_queue) # "XW" /\ QueuedAt("XW")' = {}
  BY <1>1, <1>2 DEF QueuedAt
<1>3. ASSUME NEW i \in DOMAIN t_queue, QueuedAt("XW") = {i}
      PROVE  IF Head(t_queue) = "XW"
             THEN QueuedAt("XW")' = {}
             ELSE \E j \in DOMAIN t_queue' : QueuedAt("XW")' = {j}
  <2>1. CASE Head(t_queue) = "XW"
    <3>1. i = 1
      BY <1>1, <1>3, <2>1 DEF QueuedAt
    <3> QED
      BY <1>1, <1>3, <2>1, <3>1 DEF QueuedAt
  <2>2. CASE Head(t_queue) # "XW"
    <3>1. t_queue[i] = "XW" /\ i # 1
      BY <1>1, <1>3, <2>2 DEF QueuedAt
    <3>2. i - 1 \in DOMAIN t_queue'
      BY <1>1, <3>1
    <3>3. QueuedAt("XW")' = {i - 1}
      BY <1>1, <1>3, <3>1, <3>2 DEF QueuedAt
    <3> QED
      BY <2>2, <3>2, <3>3
  <2> QED
    BY <2>1, <2>2
<1> QED
  BY <1>1, <1>2, <1>3

-----------------------------------------------------------------------------
(***************************************************************************)
(* The part of the invariant that speaks of DRAMInterface and f_flag, and  *)
(* the operations of DRAMInterface.                                        *)
(***************************************************************************)

MemInv ==
  DRAMTypeOK /\ f_flag \in BOOLEAN /\ CompletionFlags /\ FeatureHandshake

(* A step that touches neither DRAMInterface nor f_flag. *)
LEMMA MemUnchanged ==
  ASSUME MemInv, UNCHANGED <<dramVars, f_flag>>
  PROVE  MemInv'
  BY DEF MemInv, dramVars, DRAMTypeOK, CompletionFlags, FeatureHandshake,
         NoFeatureRead, OneFeatureRead, QueuedAt

(* A request for anything but features. *)
LEMMA MemRequest ==
  ASSUME MemInv, NEW region \in Region \ {"XW"}, DRAMRequest(region),
         UNCHANGED <<memVars, f_flag>>
  PROVE  MemInv'
<1>1. /\ t_queue' \in Seq(Region)
      /\ QueuedAt("XW")' = QueuedAt("XW")
      /\ DOMAIN t_queue \subseteq DOMAIN t_queue'
  BY QueueAppend DEF MemInv, DRAMTypeOK
<1>2. DRAMTypeOK' /\ CompletionFlags' /\ f_flag' \in BOOLEAN
  BY <1>1 DEF MemInv, memVars, DRAMTypeOK, CompletionFlags
<1>3. FeatureHandshake'
  BY <1>1 DEF MemInv, memVars, FeatureHandshake, NoFeatureRead, OneFeatureRead
<1> QED
  BY <1>2, <1>3 DEF MemInv

(* RequestF while f_flag is up. *)
LEMMA MemRequestF ==
  ASSUME MemInv, f_flag, RequestF, UNCHANGED memVars
  PROVE  MemInv'
<1>1. DRAMRequest("XW") /\ f_flag' = FALSE /\ "XW" \in Region
  BY DEF RequestF, Region
<1>2. /\ t_queue' \in Seq(Region)
      /\ QueuedAt("XW")' = QueuedAt("XW") \cup {Len(t_queue) + 1}
      /\ Len(t_queue) + 1 \in DOMAIN t_queue'
  BY <1>1, QueueAppend DEF MemInv, DRAMTypeOK
<1>3. NoFeatureRead
  BY DEF MemInv, FeatureHandshake
<1>4. DRAMTypeOK' /\ CompletionFlags' /\ f_flag' \in BOOLEAN
  BY <1>1, <1>2 DEF MemInv, memVars, DRAMTypeOK, CompletionFlags
<1>5. OneFeatureRead'
  BY <1>2, <1>3 DEF NoFeatureRead, OneFeatureRead, memVars
<1> QED
  BY <1>1, <1>4, <1>5 DEF MemInv, FeatureHandshake

(* The memory takes a transaction off the queue. *)
LEMMA MemAccept ==
  ASSUME MemInv, AcceptTransaction, UNCHANGED f_flag
  PROVE  MemInv'
<1> DEFINE r == Head(t_queue)
<1>1. /\ t_queue \in Seq(Region)
      /\ t_queue # <<>>
      /\ t_queue' = Tail(t_queue)
  BY DEF MemInv, DRAMTypeOK, AcceptTransaction, MemoryAccept
<1>2. /\ t_queue' \in Seq(Region)
      /\ r \in Region
      /\ QueuedAt("XW") = {} => r # "XW" /\ QueuedAt("XW")' = {}
      /\ \A i \in DOMAIN t_queue :
           QueuedAt("XW") = {i} =>
             IF r = "XW" THEN QueuedAt("XW")' = {}
             ELSE \E j \in DOMAIN t_queue' : QueuedAt("XW")' = {j}
  BY <1>1, QueueTail
<1>3. /\ accepted \in [Region -> Nat]
      /\ accepted' = [accepted EXCEPT ![r] = @ + 1]
      /\ "XW" \in Region
  BY DEF MemInv, DRAMTypeOK, AcceptTransaction, MemoryAccept, Region
<1>4. /\ accepted' \in [Region -> Nat]
      /\ accepted'["XW"] = IF r = "XW" THEN accepted["XW"] + 1
                           ELSE accepted["XW"]
  BY <1>2, <1>3
<1>5. write_buffered' \in BOOLEAN
  BY DEF AcceptTransaction, MemoryAccept
<1>6. /\ f_address' = f_address /\ w_address' = w_address
      /\ f_read_complete' = f_read_complete
      /\ w_read_complete' = w_read_complete
      /\ tot_axw_count' = tot_axw_count
  BY DEF AcceptTransaction, MemoryAccept
<1>7. DRAMTypeOK' /\ CompletionFlags' /\ f_flag' \in BOOLEAN
  BY <1>2, <1>4, <1>5, <1>6 DEF MemInv, DRAMTypeOK, CompletionFlags
<1> HIDE DEF r
<1>8. CASE f_flag
  <2>1. NoFeatureRead
    BY <1>8 DEF MemInv, FeatureHandshake
  <2>2. NoFeatureRead'
    BY <1>2, <1>4, <1>6, <2>1 DEF NoFeatureRead
  <2> QED
    BY <1>7, <1>8, <2>2 DEF MemInv, FeatureHandshake
<1>9. CASE ~f_flag
  <2>1. OneFeatureRead
    BY <1>9 DEF MemInv, FeatureHandshake
  <2>2. OneFeatureRead'
    BY <1>2, <1>4, <1>6, <2>1 DEF OneFeatureRead
  <2> QED
    BY <1>7, <1>9, <2>2 DEF MemInv, FeatureHandshake
<1> QED
  BY <1>8, <1>9

(* A read completes. *)
LEMMA MemReadComplete ==
  ASSUME MemInv, NEW region \in {"A_ROW", "A_COL", "XW"},
         ReadCompleteCallback(region), UNCHANGED f_flag
  PROVE  MemInv'
<1>1. /\ accepted \in [Region -> Nat]
      /\ region \in Region /\ "XW" \in Region
      /\ accepted[region] > 0
      /\ accepted' = [accepted EXCEPT ![region] = @ - 1]
  BY DEF MemInv, DRAMTypeOK, ReadCompleteCallback, MemoryComplete, Region
<1>2. /\ accepted' \in [Region -> Nat]
      /\ accepted'["XW"] = IF region = "XW" THEN accepted["XW"] - 1
                           ELSE accepted["XW"]
  BY <1>1
<1>3. /\ t_queue' = t_queue /\ write_buffered' = write_buffered
      /\ tot_axw_count' = tot_axw_count
      /\ QueuedAt("XW")' = QueuedAt("XW")
  BY DEF ReadCompleteCallback, MemoryComplete, QueuedAt
<1>4. CASE region \in {"A_ROW", "A_COL"}
  <2>1. /\ f_read_complete' = TRUE
        /\ f_address' = Append(f_address, region)
        /\ UNCHANGED <<w_address, w_read_complete>>
    BY <1>4 DEF ReadCompleteCallback, MemoryComplete
  <2>2. f_address' \in Seq({"A_ROW", "A_COL"}) /\ f_address' # <<>>
    BY <1>4, <2>1, AppendProperties DEF MemInv, DRAMTypeOK
  <2>3. DRAMTypeOK' /\ CompletionFlags' /\ f_flag' \in BOOLEAN
    BY <1>2, <1>3, <2>1, <2>2 DEF MemInv, DRAMTypeOK, CompletionFlags
  <2>4. FeatureHandshake'
    BY <1>2, <1>3, <1>4, <2>1
       DEF MemInv, FeatureHandshake, NoFeatureRead, OneFeatureRead
  <2> QED
    BY <2>3, <2>4 DEF MemInv
<1>5. CASE region = "XW"
  <2>1. /\ w_read_complete' = TRUE
        /\ w_address' = Append(w_address, "XW")
        /\ UNCHANGED <<f_address, f_read_complete>>
    BY <1>5 DEF ReadCompleteCallback, MemoryComplete
  <2>2. /\ w_address' \in Seq({"XW"}) /\ w_address' # <<>>
        /\ w_address = <<>> => Len(w_address') = 1
    BY <2>1 DEF MemInv, DRAMTypeOK
  <2>3. DRAMTypeOK' /\ CompletionFlags' /\ f_flag' \in BOOLEAN
    BY <1>2, <1>3, <2>1, <2>2 DEF MemInv, DRAMTypeOK, CompletionFlags
  <2>4. ~f_flag /\ OneFeatureRead
    BY <1>1, <1>5 DEF MemInv, FeatureHandshake, NoFeatureRead
  <2>5. QueuedAt("XW") = {} /\ accepted["XW"] = 1 /\ w_address = <<>>
    BY <1>1, <1>5, <2>4 DEF OneFeatureRead
  <2>6. OneFeatureRead'
    BY <1>2, <1>3, <1>5, <2>2, <2>5 DEF OneFeatureRead
  <2> QED
    BY <2>3, <2>4, <2>6 DEF MemInv, FeatureHandshake
<1> QED
  BY <1>4, <1>5

(* A write completes. *)
LEMMA MemWriteComplete ==
  ASSUME MemInv, WriteCompleteCallback, UNCHANGED f_flag
  PROVE  MemInv'
<1>1. /\ accepted \in [Region -> Nat]
      /\ "AXW" \in Region /\ "XW" \in Region
      /\ accepted["AXW"] > 0
      /\ accepted' = [accepted EXCEPT !["AXW"] = @ - 1]
  BY DEF MemInv, DRAMTypeOK, WriteCompleteCallback, MemoryComplete, Region
<1>2. accepted' \in [Region -> Nat] /\ accepted'["XW"] = accepted["XW"]
  BY <1>1
<1>3. QueuedAt("XW")' = QueuedAt("XW")
  BY DEF WriteCompleteCallback, MemoryComplete, QueuedAt
<1>4. DRAMTypeOK' /\ CompletionFlags' /\ f_flag' \in BOOLEAN
  BY <1>2 DEF MemInv, DRAMTypeOK, CompletionFlags, WriteCompleteCallback, MemoryComplete
<1>5. FeatureHandshake'
  BY <1>2, <1>3 DEF MemInv, FeatureHandshake, NoFeatureRead, OneFeatureRead,
                    WriteCompleteCallback
<1> QED
  BY <1>4, <1>5 DEF MemInv

(* A completed read of the matrix is taken. *)
LEMMA MemGetF ==
  ASSUME MemInv, GetFReadData, UNCHANGED f_flag
  PROVE  MemInv' /\ Head(f_address) \in {"A_ROW", "A_COL"}
<1>1. f_address \in Seq({"A_ROW", "A_COL"}) /\ f_address # <<>>
  BY DEF MemInv, DRAMTypeOK, CompletionFlags, GetFReadData
<1>2. /\ Tail(f_address) \in Seq({"A_ROW", "A_COL"})
      /\ Head(f_address) \in {"A_ROW", "A_COL"}
  BY <1>1
<1>3. DRAMTypeOK' /\ CompletionFlags' /\ f_flag' \in BOOLEAN
  BY <1>2 DEF MemInv, DRAMTypeOK, CompletionFlags, GetFReadData
<1>4. FeatureHandshake'
  BY DEF MemInv, FeatureHandshake, NoFeatureRead, OneFeatureRead, QueuedAt,
         GetFReadData
<1> QED
  BY <1>2, <1>3, <1>4 DEF MemInv

(* The completed feature read is taken and f_flag raised. *)
LEMMA MemGetW ==
  ASSUME MemInv, GetWReadData, f_flag' = TRUE
  PROVE  MemInv'
<1>1. w_address \in Seq({"XW"}) /\ w_address # <<>>
  BY DEF MemInv, DRAMTypeOK, CompletionFlags, GetWReadData
<1>2. /\ QueuedAt("XW") = {} /\ accepted["XW"] = 0 /\ Len(w_address) = 1
  BY <1>1 DEF MemInv, FeatureHandshake, NoFeatureRead, OneFeatureRead
<1>3. Tail(w_address) \in Seq({"XW"}) /\ Tail(w_address) = <<>>
  <2>1. Tail(w_address) \in Seq({"XW"}) /\ Len(Tail(w_address)) = 0
    BY <1>1, <1>2
  <2> QED
    BY <2>1, EmptySeq
<1>4. DRAMTypeOK' /\ CompletionFlags' /\ f_flag' \in BOOLEAN
  BY <1>3 DEF MemInv, DRAMTypeOK, CompletionFlags, GetWReadData
<1>5. QueuedAt("XW")' = QueuedAt("XW")
  BY DEF GetWReadData, QueuedAt
<1>6. NoFeatureRead'
  BY <1>2, <1>3, <1>5 DEF NoFeatureRead, GetWReadData
<1> QED
  BY <1>4, <1>6 DEF MemInv, FeatureHandshake

-----------------------------------------------------------------------------
(***************************************************************************)
(* DataController.                                                         *)
(***************************************************************************)

(* A count at the front of a queue, the stale ones included. *)
LEMMA FrontCountsType ==
  ASSUME NEW popped \in Nat, NEW entries \in Nat,
         NEW count \in FrontCounts(popped, entries)
  PROVE  count \in Nat
  BY ReaderAssumption DEF FrontCounts

(* The size of a line is a natural number. *)
LEMMA LineSizeType ==
  ASSUME NEW limit \in Nat, NEW count \in Nat
  PROVE  LineSize(limit, count) \in Nat
  BY SizesAssumption DEF LineSize

(* AdjRowDataReturn gives a sequence of row pointers. *)
LEMMA AdjRowType ==
  ASSUME adjrowindex \in Graphs, dc \in DCType, AdjRowDataReturn
  PROVE  dc' \in DCType /\ a_data' \in DataType
<1>1. /\ dc.v_popped \in Nat /\ dc.v_popped + 1 \in Nat
      /\ dc.v_limit \in Nat /\ dc.v_limit + CACHE_LINE_COUNT \in Nat
      /\ dc.rows \in Nat
  BY SizesAssumption DEF DCType
<1>2. PICK count \in FrontCounts(dc.v_popped,
                                 vertex_req_count(dc.v_popped + 1)) :
        LET ends == EndsBlockLine(dc.v_limit, count)
            size == LineSize(dc.v_limit, count)
        IN  /\ a_data' = [type  |-> "A_ROW",
                          rows  |-> [i \in 1 .. size |->
                                       RowEntry(dc.rows + i - 1)],
                          edges |-> 0]
            /\ dc' = [dc EXCEPT
                        !.v_limit  = IF ends THEN 0 ELSE @ + CACHE_LINE_COUNT,
                        !.v_popped = IF ends THEN @ + 1 ELSE @,
                        !.rows     = @ + size]
  BY ZenonT(60) DEF AdjRowDataReturn
<1> DEFINE size == LineSize(dc.v_limit, count)
           limit == IF EndsBlockLine(dc.v_limit, count) THEN 0
                    ELSE dc.v_limit + CACHE_LINE_COUNT
           popped == IF EndsBlockLine(dc.v_limit, count) THEN dc.v_popped + 1
                     ELSE dc.v_popped
           line == [i \in 1 .. size |-> RowEntry(dc.rows + i - 1)]
<1>3. count \in Nat
  BY <1>1, ReqCountType, FrontCountsType
<1>4. size \in Nat
  BY <1>1, <1>3, LineSizeType
<1> HIDE DEF size
<1>5. limit \in Nat /\ popped \in Nat /\ dc.rows + size \in Nat
  BY <1>1, <1>4
<1>6. \A k \in Int : RowEntry(k) \in Nat
  BY GraphsAssumption DEF RowEntry
<1>7. line \in Seq(Nat)
  BY <1>1, <1>4, <1>6
<1>8. dc' = [dc EXCEPT !.v_limit = limit, !.v_popped = popped,
                       !.rows = dc.rows + size]
  BY <1>2, ZenonT(60) DEF size
<1>9. a_data' = [type |-> "A_ROW", rows |-> line, edges |-> 0]
  BY <1>2, ZenonT(60) DEF size
<1> HIDE DEF limit, popped, line
<1>10. dc' \in DCType
  BY <1>5, <1>8, ZenonT(60) DEF DCType
<1>11. a_data' \in DataType
  BY <1>7, <1>9 DEF DataType
<1> QED
  BY <1>10, <1>11

(* AdjColDataReturn gives a number of edges. *)
LEMMA AdjColType ==
  ASSUME adjrowindex \in Graphs, dc \in DCType, AdjColDataReturn
  PROVE  dc' \in DCType /\ a_data' \in DataType
<1>1. /\ dc.e_popped \in Nat /\ dc.e_popped + 1 \in Nat
      /\ dc.e_limit \in Nat /\ dc.e_limit + CACHE_LINE_COUNT \in Nat
  BY SizesAssumption DEF DCType
<1>2. PICK count \in FrontCounts(dc.e_popped, edge_req_count(dc.e_popped + 1)) :
        LET ends == EndsBlockLine(dc.e_limit, count)
        IN  /\ a_data' = [type  |-> "A_COL",
                          rows  |-> <<>>,
                          edges |-> LineSize(dc.e_limit, count)]
            /\ dc' = [dc EXCEPT
                        !.e_limit  = IF ends THEN 0 ELSE @ + CACHE_LINE_COUNT,
                        !.e_popped = IF ends THEN @ + 1 ELSE @]
  BY ZenonT(60) DEF AdjColDataReturn
<1> DEFINE limit == IF EndsBlockLine(dc.e_limit, count) THEN 0
                    ELSE dc.e_limit + CACHE_LINE_COUNT
           popped == IF EndsBlockLine(dc.e_limit, count) THEN dc.e_popped + 1
                     ELSE dc.e_popped
<1>3. count \in Nat
  BY <1>1, ReqCountType, FrontCountsType
<1>4. LineSize(dc.e_limit, count) \in Nat
  BY <1>1, <1>3, LineSizeType
<1>5. limit \in Nat /\ popped \in Nat
  BY <1>1
<1>6. dc' = [dc EXCEPT !.e_limit = limit, !.e_popped = popped]
  BY <1>2, ZenonT(60)
<1>7. a_data' = [type |-> "A_COL", rows |-> <<>>,
                 edges |-> LineSize(dc.e_limit, count)]
  BY <1>2, ZenonT(60)
<1> HIDE DEF limit, popped
<1>8. dc' \in DCType
  BY <1>5, <1>6, ZenonT(60) DEF DCType
<1>9. a_data' \in DataType
  BY <1>4, <1>7 DEF DataType
<1> QED
  BY <1>8, <1>9

-----------------------------------------------------------------------------
(***************************************************************************)
(* The loop.                                                               *)
(***************************************************************************)

(* The inductive invariant, by parts. *)
LEMMA IInvParts ==
  IInv <=> /\ MemInv
           /\ adjrowindex \in Graphs
           /\ vr \in VRType /\ er \in ERType
           /\ dc \in DCType /\ a_data \in DataType
           /\ pc \in Steps
  BY ZenonT(60) DEF IInv, MemInv, TypeOK

(* The loop is entered in a state that satisfies the invariant: the one    *)
(* feature read is at the head of t_queue.                                 *)
LEMMA InitIInv == Init => IInv
<1> SUFFICES ASSUME Init
             PROVE  IInv
  OBVIOUS
<1>1. adjrowindex \in Graphs /\ pc \in Steps
  BY DEF Init, Steps
<1>2. /\ vertex_req_count(1) \in Nat
      /\ edge_req_count(1) \in Nat
  BY <1>1, ReqCountType
<1>3. /\ CeilDiv(vertex_req_count(1), CACHE_LINE_COUNT) \in Nat
      /\ CeilDiv(edge_req_count(1), CACHE_LINE_COUNT) \in Nat
  BY <1>2, CeilDivType, SizesAssumption
<1>4. vr \in VRType
  BY <1>3, ReaderAssumption DEF Init, VertexReaderInit, VRType
<1>5. er \in ERType
  BY <1>3, WriteBurstType, ReaderAssumption DEF Init, EdgeReaderInit, ERType
<1>6. dc \in DCType /\ a_data \in DataType
  BY DEF Init, DataControllerInit, NoData, DCType, DataType
<1>7. InitialAxwCount \in Int
  <2>1. Blocks \in Nat /\ w_fold \in Nat
    BY CeilDivType, SizesAssumption DEF Blocks
  <2> QED
    BY <2>1, WriteBurstType DEF InitialAxwCount
<1>8. DRAMTypeOK
  <2>1. /\ t_queue = <<"XW">> /\ accepted = [r \in Region |-> 0]
        /\ write_buffered = FALSE
        /\ f_address = <<>> /\ w_address = <<>>
        /\ f_read_complete = FALSE /\ w_read_complete = FALSE
        /\ tot_axw_count = InitialAxwCount
    BY DEF Init, DRAMInit, MemoryInit
  <2>2. t_queue \in Seq(Region)
    BY <2>1 DEF Region
  <2>3. /\ f_address \in Seq({"A_ROW", "A_COL"})
        /\ w_address \in Seq({"XW"})
    BY <2>1
  <2> QED
    BY <1>7, <2>1, <2>2, <2>3 DEF DRAMTypeOK
<1>9. f_flag = FALSE /\ CompletionFlags
  BY DEF Init, DRAMInit, MemoryInit, VertexReaderInit, CompletionFlags
<1>10. OneFeatureRead
  <2>1. t_queue = <<"XW">> /\ accepted["XW"] = 0 /\ w_address = <<>>
    BY DEF Init, DRAMInit, MemoryInit, Region
  <2>2. 1 \in DOMAIN t_queue /\ QueuedAt("XW") = {1}
    BY <2>1 DEF QueuedAt
  <2> QED
    BY <2>1, <2>2 DEF OneFeatureRead
<1>11. MemInv
  BY <1>8, <1>9, <1>10 DEF MemInv, FeatureHandshake
<1> QED
  BY <1>1, <1>4, <1>5, <1>6, <1>11, IInvParts

(* Every step of the loop, and every step the memory takes in it, keeps    *)
(* the invariant.                                                          *)
LEMMA NextIInv == IInv /\ [Next]_vars => IInv'
<1> SUFFICES ASSUME IInv, [Next]_vars
             PROVE  IInv'
  OBVIOUS
<1> USE IInvParts
<1> DEFINE OthersOK == /\ adjrowindex' \in Graphs
                       /\ vr' \in VRType /\ er' \in ERType
                       /\ dc' \in DCType /\ a_data' \in DataType
                       /\ pc' \in Steps
<1>0. SUFFICES MemInv' /\ OthersOK
  BY DEF IInv, MemInv, TypeOK
<1>1. CASE TakeRowLine
  <2>1. MemInv'
    BY <1>1, MemGetF DEF TakeRowLine
  <2>2. dc' \in DCType /\ a_data' \in DataType
    BY <1>1, AdjRowType DEF TakeRowLine
  <2> QED
    BY <1>1, <2>1, <2>2 DEF TakeRowLine, Goto, Steps
<1>2. CASE TakeColLine
  <2>1. MemInv'
    BY <1>2, MemGetF DEF TakeColLine
  <2>2. dc' \in DCType /\ a_data' \in DataType
    BY <1>2, AdjColType DEF TakeColLine
  <2> QED
    BY <1>2, <2>1, <2>2 DEF TakeColLine, Goto, Steps
<1>3. NoData \in DataType
  BY DEF NoData, DataType
<1>4. CASE TakeFeature
  <2>1. MemInv'
    BY <1>4, MemGetW DEF TakeFeature
  <2> QED
    BY <1>3, <1>4, <2>1 DEF TakeFeature, Goto, Steps
<1>5. CASE TakeNothing
  <2>1. MemInv'
    BY <1>5, MemUnchanged DEF TakeNothing
  <2> QED
    BY <1>3, <1>5, <2>1 DEF TakeNothing, Goto, Steps
<1>6. CASE VertexReaderReceives
  <2>1. MemInv'
    BY <1>6, MemUnchanged DEF VertexReaderReceives
  <2>2. a_data.rows \in Seq(Nat)
    BY DEF DataType
  <2>3. vr' \in VRType
    BY <1>6, <2>2, VRReceiveType DEF VertexReaderReceives
  <2> QED
    BY <1>6, <2>1, <2>3 DEF VertexReaderReceives, Goto, Steps
<1>7. CASE VertexReaderRequests
  <2>1. vr' \in VRType
    BY <1>7, VRRequestType DEF VertexReaderRequests
  <2>2. DRAMRequest("A_ROW") \/ UNCHANGED t_queue
    BY <1>7 DEF VertexReaderRequests, VR_RequestTurn, VR_Request
  <2>3. MemInv'
    BY <1>7, <2>2, MemRequest, MemUnchanged
    DEF VertexReaderRequests, Region, memVars, dramVars
  <2> QED
    BY <1>7, <2>1, <2>3 DEF VertexReaderRequests, Goto, Steps
<1>8. CASE EdgeReaderReceives
  <2>1. MemInv'
    BY <1>8, MemUnchanged DEF EdgeReaderReceives
  <2>2. a_data.edges \in Nat
    BY DEF DataType
  <2>3. er' \in ERType
    BY <1>8, <2>2, ERReceiveType DEF EdgeReaderReceives
  <2> QED
    BY <1>8, <2>1, <2>3 DEF EdgeReaderReceives, Goto, Steps
<1>9. CASE HandOverVertex
  <2>1. vr' \in VRType
    BY <1>9, VRTransferType DEF HandOverVertex
  <2>2. er' \in ERType
    BY <1>9, ERVertexType DEF HandOverVertex
  <2>3. f_flag /\ UNCHANGED memVars
    BY <1>9 DEF HandOverVertex, CanHandOver
  <2>4. RequestF \/ UNCHANGED <<t_queue, f_flag>>
    BY <1>9 DEF HandOverVertex, VR_TransferData, TransferFresh,
                TransferReplay, TransferNothing, FeatureTurn
  <2>5. MemInv'
    BY <2>3, <2>4, MemRequestF, MemUnchanged DEF memVars, dramVars
  <2> QED
    BY <1>9, <2>1, <2>2, <2>5 DEF HandOverVertex, Goto, Steps
<1>10. CASE NoHandOver
  <2>1. MemInv'
    BY <1>10, MemUnchanged DEF NoHandOver
  <2> QED
    BY <1>10, <2>1 DEF NoHandOver, Goto, Steps
<1>11. CASE EdgeReaderRequests
  <2>1. er' \in ERType
    BY <1>11, ERRequestType DEF EdgeReaderRequests
  <2>2. DRAMRequest("A_COL") \/ UNCHANGED t_queue
    BY <1>11 DEF EdgeReaderRequests, ER_RequestTurn, ER_Request
  <2>3. MemInv'
    BY <1>11, <2>2, MemRequest, MemUnchanged
    DEF EdgeReaderRequests, Region, memVars, dramVars
  <2> QED
    BY <1>11, <2>1, <2>3 DEF EdgeReaderRequests, Goto, Steps
<1>12. CASE EdgeReaderMultiplies
  <2>1. er' \in ERType
    BY <1>12, OuterProductType DEF EdgeReaderMultiplies
  <2>2. MemInv'
    BY <1>12, MemUnchanged DEF EdgeReaderMultiplies
  <2> QED
    BY <1>12, <2>1, <2>2 DEF EdgeReaderMultiplies, Goto, Steps
<1>13. CASE EdgeReaderWrites
  <2>1. er' \in ERType
    BY <1>13, WriteType DEF EdgeReaderWrites
  <2>2. DRAMRequest("AXW") \/ UNCHANGED t_queue
    BY <1>13 DEF EdgeReaderWrites, Write
  <2>3. MemInv'
    BY <1>13, <2>2, MemRequest, MemUnchanged
    DEF EdgeReaderWrites, Region, memVars, dramVars
  <2> QED
    BY <1>13, <2>1, <2>3 DEF EdgeReaderWrites, Goto, Steps
<1>14. CASE EndAddTransaction \/ EndUpdateCycle \/ ExitTest
  <2>1. MemInv'
    BY <1>14, MemUnchanged DEF EndAddTransaction, EndUpdateCycle, ExitTest
  <2> QED
    BY <1>14, <2>1
    DEF EndAddTransaction, EndUpdateCycle, ExitTest, Goto, Steps
<1>15. CASE AddTransaction
  <2>1. MemInv'
    BY <1>15, MemAccept DEF AddTransaction
  <2> QED
    BY <1>15, <2>1 DEF AddTransaction, Goto, Steps
<1>16. CASE \E region \in {"A_ROW", "A_COL", "XW"} : CompleteRead(region)
  <2>1. MemInv'
    BY <1>16, MemReadComplete DEF CompleteRead
  <2> QED
    BY <1>16, <2>1 DEF CompleteRead, Goto, Steps
<1>17. CASE CompleteWrite
  <2>1. MemInv'
    BY <1>17, MemWriteComplete DEF CompleteWrite
  <2> QED
    BY <1>17, <2>1 DEF CompleteWrite, Goto, Steps
<1>18. CASE UNCHANGED vars
  <2>1. MemInv'
    BY <1>18, MemUnchanged DEF vars, dramVars
  <2> QED
    BY <1>18, <2>1 DEF vars
<1> QED
  BY <1>1, <1>2, <1>4, <1>5, <1>6, <1>7, <1>8, <1>9, <1>10, <1>11, <1>12,
     <1>13, <1>14, <1>15, <1>16, <1>17, <1>18
  DEF Next, LoopStep, TakeTurn, Terminated

(* IInv holds throughout the A*XW loop of main(). *)
THEOREM Invariance == Spec => []IInv
  BY InitIInv, NextIInv, PTL DEF Spec

(* Type correctness of the A*XW loop, for every matrix, block size, number *)
(* of passes, line size and garbage: in particular the burst counter of    *)
(* EdgeReader::Write is never 0 when it is decremented.                    *)
THEOREM TypeCorrect == Spec => []TypeOK
<1>1. IInv => TypeOK
  BY DEF IInv
<1> QED
  BY <1>1, Invariance, PTL

(* The handshake of VertexReader::RequestF with the DRAM turn of the loop: *)
(* exactly one feature read is under way while f_flag is down, none while  *)
(* it is up, whatever the memory does.                                     *)
THEOREM Handshake == Spec => []FeatureHandshake
<1>1. IInv => FeatureHandshake
  BY DEF IInv
<1> QED
  BY <1>1, Invariance, PTL
=============================================================================
