--------------------------- MODULE RowParserProofs ---------------------------
(***************************************************************************)
(* The blocks that GetUint64Val cuts are those of DataReader, for every    *)
(* matrix and every block size.                                            *)
(***************************************************************************)
EXTENDS RowParser, TLAPS

(* A product grows with its left factor. *)
LEMMA ProductMonotone ==
  ASSUME NEW m \in Nat \ {0}, NEW x \in Int, NEW y \in Int, x < y
  PROVE  x * m + m <= y * m
<1>1. y * m = x * m + (y - x) * m
  BY Z3
<1>2. (y - x) * m = m + (y - x - 1) * m
  BY Z3
<1>3. (y - x - 1) * m >= 0
  <2>1. y - x - 1 \in Nat
    OBVIOUS
  <2>2. \A k \in Nat : k * m >= 0
    BY Z3
  <2> QED BY <2>1, <2>2
<1> QED BY <1>1, <1>2, <1>3

(* The quotient of a number between two multiples. *)
LEMMA QuotientBetween ==
  ASSUME NEW m \in Nat \ {0}, NEW n \in Nat, NEW q \in Nat,
         n * m <= q, q < n * m + m
  PROVE  q \div m = n /\ q % m = q - n * m
<1> DEFINE d == q \div m
           r == q % m
<1>1. d \in Int /\ r \in 0 .. m - 1 /\ q = d * m + r
  OBVIOUS
<1> HIDE DEF d, r
<1>2. ~(d < n)
  <2> SUFFICES ASSUME d < n PROVE FALSE
    OBVIOUS
  <2>1. d * m + m <= n * m
    BY <1>1, ProductMonotone
  <2>2. d * m \in Int /\ n * m \in Int
    BY <1>1
  <2> QED BY <1>1, <2>1, <2>2
<1>3. ~(n < d)
  <2> SUFFICES ASSUME n < d PROVE FALSE
    OBVIOUS
  <2>1. n * m + m <= d * m
    BY <1>1, ProductMonotone
  <2>2. d * m \in Int /\ n * m \in Int
    BY <1>1
  <2> QED BY <1>1, <2>1, <2>2
<1>4. d = n
  BY <1>1, <1>2, <1>3
<1> QED BY <1>1, <1>4 DEF d, r
-----------------------------------------------------------------------------
(* The block that is being read: blocks 1 .. Cut are queued. *)
Cut == Len(vertex_q)

(* Until the line is read, the last cut was made at a multiple of max_v    *)
(* less than a block ago, and the two running counters say what happened   *)
(* since.                                                                  *)
Position ==
  /\ Cut * max_v <= parse_count
  /\ parse_count < Cut * max_v + max_v
  /\ start_v = adjrowindex[Cut * max_v]
  /\ v_count = parse_count - Cut * max_v + (IF Cut = 0 THEN 1 ELSE 0)

Queued ==
  \A b \in 1 .. Cut :
    vertex_q[b] = vertex_req_count(b) /\ edge_q[b] = edge_req_count(b)

IInv ==
  /\ adjrowindex \in Graphs
  /\ vertex_q \in Seq(Int) /\ edge_q \in Seq(Int)
  /\ Len(edge_q) = Cut
  /\ parse_count \in 0 .. a_h
  /\ v_count \in Int /\ start_v \in Int
  /\ parse_count < a_h => Position
  /\ parse_count = a_h => Cut = Blocks
  /\ Queued

(* Where the loop cuts: at the next multiple of max_v or at the last row.  *)
LEMMA CutPosition ==
  ASSUME NEW n \in Nat, NEW p \in Nat,
         n * max_v < p, p <= n * max_v + max_v, p <= a_h
  PROVE  /\ CutsHere(p) <=> p = n * max_v + max_v \/ p = a_h
         /\ CutsHere(p) => BlockEnd(n + 1) = p
         /\ BlockEnd(n) = n * max_v
<1>0. max_v \in Nat \ {0} /\ a_h \in Nat /\ n * max_v \in Nat /\ (n + 1) * max_v \in Nat
  BY SizesAssumption
<1>1. (n + 1) * max_v = n * max_v + max_v
  BY <1>0
<1>2. p = n * max_v + max_v => p % max_v = 0
  <2> SUFFICES ASSUME p = n * max_v + max_v PROVE p % max_v = 0
    OBVIOUS
  <2>1. (n + 1) * max_v <= p /\ p < (n + 1) * max_v + max_v
    BY <1>0, <1>1
  <2>2. p % max_v = p - (n + 1) * max_v
    BY <2>1, <1>0, QuotientBetween
  <2> QED BY <2>2, <1>1, <1>0
<1>3. p # n * max_v + max_v => p % max_v # 0
  <2> SUFFICES ASSUME p # n * max_v + max_v PROVE p % max_v # 0
    OBVIOUS
  <2>1. n * max_v <= p /\ p < n * max_v + max_v
    BY <1>0
  <2>2. p % max_v = p - n * max_v
    BY <2>1, <1>0, QuotientBetween
  <2> QED BY <2>2, <1>0
<1>4. CutsHere(p) <=> p = n * max_v + max_v \/ p = a_h
  BY <1>2, <1>3 DEF CutsHere
<1>5. BlockEnd(n + 1) = IF n * max_v + max_v <= a_h THEN n * max_v + max_v ELSE a_h
  BY <1>1 DEF BlockEnd
<1>6. BlockEnd(n) = n * max_v
  BY <1>0 DEF BlockEnd
<1> QED BY <1>0, <1>4, <1>5, <1>6

(* The number of blocks, at the end of the last one. *)
LEMMA LastCut ==
  ASSUME NEW n \in Nat, n * max_v < a_h, a_h <= n * max_v + max_v
  PROVE  Blocks = n + 1
<1>0. max_v \in Nat \ {0} /\ a_h \in Nat /\ n * max_v \in Nat /\ (n + 1) * max_v \in Nat
  BY SizesAssumption
<1>1. (n + 1) * max_v = n * max_v + max_v
  BY <1>0
<1>2. (n + 1) * max_v <= a_h + max_v - 1 /\ a_h + max_v - 1 < (n + 1) * max_v + max_v
  BY <1>0, <1>1
<1>3. (a_h + max_v - 1) \div max_v = n + 1
  <2>1. a_h + max_v - 1 \in Nat /\ n + 1 \in Nat
    BY <1>0
  <2> QED BY <1>0, <1>2, <2>1, QuotientBetween
<1> QED BY <1>3 DEF Blocks, CeilDiv

LEMMA InitIInv == Init => IInv
<1> SUFFICES ASSUME Init PROVE IInv
  OBVIOUS
<1>1. adjrowindex \in [0 .. a_h -> Nat] /\ adjrowindex[0] = 0
  BY GraphsAssumption DEF Init
<1>2. max_v \in Nat \ {0} /\ a_h \in Nat \ {0}
  BY SizesAssumption
<1>3. Cut = 0 /\ Len(edge_q) = 0 /\ vertex_q \in Seq(Int) /\ edge_q \in Seq(Int)
  BY DEF Init, Cut
<1>4. 0 * max_v = 0
  BY <1>2
<1>5. Position
  BY <1>1, <1>2, <1>3, <1>4 DEF Position, Init
<1>6. Queued
  BY <1>3 DEF Queued
<1> QED BY <1>1, <1>2, <1>3, <1>5, <1>6 DEF IInv, Init

LEMMA ParseIInv == IInv /\ ParseToken => IInv'
<1> SUFFICES ASSUME IInv, ParseToken PROVE IInv'
  OBVIOUS
<1> DEFINE n == Cut
           p == parse_count + 1
<1>0. /\ adjrowindex \in [0 .. a_h -> Nat]
      /\ max_v \in Nat \ {0} /\ a_h \in Nat \ {0}
      /\ n \in Nat /\ p \in Nat /\ p <= a_h /\ p >= 1
      /\ adjrowindex' = adjrowindex /\ parse_count' = p
  BY SizesAssumption, GraphsAssumption DEF IInv, ParseToken, Cut
<1>1. /\ n * max_v < p /\ p <= n * max_v + max_v
      /\ start_v = adjrowindex[n * max_v]
      /\ v_count = parse_count - n * max_v + (IF n = 0 THEN 1 ELSE 0)
      /\ n * max_v \in Nat
  BY <1>0 DEF IInv, Position, ParseToken
<1>2. /\ CutsHere(p) <=> p = n * max_v + max_v \/ p = a_h
      /\ CutsHere(p) => BlockEnd(n + 1) = p
      /\ BlockEnd(n) = n * max_v
  BY <1>0, <1>1, CutPosition
<1>3. CASE CutsHere(p)
  <2>1. /\ edge_q' = Append(edge_q, adjrowindex[p] - start_v)
        /\ vertex_q' = Append(vertex_q, v_count + 1)
        /\ start_v' = adjrowindex[p]
        /\ v_count' = 0
    BY <1>3 DEF ParseToken
  <2>2. /\ vertex_q' \in Seq(Int) /\ edge_q' \in Seq(Int)
        /\ Cut' = n + 1 /\ Len(edge_q') = n + 1
        /\ vertex_q'[n + 1] = v_count + 1
        /\ edge_q'[n + 1] = adjrowindex[p] - start_v
        /\ \A b \in 1 .. n : vertex_q'[b] = vertex_q[b] /\ edge_q'[b] = edge_q[b]
    <3>1. v_count + 1 \in Int /\ adjrowindex[p] - start_v \in Int
      BY <1>0, <1>1 DEF IInv
    <3>2. vertex_q \in Seq(Int) /\ edge_q \in Seq(Int) /\ Len(edge_q) = Len(vertex_q)
      BY DEF IInv, Cut
    <3> QED BY <2>1, <3>1, <3>2 DEF Cut
  <2>3. \A b \in Int : /\ vertex_req_count(b)' = vertex_req_count(b)
                       /\ edge_req_count(b)' = edge_req_count(b)
    BY <1>0 DEF vertex_req_count, edge_req_count, BlockEnd
  <2>4. vertex_q'[n + 1] = vertex_req_count(n + 1)
    <3>1. vertex_req_count(n + 1) = p - n * max_v + (IF n = 0 THEN 1 ELSE 0)
      BY <1>0, <1>2, <1>3 DEF vertex_req_count
    <3>2. parse_count \in Int
      BY DEF IInv
    <3>3. v_count + 1 = p - n * max_v + (IF n = 0 THEN 1 ELSE 0)
      <4> DEFINE first == IF n = 0 THEN 1 ELSE 0
                 start == n * max_v
      <4>1. first \in Int /\ start \in Int /\ v_count = parse_count - start + first
        BY <1>1
      <4> HIDE DEF first, start
      <4>2. v_count + 1 = (parse_count + 1) - start + first
        BY <4>1, <3>2
      <4> QED BY <4>2 DEF first, start
    <3> QED BY <3>1, <3>3, <2>2
  <2>5. edge_q'[n + 1] = edge_req_count(n + 1)
    BY <1>0, <1>1, <1>2, <1>3, <2>2 DEF edge_req_count
  <2>6. Queued'
    <3> SUFFICES ASSUME NEW b \in 1 .. n + 1
                 PROVE  vertex_q'[b] = vertex_req_count(b) /\ edge_q'[b] = edge_req_count(b)
      BY <2>2, <2>3, <1>0 DEF Queued
    <3>1. CASE b = n + 1
      BY <3>1, <2>4, <2>5
    <3>2. CASE b # n + 1
      <4>1. b \in 1 .. n
        BY <3>2, <1>0
      <4> QED BY <4>1, <2>2 DEF IInv, Queued
    <3> QED BY <3>1, <3>2
  <2>7. p < a_h => Position'
    <3> SUFFICES ASSUME p < a_h PROVE Position'
      OBVIOUS
    <3>1. p = n * max_v + max_v /\ (n + 1) * max_v = n * max_v + max_v
      BY <1>0, <1>2, <1>3
    <3>2. p \in Nat /\ max_v \in Nat \ {0} /\ n \in Nat /\ parse_count' = p
      BY <1>0
    <3>3. Cut' * max_v = p
      BY <3>1, <2>2
    <3>4. start_v' = adjrowindex'[Cut' * max_v]
      BY <3>3, <2>1, <1>0
    <3>5. v_count' = parse_count' - Cut' * max_v + (IF Cut' = 0 THEN 1 ELSE 0)
      BY <3>2, <3>3, <2>1, <2>2
    <3> HIDE DEF n, p
    <3> QED BY <3>2, <3>3, <3>4, <3>5 DEF Position
  <2>8. p = a_h => Cut' = Blocks
    <3> SUFFICES ASSUME p = a_h PROVE Cut' = Blocks
      OBVIOUS
    <3>1. Blocks = n + 1
      BY <1>0, <1>1, LastCut
    <3> QED BY <3>1, <2>2
  <2>9. v_count' \in Int /\ start_v' \in Int
    BY <2>1, <1>0
  <2>10. adjrowindex' \in Graphs /\ parse_count' \in 0 .. a_h /\ Len(edge_q') = Cut'
    BY <1>0, <2>2 DEF IInv
  <2>11. parse_count' < a_h => Position'
    BY <2>7, <1>0
  <2>12. parse_count' = a_h => Cut' = Blocks
    BY <2>8, <1>0
  <2> HIDE DEF n, p
  <2> QED BY <2>2, <2>6, <2>9, <2>10, <2>11, <2>12 DEF IInv, Blocks
<1>4. CASE ~CutsHere(p)
  <2>1. /\ v_count' = v_count + 1
        /\ start_v' = start_v /\ vertex_q' = vertex_q /\ edge_q' = edge_q
    BY <1>4 DEF ParseToken
  <2>2. p < a_h /\ p < n * max_v + max_v
    BY <1>0, <1>1, <1>2, <1>4
  <2>3. Cut' = n
    BY <2>1 DEF Cut
  <2>4. Position'
    BY <2>1, <2>2, <2>3, <1>0, <1>1 DEF Position, IInv
  <2>5. Queued'
    BY <2>1, <2>3, <1>0 DEF IInv, Queued, vertex_req_count, edge_req_count, BlockEnd
  <2>6. /\ adjrowindex' \in Graphs /\ parse_count' \in 0 .. a_h /\ Len(edge_q') = Cut'
        /\ v_count' \in Int /\ start_v' \in Int
        /\ vertex_q' \in Seq(Int) /\ edge_q' \in Seq(Int)
    BY <1>0, <2>1, <2>3 DEF IInv
  <2>7. parse_count' # a_h
    BY <1>0, <2>2
  <2> HIDE DEF n, p
  <2> QED BY <2>4, <2>5, <2>6, <2>7 DEF IInv
<1> QED BY <1>3, <1>4

(* GetUint64Val cuts the rows where DataReader says, for every number of   *)
(* rows, every block size and every matrix: the queues the readers pop     *)
(* hold the numbers of the closed forms, one per block.                    *)
THEOREM ParserCorrect == Spec => []QueuesAsStated
<1>1. IInv /\ UNCHANGED vars => IInv'
  BY DEF IInv, vars, Cut, Position, Queued, vertex_req_count, edge_req_count,
         BlockEnd, Blocks, CeilDiv
<1>2. IInv => QueuesAsStated
  BY DEF IInv, QueuesAsStated, Queued, Cut
<1> QED BY <1>1, <1>2, InitIInv, ParseIInv, PTL DEF Spec
=============================================================================
