----------------------------- MODULE TilingTools -----------------------------
(***************************************************************************)
(* The programs of CSR_converter that cut an adjacency matrix into tiles   *)
(* and stack the tiles' rows into a new, longer CSR matrix:                *)
(*                                                                         *)
(*   "vt"               vtmake: tile_num vertical strips                   *)
(*   "vt_0" .. "vt_3"   vtmake_dynamic_vt_*: 2 by 2, one quarter cut again *)
(*   "vt_0_3"           two quarters cut again                             *)
(*   "recursive"        recursive_tiling_maker: as at_setting.config says  *)
(*   "resched"          the same, with the tiles sorted by first column    *)
(*   "uni_directed"     the lower half left in one piece                   *)
(*                                                                         *)
(* They share one loop: each edge, in CSR order, goes to the end of one    *)
(* row of the new matrix; they differ in the row they pick.                *)
(***************************************************************************)
EXTENDS Integers, Sequences, FiniteSets, SequencesExt, FiniteSetsExt

\* What a tool is run on: its name, the number of vertices, the number of
\* strips, the 1s of at_setting.config (those of its first line, and those of
\* the line that follows for each of them) and the matrix, as one sequence
\* of columns per row.
CONSTANT Inputs

VARIABLES
    in,         \* the input
    leaves,     \* inorderLeaves or schedLeaves: the tiles of a recursive tool
    row, todo,  \* the row being read and its columns not yet read
    csr,        \* the new matrix: per row, the edges put there
    strayed     \* an edge was put in a row that does not exist

vars == <<in, leaves, row, todo, csr, strayed>>

-----------------------------------------------------------------------------
(* vtmake and its variants *)

CeilHalf(n) == (n + 1) \div 2

\* Conversion of a double to uint64_t: towards zero.  A negative one wraps;
\* as an index it is then below the array, as it is here.
Trunc(a, b) == IF a < 0 THEN -((-a) \div b) ELSE a \div b

\* An index one past the last strip is pulled back.  In vtmake, v_num is the
\* ceiling of a float: exact below 2^24 vertices, where edge < v leaves the
\* index below tile_num, and the pull-back only matters beyond.  In the
\* variants, quarters that do not add up to v make it live for small v too.
PullBack(index, n) == IF index = n THEN index - 1 ELSE index

(* Faulty variant of vtRow: the strips are v - 1 rows high. *)
vtRow_Overlap(v, tile_num, i, edge) ==
    LET v_num == (v + tile_num - 1) \div tile_num
    IN  i + (v - 1) * PullBack(edge \div v_num, tile_num)

(* Faulty variant of vtRow: the last strip takes the remainder. *)
vtRow_Wide(v, tile_num, i, edge) ==
    LET v_num == IF v < tile_num THEN 1 ELSE v \div tile_num
    IN  i + v * Min({edge \div v_num, tile_num - 1})

vtRow(v, tile_num, i, edge) ==
    LET v_num == (v + tile_num - 1) \div tile_num
    IN  i + v * PullBack(edge \div v_num, tile_num)

\* ceil((float)(v_num/2)), of an integer quotient.
quarter(v) == CeilHalf(v) \div 2

vt_0Row(v, i, edge) ==
    IF i <= v \div 2
    THEN IF edge >= 2 THEN (2 * i + 3 * v) \div 2
         ELSE (2 * i + v * PullBack(edge \div quarter(v), 2)) \div 2
    ELSE (v + 2 * i + 2 * v * PullBack(edge \div CeilHalf(v), 2)) \div 2

vt_1Row(v, i, edge) ==
    IF i <= v \div 2
    THEN IF edge < v \div 2 THEN i
         ELSE LET index == PullBack(Trunc(edge - 2 * quarter(v), quarter(v)), 2)
              IN  (2 * i + 2 * v + v * index) \div 2
    ELSE (2 * i + 3 * v * PullBack(edge \div CeilHalf(v), 2)) \div 2

vt_2Row(v, i, edge) ==
    IF i <= v \div 2
    THEN (2 * i + 3 * v * PullBack(edge \div CeilHalf(v), 2)) \div 2
    ELSE IF edge >= v \div 2 THEN (2 * i + 3 * v) \div 2
         ELSE i + (v \div 2) * PullBack(edge \div quarter(v), 2)

vt_3Row(v, i, edge) ==
    IF i <= v \div 2
    THEN i + v * PullBack(edge \div CeilHalf(v), 2)
    ELSE IF edge >= v \div 2 THEN (2 * i + 3 * v) \div 2
         ELSE i + (v \div 2) * PullBack(Trunc(edge - 2 * quarter(v), quarter(v)), 2)

vt_0_3Row(v, i, edge) ==
    IF edge < v \div 2
    THEN IF i < v \div 2 /\ edge < v \div 4 THEN i ELSE i + v \div 2
    ELSE IF i < v \div 2 THEN (2 * i + 3 * v) \div 2
    ELSE IF i < (v * 3) \div 4
    THEN IF edge < (v * 3) \div 4 THEN (2 * i + 3 * v) \div 2 ELSE i + 2 * v
    ELSE IF edge < (v * 3) \div 4 THEN (4 * i + 7 * v) \div 4 ELSE (4 * i + 9 * v) \div 4

-----------------------------------------------------------------------------
(* The recursive tilings.  A node is a rectangle of the matrix.            *)

newNode(fromStart, fromEnd, toStart, toEnd) ==
    [fromStart |-> fromStart, fromEnd |-> fromEnd, toStart |-> toStart, toEnd |-> toEnd]

\* The four children of a node that is cut: upper left, lower left, upper
\* right, lower right.
Quarters(nd) ==
    LET from_q2 == (nd.fromStart + nd.fromEnd) \div 2
        to_q2   == (nd.toStart + nd.toEnd) \div 2
    IN  << newNode(nd.fromStart, from_q2, nd.toStart, to_q2),
           newNode(from_q2 + 1, nd.fromEnd, nd.toStart, to_q2),
           newNode(nd.fromStart, from_q2, to_q2 + 1, nd.toEnd),
           newNode(from_q2 + 1, nd.fromEnd, to_q2 + 1, nd.toEnd) >>

\* The root covers one row and one column more than the matrix has.
root(v) == newNode(0, v, 0, v)

\* The leaves below the quarter i of the root.  Each 1 on its config line
\* gives four more children to the same node, its quarter number i.
LeavesBelow(nd, i, second) ==
    IF Cardinality(second) = 0 THEN Quarters(nd)
    ELSE FlattenSeq([j \in 1..4 |->
            IF j # i THEN <<Quarters(nd)[j]>>
            ELSE FlattenSeq([k \in 1..Cardinality(second) |-> Quarters(Quarters(nd)[i])])])

\* getLeavesInorder
inorderLeaves(v, first, second) ==
    IF first = {} THEN <<root(v)>>
    ELSE FlattenSeq([i \in 1..4 |->
            IF i \in first THEN LeavesBelow(Quarters(root(v))[i], i, second[i])
            ELSE <<Quarters(root(v))[i]>>])

\* By first column; leaves with the same one keep their order.
schedLeaves(v, inorder) ==
    FlattenSeq([n \in 1..v+2 |-> SelectSeq(inorder, LAMBDA nd : nd.toStart = n - 1)])

uniLeaves(v, first) ==
    IF first = {} THEN <<root(v)>>
    ELSE << newNode(0, v \div 2, 0, v \div 2),
            newNode(v \div 2 + 1, v, 0, v),
            newNode(0, v \div 2, v \div 2 + 1, v) >>

LeavesOf(i) ==
    CASE i.tool = "recursive" -> inorderLeaves(i.v, i.first, i.second)
      [] i.tool = "resched" -> schedLeaves(i.v, inorderLeaves(i.v, i.first, i.second))
      [] i.tool = "uni_directed" -> uniLeaves(i.v, i.first)
      [] OTHER -> <<>>

inThisNode(nd, from, to) == from \in nd.fromStart..nd.fromEnd /\ to \in nd.toStart..nd.toEnd

(* Faulty variant of Height: the end row is not counted. *)
Height_Exclusive(nd) == nd.fromEnd - nd.fromStart

Height(nd) == nd.fromEnd - nd.fromStart + 1

\* Rows of the leaves before the k-th, when the leaves are stacked.
RowsBefore(k) ==
    LET rows[n \in 0..Len(leaves)] == IF n = 0 THEN 0 ELSE rows[n - 1] + Height(leaves[n])
    IN  rows[k - 1]

\* The first leaf that holds the edge, or else the last leaf.
TargetLeaf(from, to) ==
    LET holding == {k \in DOMAIN leaves : inThisNode(leaves[k], from, to)}
    IN  IF holding = {} THEN Len(leaves) ELSE Min(holding)

treeRow(from, to) ==
    LET k == TargetLeaf(from, to)
    IN  RowsBefore(k) + from - leaves[k].fromStart

-----------------------------------------------------------------------------
Recursive == {"recursive", "resched", "uni_directed"}

NewRows ==
    CASE in.tool \in Recursive -> RowsBefore(Len(leaves) + 1)
      [] in.tool = "vt" -> in.v * in.tile_num
      [] in.tool = "vt_0_3" -> in.v * 3
      [] OTHER -> CeilHalf(in.v * 5)

NewRow(from, to) ==
    CASE in.tool \in Recursive -> treeRow(from, to)
      [] in.tool = "vt" -> vtRow(in.v, in.tile_num, from, to)
      [] in.tool = "vt_0" -> vt_0Row(in.v, from, to)
      [] in.tool = "vt_1" -> vt_1Row(in.v, from, to)
      [] in.tool = "vt_2" -> vt_2Row(in.v, from, to)
      [] in.tool = "vt_3" -> vt_3Row(in.v, from, to)
      [] in.tool = "vt_0_3" -> vt_0_3Row(in.v, from, to)

\* The rows of the vector that is indexed: the leaf's own new_csr in the
\* recursive tools, the whole new matrix in the others.
RowsIndexed(from, to) ==
    IF in.tool \in Recursive
    THEN LET k == TargetLeaf(from, to) IN RowsBefore(k)..RowsBefore(k + 1)-1
    ELSE DOMAIN csr

Unread == -1

Init ==
    /\ in \in Inputs
    /\ leaves = <<>>
    /\ row = Unread
    /\ todo = <<>>
    /\ csr = <<>>
    /\ strayed = FALSE

\* The tree is built, the new matrix made with all its rows empty, and the
\* first row opened.
MakeTiles ==
    /\ row = Unread
    /\ UNCHANGED <<in, strayed>>
    /\ leaves' = LeavesOf(in)
    /\ csr' = [k \in 0..NewRows'-1 |-> <<>>]
    /\ row' = 0
    /\ todo' = in.graph[0]

PlaceEdge ==
    /\ todo # <<>>
    /\ LET to == Head(todo)
           k  == NewRow(row, to)
       IN  IF k \in RowsIndexed(row, to)
           THEN csr' = [csr EXCEPT ![k] = Append(@, [from |-> row, to |-> to])] /\ UNCHANGED strayed
           ELSE strayed' = TRUE /\ UNCHANGED csr
    /\ todo' = Tail(todo)
    /\ UNCHANGED <<in, leaves, row>>

NextRow ==
    /\ todo = <<>>
    /\ row \in 0..in.v-2
    /\ row' = row + 1
    /\ todo' = in.graph[row + 1]
    /\ UNCHANGED <<in, leaves, csr, strayed>>

Spec == Init /\ [][MakeTiles \/ PlaceEdge \/ NextRow]_vars

-----------------------------------------------------------------------------
(* Properties. *)

(* new_csr[...], the matrix's or a leaf's own, is only ever indexed inside *)
(* the vector: no edge is written past it, whatever the matrix.            *)
InsideMatrix == ~strayed

(* The tiles are cut out and pasted below each other: a row of the new     *)
(* matrix is a piece of one row of the old one, edges in their old order.  *)
RowsKeptApart ==
    \A k \in DOMAIN csr : \A a, b \in DOMAIN csr[k] :
        /\ csr[k][a].from = csr[k][b].from
        /\ a < b => csr[k][a].to < csr[k][b].to

(* The point of the tiling: the columns of a row of the new matrix stay    *)
(* within one strip of vtmake, within one leaf of the recursive tools, and *)
(* within one half of the matrix for the others.                           *)
WithinTile ==
    \A k \in DOMAIN csr : \A a, b \in DOMAIN csr[k] :
        CASE in.tool = "vt" ->
                LET v_num == (in.v + in.tile_num - 1) \div in.tile_num
                IN  csr[k][a].to \div v_num = csr[k][b].to \div v_num
          [] in.tool \in Recursive ->
                \E n \in DOMAIN leaves :
                    /\ k \in RowsBefore(n)..RowsBefore(n + 1)-1
                    /\ inThisNode(leaves[n], csr[k][a].from, csr[k][a].to)
          [] OTHER -> (csr[k][a].to < in.v \div 2) = (csr[k][b].to < in.v \div 2)
=============================================================================
