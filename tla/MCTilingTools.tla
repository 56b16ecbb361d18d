---------------------------- MODULE MCTilingTools ----------------------------
(* Inputs of the tiling tools, small enough for TLC to try them all. *)
EXTENDS TilingTools

\* A run of a tool that reads no at_setting.config.
Plain(tool, v, tile_num, graph) ==
    [tool |-> tool, v |-> v, tile_num |-> tile_num, first |-> {}, second |-> <<>>,
     graph |-> graph]

FullGraph(v) == [i \in 0..v-1 |-> [j \in 1..v |-> j - 1]]

\* Every matrix: per row, every ascending sequence of columns.
AnyGraph(v) ==
    LET all == [j \in 1..v |-> j - 1]
        rows == {SelectSeq(all, LAMBDA c : c \in cols) : cols \in SUBSET (0..v-1)}
    IN  [0..v-1 -> rows]

\* Config lines with no, one, two and four 1s.
SecondLines == {{}, {1}, {3}, {2, 4}, 1..4}

TreeRun(tool, v, first, second, graph) ==
    [tool |-> tool, v |-> v, tile_num |-> 2, first |-> first, second |-> second,
     graph |-> graph]

\* Every shape of the tree on a full matrix.
AnyTree ==
    {TreeRun(tool, v, first, [i \in 1..4 |-> IF i = 1 THEN s1 ELSE s2], FullGraph(v)) :
        tool \in {"recursive", "resched"}, v \in {1, 2, 4}, first \in SUBSET (1..4),
        s1 \in SecondLines, s2 \in SecondLines}
    \cup {TreeRun("uni_directed", v, first, <<>>, FullGraph(v)) :
            v \in 1..5, first \in {{}, {1}}}

\* Every matrix with two vertices.
AnySmallMatrix ==
    {TreeRun(tool, 2, {1, 2}, [i \in 1..4 |-> {1}], g) :
        tool \in {"recursive", "resched"}, g \in AnyGraph(2)}

TreeInputs == AnyTree \cup AnySmallMatrix

\* Strips of every width, and the dynamic variant that keeps rows apart, on
\* sizes that four divides.
StripInputs ==
    {Plain("vt", v, n, FullGraph(v)) : v \in 1..6, n \in 1..7}
    \cup {Plain("vt", 3, n, g) : n \in 1..3, g \in AnyGraph(3)}
    \cup {Plain("vt_2", v, 2, FullGraph(v)) : v \in {4, 8}}

TilingInputs == TreeInputs \cup StripInputs

\* The variants that cut a quarter of the upper half, and those that cut the
\* lower right one.
UpperHalf == {Plain(tool, 4, 2, FullGraph(4)) : tool \in {"vt_0", "vt_1"}}
LowerRightCut == {Plain(tool, 4, 2, FullGraph(4)) : tool \in {"vt_3", "vt_0_3"}}
=============================================================================
