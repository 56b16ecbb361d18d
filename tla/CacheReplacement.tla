-------------------------- MODULE CacheReplacement --------------------------
(***************************************************************************)
(* The replacement policies of CacheReplacement.cpp.  A line is the pair   *)
(* of a column of A and a fold (cache[set][way], weight_blk_idx[set][way]).*)
(* A policy keeps its state in globals; here they are the fields of one    *)
(* record r, and a policy's operations map that record to the next one.    *)
(*                                                                         *)
(*   list       fifoList (oldest first) or lruList (latest first), with    *)
(*              their WeightBlkIdx companions                              *)
(*   rrpv       rrpvList, shared by RRIP and SHiP                          *)
(*   outcome    lineOutcome and lineSignature, which the code keeps per    *)
(*   signature    way and not per set and way                              *)
(*   shct       SHCT, as a function on the signatures it holds             *)
(*   bf, ovl    bfList and olBfList                                        *)
(*   tmp        mvmTmp, medians and mvmCurIdx                              *)
(*   medians                                                               *)
(*   cur                                                                   *)
(***************************************************************************)
EXTENDS Integers, Sequences, FiniteSets, SequencesExt, FiniteSetsExt

CONSTANTS
    setN, wayN,             \* geometry of the cache
    a_h,                    \* rows of A
    BLOOM_FILTER_NUM, BF_OVERLAP, BF_LEN,
    MOV_MED_BLOCK_NUM,
    Signature(_)            \* address >> 16, of the address of a line

ASSUME CacheAssumption ==
    /\ setN \in Nat \ {0} /\ wayN \in Nat \ {0} /\ a_h \in Nat \ {0}
    /\ BLOOM_FILTER_NUM \in Nat \ {0} /\ BF_OVERLAP \in 0..100
    /\ BF_LEN \in Nat \ {0} /\ MOV_MED_BLOCK_NUM \in Nat \ {0}

Sets == 0..setN-1
Ways == 1..wayN
setIdx(line) == line.col % setN

\* A way that was never filled holds -1 in both arrays.
NoLine == [col |-> -1, fold |-> -1]
NoSignature == -1

InitPolicy ==
    [list |-> [s \in Sets |-> <<>>],
     rrpv |-> [s \in Sets |-> [w \in Ways |-> 3]],
     outcome |-> [w \in Ways |-> FALSE],
     signature |-> [w \in Ways |-> NoSignature],
     shct |-> <<>>,
     bf |-> [b \in 0..BLOOM_FILTER_NUM-1 |-> [c \in 0..BF_LEN-1 |-> 0]],
     ovl |-> [b \in 0..BLOOM_FILTER_NUM-1 |-> [c \in 0..BF_LEN-1 |-> 0]],
     tmp |-> <<>>, medians |-> <<>>, cur |-> 0]

-----------------------------------------------------------------------------
(* FIFO and LRU. *)

FIFO_access(r, line) ==
    [r EXCEPT !.list[setIdx(line)] = Append(@, line)]

(* Faulty variant of LRU_access: the earlier use stays in the list. *)
LRU_access_KeepsOld(r, line) ==
    [r EXCEPT !.list[setIdx(line)] = <<line>> \o @]

LRU_access(r, line) ==
    [r EXCEPT !.list[setIdx(line)] = <<line>> \o Remove(@, line)]

\* The line at the chosen end of the list, and the list without it.
FIFO_replace(r, s) ==
    [victim |-> Head(r.list[s]), policy |-> [r EXCEPT !.list[s] = Tail(@)]]

LRU_replace(r, s) ==
    [victim |-> Last(r.list[s]), policy |-> [r EXCEPT !.list[s] = Front(@)]]

-----------------------------------------------------------------------------
(* RRIP and SHiP. *)

\* The rounds of RRPV++ that are needed before some way of the set shows 3.
Aged(rrpv) ==
    LET rounds == 3 - Max({rrpv[w] : w \in Ways})
    IN  [w \in Ways |-> rrpv[w] + rounds]

FirstDistant(rrpv) == Min({w \in Ways : rrpv[w] = 3})

RRIP_access(r, s, w) == [r EXCEPT !.rrpv[s][w] = 0]

RRIP_replace(r, s) ==
    LET aged == Aged(r.rrpv[s])
        w == FirstDistant(aged)
    IN  [way |-> w, policy |-> [r EXCEPT !.rrpv[s] = [aged EXCEPT ![w] = 2]]]

\* A hit on a signature the table does not hold only prints a message.
SHiP_access(r, s, w, line) ==
    LET sig == Signature(line)
    IN  [r EXCEPT !.rrpv[s][w] = 0,
                  !.outcome[w] = TRUE,
                  !.shct = IF sig \in DOMAIN @ THEN [@ EXCEPT ![sig] = @ + 1] ELSE @]

(* Faulty variant of SHiP_replace: the outcome starts at false. *)
SHiP_replace_ClearsOutcome(r, s, line) ==
    LET sig  == Signature(line)
        aged == Aged(r.rrpv[s])
        w    == FirstDistant(aged)
        old  == r.signature[w]
        paid == IF ~r.outcome[w] /\ old \in DOMAIN r.shct
                THEN [r.shct EXCEPT ![old] = @ - 1] ELSE r.shct
        shct == [g \in DOMAIN paid \cup {sig} |->
                    IF g \in DOMAIN paid THEN paid[g] ELSE 0]
    IN  [way |-> w,
         policy |-> [r EXCEPT
            !.rrpv[s] = [aged EXCEPT ![w] = IF shct[sig] = 0 THEN 3 ELSE 2],
            !.outcome[w] = FALSE,
            !.signature[w] = sig,
            !.shct = shct]]

\* SHCT[sig] on a missing key inserts a zero, as insert does for the first
\* line of a way.
SHiP_replace(r, s, line) ==
    LET sig  == Signature(line)
        aged == Aged(r.rrpv[s])
        w    == FirstDistant(aged)
        old  == r.signature[w]
        paid == IF ~r.outcome[w] /\ old \in DOMAIN r.shct
                THEN [r.shct EXCEPT ![old] = @ - 1] ELSE r.shct
        shct == [g \in DOMAIN paid \cup {sig} |->
                    IF g \in DOMAIN paid THEN paid[g] ELSE 0]
    IN  [way |-> w,
         policy |-> [r EXCEPT
            !.rrpv[s] = [aged EXCEPT ![w] = IF shct[sig] = 0 THEN 3 ELSE 2],
            !.outcome[w] = TRUE,
            !.signature[w] = sig,
            !.shct = shct]]

-----------------------------------------------------------------------------
(* Bloom filters: which filter counts a row, and which one it consults. *)

\* n blocks of consecutive rows; the first ones take the remainder.
BlockRows(h, n) == [i \in 1..n |-> h \div n + (IF i <= h % n THEN 1 ELSE 0)]

Copies(x, n) == [j \in 1..n |-> x]

\* ovlStartIdx - 1: the rows of a block its overlapped filter leaves out.
ovlSkip(h, n, overlap) == ((h \div n) * (100 - overlap)) \div 100

ovlBlockRows(h, n, overlap) ==
    [i \in 1..n |-> IF i < n THEN h \div n
                    ELSE h - (n - 1) * (h \div n) - ovlSkip(h, n, overlap)]

bfIdx(h, n) == FlattenSeq([i \in 1..n |-> Copies(i - 1, BlockRows(h, n)[i])])

ovlBFIdx(h, n, overlap) ==
    Copies(-1, ovlSkip(h, n, overlap))
        \o FlattenSeq([i \in 1..n |-> Copies(i - 1, ovlBlockRows(h, n, overlap)[i])])

useOvlBF(h, n, overlap) ==
    FlattenSeq([i \in 1..n |->
        Copies(FALSE, ovlSkip(h, n, overlap))
            \o Copies(TRUE, BlockRows(h, n)[i] - ovlSkip(h, n, overlap))])

FilterOf(row) == bfIdx(a_h, BLOOM_FILTER_NUM)[row + 1]
OvlFilterOf(row) == ovlBFIdx(a_h, BLOOM_FILTER_NUM, BF_OVERLAP)[row + 1]
UseOvl(row) == useOvlBF(a_h, BLOOM_FILTER_NUM, BF_OVERLAP)[row + 1]

BF_firstCycleAccess(r, row, col) ==
    LET counted == [r EXCEPT !.bf[FilterOf(row)][col % BF_LEN] = @ + 1]
    IN  IF OvlFilterOf(row) = -1 THEN counted
        ELSE [counted EXCEPT !.ovl[OvlFilterOf(row)][col % BF_LEN] = @ + 1]

\* The first way of the set whose column was counted least.
BF_replace(r, row, ways) ==
    LET count(w) == IF BF_OVERLAP # 0 /\ UseOvl(row)
                    THEN r.ovl[OvlFilterOf(row)][ways[w].col % BF_LEN]
                    ELSE r.bf[FilterOf(row)][ways[w].col % BF_LEN]
    IN  Min({w \in Ways : \A v \in Ways : count(w) <= count(v)})

-----------------------------------------------------------------------------
(* Moving median (of which the code computes the average). *)

Abs(n) == IF n < 0 THEN -n ELSE n

\* The first block whose rows, with the earlier ones', reach the row; block 0
\* when there is none.
MedianBlock(row) ==
    LET sum(i) == FoldSeq(+, 0, SubSeq(BlockRows(a_h, MOV_MED_BLOCK_NUM), 1, i))
        reach == {i \in 1..MOV_MED_BLOCK_NUM : sum(i) >= row}
    IN  IF reach = {} THEN 0 ELSE Min(reach) - 1

\* The average of no value at all is 0.0/0: NoMedian.
NoMedian == -1
Average(s) == IF s = <<>> THEN NoMedian ELSE FoldSeq(+, 0, s) \div Len(s)

\* The entry that opens a new block closes the old one and is not counted.
MVM_firstCycleAccess(r, row, col) ==
    IF MedianBlock(row) = r.cur
    THEN [r EXCEPT !.tmp = Append(@, col)]
    ELSE [r EXCEPT !.medians = Append(@, Average(r.tmp)),
                   !.tmp = <<>>,
                   !.cur = MedianBlock(row)]

\* medians[from] is there, and is a number.
MedianKnown(r, row) == row < Len(r.medians) /\ r.medians[row + 1] # NoMedian

\* The first way whose column is farthest from medians[from]; a median that
\* was never computed is garbage and may single out any way.
MVM_replace(r, row, ways) ==
    LET distance(w) == Abs(r.medians[row + 1] - ways[w].col)
    IN  IF MedianKnown(r, row)
        THEN {Min({w \in Ways : \A v \in Ways : distance(v) <= distance(w)})}
        ELSE Ways
=============================================================================
