---------------------------- MODULE GlobalBuffer ----------------------------
(***************************************************************************)
(* GlobalBuffer: a set-associative cache of feature lines in front of the  *)
(* memory.  Entries of the edge stream wait in wq, in order; a missing     *)
(* line is requested once, and the memory answers in any order.            *)
(*                                                                         *)
(* An entry's address is XW_START plus a multiple of the line size that    *)
(* its column and fold determine, so a line stands for its address.        *)
(***************************************************************************)
EXTENDS CacheReplacement

CONSTANTS
    Algos,                  \* values CACHE_REPL_ALGO may have
    Cols, Folds,            \* columns of A, folds of a feature row
    LIMIT_WQ_SIZE           \* 32 in GlobalBuffer.h

ASSUME BufferAssumption ==
    /\ Algos \subseteq {"FIFO", "LRU", "BF", "RRIP", "SHiP", "MOVING_MED"}
    /\ Cols \subseteq Nat /\ Folds \subseteq Nat
    /\ LIMIT_WQ_SIZE \in Nat \ {0}

VARIABLES
    algo,       \* CACHE_REPL_ALGO
    policy,     \* the policy's globals, see CacheReplacement
    cache,      \* per set and way, the line it holds
    wq,         \* entries received and not yet released
    w_map,      \* per line requested and not yet received, the entry's row
    axwflag,    \* can_transfer, can_receive, q_empty
    inflight    \* per line, the reads the memory owes

gbVars == <<algo, policy, cache, wq, w_map, axwflag, inflight>>

Lines == [col : Cols, fold : Folds]
Rows == 0..a_h-1
LineOf(entry) == [col |-> entry.col, fold |-> entry.fold]

\* w_req_table[address] is false.
NotRequested == -1

GlobalBufferInit ==
    /\ algo \in Algos
    /\ policy = InitPolicy
    /\ cache = [s \in Sets |-> [w \in Ways |-> NoLine]]
    /\ wq = <<>>
    /\ w_map = [l \in Lines |-> NotRequested]
    /\ axwflag = [can_transfer |-> FALSE, can_receive |-> TRUE, q_empty |-> TRUE]
    /\ inflight = [l \in Lines |-> 0]

WaysWith(line) == {w \in Ways : cache[setIdx(line)][w] = line}
Loaded(line) == WaysWith(line) # {}

\* Request: marks the line and asks the memory for it.
Request(entry) ==
    /\ w_map' = [w_map EXCEPT ![LineOf(entry)] = entry.row]
    /\ inflight' = [inflight EXCEPT ![LineOf(entry)] = @ + 1]

Requested(line) == w_map[line] # NotRequested

-----------------------------------------------------------------------------
(* ReceiveData(ERData) *)

\* BF and MOVING_MED use the LRU list for the entries of fold 0.
UsesLRU(fold) == algo = "LRU" \/ (algo \in {"BF", "MOVING_MED"} /\ fold = 0)

\* The statistics of the first fold.
Counted(entry) ==
    CASE algo = "BF" /\ entry.fold = 0 ->
            BF_firstCycleAccess(policy, entry.row, entry.col)
      [] algo = "MOVING_MED" /\ entry.fold = 0 ->
            MVM_firstCycleAccess(policy, entry.row, entry.col)
      [] OTHER -> policy

\* What the policy notes of a hit, in the first way that holds the line.
OnHit(r, line) ==
    LET s == setIdx(line)
        w == Min(WaysWith(line))
    IN  CASE UsesLRU(line.fold) -> LRU_access(r, line)
          [] algo = "RRIP" -> RRIP_access(r, s, w)
          [] algo = "SHiP" -> SHiP_access(r, s, w, line)
          [] OTHER -> r

(* Faulty variant of ReceiveEntry: a missing line is requested even when   *)
(* it is already on its way.                                               *)
ReceiveEntry_RequestsAgain(entry) ==
    LET line == LineOf(entry)
    IN  /\ wq' = Append(wq, entry)
        /\ axwflag' = [axwflag EXCEPT
                !.q_empty = FALSE,
                !.can_receive = @ /\ Len(wq) + 1 # LIMIT_WQ_SIZE,
                !.can_transfer = @ \/ Loaded(line)]
        /\ policy' = IF Loaded(line) THEN OnHit(Counted(entry), line) ELSE Counted(entry)
        /\ IF Loaded(line) THEN UNCHANGED <<w_map, inflight>> ELSE Request(entry)
        /\ UNCHANGED <<algo, cache>>

ReceiveEntry(entry) ==
    LET line == LineOf(entry)
    IN  /\ wq' = Append(wq, entry)
        /\ axwflag' = [axwflag EXCEPT
                !.q_empty = FALSE,
                !.can_receive = @ /\ Len(wq) + 1 # LIMIT_WQ_SIZE,
                !.can_transfer = @ \/ Loaded(line)]
        /\ policy' = IF Loaded(line) THEN OnHit(Counted(entry), line) ELSE Counted(entry)
        /\ IF Loaded(line) \/ Requested(line)
           THEN UNCHANGED <<w_map, inflight>> ELSE Request(entry)
        /\ UNCHANGED <<algo, cache>>

-----------------------------------------------------------------------------
(* ReceiveData(address) *)

Empty(s) == {w \in Ways : cache[s][w] = NoLine}

Put(s, w, line) == cache' = [cache EXCEPT ![s][w] = line]

\* RRIP and SHiP pick a way, empty or not.
FillByAge(line) ==
    LET s == setIdx(line)
        chosen == IF algo = "RRIP" THEN RRIP_replace(policy, s)
                  ELSE SHiP_replace(policy, s, line)
    IN  /\ algo \in {"RRIP", "SHiP"}
        /\ Put(s, chosen.way, line)
        /\ policy' = chosen.policy

(* Faulty variant of FillEmpty: the policy is not told of the line. *)
FillEmpty_Unnoted(line) ==
    LET s == setIdx(line)
    IN  /\ algo \notin {"RRIP", "SHiP"}
        /\ Empty(s) # {}
        /\ Put(s, Min(Empty(s)), line)
        /\ policy' = policy

\* The others take the first empty way.
FillEmpty(line) ==
    LET s == setIdx(line)
    IN  /\ algo \notin {"RRIP", "SHiP"}
        /\ Empty(s) # {}
        /\ Put(s, Min(Empty(s)), line)
        /\ policy' = CASE algo = "FIFO" -> FIFO_access(policy, line)
                       [] UsesLRU(line.fold) -> LRU_access(policy, line)
                       [] OTHER -> policy

\* A full set under FIFO or LRU: the line is stored, and noted, only if the
\* way of the line taken off the list is found.
FillByList(line) ==
    LET s == setIdx(line)
        chosen == IF algo = "FIFO" THEN FIFO_replace(policy, s)
                  ELSE LRU_replace(policy, s)
        found == {w \in Ways : cache[s][w] = chosen.victim}
    IN  /\ algo = "FIFO" \/ UsesLRU(line.fold)
        /\ Empty(s) = {}
        /\ policy.list[s] # <<>>
        /\ IF found = {}
           THEN cache' = cache /\ policy' = chosen.policy
           ELSE /\ Put(s, Min(found), line)
                /\ policy' = IF algo = "FIFO" THEN FIFO_access(chosen.policy, line)
                             ELSE LRU_access(chosen.policy, line)

\* The last element of an empty list, which is then popped: garbage that may
\* match any line of the set or none.  The size has wrapped, and an access
\* reads beyond the list: it is left holding nothing, the line that was
\* noted, or a stale line of the set.  (The program may also die here: a
\* behaviour may stop at any step.)
FillByEmptyList(line) ==
    LET s == setIdx(line)
        left == {<<>>, <<line>>} \cup {<<cache[s][w]>> : w \in Ways}
    IN  /\ algo = "FIFO" \/ UsesLRU(line.fold)
        /\ Empty(s) = {}
        /\ policy.list[s] = <<>>
        /\ cache' = cache \/ \E w \in Ways : Put(s, w, line)
        /\ \E list \in left : policy' = [policy EXCEPT !.list[s] = list]

\* A full set in the later folds of BF and MOVING_MED.
FillByStatistics(line) ==
    LET s == setIdx(line)
    IN  /\ algo \in {"BF", "MOVING_MED"} /\ line.fold # 0
        /\ Empty(s) = {}
        /\ \E w \in IF algo = "BF" THEN {BF_replace(policy, w_map[line], cache[s])}
                    ELSE MVM_replace(policy, w_map[line], cache[s]) :
             Put(s, w, line)
        /\ policy' = policy

\* front() of an empty wq is garbage: it may match the address.
ReceiveLine(line) ==
    /\ inflight[line] > 0
    /\ inflight' = [inflight EXCEPT ![line] = @ - 1]
    /\ \/ FillByAge(line)
       \/ FillEmpty(line)
       \/ FillByList(line)
       \/ FillByEmptyList(line)
       \/ FillByStatistics(line)
    /\ w_map' = [w_map EXCEPT ![line] = NotRequested]
    /\ \E match \in IF wq = <<>> THEN BOOLEAN ELSE {LineOf(Head(wq)) = line} :
         axwflag' = [axwflag EXCEPT !.can_transfer = @ \/ match]
    /\ UNCHANGED <<algo, wq>>

-----------------------------------------------------------------------------
(* Faulty variant of CanTransfer: an evicted line is not asked for again. *)
CanTransfer_NoRetry ==
    /\ axwflag' = [axwflag EXCEPT
            !.can_transfer = ~axwflag.q_empty /\ Loaded(LineOf(Head(wq)))]
    /\ UNCHANGED <<algo, policy, cache, wq, w_map, inflight>>

(* CanTransfer: looks for the oldest entry's line, and asks for it again   *)
(* when it was evicted while the entry waited.                             *)
CanTransfer ==
    /\ axwflag' = [axwflag EXCEPT
            !.can_transfer = ~axwflag.q_empty /\ Loaded(LineOf(Head(wq)))]
    /\ IF axwflag.q_empty \/ Loaded(LineOf(Head(wq))) \/ Requested(LineOf(Head(wq)))
       THEN UNCHANGED <<w_map, inflight>>
       ELSE Request(Head(wq))
    /\ UNCHANGED <<algo, policy, cache, wq>>

(* Faulty variant of TransferAData: q_empty is not raised. *)
TransferAData_StaysNonEmpty ==
    /\ axwflag.can_transfer
    /\ wq' = Tail(wq)
    /\ axwflag' = [axwflag EXCEPT !.can_receive = TRUE]
    /\ UNCHANGED <<algo, policy, cache, w_map, inflight>>

\* TransferAData: releases the oldest entry.
TransferAData ==
    /\ axwflag.can_transfer
    /\ wq' = Tail(wq)
    /\ axwflag' = [axwflag EXCEPT !.can_receive = TRUE, !.q_empty = Len(wq) = 1]
    /\ UNCHANGED <<algo, policy, cache, w_map, inflight>>
=============================================================================
