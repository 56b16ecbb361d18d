----------------------------- MODULE FeaturePath -----------------------------
(***************************************************************************)
(* The cached feature path: edge stream -> XWReader -> GlobalBuffer ->     *)
(* Accelerator, driven once per cycle by the part of the A*XW loop that    *)
(* is commented out at this commit.  The classes are compiled in, but only *)
(* constructed; this module gives them back the loop they were written     *)
(* for.  pc names the next step of the loop.                               *)
(***************************************************************************)
EXTENDS GlobalBuffer, XWReader

CONSTANT accLimit           \* ceil(pe / CACHE_LINE_COUNT)

ASSUME PathAssumption == accLimit \in Nat \ {0} /\ Folds = 0..w_fold-1

VARIABLES
    ber,        \* the last entry read off the edge stream, and how many were
    acc,        \* m2_data, a_data and the result lines written
    pc

vars == <<gbVars, xwr, ber, acc, pc>>

Entries == [row : Rows, col : Cols, fold : Folds, is_end : BOOLEAN]

Init ==
    /\ GlobalBufferInit
    /\ XWReaderInit
    /\ ber = [entry |-> [row |-> 0, col |-> 0, fold |-> w_fold - 1, is_end |-> FALSE],
              sent |-> 0, ends |-> 0]
    /\ acc = [m2_data |-> <<>>, a_data |-> <<>>, writes |-> 0]
    /\ pc = "edge"

Goto(from, to) == pc = from /\ pc' = to

-----------------------------------------------------------------------------
(* BasisEdgeReader::TransferData: the edges row by row, and each edge once *)
(* per fold; is_end marks all entries of a row's last edge.  The edges are *)
(* arbitrary, and so is when the reader has one.                           *)
NextEntries ==
    LET last == ber.entry
    IN  {e \in Entries :
            IF last.fold + 1 < w_fold
            THEN e = [last EXCEPT !.fold = @ + 1]
            ELSE /\ e.fold = 0
                 /\ IF last.is_end THEN e.row > last.row
                    ELSE IF ber.sent = 0 THEN TRUE ELSE e.row = last.row
                 /\ ber.sent + w_fold = tot_req => e.is_end
                 /\ ber.sent + w_fold < tot_req /\ e.row = a_h - 1 => ~e.is_end}

ReadEntry ==
    /\ Goto("edge", "arrive")
    /\ xwr.can_receive
    /\ ber.sent < tot_req
    /\ \E e \in NextEntries :
        /\ XWReaderReceive(e)
        /\ ber' = [entry |-> e, sent |-> ber.sent + 1,
                   ends |-> ber.ends + (IF e.is_end THEN 1 ELSE 0)]
    /\ UNCHANGED <<gbVars, acc>>

NoEntry ==
    /\ Goto("edge", "arrive")
    /\ UNCHANGED <<gbVars, xwr, ber, acc>>

-----------------------------------------------------------------------------
(* The buffer's turn. *)

Arrive(line) ==
    /\ Goto("arrive", "check")
    /\ ReceiveLine(line)
    /\ UNCHANGED <<xwr, ber, acc>>

NoArrival ==
    /\ Goto("arrive", "check")
    /\ UNCHANGED <<gbVars, xwr, ber, acc>>

Check ==
    /\ Goto("check", "receive")
    /\ CanTransfer
    /\ xwr' = TurnOff(xwr)
    /\ UNCHANGED <<ber, acc>>

(* Faulty variant of Receive: the buffer's can_receive is not looked at. *)
Receive_WhenFull ==
    /\ Goto("receive", "transfer")
    /\ ~xwr.q_empty
    /\ ReceiveEntry(Head(xwr.xwq))
    /\ xwr' = XWReaderRequest(xwr)
    /\ UNCHANGED <<ber, acc>>

Receive ==
    /\ Goto("receive", "transfer")
    /\ ~xwr.q_empty /\ axwflag.can_receive
    /\ ReceiveEntry(Head(xwr.xwq))
    /\ xwr' = XWReaderRequest(xwr)
    /\ UNCHANGED <<ber, acc>>

NoReceive ==
    /\ Goto("receive", "transfer")
    /\ xwr.q_empty \/ ~axwflag.can_receive
    /\ UNCHANGED <<gbVars, xwr, ber, acc>>

(* Accelerator::ReceiveData *)
AcceleratorReceive(entry) ==
    acc' = IF Len(acc.m2_data) < accLimit
           THEN [acc EXCEPT !.m2_data = Append(@, entry)]
           ELSE [acc EXCEPT !.a_data = Append(@, entry)]

Transfer ==
    /\ Goto("transfer", "mac")
    /\ TransferAData
    /\ AcceleratorReceive(Head(xwr.xwq_archive))
    /\ xwr' = XWReaderTransfer(xwr)
    /\ UNCHANGED ber

NoTransfer ==
    /\ Goto("transfer", "mac")
    /\ ~axwflag.can_transfer
    /\ UNCHANGED <<gbVars, xwr, ber, acc>>

-----------------------------------------------------------------------------
(* Accelerator::MAC: with MAC_CYCLE = 1 every entry in m2_data is done     *)
(* after one cycle, and a waiting one takes its place.                     *)
Ends(s) == Len(SelectSeq(s, LAMBDA e : e.is_end))

(* Faulty variant of MAC: a finished entry is not erased. *)
MAC_KeepsDone ==
    /\ Goto("mac", "edge")
    /\ acc' = [acc EXCEPT !.writes = @ + Ends(acc.m2_data)]
    /\ UNCHANGED <<gbVars, xwr, ber>>

MAC ==
    LET moved == Min({Len(acc.m2_data), Len(acc.a_data)})
    IN  /\ Goto("mac", "edge")
        /\ acc' = [m2_data |-> SubSeq(acc.a_data, 1, moved),
                   a_data  |-> SubSeq(acc.a_data, moved + 1, Len(acc.a_data)),
                   writes  |-> acc.writes + Ends(acc.m2_data)]
        /\ UNCHANGED <<gbVars, xwr, ber>>

Next ==
    \/ ReadEntry \/ NoEntry
    \/ \E line \in Lines : Arrive(line)
    \/ NoArrival
    \/ Check
    \/ Receive \/ NoReceive
    \/ Transfer \/ NoTransfer
    \/ MAC

Spec == Init /\ [][Next]_vars

(* The loop runs for ever; the edge reader delivers every edge and the     *)
(* memory every line it was asked for.                                     *)
Fairness ==
    /\ WF_vars(Next)
    /\ SF_vars(ReadEntry)
    /\ \A line \in Lines : SF_vars(Arrive(line))

FairSpec == Spec /\ Fairness
-----------------------------------------------------------------------------
(* Properties. *)

Counters == 0..tot_req

(* The shape of the state. *)
TypeOK ==
    /\ algo \in Algos
    /\ cache \in [Sets -> [Ways -> Lines \cup {NoLine}]]
    /\ wq \in Seq(Entries) /\ Len(wq) <= LIMIT_WQ_SIZE
    /\ w_map \in [Lines -> Rows \cup {NotRequested}]
    /\ inflight \in [Lines -> Nat]
    /\ axwflag \in [can_transfer : BOOLEAN, can_receive : BOOLEAN, q_empty : BOOLEAN]
    /\ policy.rrpv \in [Sets -> [Ways -> 0..3]]
    /\ policy.list \in [Sets -> Seq(Lines)]
    /\ xwr.q_space \in 0..XWR_QUEUE_SIZE
    /\ acc.writes \in Counters /\ ber.sent \in Counters

(* ReceiveData(address) is only entered for a line that is not in the      *)
(* cache (GlobalBuffer.cpp:242): the memory owes a line once while it is   *)
(* marked in w_req_table, not at all otherwise, and never a line that some *)
(* way already holds; so no line is ever held twice.                       *)
LinesUnique ==
    \A line \in Lines :
        /\ inflight[line] = (IF Requested(line) THEN 1 ELSE 0)
        /\ Cardinality(WaysWith(line)) + inflight[line] <= 1

(* The XWReader's archive is popped when the GlobalBuffer says so, and the *)
(* two never look at each other's queue: still the Accelerator is given    *)
(* the very entry that the buffer releases, and the flags tell the truth   *)
(* about the queues they stand for.                                        *)
QueuesAligned ==
    /\ xwr.xwq_archive = wq \o xwr.xwq
    /\ axwflag.q_empty <=> wq = <<>>
    /\ axwflag.can_receive <=> Len(wq) < LIMIT_WQ_SIZE
    /\ xwr.q_empty <=> xwr.xwq = <<>>
    /\ xwr.q_space = 2 * Len(xwr.xwq_archive)

(* FIFO and LRU name their victim from a list of their own: it holds the   *)
(* lines of the set, each once, so the victim is always found.             *)
ListMatchesCache ==
    algo \in {"FIFO", "LRU"} =>
        \A s \in Sets :
            LET held == {cache[s][w] : w \in Ways} \ {NoLine}
            IN  /\ ToSet(policy.list[s]) = held
                /\ Len(policy.list[s]) = Cardinality(held)

(* The messages of SHiP that "should never happen"                         *)
(* (CacheReplacement.cpp:309, 378, 382): every line that can be hit has    *)
(* its signature in SHCT, so does every signature noted for a way, and no  *)
(* counter is negative.                                                    *)
ShctSound ==
    algo = "SHiP" =>
        /\ \A s \in Sets, w \in Ways : cache[s][w] # NoLine =>
               Signature(cache[s][w]) \in DOMAIN policy.shct
        /\ \A w \in Ways : policy.signature[w] \in DOMAIN policy.shct \cup {NoSignature}
        /\ \A g \in DOMAIN policy.shct : policy.shct[g] >= 0

(* ReceiveData(address) leaves the line it was called for in the cache.    *)
ArrivalStored ==
    [][\A line \in Lines : inflight'[line] < inflight[line] => Loaded(line)']_vars

(* Each row's last entry is turned into one result line by the             *)
(* Accelerator, neither lost nor repeated on its way through the queues.   *)
RowsWrittenOnce ==
    acc.writes + Ends(acc.m2_data) + Ends(acc.a_data) + Ends(xwr.xwq_archive) = ber.ends

(* Every entry of the stream is released by the buffer in the end, and     *)
(* every row written, although lines waited for are evicted meanwhile.     *)
AllWritten ==
    <>[](ber.sent = tot_req /\ acc.writes = ber.ends)

(* TransferAData stands for "GB) WEIGHT READ COMPLETE"                     *)
(* (GlobalBuffer.cpp:437): the line of the entry it releases is in the     *)
(* cache.                                                                  *)
ReleasedLoaded ==
    [][wq # <<>> /\ wq' = Tail(wq) => Loaded(LineOf(Head(wq)))]_vars
=============================================================================
