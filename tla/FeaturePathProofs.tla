------------------------- MODULE FeaturePathProofs -------------------------
(***************************************************************************)
(* Two invariants of the cached feature path, for every geometry of the    *)
(* cache, every replacement policy and every stream of edges: a line is    *)
(* fetched once and held once, and the two queues that never look at each  *)
(* other stay aligned.                                                     *)
(*                                                                         *)
(* Neither is inductive.  That a line arrives only when it is missing      *)
(* rests on the table of requests agreeing with what the memory owes;      *)
(* that the queues move together rests on an entry being released only     *)
(* when there is one, and can_transfer is raised by an arrival even when   *)
(* no entry waits: only CanTransfer, which runs in between, clears it.     *)
(***************************************************************************)
EXTENDS FeaturePath, FiniteSetTheorems, SequenceTheorems, TLAPS

(* The fields of the XWReader. *)
Reader ==
    xwr = [xwq |-> xwr.xwq, xwq_archive |-> xwr.xwq_archive,
           q_space |-> xwr.q_space, req_cnt |-> xwr.req_cnt,
           q_empty |-> xwr.q_empty, can_receive |-> xwr.can_receive]

(* What the two invariants need of the types. *)
Shapes ==
    /\ cache \in [Sets -> [Ways -> Lines \cup {NoLine}]]
    /\ wq \in Seq(Entries)
    /\ Len(wq) <= LIMIT_WQ_SIZE
    /\ w_map \in [Lines -> Rows \cup {NotRequested}]
    /\ inflight \in [Lines -> Nat]
    /\ axwflag \in [can_transfer : BOOLEAN, can_receive : BOOLEAN, q_empty : BOOLEAN]
    /\ Reader
    /\ xwr.xwq \in Seq(Entries)
    /\ xwr.xwq_archive \in Seq(Entries)

(* The line is in one way at most. *)
OneWay(line) == \A v, w \in WaysWith(line) : v = w

(* The table of requests tells what the memory owes, and no line that is   *)
(* held is owed.                                                           *)
Fetched(line) ==
    /\ inflight[line] = (IF Requested(line) THEN 1 ELSE 0)
    /\ OneWay(line)
    /\ Requested(line) => ~Loaded(line)

(* After CanTransfer, can_transfer stands for an entry that waits. *)
ReleaseOK ==
    pc \in {"receive", "transfer"} /\ axwflag.can_transfer => wq # <<>>

(* The inductive invariant. *)
IInv ==
    /\ Shapes
    /\ QueuesAligned
    /\ ReleaseOK
    /\ \A line \in Lines : Fetched(line)

-----------------------------------------------------------------------------
(* Facts about sequences. *)

(* A sequence is its first element followed by the others. *)
LEMMA HeadAndTail ==
    ASSUME NEW S, NEW a \in Seq(S), a # <<>>
    PROVE  /\ Head(a) \in S /\ Tail(a) \in Seq(S) /\ <<Head(a)>> \in Seq(S)
           /\ a = <<Head(a)>> \o Tail(a)
<1>1. Head(a) \in S /\ Tail(a) \in Seq(S) /\ <<Head(a)>> \in Seq(S)
  BY HeadTailProperties
<1>2. Len(a) \in Nat \ {0} /\ Head(a) = a[1]
  BY EmptySeq
<1>3. 1 \in 1 .. Len(a) /\ Len(a) \in 1 .. Len(a)
  BY <1>2
<1>4. SubSeq(a, 1, Len(a)) = <<a[1]>> \o SubSeq(a, 1 + 1, Len(a))
  BY <1>3, SubSeqRecursiveFirst
<1>5. SubSeq(a, 1, Len(a)) = a /\ Tail(a) = SubSeq(a, 2, Len(a))
  BY SubSeqFull, TailIsSubSeq
<1>6. SubSeq(a, 1 + 1, Len(a)) = SubSeq(a, 2, Len(a))
  OBVIOUS
<1> QED
  BY <1>1, <1>2, <1>4, <1>5, <1>6

(* Moving the head of a queue to the end of the one before it leaves the   *)
(* two together as they were: what Receive does to wq and xwq.             *)
LEMMA HeadMoves ==
    ASSUME NEW S, NEW a \in Seq(S), NEW b \in Seq(S), b # <<>>
    PROVE  a \o b = Append(a, Head(b)) \o Tail(b)
<1>1. /\ Head(b) \in S /\ Tail(b) \in Seq(S) /\ <<Head(b)>> \in Seq(S)
      /\ b = <<Head(b)>> \o Tail(b)
  BY HeadAndTail
<1>2. Append(a, Head(b)) = a \o <<Head(b)>>
  BY <1>1, AppendIsConcat
<1>3. (a \o <<Head(b)>>) \o Tail(b) = a \o (<<Head(b)>> \o Tail(b))
  BY <1>1, ConcatAssociative
<1> QED
  BY <1>1, <1>2, <1>3

(* The tail of an element put in front of a sequence. *)
LEMMA TailOfJoined ==
    ASSUME NEW S, NEW e \in S, NEW s \in Seq(S)
    PROVE  <<e>> \o s # <<>> /\ Tail(<<e>> \o s) = s
<1> DEFINE h == <<e>>
           p == h \o s
<1>1. h \in Seq(S) /\ Len(h) = 1 /\ Len(s) \in Nat
  BY LenProperties
<1> HIDE DEF h
<1>2. /\ p \in Seq(S) /\ Len(p) = Len(h) + Len(s)
      /\ \A i \in 1 .. Len(h) + Len(s) : p[i] = IF i <= Len(h) THEN h[i] ELSE s[i - Len(h)]
  BY <1>1, ConcatProperties
<1> HIDE DEF p
<1>3. /\ Len(p) = Len(s) + 1
      /\ \A i \in 2 .. Len(s) + 1 : p[i] = s[i - 1]
  BY <1>1, <1>2
<1>4. p # <<>>
  BY <1>1, <1>3, EmptySeq
<1>5. /\ Tail(p) \in Seq(S) /\ Len(Tail(p)) = Len(s)
      /\ \A i \in 1 .. Len(s) : Tail(p)[i] = p[i + 1]
  BY <1>1, <1>2, <1>3, <1>4, HeadTailProperties
<1>6. ASSUME NEW i \in 1 .. Len(s) PROVE Tail(p)[i] = s[i]
  <2>1. i + 1 \in 2 .. Len(s) + 1 /\ (i + 1) - 1 = i
    BY <1>1
  <2>2. p[i + 1] = s[i]
    BY <2>1, <1>3
  <2> QED
    BY <2>2, <1>5
<1>7. Tail(p) = s
  BY <1>5, <1>6, SeqEqual
<1> QED
  BY <1>4, <1>7 DEF p, h

(* Popping the front of two queues in a row pops the first: what Transfer  *)
(* does to wq and xwq_archive.                                             *)
LEMMA TailInFront ==
    ASSUME NEW S, NEW a \in Seq(S), NEW b \in Seq(S), a # <<>>
    PROVE  a \o b # <<>> /\ Tail(a \o b) = Tail(a) \o b
<1>1. /\ Head(a) \in S /\ Tail(a) \in Seq(S) /\ <<Head(a)>> \in Seq(S)
      /\ a = <<Head(a)>> \o Tail(a)
  BY HeadAndTail
<1>2. (<<Head(a)>> \o Tail(a)) \o b = <<Head(a)>> \o (Tail(a) \o b)
  BY <1>1, ConcatAssociative
<1>3. Tail(a) \o b \in Seq(S)
  BY <1>1, ConcatProperties
<1>4. /\ <<Head(a)>> \o (Tail(a) \o b) # <<>>
      /\ Tail(<<Head(a)>> \o (Tail(a) \o b)) = Tail(a) \o b
  BY <1>1, <1>3, TailOfJoined
<1> QED
  BY <1>1, <1>2, <1>4

(* A sequence without its head. *)
LEMMA Shorter ==
    ASSUME NEW S, NEW a \in Seq(S), a # <<>>
    PROVE  /\ Head(a) \in S /\ Tail(a) \in Seq(S)
           /\ Len(a) \in Nat \ {0} /\ Len(Tail(a)) = Len(a) - 1
           /\ Tail(a) = <<>> <=> Len(a) = 1
<1>1. /\ Head(a) \in S /\ Tail(a) \in Seq(S)
      /\ Len(a) \in Nat \ {0} /\ Len(Tail(a)) = Len(a) - 1
  BY HeadTailProperties, EmptySeq
<1>2. Tail(a) = <<>> <=> Len(Tail(a)) = 0
  BY <1>1, EmptySeq
<1> QED
  BY <1>1, <1>2

-----------------------------------------------------------------------------
(* Every line has a set, and differs from the mark of an empty way. *)
LEMMA LineInSet ==
    ASSUME NEW line \in Lines
    PROVE  setIdx(line) \in Sets /\ line # NoLine
<1>1. line.col \in Nat /\ setN \in Nat \ {0}
  BY CacheAssumption, BufferAssumption DEF Lines
<1>2. line.col % setN \in 0 .. setN - 1
  BY <1>1
<1>3. line.col # -1
  BY <1>1
<1>4. line # NoLine
  BY <1>3 DEF NoLine
<1> QED
  BY <1>2, <1>4 DEF setIdx, Sets

(* Every entry has a line, and its row is not the mark of a line that was  *)
(* not requested.                                                          *)
LEMMA EntryLine ==
    ASSUME NEW e \in Entries
    PROVE  LineOf(e) \in Lines /\ e.row # NotRequested /\ e.row \in Rows
BY CacheAssumption DEF Entries, LineOf, Lines, Rows, NotRequested

(* The invariant holds when the classes have been constructed. *)
LEMMA InitOK == Init => IInv
<1> SUFFICES ASSUME Init PROVE IInv
  OBVIOUS
<1> USE DEF Init, GlobalBufferInit, XWReaderInit
<1>1. Shapes
  BY BufferAssumption DEF Shapes, Reader
<1>2. QueuesAligned
  BY BufferAssumption DEF QueuesAligned
<1>3. ReleaseOK
  BY DEF ReleaseOK
<1>4. ASSUME NEW line \in Lines PROVE Fetched(line)
  BY LineInSet DEF Fetched, OneWay, Loaded, WaysWith, Requested
<1> QED
  BY <1>1, <1>2, <1>3, <1>4 DEF IInv

(* The invariant implies both properties. *)
LEMMA Consequence == IInv => LinesUnique /\ QueuesAligned
<1> SUFFICES ASSUME IInv, NEW line \in Lines
             PROVE  /\ inflight[line] = (IF Requested(line) THEN 1 ELSE 0)
                    /\ Cardinality(WaysWith(line)) + inflight[line] <= 1
  BY DEF IInv, LinesUnique
<1>1. Fetched(line)
  BY DEF IInv
<1>2. CASE WaysWith(line) = {}
  BY <1>1, <1>2, FS_EmptySet DEF Fetched
<1>3. CASE WaysWith(line) # {}
  <2>1. PICK w : WaysWith(line) = {w}
    BY <1>1, <1>3 DEF Fetched, OneWay
  <2>2. Cardinality(WaysWith(line)) = 1
    BY <2>1, FS_Singleton
  <2> QED
    BY <1>1, <1>3, <2>2 DEF Fetched, Loaded
<1> QED
  BY <1>2, <1>3

-----------------------------------------------------------------------------
(* Whatever the policy, ReceiveData(address) writes the line into one way  *)
(* of its set or leaves the cache alone.                                   *)
LEMMA CacheChange ==
    ASSUME NEW line \in Lines, ReceiveLine(line)
    PROVE  \/ cache' = cache
           \/ \E w : cache' = [cache EXCEPT ![setIdx(line)][w] = line]
<1>1. CASE FillByAge(line)
  BY <1>1 DEF FillByAge, Put
<1>2. CASE FillEmpty(line)
  BY <1>2 DEF FillEmpty, Put
<1>3. CASE FillByList(line)
  BY <1>3 DEF FillByList, Put
<1>4. CASE FillByEmptyList(line)
  BY <1>4 DEF FillByEmptyList, Put
<1>5. CASE FillByStatistics(line)
  BY <1>5 DEF FillByStatistics, Put
<1> QED
  BY <1>1, <1>2, <1>3, <1>4, <1>5 DEF ReceiveLine

(* Writing a line that is not held into a way: it is then held there only, *)
(* and the other lines are held nowhere else than before.                  *)
LEMMA OneFill ==
    ASSUME NEW line \in Lines, NEW w, ~Loaded(line),
           cache \in [Sets -> [Ways -> Lines \cup {NoLine}]],
           cache' = [cache EXCEPT ![setIdx(line)][w] = line]
    PROVE  /\ cache' \in [Sets -> [Ways -> Lines \cup {NoLine}]]
           /\ OneWay(line)'
           /\ \A l \in Lines : l # line => WaysWith(l)' \subseteq WaysWith(l)
<1> DEFINE s == setIdx(line)
<1>1. s \in Sets
  BY LineInSet
<1>2. /\ cache' \in [Sets -> [Ways -> Lines \cup {NoLine}]]
      /\ \A r \in Sets : r # s => cache'[r] = cache[r]
      /\ \A v \in Ways : cache'[s][v] = IF v = w THEN line ELSE cache[s][v]
  BY <1>1
<1>3. OneWay(line)'
  BY <1>2 DEF OneWay, WaysWith, Loaded
<1>4. ASSUME NEW l \in Lines, l # line PROVE WaysWith(l)' \subseteq WaysWith(l)
  <2>1. setIdx(l) \in Sets
    BY LineInSet
  <2> QED
    BY <1>2, <1>4, <2>1 DEF WaysWith
<1> QED
  BY <1>2, <1>3, <1>4

(* Request, for a line that is neither held nor on its way. *)
LEMMA Asked ==
    ASSUME NEW e \in Entries, Shapes, \A l \in Lines : Fetched(l),
           Request(e), ~Loaded(LineOf(e)), ~Requested(LineOf(e)), cache' = cache
    PROVE  /\ w_map' \in [Lines -> Rows \cup {NotRequested}]
           /\ inflight' \in [Lines -> Nat]
           /\ \A l \in Lines : Fetched(l)'
<1> DEFINE x == LineOf(e)
<1>1. x \in Lines /\ e.row # NotRequested /\ e.row \in Rows
  BY EntryLine
<1>2. /\ w_map' = [w_map EXCEPT ![x] = e.row]
      /\ inflight' = [inflight EXCEPT ![x] = @ + 1]
      /\ ~Loaded(x) /\ ~Requested(x)
  BY DEF Request
<1> HIDE DEF x
<1>3. /\ w_map' \in [Lines -> Rows \cup {NotRequested}]
      /\ inflight' \in [Lines -> Nat]
      /\ w_map'[x] = e.row /\ inflight'[x] = inflight[x] + 1
      /\ \A l \in Lines : l # x => w_map'[l] = w_map[l] /\ inflight'[l] = inflight[l]
  BY <1>1, <1>2 DEF Shapes
<1>4. \A l \in Lines : WaysWith(l)' = WaysWith(l)
  BY DEF WaysWith
<1>5. Fetched(x)'
  BY <1>1, <1>2, <1>3, <1>4 DEF Fetched, Requested, OneWay, Loaded
<1>6. ASSUME NEW l \in Lines, l # x PROVE Fetched(l)'
  BY <1>3, <1>4, <1>6 DEF Fetched, Requested, OneWay, Loaded
<1> QED
  BY <1>3, <1>5, <1>6

(* Steps that leave the cache and the requests alone. *)
LEMMA NothingAsked ==
    ASSUME \A l \in Lines : Fetched(l), UNCHANGED <<cache, w_map, inflight>>
    PROVE  \A l \in Lines : Fetched(l)'
BY DEF Fetched, OneWay, Loaded, WaysWith, Requested

-----------------------------------------------------------------------------
(* An entry enters both queues of the XWReader. *)
LEMMA ReadEntryOK == IInv /\ ReadEntry => IInv'
<1> SUFFICES ASSUME IInv, ReadEntry PROVE IInv'
  OBVIOUS
<1>1. PICK e \in Entries : XWReaderReceive(e)
  BY DEF ReadEntry, NextEntries
<1>2. UNCHANGED gbVars /\ pc' = "arrive"
  BY DEF ReadEntry, Goto
<1> DEFINE b == xwr.can_receive /\ XWR_QUEUE_SIZE - (xwr.q_space + 2) >= 2
<1>3. xwr' = [xwq |-> Append(xwr.xwq, e), xwq_archive |-> Append(xwr.xwq_archive, e),
              q_space |-> xwr.q_space + 2, req_cnt |-> xwr.req_cnt,
              q_empty |-> FALSE, can_receive |-> b]
  BY <1>1 DEF XWReaderReceive, IInv, Shapes, Reader
<1> HIDE DEF b
<1>4. Reader' /\ xwr'.xwq = Append(xwr.xwq, e) /\ xwr'.q_space = xwr.q_space + 2
      /\ xwr'.xwq_archive = Append(xwr.xwq_archive, e) /\ xwr'.q_empty = FALSE
  BY <1>3 DEF Reader
<1>5. /\ xwr.xwq \in Seq(Entries) /\ xwr.xwq_archive \in Seq(Entries)
      /\ wq \in Seq(Entries)
      /\ xwr.xwq_archive = wq \o xwr.xwq
      /\ xwr.q_space = 2 * Len(xwr.xwq_archive)
  BY DEF IInv, Shapes, QueuesAligned
<1>6. /\ Append(xwr.xwq, e) \in Seq(Entries) /\ Append(xwr.xwq_archive, e) \in Seq(Entries)
      /\ Len(Append(xwr.xwq_archive, e)) = Len(xwr.xwq_archive) + 1
      /\ Len(xwr.xwq_archive) \in Nat
      /\ Append(xwr.xwq, e) # <<>>
  <2> DEFINE u == xwr.xwq
             v == xwr.xwq_archive
  <2>1. u \in Seq(Entries) /\ v \in Seq(Entries)
    BY <1>5
  <2> HIDE DEF u, v
  <2>2. /\ Append(u, e) \in Seq(Entries) /\ Append(v, e) \in Seq(Entries)
        /\ Len(Append(v, e)) = Len(v) + 1 /\ Len(v) \in Nat /\ Append(u, e) # <<>>
    BY <2>1, AppendProperties, LenProperties
  <2> QED
    BY <2>2 DEF u, v
<1>a. Append(xwr.xwq_archive, e) = wq \o Append(xwr.xwq, e)
  <2> DEFINE u == xwr.xwq
             v == xwr.xwq_archive
  <2>1. /\ u \in Seq(Entries) /\ wq \in Seq(Entries) /\ v \in Seq(Entries)
        /\ v = wq \o u
    BY <1>5
  <2> HIDE DEF u, v
  <2>2. <<e>> \in Seq(Entries)
    OBVIOUS
  <2>3. Append(u, e) = u \o <<e>>
    BY <2>1, AppendIsConcat
  <2>4. Append(v, e) = v \o <<e>>
    BY <2>1, AppendIsConcat
  <2>5. (wq \o u) \o <<e>> = wq \o (u \o <<e>>)
    BY <2>1, <2>2, ConcatAssociative
  <2>6. Append(v, e) = wq \o Append(u, e)
    BY <2>1, <2>3, <2>4, <2>5
  <2> QED
    BY <2>6 DEF u, v
<1>7. Shapes'
  BY <1>2, <1>4, <1>6 DEF IInv, Shapes, gbVars
<1>8. QueuesAligned'
  BY <1>2, <1>4, <1>5, <1>6, <1>a DEF IInv, QueuesAligned, gbVars
<1>9. \A l \in Lines : Fetched(l)'
  BY <1>2, NothingAsked DEF IInv, gbVars
<1> QED
  BY <1>2, <1>7, <1>8, <1>9 DEF IInv, ReleaseOK

(* A line arrives from the memory. *)
LEMMA ArriveOK == ASSUME IInv, NEW line \in Lines, Arrive(line) PROVE IInv'
<1>1. ReceiveLine(line) /\ UNCHANGED xwr /\ pc' = "check"
  BY DEF Arrive, Goto
<1>2. PICK b \in BOOLEAN : axwflag' = [axwflag EXCEPT !.can_transfer = axwflag.can_transfer \/ b]
  BY <1>1 DEF ReceiveLine
<1>3. /\ inflight[line] > 0
      /\ inflight' = [inflight EXCEPT ![line] = inflight[line] - 1]
      /\ w_map' = [w_map EXCEPT ![line] = NotRequested]
      /\ UNCHANGED wq
  BY <1>1 DEF ReceiveLine
<1>4. Requested(line) /\ inflight[line] = 1 /\ ~Loaded(line)
  BY <1>3 DEF IInv, Fetched
<1>5. /\ w_map' \in [Lines -> Rows \cup {NotRequested}]
      /\ inflight' \in [Lines -> Nat]
      /\ w_map'[line] = NotRequested /\ inflight'[line] = 0
      /\ \A l \in Lines : l # line => w_map'[l] = w_map[l] /\ inflight'[l] = inflight[l]
  BY <1>3, <1>4 DEF IInv, Shapes
<1>6. /\ cache' \in [Sets -> [Ways -> Lines \cup {NoLine}]]
      /\ OneWay(line)'
      /\ \A l \in Lines : l # line => WaysWith(l)' \subseteq WaysWith(l)
  <2>1. CASE cache' = cache
    BY <2>1 DEF IInv, Shapes, Fetched, OneWay, WaysWith
  <2>2. CASE \E w : cache' = [cache EXCEPT ![setIdx(line)][w] = line]
    BY <2>2, <1>4, OneFill DEF IInv, Shapes
  <2> QED
    BY <2>1, <2>2, <1>1, CacheChange
<1>7. /\ axwflag' \in [can_transfer : BOOLEAN, can_receive : BOOLEAN, q_empty : BOOLEAN]
      /\ axwflag'.can_receive = axwflag.can_receive /\ axwflag'.q_empty = axwflag.q_empty
  BY <1>2 DEF IInv, Shapes
<1>8. Shapes'
  BY <1>1, <1>3, <1>5, <1>6, <1>7 DEF IInv, Shapes, Reader
<1>9. QueuesAligned'
  BY <1>1, <1>3, <1>7 DEF IInv, QueuesAligned
<1>10. Fetched(line)'
  BY <1>5, <1>6 DEF Fetched, Requested
<1>11. ASSUME NEW l \in Lines, l # line PROVE Fetched(l)'
  BY <1>5, <1>6, <1>11 DEF IInv, Fetched, Requested, OneWay, Loaded
<1> QED
  BY <1>1, <1>8, <1>9, <1>10, <1>11 DEF IInv, ReleaseOK

(* CanTransfer asks again for an evicted line, and clears can_transfer     *)
(* when no entry waits.                                                    *)
LEMMA CheckOK == IInv /\ Check => IInv'
<1> SUFFICES ASSUME IInv, Check PROVE IInv'
  OBVIOUS
<1> DEFINE b == ~axwflag.q_empty /\ Loaded(LineOf(Head(wq)))
<1>1. /\ CanTransfer /\ xwr' = TurnOff(xwr) /\ pc' = "receive"
      /\ axwflag' = [axwflag EXCEPT !.can_transfer = b]
      /\ UNCHANGED <<cache, wq>>
  BY DEF Check, Goto, CanTransfer
<1>2. /\ Reader' /\ xwr'.xwq = xwr.xwq /\ xwr'.xwq_archive = xwr.xwq_archive
      /\ xwr'.q_space = xwr.q_space /\ xwr'.q_empty = xwr.q_empty
  BY <1>1 DEF IInv, Shapes, Reader, TurnOff
<1>3. b \in BOOLEAN /\ (b => wq # <<>>)
  BY DEF IInv, QueuesAligned
<1> HIDE DEF b
<1>4. /\ axwflag' \in [can_transfer : BOOLEAN, can_receive : BOOLEAN, q_empty : BOOLEAN]
      /\ axwflag'.can_receive = axwflag.can_receive /\ axwflag'.q_empty = axwflag.q_empty
      /\ axwflag'.can_transfer = b
  BY <1>1, <1>3 DEF IInv, Shapes
<1>5. /\ w_map' \in [Lines -> Rows \cup {NotRequested}]
      /\ inflight' \in [Lines -> Nat]
      /\ \A l \in Lines : Fetched(l)'
  <2>1. CASE UNCHANGED <<w_map, inflight>>
    BY <2>1, <1>1, NothingAsked DEF IInv, Shapes
  <2>2. CASE /\ ~axwflag.q_empty /\ ~Loaded(LineOf(Head(wq)))
             /\ ~Requested(LineOf(Head(wq))) /\ Request(Head(wq))
    <3>1. Head(wq) \in Entries
      BY <2>2, Shorter DEF IInv, Shapes, QueuesAligned
    <3> QED
      BY <3>1, <2>2, <1>1, Asked DEF IInv
  <2> QED
    BY <2>1, <2>2, <1>1 DEF CanTransfer
<1>6. Shapes'
  BY <1>1, <1>2, <1>4, <1>5 DEF IInv, Shapes
<1>7. QueuesAligned'
  BY <1>1, <1>2, <1>4 DEF IInv, QueuesAligned
<1> QED
  BY <1>1, <1>3, <1>4, <1>5, <1>6, <1>7 DEF IInv, ReleaseOK

(* An entry moves from the XWReader to the buffer. *)
LEMMA ReceiveOK == IInv /\ Receive => IInv'
<1> SUFFICES ASSUME IInv, Receive PROVE IInv'
  OBVIOUS
<1> DEFINE e == Head(xwr.xwq)
           b == Len(xwr.xwq) = 1
           r == axwflag.can_receive /\ Len(wq) + 1 # LIMIT_WQ_SIZE
           t == axwflag.can_transfer \/ Loaded(LineOf(e))
<1>1. /\ ReceiveEntry(e) /\ xwr' = XWReaderRequest(xwr) /\ pc' = "transfer"
      /\ ~xwr.q_empty /\ axwflag.can_receive
  BY DEF Receive, Goto
<1>2. /\ wq' = Append(wq, e) /\ UNCHANGED cache
      /\ axwflag' = [axwflag EXCEPT !.q_empty = FALSE, !.can_receive = r, !.can_transfer = t]
  BY <1>1 DEF ReceiveEntry
<1>3. /\ xwr.xwq # <<>> /\ xwr.xwq \in Seq(Entries) /\ wq \in Seq(Entries)
      /\ Len(wq) < LIMIT_WQ_SIZE
      /\ xwr.xwq_archive = wq \o xwr.xwq
  BY <1>1 DEF IInv, Shapes, QueuesAligned
<1>4. /\ e \in Entries /\ Tail(xwr.xwq) \in Seq(Entries)
      /\ b <=> Tail(xwr.xwq) = <<>>
      /\ wq \o xwr.xwq = Append(wq, e) \o Tail(xwr.xwq)
  BY <1>3, Shorter, HeadMoves
<1>5. /\ Append(wq, e) \in Seq(Entries) /\ Append(wq, e) # <<>>
      /\ Len(Append(wq, e)) = Len(wq) + 1 /\ Len(wq) \in Nat
  BY <1>3, <1>4, AppendProperties, LenProperties
<1>6. /\ Len(wq') <= LIMIT_WQ_SIZE
      /\ r <=> Len(wq') < LIMIT_WQ_SIZE
  BY <1>1, <1>2, <1>3, <1>5, BufferAssumption
<1>7. /\ Reader' /\ xwr'.xwq = Tail(xwr.xwq) /\ xwr'.xwq_archive = xwr.xwq_archive
      /\ xwr'.q_space = xwr.q_space /\ xwr'.q_empty = b
  <2>1. xwr' = [xwq |-> Tail(xwr.xwq), xwq_archive |-> xwr.xwq_archive,
                q_space |-> xwr.q_space, req_cnt |-> xwr.req_cnt + 1,
                q_empty |-> b, can_receive |-> xwr.can_receive]
    BY <1>1 DEF IInv, Shapes, Reader, XWReaderRequest
  <2> HIDE DEF b
  <2> QED
    BY <2>1 DEF Reader
<1>8. r \in BOOLEAN /\ t \in BOOLEAN
  BY DEF IInv, Shapes
<1> HIDE DEF r, t
<1>9. /\ axwflag' \in [can_transfer : BOOLEAN, can_receive : BOOLEAN, q_empty : BOOLEAN]
      /\ axwflag'.can_receive = r /\ axwflag'.q_empty = FALSE
  BY <1>2, <1>8 DEF IInv, Shapes
<1>10. /\ w_map' \in [Lines -> Rows \cup {NotRequested}]
       /\ inflight' \in [Lines -> Nat]
       /\ \A l \in Lines : Fetched(l)'
  <2>1. CASE UNCHANGED <<w_map, inflight>>
    BY <2>1, <1>2, NothingAsked DEF IInv, Shapes
  <2>2. CASE ~Loaded(LineOf(e)) /\ ~Requested(LineOf(e)) /\ Request(e)
    BY <2>2, <1>2, <1>4, Asked DEF IInv
  <2> QED
    BY <2>1, <2>2, <1>1 DEF ReceiveEntry
<1> HIDE DEF e, b
<1>11. Shapes'
  BY <1>2, <1>4, <1>5, <1>6, <1>7, <1>9, <1>10 DEF IInv, Shapes
<1>12. QueuesAligned'
  BY <1>2, <1>3, <1>4, <1>5, <1>6, <1>7, <1>9 DEF IInv, QueuesAligned
<1>13. ReleaseOK'
  BY <1>2, <1>5 DEF ReleaseOK
<1> QED
  BY <1>10, <1>11, <1>12, <1>13 DEF IInv

(* The oldest entry is released and leaves the archive. *)
LEMMA TransferOK == IInv /\ Transfer => IInv'
<1> SUFFICES ASSUME IInv, Transfer PROVE IInv'
  OBVIOUS
<1> DEFINE b == Len(wq) = 1
           n == xwr.can_receive \/ xwr.req_cnt # tot_req
<1>1. /\ TransferAData /\ xwr' = XWReaderTransfer(xwr)
      /\ pc = "transfer" /\ pc' = "mac"
  BY DEF Transfer, Goto
<1>2. /\ axwflag.can_transfer /\ wq' = Tail(wq) /\ UNCHANGED <<cache, w_map, inflight>>
      /\ axwflag' = [axwflag EXCEPT !.can_receive = TRUE, !.q_empty = b]
  BY <1>1 DEF TransferAData
<1>3. /\ wq # <<>> /\ wq \in Seq(Entries) /\ Len(wq) <= LIMIT_WQ_SIZE
      /\ xwr.xwq \in Seq(Entries) /\ xwr.xwq_archive \in Seq(Entries)
      /\ xwr.xwq_archive = wq \o xwr.xwq
      /\ xwr.q_space = 2 * Len(xwr.xwq_archive)
  BY <1>1, <1>2 DEF IInv, Shapes, QueuesAligned, ReleaseOK
<1>4. /\ Tail(wq) \in Seq(Entries) /\ Len(wq) \in Nat \ {0}
      /\ Len(Tail(wq)) = Len(wq) - 1
      /\ Tail(wq) = <<>> <=> b
  BY <1>3, Shorter
<1>5. /\ xwr.xwq_archive # <<>>
      /\ Tail(xwr.xwq_archive) = Tail(wq) \o xwr.xwq
  BY <1>3, TailInFront
<1>6. /\ Tail(xwr.xwq_archive) \in Seq(Entries)
      /\ 2 * Len(Tail(xwr.xwq_archive)) = xwr.q_space - 2
  <2>1. /\ Tail(xwr.xwq_archive) \in Seq(Entries) /\ Len(xwr.xwq_archive) \in Nat \ {0}
        /\ Len(Tail(xwr.xwq_archive)) = Len(xwr.xwq_archive) - 1
    BY <1>3, <1>5, Shorter
  <2> QED
    BY <2>1, <1>3
<1>7. /\ Reader' /\ xwr'.xwq = xwr.xwq /\ xwr'.xwq_archive = Tail(xwr.xwq_archive)
      /\ xwr'.q_space = xwr.q_space - 2 /\ xwr'.q_empty = xwr.q_empty
  <2>1. xwr' = [xwq |-> xwr.xwq, xwq_archive |-> Tail(xwr.xwq_archive),
                q_space |-> xwr.q_space - 2, req_cnt |-> xwr.req_cnt,
                q_empty |-> xwr.q_empty, can_receive |-> n]
    BY <1>1 DEF IInv, Shapes, Reader, XWReaderTransfer
  <2> HIDE DEF n
  <2> QED
    BY <2>1 DEF Reader
<1>8. b \in BOOLEAN
  OBVIOUS
<1> HIDE DEF b
<1>9. /\ axwflag' \in [can_transfer : BOOLEAN, can_receive : BOOLEAN, q_empty : BOOLEAN]
      /\ axwflag'.can_receive = TRUE /\ axwflag'.q_empty = b
  BY <1>2, <1>8 DEF IInv, Shapes
<1>10. Len(wq') < LIMIT_WQ_SIZE
  BY <1>2, <1>3, <1>4, BufferAssumption
<1>11. Shapes'
  BY <1>2, <1>3, <1>4, <1>6, <1>7, <1>9, <1>10, BufferAssumption DEF IInv, Shapes
<1>12. QueuesAligned'
  BY <1>2, <1>4, <1>5, <1>6, <1>7, <1>9, <1>10 DEF IInv, QueuesAligned
<1>13. \A l \in Lines : Fetched(l)'
  BY <1>2, NothingAsked DEF IInv
<1> QED
  BY <1>1, <1>11, <1>12, <1>13 DEF IInv, ReleaseOK

(* Steps of the loop that leave the buffer and the XWReader alone. *)
LEMMA StutterOK ==
    ASSUME IInv, UNCHANGED <<gbVars, xwr>>, ReleaseOK'
    PROVE  IInv'
<1>1. Shapes' /\ QueuesAligned'
  BY DEF IInv, Shapes, Reader, QueuesAligned, gbVars
<1>2. \A l \in Lines : Fetched(l)'
  BY NothingAsked DEF IInv, gbVars
<1> QED
  BY <1>1, <1>2 DEF IInv

(* Every step preserves the invariant. *)
LEMMA NextOK == IInv /\ [Next]_vars => IInv'
<1> SUFFICES ASSUME IInv, [Next]_vars PROVE IInv'
  OBVIOUS
<1>1. CASE ReadEntry
  BY <1>1, ReadEntryOK
<1>2. CASE NoEntry
  BY <1>2, StutterOK DEF NoEntry, Goto, ReleaseOK
<1>3. CASE \E line \in Lines : Arrive(line)
  BY <1>3, ArriveOK
<1>4. CASE NoArrival
  BY <1>4, StutterOK DEF NoArrival, Goto, ReleaseOK
<1>5. CASE Check
  BY <1>5, CheckOK
<1>6. CASE Receive
  BY <1>6, ReceiveOK
<1>7. CASE NoReceive
  BY <1>7, StutterOK DEF NoReceive, Goto, ReleaseOK, gbVars, IInv
<1>8. CASE Transfer
  BY <1>8, TransferOK
<1>9. CASE NoTransfer
  BY <1>9, StutterOK DEF NoTransfer, Goto, ReleaseOK
<1>10. CASE MAC
  BY <1>10, StutterOK DEF MAC, Goto, ReleaseOK
<1>11. CASE UNCHANGED vars
  BY <1>11, StutterOK DEF vars, ReleaseOK, gbVars, IInv
<1> QED
  BY <1>1, <1>2, <1>3, <1>4, <1>5, <1>6, <1>7, <1>8, <1>9, <1>10, <1>11 DEF Next

(* The invariant holds throughout. *)
LEMMA Invariance == Spec => []IInv
BY InitOK, NextOK, PTL DEF Spec

-----------------------------------------------------------------------------
(* ReceiveData(address) of the GlobalBuffer is only entered for a line     *)
(* that is not in the cache, each request is answered by one read and no   *)
(* line fills two ways, under every replacement policy.                    *)
THEOREM LinesStayUnique == Spec => []LinesUnique
BY Invariance, Consequence, PTL

(* The XWReader's archive is the buffer's queue followed by the entries    *)
(* the buffer has not received, so the entry handed to the Accelerator is  *)
(* the one the buffer releases; the flags of both tell whether their       *)
(* queues are empty or full.                                               *)
THEOREM QueuesStayAligned == Spec => []QueuesAligned
BY Invariance, Consequence, PTL
=============================================================================
