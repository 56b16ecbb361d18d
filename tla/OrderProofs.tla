---------------------------- MODULE OrderProofs ----------------------------
(***************************************************************************)
(* The order of reads and writes of one address, for split queues          *)
(* (read_queue_ and write_buffer_): a write is performed only when no read *)
(* of its address is pending.                                              *)
(*                                                                         *)
(* ControllerOK alone does not give it: it says where a pending            *)
(* transaction waits, not that a write and a read of one address are never *)
(* commands together. Ordered adds that: a write in the command queues has *)
(* no read pending. ScheduleTransaction establishes it for the write it    *)
(* moves ("Enforce R->W dependency", MustWait), AddTransaction keeps it    *)
(* because a read of an address with a write pending is answered at once   *)
(* and not noted, and IssueCommand only takes commands and reads away.     *)
(*                                                                         *)
(* With a unified queue ScheduleTransaction does not look at pending       *)
(* reads, and the order rests on HasRWDependency instead; that case is     *)
(* left to the runs.                                                       *)
(***************************************************************************)
EXTENDS DRAMSystemProofs, TLAPS

(* The transactions that may be in read_queue_. *)
ReadsOnly == {t \in Transaction : ~t.is_write}

(* A write in command queues g has no read of its address pending. *)
WritesAlone(g, rd) ==
  \A t \in Transaction :
    t.is_write /\ Has(g, TransToCommand(t)) => rd[t.addr] = 0

(* What a controller with split queues keeps besides ControllerOK. *)
Ordered(c) ==
  /\ c.queues["read"] \in Seq(ReadsOnly)
  /\ WritesAlone(c.cmd_queue.queues, c.pending_rd)

(* e has the queues and the pending transactions of c. *)
Kept(c, e) ==
  /\ e.queues = c.queues
  /\ e.pending_rd = c.pending_rd
  /\ e.pending_wr = c.pending_wr
  /\ e.cmd_queue.queues = c.cmd_queue.queues

(* From c to e reads and writes may have been performed, none added. *)
Issued(c, e) ==
  /\ e.queues = c.queues
  /\ \A a \in Addr : e.pending_rd[a] \in {0, c.pending_rd[a]}
  /\ e.pending_wr \subseteq c.pending_wr

(* A record with the fields of a controller. *)
Fields(c) ==
  c = Record(c.queues, c.pending_rd, c.pending_wr, c.return_queue,
             c.write_draining, c.channel_state, c.cmd_queue, c.refresh, c.bus)

(* ControllerOK includes it. *)
LEMMA ControllerFields ==
  ASSUME NEW c, ControllerOK(c)
  PROVE  Fields(c)
BY DEF ControllerOK, Fields, Record

(* IssueRead performs all pending reads of an address. *)
LEMMA ReadIssued ==
  ASSUME NEW c, Fields(c), NEW a, c.pending_rd \in [Addr -> Nat]
  PROVE  Fields(IssueRead(c, a)) /\ Issued(c, IssueRead(c, a))
<1> DEFINE cq == [c.cmd_queue EXCEPT !.exited = @ \/ c.pending_rd[a] = 0]
           rd == [c.pending_rd EXCEPT ![a] = 0]
           rq == c.return_queue \o Answers(a, c.pending_rd[a])
           b == OnBus(c.bus, RL)
           c1 == [c EXCEPT !.cmd_queue = cq]
           c2 == [c1 EXCEPT !.pending_rd = rd]
           c3 == [c2 EXCEPT !.return_queue = rq]
           c4 == [c3 EXCEPT !.bus = b]
<1>0. \A x \in Addr : rd[x] \in {0, c.pending_rd[x]}
  OBVIOUS
<1>r. /\ [c.pending_rd EXCEPT ![a] = 0] = rd
      /\ c.return_queue \o Answers(a, c.pending_rd[a]) = rq
      /\ [c.cmd_queue EXCEPT !.exited = @ \/ c.pending_rd[a] = 0] = cq
      /\ OnBus(c.bus, RL) = b
  OBVIOUS
<1> HIDE DEF cq, rd, rq, b
<1>1. /\ Fields(c1) /\ c1.queues = c.queues /\ c1.pending_rd = c.pending_rd
      /\ c1.pending_wr = c.pending_wr /\ c1.return_queue = c.return_queue
      /\ c1.bus = c.bus
  BY DEF Fields, Record
<1> HIDE DEF c1
<1>2. /\ Fields(c2) /\ c2.queues = c.queues /\ c2.pending_rd = rd
      /\ c2.pending_wr = c.pending_wr /\ c2.return_queue = c.return_queue
      /\ c2.bus = c.bus
  BY <1>1 DEF Fields, Record
<1> HIDE DEF c2
<1>3. /\ Fields(c3) /\ c3.queues = c.queues /\ c3.pending_rd = rd
      /\ c3.pending_wr = c.pending_wr /\ c3.bus = c.bus
  BY <1>2 DEF Fields, Record
<1> HIDE DEF c3
<1>4. /\ Fields(c4) /\ c4.queues = c.queues /\ c4.pending_rd = rd
      /\ c4.pending_wr = c.pending_wr
  BY <1>3 DEF Fields, Record
<1>5. IssueRead(c, a) = c4
  BY <1>r, <1>1, <1>2, <1>3 DEF IssueRead, c1, c2, c3
<1> QED
  BY <1>0, <1>4, <1>5 DEF Issued

(* IssueWrite performs the pending write of an address. *)
LEMMA WriteIssued ==
  ASSUME NEW c, Fields(c), NEW a, c.pending_rd \in [Addr -> Nat]
  PROVE  Fields(IssueWrite(c, a)) /\ Issued(c, IssueWrite(c, a))
<1> DEFINE cq == [c.cmd_queue EXCEPT !.exited = @ \/ a \notin c.pending_wr]
           wr == c.pending_wr \ {a}
           b == OnBus(c.bus, WL)
           c1 == [c EXCEPT !.cmd_queue = cq]
           c2 == [c1 EXCEPT !.pending_wr = wr]
           c3 == [c2 EXCEPT !.bus = b]
<1>0. wr \subseteq c.pending_wr
  OBVIOUS
<1>r. /\ c.pending_wr \ {a} = wr
      /\ [c.cmd_queue EXCEPT !.exited = @ \/ a \notin c.pending_wr] = cq
      /\ OnBus(c.bus, WL) = b
  OBVIOUS
<1> HIDE DEF cq, wr, b
<1>1. /\ Fields(c1) /\ c1.queues = c.queues /\ c1.pending_rd = c.pending_rd
      /\ c1.pending_wr = c.pending_wr /\ c1.bus = c.bus
  BY DEF Fields, Record
<1> HIDE DEF c1
<1>2. /\ Fields(c2) /\ c2.queues = c.queues /\ c2.pending_rd = c.pending_rd
      /\ c2.pending_wr = wr /\ c2.bus = c.bus
  BY <1>1 DEF Fields, Record
<1> HIDE DEF c2
<1>3. /\ Fields(c3) /\ c3.queues = c.queues /\ c3.pending_rd = c.pending_rd
      /\ c3.pending_wr = wr
  BY <1>2 DEF Fields, Record
<1>4. IssueWrite(c, a) = c3
  BY <1>r, <1>1, <1>2 DEF IssueWrite, c1, c2
<1> QED
  BY <1>0, <1>3, <1>4 DEF Issued

(* IssueCommand, whatever the command. *)
LEMMA CommandIssued ==
  ASSUME NEW c, Fields(c), NEW cmd, c.pending_rd \in [Addr -> Nat]
  PROVE  Issued(c, IssueCommand(c, cmd))
<1> DEFINE a == cmd.hex_addr
           d == CASE IsRead(cmd.cmd_type) -> IssueRead(c, a)
                  [] IsWrite(cmd.cmd_type) -> IssueWrite(c, a)
                  [] OTHER -> c
           ch == UpdateTimingAndStates(d.channel_state, cmd)
<1>1. Fields(d) /\ Issued(c, d)
  <2>1. Issued(c, c)
    BY DEF Issued
  <2>2. d \in {IssueRead(c, a), IssueWrite(c, a), c}
    BY DEF IsRead, IsWrite
  <2> HIDE DEF d, a
  <2> QED
    BY <2>1, <2>2, ReadIssued, WriteIssued
<1>2. IssueCommand(c, cmd) = [d EXCEPT !.channel_state = ch]
  BY DEF IssueCommand
<1> HIDE DEF d, ch
<1> QED
  BY <1>1, <1>2 DEF Fields, Record, Issued

(* The refresh and the command of a cycle. *)
LEMMA FirstIssued ==
  ASSUME NEW c, ControllerOK(c)
  PROVE  Issued(c, IssueFirst(c))
<1> DEFINE d == AfterRefresh(c)
           e == IF RefreshFirst(c) THEN d ELSE Take(d)
           cq == FinishRefresh(c.channel_state, c.cmd_queue)
           cq1 == TakeCommandToIssue(d.channel_state, d.cmd_queue)
<1>1. Fields(c) /\ c.pending_rd \in [Addr -> Nat]
  BY ControllerFields DEF ControllerOK
<1>2. /\ Fields(d) /\ d.queues = c.queues /\ d.pending_rd = c.pending_rd
      /\ d.pending_wr = c.pending_wr
  <2>1. d \in {c, [c EXCEPT !.cmd_queue = cq]}
    BY DEF AfterRefresh
  <2> HIDE DEF d, cq
  <2> QED
    BY <1>1, <2>1 DEF Fields, Record
<1>3. /\ Fields(e) /\ e.queues = c.queues /\ e.pending_rd = c.pending_rd
      /\ e.pending_wr = c.pending_wr
  <2>1. e \in {d, [d EXCEPT !.cmd_queue = cq1]}
    BY DEF Take
  <2> HIDE DEF d, e, cq1
  <2> QED
    BY <1>2, <2>1 DEF Fields, Record
<1>4. IssueFirst(c) \in {e, IssueCommand(e, FirstCommand(c))}
  BY DEF IssueFirst
<1> HIDE DEF e
<1>5. Issued(e, e) /\ Issued(e, IssueCommand(e, FirstCommand(c)))
  BY <1>1, <1>3, CommandIssued DEF Issued
<1> QED
  BY <1>3, <1>4, <1>5 DEF Issued

(* A write that is performed was in a command queue, since it left neither *)
(* transaction queue: no read of its address was pending.                  *)
LEMMA IssuedOrdered ==
  ASSUME NEW c, ControllerOK(c), Ordered(c), NEW e, ControllerOK(e), Issued(c, e)
  PROVE  /\ Ordered(e)
         /\ \A a \in c.pending_wr \ e.pending_wr : c.pending_rd[a] = 0
<1>1. ASSUME NEW t \in Transaction
      PROVE  /\ Travels(c.queues, c.cmd_queue.queues, t,
                        Pends(c.pending_rd, c.pending_wr, t))
             /\ Travels(c.queues, e.cmd_queue.queues, t,
                        Pends(e.pending_rd, e.pending_wr, t))
  BY DEF ControllerOK, AllTravel, Issued
<1>2. ASSUME NEW t \in Transaction, t.is_write,
             Has(e.cmd_queue.queues, TransToCommand(t))
      PROVE  e.pending_rd[t.addr] = 0
  <2>1. t.addr \in c.pending_wr
    BY <1>1, <1>2 DEF Travels, Pends, Issued
  <2>2. Has(c.cmd_queue.queues, TransToCommand(t))
    BY <1>1, <1>2, <2>1 DEF Travels, Pends
  <2>3. c.pending_rd[t.addr] = 0 /\ t.addr \in Addr
    BY <1>2, <2>2 DEF Ordered, WritesAlone, Transaction
  <2> QED
    BY <2>3 DEF Issued
<1>3. ASSUME NEW a \in c.pending_wr \ e.pending_wr
      PROVE  c.pending_rd[a] = 0
  <2> DEFINE t == [addr |-> a, is_write |-> TRUE]
  <2>1. t \in Transaction /\ t.addr = a /\ t.is_write = TRUE
    BY DEF ControllerOK, Transaction
  <2> HIDE DEF t
  <2>2. Has(c.cmd_queue.queues, TransToCommand(t))
    BY <1>1, <2>1 DEF Travels, Pends
  <2> QED
    BY <2>1, <2>2 DEF Ordered, WritesAlone
<1> QED
  BY <1>2, <1>3 DEF Ordered, WritesAlone, Issued

(* Ordered depends on the queues and the pending transactions only. *)
LEMMA KeptOrdered ==
  ASSUME NEW c, Ordered(c), NEW e, Kept(c, e)
  PROVE  Ordered(e)
BY DEF Ordered, Kept

(* The refresh counter, the callbacks and the passing of time leave both   *)
(* alone.                                                                  *)
LEMMA TimeKeeps ==
  ASSUME NEW c, ControllerOK(c)
  PROVE  Kept(c, TickRefresh(c)) /\ Kept(c, Elapse(c)) /\ Kept(c, ReturnDoneTrans(c))
<1>1. Kept(c, TickRefresh(c))
  <2> DEFINE ch == RefreshChannel(c.channel_state, c.refresh)
             ref == RefreshTick(c.refresh)
  <2>1. TickRefresh(c) = [c EXCEPT !.channel_state = ch, !.refresh = ref]
    BY DEF TickRefresh
  <2> HIDE DEF ch, ref
  <2> QED
    BY <2>1 DEF ControllerOK, Kept
<1>2. Kept(c, Elapse(c))
  <2> DEFINE ch == ChannelElapse(c.channel_state)
             rq == SoonerReturned(c.return_queue)
             b == IF c.bus = <<>> THEN c.bus ELSE Tail(c.bus)
  <2>1. Elapse(c) = [c EXCEPT !.return_queue = rq, !.channel_state = ch, !.bus = b]
    BY DEF Elapse
  <2> HIDE DEF ch, rq, b
  <2> QED
    BY <2>1 DEF ControllerOK, Kept
<1>3. Kept(c, ReturnDoneTrans(c))
  <2> DEFINE rq == RemoveAt(c.return_queue, Min(Done(c)))
  <2>1. ReturnDoneTrans(c) = [c EXCEPT !.return_queue = rq]
    BY DEF ReturnDoneTrans
  <2> HIDE DEF rq
  <2> QED
    BY <2>1 DEF ControllerOK, Kept
<1> QED
  BY <1>1, <1>2, <1>3

(* AddTransaction: a read is noted only for an address without a pending   *)
(* write.                                                                  *)
LEMMA AddOrdered ==
  ASSUME NEW c, ControllerOK(c), Ordered(c), NEW t \in Transaction,
         ~config.unified_queue
  PROVE  /\ Ordered(AddTransaction(c, t))
         /\ c.pending_wr \subseteq AddTransaction(c, t).pending_wr
<1> DEFINE q == QueueFor(t.is_write)
           f == [c.queues EXCEPT ![q] = Append(@, t)]
           rd == [c.pending_rd EXCEPT ![t.addr] = @ + 1]
           wr == c.pending_wr \cup {t.addr}
           d == AddTransaction(c, t)
<1>0. /\ t.addr \in Addr /\ t.is_write \in BOOLEAN
      /\ q = IF t.is_write THEN "write" ELSE "read"
      /\ c.queues \in [TransQueue -> Seq(Transaction)]
      /\ c.pending_rd \in [Addr -> Nat]
  BY DEF Transaction, QueueFor, ControllerOK
<1>1. f["read"] \in Seq(ReadsOnly)
  <2>1. ~t.is_write => t \in ReadsOnly
    BY DEF ReadsOnly
  <2>2. f["read"] = IF t.is_write THEN c.queues["read"]
                    ELSE Append(c.queues["read"], t)
    BY <1>0 DEF TransQueue
  <2> HIDE DEF f, q
  <2> QED
    BY <2>1, <2>2, AppendProperties DEF Ordered
<1>2. t.addr \notin c.pending_wr => WritesAlone(c.cmd_queue.queues, rd)
  <2> SUFFICES ASSUME t.addr \notin c.pending_wr,
                      NEW s \in Transaction, s.is_write,
                      Has(c.cmd_queue.queues, TransToCommand(s))
               PROVE  rd[s.addr] = 0
    BY DEF WritesAlone
  <2>1. s.addr \in c.pending_wr
    BY DEF ControllerOK, AllTravel, Travels, Pends
  <2>2. c.pending_rd[s.addr] = 0 /\ s.addr \in Addr
    BY DEF Ordered, WritesAlone, Transaction
  <2> QED
    BY <1>0, <2>1, <2>2
<1>3. CASE t.addr \in c.pending_wr
  <2> DEFINE rq == Append(c.return_queue, Answer(t, 1))
  <2>1. d = [c EXCEPT !.return_queue = rq]
    BY <1>3 DEF AddTransaction
  <2> HIDE DEF d, rq
  <2>2. Kept(c, d)
    BY <2>1 DEF ControllerOK, Kept
  <2> QED
    BY <2>2, KeptOrdered DEF Kept, d
<1>4. CASE t.addr \notin c.pending_wr /\ t.is_write
  <2> DEFINE rq == Append(c.return_queue, Answer(t, 1))
  <2>1. d = [c EXCEPT !.return_queue = rq, !.pending_wr = wr, !.queues = f]
    BY <1>4 DEF AddTransaction, Enqueue, ControllerOK
  <2>2. c.pending_wr \subseteq wr
    OBVIOUS
  <2> HIDE DEF d, rq, f, wr
  <2>3. /\ d.queues = f /\ d.pending_wr = wr /\ d.pending_rd = c.pending_rd
        /\ d.cmd_queue = c.cmd_queue
    BY <2>1 DEF ControllerOK
  <2>4. Ordered(d) /\ c.pending_wr \subseteq d.pending_wr
    BY <1>1, <2>2, <2>3 DEF Ordered
  <2> QED
    BY <2>4 DEF d
<1>5. CASE t.addr \notin c.pending_wr /\ ~t.is_write
  <2>1. d \in {[c EXCEPT !.pending_rd = rd, !.queues = f], [c EXCEPT !.pending_rd = rd]}
    <3>1. CASE c.pending_rd[t.addr] = 0
      BY <1>5, <3>1 DEF AddTransaction, Enqueue, ControllerOK
    <3>2. CASE c.pending_rd[t.addr] # 0
      BY <1>5, <3>2 DEF AddTransaction, ControllerOK
    <3> QED
      BY <3>1, <3>2
  <2> HIDE DEF d, rd, f
  <2>2. /\ d.queues \in {f, c.queues} /\ d.pending_wr = c.pending_wr
        /\ d.pending_rd = rd /\ d.cmd_queue = c.cmd_queue
    BY <2>1 DEF ControllerOK
  <2>3. Ordered(d) /\ c.pending_wr \subseteq d.pending_wr
    BY <1>1, <1>2, <1>5, <2>2 DEF Ordered
  <2> QED
    BY <2>3 DEF d
<1> QED
  BY <1>0, <1>3, <1>4, <1>5

(* ScheduleTransaction: only a write that need not wait becomes a command. *)
LEMMA ScheduleOrdered ==
  ASSUME NEW c, ControllerOK(c), Ordered(c), ~config.unified_queue
  PROVE  /\ Ordered(ScheduleTransaction(c))
         /\ ScheduleTransaction(c).pending_wr = c.pending_wr
<1> DEFINE draining == IF StartsDraining(c) THEN Len(c.queues["write"])
                       ELSE c.write_draining
           q == QueueFor(draining > 0)
           fits == {i \in DOMAIN c.queues[q] :
                      WillAcceptCommand(c.cmd_queue,
                                        AddressMapping(c.queues[q][i].addr))}
           i == Min(fits)
           t == c.queues[q][i]
           d == ScheduleTransaction(c)
<1>1. \A r \in TransQueue : /\ c.queues[r] \in Seq(Transaction)
                            /\ DOMAIN c.queues[r] = 1 .. Len(c.queues[r])
                            /\ Len(c.queues[r]) \in Nat
  BY LenProperties DEF ControllerOK
<1>2. q \in {"read", "write"} /\ q \in TransQueue
  BY DEF QueueFor, TransQueue
<1>3. CASE fits = {} \/ MustWait(c, q, t)
  <2>1. PICK n : d = [c EXCEPT !.write_draining = n]
    BY <1>3 DEF ScheduleTransaction
  <2> HIDE DEF d
  <2>2. Kept(c, d)
    BY <2>1 DEF ControllerOK, Kept
  <2> QED
    BY <2>2, KeptOrdered DEF Kept, d
<1>4. CASE fits # {} /\ ~MustWait(c, q, t)
  <2> DEFINE n == CountDown(q, draining)
             f == [c.queues EXCEPT ![q] = RemoveAt(@, i)]
             cmd == TransToCommand(t)
             k == GetQueueIndex(cmd.addr)
             g == [c.cmd_queue.queues EXCEPT ![k] = Append(@, cmd)]
             cq == AddCommand(c.cmd_queue, cmd)
  <2>1. d = [c EXCEPT !.write_draining = n, !.cmd_queue = cq, !.queues = f]
    <3>1. d = [c EXCEPT !.write_draining = CountDown(q, draining),
                        !.cmd_queue = AddCommand(@, TransToCommand(t)),
                        !.queues[q] = RemoveAt(@, i)]
      BY <1>4 DEF ScheduleTransaction
    <3> HIDE DEF d, draining, q, i, t
    <3> QED
      BY <3>1 DEF ControllerOK
  <2>2. i \in 1 .. Len(c.queues[q])
    <3>1. fits \subseteq Nat /\ fits \subseteq 1 .. Len(c.queues[q])
      BY <1>1, <1>2
    <3> HIDE DEF fits
    <3> QED
      BY <1>4, <3>1, MinIsIn
  <2> HIDE DEF d, fits, i
  <2>3. t \in Transaction
    BY <1>1, <1>2, <2>2, ElementOfSeq
  <2>4. cmd \in RWCommand /\ k \in QueueIndex
    BY <2>3, CommandOfTransaction
  <2>5. cq.queues = g
    BY DEF AddCommand, ControllerOK, QueueOK
  <2>6. \A x : Has(g, x) <=> Has(c.cmd_queue.queues, x) \/ x = cmd
    <3> DEFINE h == c.cmd_queue.queues
    <3>1. h \in [QueueIndex -> Seq(RWCommand)]
      BY DEF ControllerOK, QueueOK
    <3> HIDE DEF cmd, k, h
    <3>2. LET u == [h EXCEPT ![k] = Append(@, cmd)] IN
          /\ u \in [QueueIndex -> Seq(RWCommand)]
          /\ \A x : Has(u, x) <=> Has(h, x) \/ x = cmd
          /\ \A x : AtMostOnce(h, x) /\ (x = cmd => ~Has(h, x)) => AtMostOnce(u, x)
      BY ONLY <2>4, <3>1, AppendToTable
    <3> QED
      BY <3>2 DEF h
  <2>7. t.is_write => c.pending_rd[t.addr] = 0
    <3>1. CASE q = "write"
      <4>1. c.pending_rd[t.addr] \in Nat
        BY <2>3 DEF ControllerOK, Transaction
      <4> HIDE DEF q, t
      <4> QED
        BY <1>4, <3>1, <4>1 DEF MustWait
    <3>2. CASE q = "read"
      <4>1. t \in ReadsOnly
        BY <2>2, <3>2, ElementOfSeq DEF Ordered
      <4> QED
        BY <4>1 DEF ReadsOnly
    <3> HIDE DEF q
    <3> QED
      BY <1>2, <3>1, <3>2
  <2>8. WritesAlone(g, c.pending_rd)
    <3> SUFFICES ASSUME NEW s \in Transaction, s.is_write, Has(g, TransToCommand(s))
                 PROVE  c.pending_rd[s.addr] = 0
      BY DEF WritesAlone
    <3> HIDE DEF g, q, t
    <3>1. TransToCommand(s) = cmd => s = t
      BY <2>3, SameTransaction
    <3> QED
      BY <2>6, <2>7, <3>1 DEF Ordered, WritesAlone
  <2>9. f["read"] \in Seq(ReadsOnly)
    <3>1. c.queues["read"] \in Seq(ReadsOnly)
      BY DEF Ordered
    <3>2. f["read"] = IF q = "read" THEN RemoveAt(c.queues["read"], i)
                      ELSE c.queues["read"]
      <4> HIDE DEF q
      <4> QED
        BY DEF ControllerOK, TransQueue
    <3> HIDE DEF f, q
    <3>3. q = "read" => RemoveAt(c.queues["read"], i) \in Seq(ReadsOnly)
      BY <2>2, <3>1, RemoveAtProperties
    <3> QED
      BY <3>1, <3>2, <3>3
  <2> HIDE DEF n, f, cq, g
  <2>10. /\ d.queues = f /\ d.cmd_queue = cq /\ d.pending_rd = c.pending_rd
         /\ d.pending_wr = c.pending_wr
    BY <2>1 DEF ControllerOK
  <2>11. Ordered(d) /\ d.pending_wr = c.pending_wr
    BY <2>5, <2>8, <2>9, <2>10 DEF Ordered
  <2> QED
    BY <2>11 DEF d
<1> QED
  BY <1>3, <1>4

(* A whole cycle. *)
LEMMA TickOrdered ==
  ASSUME NEW c, ControllerOK(c), Ordered(c), ~enable_hbm_dual_cmd,
         ~config.enable_self_refresh, ~config.unified_queue
  PROVE  /\ Ordered(ClockTick(c))
         /\ \A a \in c.pending_wr \ ClockTick(c).pending_wr : c.pending_rd[a] = 0
<1> DEFINE d == TickRefresh(c)
           e == IssueFirst(d)
           s == ScheduleTransaction(e)
<1>1. ControllerOK(d) /\ Ordered(d) /\ Kept(c, d)
  BY TickRefreshOK, TimeKeeps, KeptOrdered
<1>2. ClockTick(c) = Elapse(s)
  BY DEF ClockTick, IssueSecond, CountIdle, SelfRefresh
<1> HIDE DEF d
<1>3. ControllerOK(e) /\ Issued(d, e)
  BY <1>1, IssueFirstOK, FirstIssued
<1> HIDE DEF e
<1>4. /\ Ordered(e)
      /\ \A a \in d.pending_wr \ e.pending_wr : d.pending_rd[a] = 0
  BY <1>1, <1>3, IssuedOrdered
<1>5. ControllerOK(s) /\ Ordered(s) /\ s.pending_wr = e.pending_wr
  BY <1>3, <1>4, ScheduleOK, ScheduleOrdered
<1> HIDE DEF s
<1>6. Ordered(Elapse(s)) /\ Kept(s, Elapse(s))
  BY <1>5, TimeKeeps, KeptOrdered
<1> QED
  BY <1>1, <1>2, <1>4, <1>5, <1>6 DEF Kept

(* The inductive invariant. *)
OrderInv == IInv /\ \A ch \in Channel : Ordered(ctrls[ch])

(* The constructor establishes it. *)
LEMMA OrderInit == Init => OrderInv
<1>1. Ordered(NewController)
  <2>1. \A x : ~Has(NewController.cmd_queue.queues, x)
    BY DEF NewController, NewCommandQueue, Has
  <2>2. NewController.queues["read"] = <<>>
    BY DEF NewController
  <2>3. << >> \in Seq(ReadsOnly)
    OBVIOUS
  <2> QED
    BY <2>1, <2>2, <2>3 DEF Ordered, WritesAlone
<1> QED
  BY <1>1, InitOK DEF Init, OrderInv

(* Every step keeps it, and performs a write only after the reads. *)
LEMMA OrderNext ==
  ASSUME ~enable_hbm_dual_cmd, ~config.enable_self_refresh, ~config.unified_queue
  PROVE  OrderInv /\ [Next]_vars => OrderInv' /\ [ReadFirst]_vars
<1> SUFFICES ASSUME OrderInv, [Next]_vars
             PROVE  /\ \A ch \in Channel : Ordered(ctrls'[ch])
                    /\ [ReadFirst]_vars
  BY NextOK DEF OrderInv
<1>0. \A ch \in Channel : ControllerOK(ctrls[ch]) /\ Ordered(ctrls[ch])
  BY DEF OrderInv, IInv
<1>1. ASSUME NEW t \in Traffic, Add(t)
      PROVE  (\A ch \in Channel : Ordered(ctrls'[ch])) /\ ReadFirst
  <2> DEFINE ch == GetChannel(t.addr)
  <2>1. t \in Transaction
    BY TrafficAssumption
  <2>2. ctrls' = [ctrls EXCEPT ![ch] = AddTransaction(ctrls[ch], t)]
    BY <1>1 DEF Add
  <2>3. ch \in Channel =>
          /\ Ordered(AddTransaction(ctrls[ch], t))
          /\ ctrls[ch].pending_wr \subseteq AddTransaction(ctrls[ch], t).pending_wr
    BY <1>0, <2>1, AddOrdered
  <2> HIDE DEF ch
  <2> QED
    BY <1>0, <2>2, <2>3 DEF OrderInv, IInv, ReadFirst
<1>2. ASSUME NEW ch \in Channel, Callback(ch)
      PROVE  (\A r \in Channel : Ordered(ctrls'[r])) /\ ReadFirst
  <2>1. ctrls' = [ctrls EXCEPT ![ch] = ReturnDoneTrans(ctrls[ch])]
    BY <1>2 DEF Callback
  <2>2. /\ Ordered(ReturnDoneTrans(ctrls[ch]))
        /\ Kept(ctrls[ch], ReturnDoneTrans(ctrls[ch]))
    BY <1>0, TimeKeeps, KeptOrdered
  <2> QED
    BY <1>0, <2>1, <2>2 DEF OrderInv, IInv, ReadFirst, Kept
<1>3. ASSUME Tick
      PROVE  (\A ch \in Channel : Ordered(ctrls'[ch])) /\ ReadFirst
  <2>1. ctrls' = [ch \in Channel |-> ClockTick(ctrls[ch])]
    BY <1>3 DEF Tick
  <2>2. \A ch \in Channel :
          /\ Ordered(ClockTick(ctrls[ch]))
          /\ \A a \in ctrls[ch].pending_wr \ ClockTick(ctrls[ch]).pending_wr :
               ctrls[ch].pending_rd[a] = 0
    BY <1>0, TickOrdered
  <2> QED
    BY <2>1, <2>2 DEF ReadFirst
<1>4. CASE UNCHANGED vars
  BY <1>0, <1>4 DEF vars
<1> QED
  BY <1>1, <1>2, <1>3, <1>4 DEF Next

(* A write is performed (IssueCommand takes it out of pending_wr_q_) only  *)
(* when no read of its address is pending, so no read that was added       *)
(* before the write sees its data: the check of ScheduleTransaction        *)
(* (controller.cc:216-217) suffices, although the read and the write       *)
(* travel through different queues.                                        *)
THEOREM ReadsGoFirst ==
  ASSUME ~enable_hbm_dual_cmd, ~config.enable_self_refresh, ~config.unified_queue
  PROVE  Spec => ReadsBeforeWrites
BY OrderInit, OrderNext, PTL DEF Spec, ReadsBeforeWrites
=============================================================================
