-------------------------- MODULE ControllerProofs --------------------------
(***************************************************************************)
(* The invariant of one controller, ControllerOK, and why every method of  *)
(* Controller keeps it.                                                    *)
(*                                                                         *)
(* Its centre is AllTravel. A transaction is pending (pending_rd_q_ or     *)
(* pending_wr_q_ knows its address) exactly when it waits in a transaction *)
(* queue or, as a command, in a command queue; it is never in both and     *)
(* never twice in one. None of the methods preserves a part of this alone: *)
(* AddTransaction may queue a transaction because nothing for its address  *)
(* is pending, ScheduleTransaction moves it from one queue to the other,   *)
(* IssueCommand may drop every pending read of an address because no       *)
(* second command for it is left.                                          *)
(*                                                                         *)
(* The rest of ControllerOK is what those steps need: the banks allow what *)
(* is issued (ChannelOK), a command is in the queue of its own bank        *)
(* (QueueOK, otherwise EraseRWCommand would look in the wrong queue and    *)
(* exit), and a drain is not longer than the write buffer.                 *)
(***************************************************************************)
EXTENDS Controller, ChannelStateProofs, TLAPS

(* The commands that TransToCommand makes. *)
RWCommand == {TransToCommand(t) : t \in Transaction}

(* The commands that belong in command queue i. *)
CommandsOf(i) == {cmd \in RWCommand : GetQueueIndex(cmd.addr) = i}

(* A CommandQueue that has not exited, each command in the queue of its    *)
(* bank.                                                                   *)
QueueOK(cq) ==
  /\ cq = [queues |-> cq.queues, queue_idx |-> cq.queue_idx,
           is_in_ref |-> cq.is_in_ref, ref_q_indices |-> cq.ref_q_indices,
           rank_q_empty |-> cq.rank_q_empty, exited |-> cq.exited]
  /\ cq.queues \in [QueueIndex -> Seq(RWCommand)]
  /\ \A i \in QueueIndex : cq.queues[i] \in Seq(CommandsOf(i))
  /\ cq.queue_idx \in Nat
  /\ cq.exited = FALSE

(* A transaction is pending: an address with a write, or with reads,       *)
(* noted.                                                                  *)
Pends(rd, wr, t) == IF t.is_write THEN t.addr \in wr ELSE rd[t.addr] > 0

(* Transaction t, pending or not, is in one queue once or in none. *)
Travels(f, g, t, pends) ==
  /\ pends <=> Has(f, t) \/ Has(g, TransToCommand(t))
  /\ ~(Has(f, t) /\ Has(g, TransToCommand(t)))
  /\ AtMostOnce(f, t)
  /\ AtMostOnce(g, TransToCommand(t))

(* The pending transactions are those of transaction queues f and command  *)
(* queues g.                                                               *)
AllTravel(f, g, rd, wr) ==
  \A t \in Transaction : Travels(f, g, t, Pends(rd, wr, t))

(* unified_queue_, read_queue_ and write_buffer_. *)
TransQueue == {"unified", "read", "write"}

(* The invariant of a controller. *)
ControllerOK(c) ==
  /\ c = [queues |-> c.queues, pending_rd |-> c.pending_rd,
          pending_wr |-> c.pending_wr, return_queue |-> c.return_queue,
          write_draining |-> c.write_draining,
          channel_state |-> c.channel_state, cmd_queue |-> c.cmd_queue,
          refresh |-> c.refresh, bus |-> c.bus]
  /\ c.queues \in [TransQueue -> Seq(Transaction)]
  /\ c.pending_rd \in [Addr -> Nat]
  /\ c.pending_wr \subseteq Addr
  /\ c.write_draining \in 0 .. Len(c.queues["write"])
  /\ ChannelOK(c.channel_state)
  /\ QueueOK(c.cmd_queue)
  /\ c.refresh = [left |-> c.refresh.left, next |-> c.refresh.next]
  /\ c.refresh.next \in Place
  /\ AllTravel(c.queues, c.cmd_queue.queues, c.pending_rd, c.pending_wr)

(* TransToCommand keeps the address and the direction, and names a bank    *)
(* and a queue that exist.                                                 *)
LEMMA CommandOfTransaction ==
  ASSUME NEW t \in Transaction
  PROVE  LET cmd == TransToCommand(t) IN
         /\ cmd \in RWCommand
         /\ IsCommand(cmd)
         /\ cmd.hex_addr = t.addr
         /\ cmd.addr = AddressMapping(t.addr)
         /\ IsReadWrite(cmd.cmd_type)
         /\ IsWrite(cmd.cmd_type) <=> t.is_write
         /\ IsRead(cmd.cmd_type) <=> ~t.is_write
         /\ PlaceOf(cmd.addr) \in Place
         /\ GetQueueIndex(cmd.addr) \in QueueIndex
         /\ cmd \in CommandsOf(GetQueueIndex(cmd.addr))
<1>1. TransToCommand(t) \in RWCommand
  BY DEF RWCommand
<1>2. t.addr \in Addr /\ t.is_write \in BOOLEAN
  BY DEF Transaction
<1>3. /\ TransToCommand(t).hex_addr = t.addr
      /\ TransToCommand(t).addr = AddressMapping(t.addr)
      /\ IsCommand(TransToCommand(t))
  BY DEF TransToCommand, Command, IsCommand
<1>4. /\ IsWrite(TransToCommand(t).cmd_type) <=> t.is_write
      /\ IsRead(TransToCommand(t).cmd_type) <=> ~t.is_write
  BY <1>2 DEF TransToCommand, Command, IsWrite, IsRead
<1> QED
  BY <1>1, <1>2, <1>3, <1>4, MappingAssumption DEF IsReadWrite, CommandsOf

(* Two transactions with the same command are the same; the comparison of  *)
(* EraseRWCommand (type and address) tells commands apart.                 *)
LEMMA SameTransaction ==
  ASSUME NEW s \in Transaction, NEW t \in Transaction,
         \/ TransToCommand(s) = TransToCommand(t)
         \/ SameCommand(TransToCommand(s), TransToCommand(t))
  PROVE  s = t
<1>1. s.addr = t.addr
  BY CommandOfTransaction DEF SameCommand
<1>2. s.is_write = t.is_write
  <2>1. s.is_write \in BOOLEAN /\ t.is_write \in BOOLEAN
    BY DEF Transaction
  <2>2. TransToCommand(s).cmd_type = TransToCommand(t).cmd_type
    BY DEF SameCommand
  <2> QED
    BY <2>1, <2>2, CommandOfTransaction
<1> QED
  BY <1>1, <1>2 DEF Transaction

(* AddTransaction: a transaction that was not pending is noted and queued. *)
LEMMA EnqueueTravels ==
  ASSUME NEW f \in [TransQueue -> Seq(Transaction)], NEW g,
         NEW rd, NEW wr, NEW rd2, NEW wr2,
         NEW q \in TransQueue, NEW s \in Transaction,
         AllTravel(f, g, rd, wr),
         ~Pends(rd, wr, s),
         Pends(rd2, wr2, s),
         \A t \in Transaction : t # s => (Pends(rd2, wr2, t) <=> Pends(rd, wr, t))
  PROVE  LET f2 == [f EXCEPT ![q] = Append(@, s)] IN
         /\ f2 \in [TransQueue -> Seq(Transaction)]
         /\ AllTravel(f2, g, rd2, wr2)
<1> DEFINE f2 == [f EXCEPT ![q] = Append(@, s)]
<1>1. /\ f2 \in [TransQueue -> Seq(Transaction)]
      /\ \A e : Has(f2, e) <=> Has(f, e) \/ e = s
      /\ \A e : AtMostOnce(f, e) /\ (e = s => ~Has(f, e)) => AtMostOnce(f2, e)
  BY AppendToTable
<1> HIDE DEF f2
<1>2. ASSUME NEW t \in Transaction PROVE Travels(f2, g, t, Pends(rd2, wr2, t))
  <2>1. Travels(f, g, t, Pends(rd, wr, t))
    BY DEF AllTravel
  <2> QED
    BY <1>1, <2>1 DEF Travels
<1> QED
  BY <1>1, <1>2 DEF AllTravel, f2

(* ScheduleTransaction: a transaction leaves its queue and its command     *)
(* enters a command queue; nothing stops or starts being pending.          *)
LEMMA MoveTravels ==
  ASSUME NEW f \in [TransQueue -> Seq(Transaction)],
         NEW g \in [QueueIndex -> Seq(RWCommand)], NEW rd, NEW wr,
         NEW q \in TransQueue, NEW k \in 1 .. Len(f[q]), NEW i \in QueueIndex,
         AllTravel(f, g, rd, wr)
  PROVE  LET f2 == [f EXCEPT ![q] = RemoveAt(@, k)]
             g2 == [g EXCEPT ![i] = Append(@, TransToCommand(f[q][k]))]
         IN  /\ f2 \in [TransQueue -> Seq(Transaction)]
             /\ g2 \in [QueueIndex -> Seq(RWCommand)]
             /\ AllTravel(f2, g2, rd, wr)
<1> DEFINE s == f[q][k]
           cmd == TransToCommand(s)
           f2 == [f EXCEPT ![q] = RemoveAt(@, k)]
           g2 == [g EXCEPT ![i] = Append(@, cmd)]
<1>0. f[q] \in Seq(Transaction) /\ s \in Transaction
  BY ElementOfSeq
<1>a. Has(f, s)
  BY <1>0, LenProperties DEF Has
<1>1. /\ f2 \in [TransQueue -> Seq(Transaction)]
      /\ \A e : AtMostOnce(f, e) => AtMostOnce(f2, e)
      /\ AtMostOnce(f, s) => ~Has(f2, s)
      /\ \A e : e # s => (Has(f2, e) <=> Has(f, e))
  BY RemoveFromTable
<1> HIDE DEF s
<1>2. cmd \in RWCommand
  BY <1>0, CommandOfTransaction
<1> HIDE DEF cmd
<1>3. /\ g2 \in [QueueIndex -> Seq(RWCommand)]
      /\ \A e : Has(g2, e) <=> Has(g, e) \/ e = cmd
      /\ \A e : AtMostOnce(g, e) /\ (e = cmd => ~Has(g, e)) => AtMostOnce(g2, e)
  BY <1>2, AppendToTable
<1> HIDE DEF f2, g2
<1>4. \A t \in Transaction : TransToCommand(t) = cmd <=> t = s
  BY <1>0, SameTransaction DEF cmd
<1>5. ASSUME NEW t \in Transaction PROVE Travels(f2, g2, t, Pends(rd, wr, t))
  <2>1. Travels(f, g, t, Pends(rd, wr, t))
    BY DEF AllTravel
  <2> QED
    BY <1>a, <1>1, <1>3, <1>4, <2>1 DEF Travels
<1> QED
  BY <1>1, <1>3, <1>5 DEF AllTravel, f2, g2, cmd, s

(* IssueCommand: the command of s leaves its queue and s stops being       *)
(* pending.                                                                *)
LEMMA EraseTravels ==
  ASSUME NEW f, NEW g \in [QueueIndex -> Seq(RWCommand)],
         NEW rd, NEW wr, NEW rd2, NEW wr2,
         NEW i \in QueueIndex, NEW k \in 1 .. Len(g[i]), NEW s \in Transaction,
         g[i][k] = TransToCommand(s),
         AllTravel(f, g, rd, wr),
         ~Pends(rd2, wr2, s),
         \A t \in Transaction : t # s => (Pends(rd2, wr2, t) <=> Pends(rd, wr, t))
  PROVE  LET g2 == [g EXCEPT ![i] = RemoveAt(@, k)] IN
         /\ g2 \in [QueueIndex -> Seq(RWCommand)]
         /\ AllTravel(f, g2, rd2, wr2)
<1> DEFINE g2 == [g EXCEPT ![i] = RemoveAt(@, k)]
           cmd == g[i][k]
<1>a. Has(g, cmd)
  BY LenProperties DEF Has
<1>1. /\ g2 \in [QueueIndex -> Seq(RWCommand)]
      /\ \A e : AtMostOnce(g, e) => AtMostOnce(g2, e)
      /\ AtMostOnce(g, cmd) => ~Has(g2, cmd)
      /\ \A e : e # cmd => (Has(g2, e) <=> Has(g, e))
  BY RemoveFromTable
<1>2. \A t \in Transaction : TransToCommand(t) = cmd <=> t = s
  BY SameTransaction
<1> HIDE DEF g2, cmd
<1>3. ASSUME NEW t \in Transaction PROVE Travels(f, g2, t, Pends(rd2, wr2, t))
  <2>1. Travels(f, g, t, Pends(rd, wr, t))
    BY DEF AllTravel
  <2> QED
    BY <1>a, <1>1, <1>2, <2>1 DEF Travels
<1> QED
  BY <1>1, <1>3 DEF AllTravel, g2
-----------------------------------------------------------------------------

(* The constructor of Controller. *)
LEMMA NewControllerOK == ControllerOK(NewController)
<1> DEFINE f == [q \in TransQueue |-> <<>>]
           g == [i \in QueueIndex |-> <<>>]
<1>1. /\ f \in [TransQueue -> Seq(Transaction)]
      /\ g \in [QueueIndex -> Seq(RWCommand)]
      /\ \A i \in QueueIndex : g[i] \in Seq(CommandsOf(i))
      /\ Len(f["write"]) = 0
  BY EmptySeq DEF TransQueue
<1>2. \A e : ~Has(f, e) /\ ~Has(g, e) /\ AtMostOnce(f, e) /\ AtMostOnce(g, e)
  BY DEF Has, AtMostOnce
<1>3. QueueOK(NewCommandQueue) /\ NewCommandQueue.queues = g
  BY <1>1 DEF QueueOK, NewCommandQueue
<1> HIDE DEF f, g
<1>4. AllTravel(f, g, [a \in Addr |-> 0], {})
  BY <1>2 DEF AllTravel, Travels, Pends, Transaction
<1>5. NewController.queues = f
  BY DEF NewController, f, TransQueue
<1>6. NewRefresh = [left |-> NewRefresh.left, next |-> NewRefresh.next]
  BY DEF NewRefresh
<1> DEFINE d == NewController
<1>7. d = [queues |-> f, pending_rd |-> [a \in Addr |-> 0], pending_wr |-> {},
           return_queue |-> <<>>, write_draining |-> 0,
           channel_state |-> NewChannelState, cmd_queue |-> NewCommandQueue,
           refresh |-> NewRefresh, bus |-> <<>>]
  BY <1>5 DEF NewController
<1> HIDE DEF d
<1>8. ControllerOK(d)
  BY <1>1, <1>3, <1>4, <1>6, <1>7, NewChannelOK DEF ControllerOK
<1> QED
  BY <1>8 DEF d

(* AddTransaction, merged or not, keeps the invariant. *)
LEMMA AddTransactionOK ==
  ASSUME NEW c, ControllerOK(c), NEW t \in Transaction
  PROVE  ControllerOK(AddTransaction(c, t))
<1> DEFINE q == QueueFor(t.is_write)
           f == [c.queues EXCEPT ![q] = Append(@, t)]
           d == AddTransaction(c, t)
<1>0. t.addr \in Addr /\ t.is_write \in BOOLEAN /\ q \in TransQueue
  BY DEF Transaction, QueueFor, TransQueue
<1>1. CASE t.addr \in c.pending_wr
  BY <1>1 DEF AddTransaction, ControllerOK
<1>a. c.write_draining \in 0 .. Len(f["write"])
  <2>1. /\ c.queues["write"] \in Seq(Transaction)
        /\ Len(c.queues["write"]) \in Nat
        /\ Len(Append(c.queues["write"], t)) = Len(c.queues["write"]) + 1
    BY AppendProperties, LenProperties DEF ControllerOK, TransQueue
  <2>2. f["write"] \in {c.queues["write"], Append(c.queues["write"], t)}
    BY <1>0 DEF ControllerOK, TransQueue
  <2> QED
    BY <2>1, <2>2 DEF ControllerOK
<1>2. CASE t.addr \notin c.pending_wr /\ t.is_write
  <2> DEFINE wr == c.pending_wr \cup {t.addr}
  <2>1. /\ ~Pends(c.pending_rd, c.pending_wr, t)
        /\ Pends(c.pending_rd, wr, t)
        /\ \A s \in Transaction : s # t =>
             (Pends(c.pending_rd, wr, s) <=> Pends(c.pending_rd, c.pending_wr, s))
    BY <1>2 DEF Pends, Transaction
  <2>2. wr \subseteq Addr
    BY <1>0 DEF ControllerOK
  <2> HIDE DEF wr
  <2>3. /\ f \in [TransQueue -> Seq(Transaction)]
        /\ AllTravel(f, c.cmd_queue.queues, c.pending_rd, wr)
    BY <1>0, <2>1, EnqueueTravels DEF ControllerOK
  <2>4. d = [c EXCEPT !.return_queue = Append(@, Answer(t, 1)),
                      !.pending_wr = wr, !.queues = f]
    BY <1>2 DEF AddTransaction, Enqueue, wr, ControllerOK
  <2> HIDE DEF f, d
  <2>5. ControllerOK(d)
    BY <1>a, <2>2, <2>3, <2>4 DEF ControllerOK
  <2> QED
    BY <2>5 DEF d
<1>3. CASE t.addr \notin c.pending_wr /\ ~t.is_write
  <2> DEFINE rd == [c.pending_rd EXCEPT ![t.addr] = @ + 1]
  <2>1. rd \in [Addr -> Nat] /\ rd[t.addr] = c.pending_rd[t.addr] + 1
        /\ c.pending_rd[t.addr] \in Nat
        /\ \A a \in Addr : a # t.addr => rd[a] = c.pending_rd[a]
    BY <1>0 DEF ControllerOK
  <2> HIDE DEF rd
  <2>2. /\ Pends(rd, c.pending_wr, t)
        /\ \A s \in Transaction : s # t =>
             (Pends(rd, c.pending_wr, s) <=> Pends(c.pending_rd, c.pending_wr, s))
    BY <1>3, <2>1 DEF Pends, Transaction
  <2>3. CASE c.pending_rd[t.addr] = 0
    <3>1. ~Pends(c.pending_rd, c.pending_wr, t)
      BY <1>3, <2>3 DEF Pends
    <3>2. /\ f \in [TransQueue -> Seq(Transaction)]
          /\ AllTravel(f, c.cmd_queue.queues, rd, c.pending_wr)
      BY <1>0, <2>2, <3>1, EnqueueTravels DEF ControllerOK
    <3>3. d = [c EXCEPT !.pending_rd = rd, !.queues = f]
      BY <1>3, <2>3 DEF AddTransaction, Enqueue, rd, ControllerOK
    <3> HIDE DEF f, d
    <3>4. ControllerOK(d)
      BY <1>a, <2>1, <3>2, <3>3 DEF ControllerOK
    <3> QED
      BY <3>4 DEF d
  <2>4. CASE c.pending_rd[t.addr] # 0
    <3>1. Pends(c.pending_rd, c.pending_wr, t)
      BY <1>3, <2>1, <2>4 DEF Pends
    <3>2. AllTravel(c.queues, c.cmd_queue.queues, rd, c.pending_wr)
      BY <2>2, <3>1 DEF ControllerOK, AllTravel, Travels
    <3>3. d = [c EXCEPT !.pending_rd = rd]
      BY <1>3, <2>4 DEF AddTransaction, rd, ControllerOK
    <3> HIDE DEF f, d
    <3>4. ControllerOK(d)
      BY <2>1, <3>2, <3>3 DEF ControllerOK
    <3> QED
      BY <3>4 DEF d
  <2> QED
    BY <2>3, <2>4
<1> QED
  BY <1>0, <1>1, <1>2, <1>3

(* ReturnDoneTrans only shortens the return queue. *)
LEMMA ReturnOK ==
  ASSUME NEW c, ControllerOK(c)
  PROVE  ControllerOK(ReturnDoneTrans(c))
<1> DEFINE rq == RemoveAt(c.return_queue, Min(Done(c)))
<1>1. ReturnDoneTrans(c) = [c EXCEPT !.return_queue = rq]
  BY DEF ReturnDoneTrans
<1> HIDE DEF rq
<1> QED
  BY <1>1 DEF ControllerOK

(* Refresh::ClockTick only adds to the refresh queue. *)
LEMMA TickRefreshOK ==
  ASSUME NEW c, ControllerOK(c)
  PROVE  ControllerOK(TickRefresh(c))
<1> DEFINE ch == RefreshChannel(c.channel_state, c.refresh)
           ref == RefreshTick(c.refresh)
<1>1. /\ ChannelOK(ch)
      /\ ref = [left |-> ref.left, next |-> ref.next]
      /\ ref.next \in Place
  BY RefreshChannelOK, RefreshTickOK DEF ControllerOK
<1>2. TickRefresh(c) = [c EXCEPT !.channel_state = ch, !.refresh = ref]
  BY DEF TickRefresh
<1> HIDE DEF ch, ref
<1> QED
  BY <1>1, <1>2 DEF ControllerOK

(* FinishRefresh holds queues back and releases them; no command moves. *)
LEMMA AfterRefreshOK ==
  ASSUME NEW c, ControllerOK(c)
  PROVE  /\ ControllerOK(AfterRefresh(c))
         /\ AfterRefresh(c).channel_state = c.channel_state
<1> DEFINE cq == FinishRefresh(c.channel_state, c.cmd_queue)
<1>1. QueueOK(cq) /\ cq.queues = c.cmd_queue.queues
  BY DEF ControllerOK, QueueOK, FinishRefresh
<1> HIDE DEF cq
<1>2. AfterRefresh(c) = c \/ AfterRefresh(c) = [c EXCEPT !.cmd_queue = cq]
  BY DEF AfterRefresh, cq
<1> QED
  BY <1>1, <1>2 DEF ControllerOK

(* Time changes waits only. *)
LEMMA ControllerElapseOK ==
  ASSUME NEW c, ControllerOK(c)
  PROVE  ControllerOK(Elapse(c))
<1> DEFINE ch == ChannelElapse(c.channel_state)
           rq == SoonerReturned(c.return_queue)
           b == IF c.bus = <<>> THEN c.bus ELSE Tail(c.bus)
<1>1. ChannelOK(ch)
  BY ElapseOK DEF ControllerOK
<1>2. Elapse(c) = [c EXCEPT !.return_queue = rq, !.channel_state = ch, !.bus = b]
  BY DEF Elapse
<1> HIDE DEF ch, rq, b
<1> QED
  BY <1>1, <1>2 DEF ControllerOK
-----------------------------------------------------------------------------

(* A command that moves no data (activate, precharge, refresh) leaves all  *)
(* transactions where they are.                                            *)
LEMMA IssueOtherOK ==
  ASSUME NEW c, NEW cmd, ControllerOK(c), Issuable(c.channel_state, cmd),
         ~IsReadWrite(cmd.cmd_type)
  PROVE  ControllerOK(IssueCommand(c, cmd))
<1> DEFINE ch == UpdateTimingAndStates(c.channel_state, cmd)
<1>1. ChannelOK(ch)
  BY UpdateOK DEF ControllerOK
<1>2. IssueCommand(c, cmd) = [c EXCEPT !.channel_state = ch]
  BY DEF IssueCommand, IsReadWrite
<1> HIDE DEF ch
<1> QED
  BY <1>1, <1>2 DEF ControllerOK

(* There is a command queue. *)
LEMMA NumQueues == num_queues \in Nat \ {0}
<1>1. banks \in Nat \ {0}
  BY StructureAssumption DEF banks
<1>2. ranks \in Nat \ {0}
  BY StructureAssumption DEF ranks
<1>3. \A x, y \in Nat \ {0} : x * y \in Nat \ {0}
  OBVIOUS
<1> QED
  BY <1>1, <1>2, <1>3 DEF num_queues

(* What GetCommandToIssue finds is issuable, and if it moves data it is an *)
(* entry of the queue it was found in.                                     *)
LEMMA ReadyFrom ==
  ASSUME NEW ch, NEW cq, ChannelOK(ch), QueueOK(cq), ReadyTurns(ch, cq) # {}
  PROVE  /\ NextQueue(ch, cq) \in QueueIndex
         /\ Issuable(ch, CommandToIssue(ch, cq))
         /\ IsReadWrite(CommandToIssue(ch, cq).cmd_type) =>
              \E k \in DOMAIN cq.queues[NextQueue(ch, cq)] :
                CommandToIssue(ch, cq) = cq.queues[NextQueue(ch, cq)][k]
<1> DEFINE n == Min(ReadyTurns(ch, cq))
           i == NextQueue(ch, cq)
           queue == cq.queues[i]
           k == Min(ReadyIn(ch, queue))
           cmd == CommandToIssue(ch, cq)
<1>1. n \in ReadyTurns(ch, cq)
  <2>1. ReadyTurns(ch, cq) \subseteq Nat
    BY NumQueues DEF ReadyTurns
  <2> QED
    BY <2>1, MinIsIn
<1> HIDE DEF n
<1>2. i \in QueueIndex /\ ReadyIn(ch, queue) # {}
  <2>1. n \in Nat /\ ReadyIn(ch, cq.queues[Turn(cq, n)]) # {}
    BY <1>1, NumQueues DEF ReadyTurns
  <2>2. Turn(cq, n) \in 0 .. num_queues - 1
    BY <2>1, NumQueues DEF Turn, QueueOK
  <2> QED
    BY <2>1, <2>2 DEF NextQueue, QueueIndex, n
<1>3. queue \in Seq(RWCommand) /\ DOMAIN queue = 1 .. Len(queue) /\ Len(queue) \in Nat
  BY <1>2, LenProperties DEF QueueOK
<1> HIDE DEF queue, i
<1>4. k \in DOMAIN queue /\ IsReady(ch, queue, k)
  <2>1. ReadyIn(ch, queue) \subseteq Nat
    BY <1>3 DEF ReadyIn
  <2>2. k \in ReadyIn(ch, queue)
    BY <1>2, <2>1, MinIsIn
  <2> QED
    BY <2>2 DEF ReadyIn
<1>5. cmd = GetReadyCommand(ch, queue[k])
  BY DEF CommandToIssue, GetFirstReadyInQueue, queue, i
<1> HIDE DEF k, cmd
<1>6. PICK t \in Transaction : queue[k] = TransToCommand(t)
  BY <1>3, <1>4, ElementOfSeq DEF RWCommand
<1>7. IsValid(GetReadyCommand(ch, queue[k]))
  BY <1>4 DEF IsReady
<1>8. /\ Issuable(ch, cmd)
      /\ cmd.cmd_type \in {"ACTIVATE", "PRECHARGE", queue[k].cmd_type}
      /\ cmd.cmd_type = queue[k].cmd_type => cmd = queue[k]
  BY <1>5, <1>6, <1>7, CommandOfTransaction, ToOneBank
<1>9. IsReadWrite(cmd.cmd_type) => cmd = queue[k]
  BY <1>8 DEF IsReadWrite, IsRead, IsWrite
<1> QED
  BY <1>2, <1>4, <1>8, <1>9 DEF cmd, queue, i

(* EraseRWCommand finds the command in the queue of its bank and takes out *)
(* an entry equal to it: it does not exit.                                 *)
LEMMA EraseFinds ==
  ASSUME NEW cq, QueueOK(cq), NEW i \in QueueIndex,
         NEW k \in DOMAIN cq.queues[i], NEW s \in Transaction,
         cq.queues[i][k] = TransToCommand(s)
  PROVE  \E j \in 1 .. Len(cq.queues[i]) :
           /\ cq.queues[i][j] = TransToCommand(s)
           /\ EraseRWCommand(cq, TransToCommand(s)) =
                [cq EXCEPT !.queues[i] = RemoveAt(@, j)]
<1> DEFINE cmd == TransToCommand(s)
           queue == cq.queues[i]
           Same(e) == SameCommand(e, cmd)
           J == {j \in 1 .. Len(queue) : Same(queue[j])}
<1>1. /\ queue \in Seq(RWCommand) /\ queue \in Seq(CommandsOf(i))
      /\ DOMAIN queue = 1 .. Len(queue) /\ Len(queue) \in Nat
  BY LenProperties DEF QueueOK
<1>2. GetQueueIndex(cmd.addr) = i
  BY <1>1, ElementOfSeq DEF CommandsOf
<1>3. Same(queue[k])
  BY DEF SameCommand
<1>4. J \subseteq Nat /\ J # {} /\ J \subseteq 1 .. Len(queue)
  BY <1>1, <1>3
<1>5. Min(J) \in J
  BY <1>4, MinIsIn
<1>6. queue[Min(J)] = cmd
  <2>1. Min(J) \in 1 .. Len(queue) /\ SameCommand(queue[Min(J)], cmd)
    BY <1>5
  <2>a. queue[Min(J)] \in RWCommand
    BY <1>1, <2>1, ElementOfSeq
  <2>2. PICK t \in Transaction : queue[Min(J)] = TransToCommand(t)
    BY <2>a DEF RWCommand
  <2> QED
    BY <2>1, <2>2, SameTransaction
<1>7. RemoveFirstMatch(queue, Same) = RemoveAt(queue, Min(J))
  BY <1>1, <1>3, <1>4 DEF RemoveFirstMatch, SelectInSeq
<1>8. EraseRWCommand(cq, cmd) = [cq EXCEPT !.queues[i] = RemoveAt(@, Min(J))]
  BY <1>1, <1>2, <1>3, <1>7 DEF EraseRWCommand
<1> QED
  BY <1>4, <1>5, <1>6, <1>8

(* A controller by its fields, and the two updates of IssueCommand as one  *)
(* operator each.                                                          *)
Record(q, rd, wr, rq, wd, ch, cq, ref, bus) ==
  [queues |-> q, pending_rd |-> rd, pending_wr |-> wr, return_queue |-> rq,
   write_draining |-> wd, channel_state |-> ch, cmd_queue |-> cq,
   refresh |-> ref, bus |-> bus]

Written(d, ch, cq, wr, bus) ==
  [d EXCEPT !.channel_state = ch, !.cmd_queue = cq, !.pending_wr = wr, !.bus = bus]

Answered(d, ch, cq, rd, rq, bus) ==
  [d EXCEPT !.channel_state = ch, !.cmd_queue = cq, !.pending_rd = rd,
            !.return_queue = rq, !.bus = bus]

(* The fields after Written. *)
LEMMA AfterWrite ==
  ASSUME NEW d, d = Record(d.queues, d.pending_rd, d.pending_wr, d.return_queue,
                 d.write_draining, d.channel_state, d.cmd_queue, d.refresh, d.bus),
         NEW ch, NEW cq, NEW wr, NEW bus
  PROVE  Written(d, ch, cq, wr, bus) =
          Record(d.queues, d.pending_rd, wr, d.return_queue,
                 d.write_draining, ch, cq, d.refresh, bus)
<1>1. [d EXCEPT !.channel_state = ch] =
          Record(d.queues, d.pending_rd, d.pending_wr, d.return_queue,
                 d.write_draining, ch, d.cmd_queue, d.refresh, d.bus)
  BY DEF Record
<1>2. [Record(d.queues, d.pending_rd, d.pending_wr, d.return_queue,
                 d.write_draining, ch, d.cmd_queue, d.refresh, d.bus) EXCEPT !.cmd_queue = cq] =
          Record(d.queues, d.pending_rd, d.pending_wr, d.return_queue,
                 d.write_draining, ch, cq, d.refresh, d.bus)
  BY DEF Record
<1>3. [Record(d.queues, d.pending_rd, d.pending_wr, d.return_queue,
                 d.write_draining, ch, cq, d.refresh, d.bus) EXCEPT !.pending_wr = wr] =
          Record(d.queues, d.pending_rd, wr, d.return_queue,
                 d.write_draining, ch, cq, d.refresh, d.bus)
  BY DEF Record
<1>4. [Record(d.queues, d.pending_rd, wr, d.return_queue,
                 d.write_draining, ch, cq, d.refresh, d.bus) EXCEPT !.bus = bus] =
          Record(d.queues, d.pending_rd, wr, d.return_queue,
                 d.write_draining, ch, cq, d.refresh, bus)
  BY DEF Record
<1> QED
  BY <1>1, <1>2, <1>3, <1>4 DEF Written

(* The fields after Answered. *)
LEMMA AfterRead ==
  ASSUME NEW d, d = Record(d.queues, d.pending_rd, d.pending_wr, d.return_queue,
                 d.write_draining, d.channel_state, d.cmd_queue, d.refresh, d.bus),
         NEW ch, NEW cq, NEW rd, NEW rq, NEW bus
  PROVE  Answered(d, ch, cq, rd, rq, bus) =
          Record(d.queues, rd, d.pending_wr, rq,
                 d.write_draining, ch, cq, d.refresh, bus)
<1>1. [d EXCEPT !.channel_state = ch] =
          Record(d.queues, d.pending_rd, d.pending_wr, d.return_queue,
                 d.write_draining, ch, d.cmd_queue, d.refresh, d.bus)
  BY DEF Record
<1>2. [Record(d.queues, d.pending_rd, d.pending_wr, d.return_queue,
                 d.write_draining, ch, d.cmd_queue, d.refresh, d.bus) EXCEPT !.cmd_queue = cq] =
          Record(d.queues, d.pending_rd, d.pending_wr, d.return_queue,
                 d.write_draining, ch, cq, d.refresh, d.bus)
  BY DEF Record
<1>3. [Record(d.queues, d.pending_rd, d.pending_wr, d.return_queue,
                 d.write_draining, ch, cq, d.refresh, d.bus) EXCEPT !.pending_rd = rd] =
          Record(d.queues, rd, d.pending_wr, d.return_queue,
                 d.write_draining, ch, cq, d.refresh, d.bus)
  BY DEF Record
<1>4. [Record(d.queues, rd, d.pending_wr, d.return_queue,
                 d.write_draining, ch, cq, d.refresh, d.bus) EXCEPT !.return_queue = rq] =
          Record(d.queues, rd, d.pending_wr, rq,
                 d.write_draining, ch, cq, d.refresh, d.bus)
  BY DEF Record
<1>5. [Record(d.queues, rd, d.pending_wr, rq,
                 d.write_draining, ch, cq, d.refresh, d.bus) EXCEPT !.bus = bus] =
          Record(d.queues, rd, d.pending_wr, rq,
                 d.write_draining, ch, cq, d.refresh, bus)
  BY DEF Record
<1>6. [d EXCEPT !.channel_state = ch, !.cmd_queue = cq, !.pending_rd = rd] =
          Record(d.queues, rd, d.pending_wr, d.return_queue,
                 d.write_draining, ch, cq, d.refresh, d.bus)
  BY <1>1, <1>2, <1>3
<1> QED
  BY <1>4, <1>5, <1>6 DEF Answered

(* Other contents of the command queues, each command in its own. *)
LEMMA OtherQueues ==
  ASSUME NEW cq, QueueOK(cq), NEW g \in [QueueIndex -> Seq(RWCommand)],
         \A i \in QueueIndex : g[i] \in Seq(CommandsOf(i))
  PROVE  LET cq2 == [cq EXCEPT !.queues = g]
         IN  QueueOK(cq2) /\ cq2.queues = g /\ cq2.exited = FALSE
<1> DEFINE cq2 == [cq EXCEPT !.queues = g]
<1>1. cq = [queues |-> cq.queues, queue_idx |-> cq.queue_idx,
            is_in_ref |-> cq.is_in_ref, ref_q_indices |-> cq.ref_q_indices,
            rank_q_empty |-> cq.rank_q_empty, exited |-> cq.exited]
  BY DEF QueueOK
<1>2. cq2 = [queues |-> g, queue_idx |-> cq.queue_idx,
             is_in_ref |-> cq.is_in_ref, ref_q_indices |-> cq.ref_q_indices,
             rank_q_empty |-> cq.rank_q_empty, exited |-> cq.exited]
  BY <1>1
<1> HIDE DEF cq2
<1>3. QueueOK(cq2) /\ cq2.queues = g /\ cq2.exited = FALSE
  BY <1>2 DEF QueueOK
<1> QED
  BY <1>3 DEF cq2

(* IssueCommand for an entry of a command queue: its address is pending,   *)
(* so the lookup does not fail, and it pends no more.                      *)
LEMMA IssueTransactionOK ==
  ASSUME NEW d, ControllerOK(d), NEW i \in QueueIndex,
         NEW j \in 1 .. Len(d.cmd_queue.queues[i]), NEW s \in Transaction,
         d.cmd_queue.queues[i][j] = TransToCommand(s),
         Issuable(d.channel_state, TransToCommand(s))
  PROVE  ControllerOK(IssueCommand(
           [d EXCEPT !.cmd_queue.queues[i] = RemoveAt(@, j)], TransToCommand(s)))
<1> DEFINE cmd == TransToCommand(s)
           ch == UpdateTimingAndStates(d.channel_state, cmd)
           g == [d.cmd_queue.queues EXCEPT ![i] = RemoveAt(@, j)]
           cq == [d.cmd_queue EXCEPT !.queues = g]
           e == [d EXCEPT !.cmd_queue.queues[i] = RemoveAt(@, j)]
           a == s.addr
<1>1. ChannelOK(ch)
  BY UpdateOK DEF ControllerOK
<1>2. /\ a \in Addr /\ s.is_write \in BOOLEAN
      /\ cmd.hex_addr = a
      /\ IsWrite(cmd.cmd_type) <=> s.is_write
      /\ IsRead(cmd.cmd_type) <=> ~s.is_write
  BY CommandOfTransaction DEF Transaction
<1>3. /\ d.cmd_queue.queues \in [QueueIndex -> Seq(RWCommand)]
      /\ d.cmd_queue.queues[i] \in Seq(CommandsOf(i))
      /\ QueueOK(d.cmd_queue)
  BY DEF ControllerOK, QueueOK
<1>4. g \in [QueueIndex -> Seq(RWCommand)]
  BY <1>3, RemoveFromTable
<1>5. \A r \in QueueIndex : g[r] \in Seq(CommandsOf(r))
  <2>1. RemoveAt(d.cmd_queue.queues[i], j) \in Seq(CommandsOf(i))
    BY <1>3, RemoveAtProperties
  <2> QED
    BY <1>3, <2>1 DEF QueueOK
<1>6. QueueOK(cq) /\ cq.queues = g /\ cq.exited = FALSE
  <2> HIDE DEF g
  <2> QED
    BY <1>3, <1>4, <1>5, OtherQueues
<1>7. Pends(d.pending_rd, d.pending_wr, s)
  <2>1. Has(d.cmd_queue.queues, cmd)
    BY <1>3, LenProperties DEF Has
  <2> QED
    BY <2>1 DEF ControllerOK, AllTravel, Travels
<1>8. e = [d EXCEPT !.cmd_queue = cq]
  BY DEF ControllerOK
<1>b. d = Record(d.queues, d.pending_rd, d.pending_wr, d.return_queue,
                 d.write_draining, d.channel_state, d.cmd_queue, d.refresh, d.bus)
  BY DEF ControllerOK, Record
<1>a. AllTravel(d.queues, d.cmd_queue.queues, d.pending_rd, d.pending_wr)
  BY DEF ControllerOK
<1> HIDE DEF e, cq
<1>9. CASE s.is_write
  <2> DEFINE wr == d.pending_wr \ {a}
             x == [d EXCEPT !.channel_state = ch, !.cmd_queue = cq,
                            !.pending_wr = wr, !.bus = OnBus(@, WL)]
  <2>1. /\ ~Pends(d.pending_rd, wr, s)
        /\ \A t \in Transaction : t # s =>
             (Pends(d.pending_rd, wr, t) <=> Pends(d.pending_rd, d.pending_wr, t))
    BY <1>9 DEF Pends, Transaction
  <2>2. wr \subseteq Addr
    BY DEF ControllerOK
  <2>3. AllTravel(d.queues, g, d.pending_rd, wr)
    <3> HIDE DEF wr
    <3> QED
      BY <1>3, <1>a, <2>1, EraseTravels
  <2>4. a \in d.pending_wr
    BY <1>7, <1>9 DEF Pends
  <2>5. IssueWrite(e, a) = [d EXCEPT !.cmd_queue = cq, !.pending_wr = wr,
                                     !.bus = OnBus(@, WL)]
    <3>1. /\ e.cmd_queue = cq /\ e.pending_wr = d.pending_wr
          /\ e.bus = d.bus
      BY <1>8 DEF ControllerOK
    <3>2. [cq EXCEPT !.exited = @ \/ a \notin d.pending_wr] = cq
      BY <1>6, <2>4 DEF QueueOK
    <3>3. IssueWrite(e, a) =
            [e EXCEPT !.cmd_queue = [cq EXCEPT !.exited = @ \/ a \notin d.pending_wr],
                      !.pending_wr = wr, !.bus = OnBus(d.bus, WL)]
      BY <3>1, <1>8 DEF IssueWrite, ControllerOK
    <3> QED
      BY <1>8, <3>2, <3>3 DEF ControllerOK
  <2>6. IssueCommand(e, cmd) = x
    <3>1. IssueCommand(e, cmd) =
            [IssueWrite(e, a) EXCEPT !.channel_state = UpdateTimingAndStates(@, cmd)]
      BY <1>2, <1>9 DEF IssueCommand
    <3> HIDE DEF wr, cmd, a
    <3> QED
      BY <2>5, <3>1 DEF ControllerOK
  <2>7. ControllerOK(x)
    <3> DEFINE y == OnBus(d.bus, WL)
    <3> HIDE DEF wr, ch, cmd, g, y
    <3>0. x = Written(d, ch, cq, wr, y)
      BY DEF Written, y
    <3> HIDE DEF x
    <3>1. x = Record(d.queues, d.pending_rd, wr, d.return_queue,
                     d.write_draining, ch, cq, d.refresh, y)
      BY <1>b, <3>0, AfterWrite
    <3> QED
      BY <1>1, <1>6, <2>2, <2>3, <3>1 DEF ControllerOK, Record
  <2> QED
    BY <2>6, <2>7 DEF e
<1>10. CASE ~s.is_write
  <2> DEFINE rd == [d.pending_rd EXCEPT ![a] = 0]
             rq == d.return_queue \o Answers(a, d.pending_rd[a])
             x == [d EXCEPT !.channel_state = ch, !.cmd_queue = cq,
                            !.pending_rd = rd, !.return_queue = rq,
                            !.bus = OnBus(@, RL)]
  <2>2. /\ rd \in [Addr -> Nat] /\ rd[a] = 0
        /\ \A b \in Addr : b # a => rd[b] = d.pending_rd[b]
    BY <1>2 DEF ControllerOK
  <2>1. /\ ~Pends(rd, d.pending_wr, s)
        /\ \A t \in Transaction : t # s =>
             (Pends(rd, d.pending_wr, t) <=> Pends(d.pending_rd, d.pending_wr, t))
    <3> HIDE DEF rd
    <3> QED
      BY <1>10, <2>2 DEF Pends, Transaction
  <2>3. AllTravel(d.queues, g, rd, d.pending_wr)
    <3> HIDE DEF rd
    <3> QED
      BY <1>3, <1>a, <2>1, EraseTravels
  <2>4. d.pending_rd[a] # 0
    BY <1>2, <1>7, <1>10 DEF Pends, ControllerOK
  <2>5. IssueRead(e, a) = [d EXCEPT !.cmd_queue = cq, !.pending_rd = rd,
                                    !.return_queue = rq, !.bus = OnBus(@, RL)]
    <3>1. /\ e.cmd_queue = cq /\ e.pending_rd = d.pending_rd
          /\ e.return_queue = d.return_queue /\ e.bus = d.bus
      BY <1>8 DEF ControllerOK
    <3>2. [cq EXCEPT !.exited = @ \/ d.pending_rd[a] = 0] = cq
      BY <1>6, <2>4 DEF QueueOK
    <3>3. IssueRead(e, a) =
            [e EXCEPT !.cmd_queue = [cq EXCEPT !.exited = @ \/ d.pending_rd[a] = 0],
                      !.pending_rd = rd, !.return_queue = rq,
                      !.bus = OnBus(d.bus, RL)]
      BY <3>1, <1>8 DEF IssueRead, ControllerOK
    <3> QED
      BY <1>8, <3>2, <3>3 DEF ControllerOK
  <2>6. IssueCommand(e, cmd) = x
    <3>1. IssueCommand(e, cmd) =
            [IssueRead(e, a) EXCEPT !.channel_state = UpdateTimingAndStates(@, cmd)]
      BY <1>2, <1>10 DEF IssueCommand
    <3> HIDE DEF rd, rq, cmd, a
    <3> QED
      BY <2>5, <3>1 DEF ControllerOK
  <2>7. ControllerOK(x)
    <3> DEFINE y == OnBus(d.bus, RL)
    <3> HIDE DEF rd, rq, ch, cmd, g, y
    <3>0. x = Answered(d, ch, cq, rd, rq, y)
      BY DEF Answered, y
    <3> HIDE DEF x
    <3>1. x = Record(d.queues, rd, d.pending_wr, rq,
                     d.write_draining, ch, cq, d.refresh, y)
      BY <1>b, <3>0, AfterRead
    <3> QED
      BY <1>1, <1>6, <2>2, <2>3, <3>1 DEF ControllerOK, Record
  <2> QED
    BY <2>6, <2>7 DEF e
<1> QED
  BY <1>2, <1>9, <1>10

(* GetCommandToIssue and the IssueCommand that follows it. *)
LEMMA TakeAndIssueOK ==
  ASSUME NEW c, ControllerOK(c)
  PROVE  ControllerOK(IF IsValid(CommandFrom(c))
                      THEN IssueCommand(Take(c), CommandFrom(c)) ELSE Take(c))
<1> DEFINE ch == c.channel_state
           cq == c.cmd_queue
           cmd == CommandFrom(c)
           i == NextQueue(ch, cq)
           cq1 == [cq EXCEPT !.queue_idx = i]
           d == [c EXCEPT !.cmd_queue = cq1]
<1>0. ChannelOK(ch) /\ QueueOK(cq)
  BY DEF ControllerOK
<1>1. CASE ReadyTurns(ch, cq) = {}
  <2>1. ~IsValid(cmd)
    BY <1>1 DEF CommandFrom, CommandToIssue, IsValid, NoCommand, Command
  <2>2. Take(c) = c
    BY <1>1 DEF Take, TakeCommandToIssue, ControllerOK
  <2> QED
    BY <2>1, <2>2
<1>2. CASE ReadyTurns(ch, cq) # {}
  <2>1. /\ i \in QueueIndex
        /\ Issuable(ch, cmd)
        /\ IsReadWrite(cmd.cmd_type) =>
             \E k \in DOMAIN cq.queues[i] : cmd = cq.queues[i][k]
    BY <1>0, <1>2, ReadyFrom DEF CommandFrom
  <2>2. QueueOK(cq1) /\ cq1.queues = cq.queues
    <3>1. i \in Nat
      BY <2>1, NumQueues DEF QueueIndex
    <3> HIDE DEF i
    <3> QED
      BY <1>0, <3>1 DEF QueueOK
  <2>3. ControllerOK(d) /\ d.channel_state = ch
    <3> HIDE DEF cq1
    <3> QED
      BY <2>2 DEF ControllerOK
  <2>4. CASE ~IsReadWrite(cmd.cmd_type)
    <3>1. Take(c) = d
      BY <1>2, <2>4 DEF Take, TakeCommandToIssue, CommandFrom
    <3> HIDE DEF d, cmd
    <3> QED
      BY <2>1, <2>3, <2>4, <3>1, IssueOtherOK DEF cmd
  <2>5. CASE IsReadWrite(cmd.cmd_type)
    <3>1. PICK k \in DOMAIN cq.queues[i] : cmd = cq.queues[i][k]
      BY <2>1, <2>5
    <3>2. cq.queues[i] \in Seq(RWCommand)
      BY <1>0, <2>1 DEF QueueOK
    <3>3. cmd \in RWCommand
      BY <3>1, <3>2, ElementOfSeq, LenProperties
    <3>4. PICK s \in Transaction : cmd = TransToCommand(s)
      BY <3>3 DEF RWCommand
    <3>5. PICK j \in 1 .. Len(cq1.queues[i]) :
            /\ cq1.queues[i][j] = TransToCommand(s)
            /\ EraseRWCommand(cq1, TransToCommand(s)) =
                 [cq1 EXCEPT !.queues[i] = RemoveAt(@, j)]
      <4>1. k \in DOMAIN cq1.queues[i] /\ cq1.queues[i][k] = TransToCommand(s)
        BY <2>2, <3>1, <3>4
      <4> HIDE DEF cq1, i, cmd
      <4> QED
        BY <2>1, <2>2, <4>1, EraseFinds
    <3>6. Take(c) = [d EXCEPT !.cmd_queue.queues[i] = RemoveAt(@, j)]
      <4>1. TakeCommandToIssue(ch, cq) = EraseRWCommand(cq1, cmd)
        BY <1>2, <2>5 DEF TakeCommandToIssue, CommandFrom
      <4>2. Take(c) = [c EXCEPT !.cmd_queue = EraseRWCommand(cq1, cmd)]
        BY <4>1 DEF Take
      <4> HIDE DEF cq1
      <4> QED
        BY <4>2, <3>4, <3>5 DEF ControllerOK
    <3>a. d.cmd_queue = cq1
      BY DEF ControllerOK
    <3> HIDE DEF d, cmd, cq1, i
    <3>b. Issuable(d.channel_state, TransToCommand(s))
      BY <2>1, <2>3, <3>4
    <3>c. ControllerOK(IssueCommand(
            [d EXCEPT !.cmd_queue.queues[i] = RemoveAt(@, j)], TransToCommand(s)))
      BY <2>1, <2>3, <3>5, <3>a, <3>b, IssueTransactionOK
    <3>7. ControllerOK(IssueCommand(Take(c), TransToCommand(s)))
      BY <3>6, <3>c
    <3>8. IsValid(cmd)
      BY <2>5 DEF IsValid, IsReadWrite, IsRead, IsWrite
    <3> QED
      BY <3>4, <3>7, <3>8 DEF cmd
  <2> QED
    BY <2>4, <2>5
<1> QED
  BY <1>1, <1>2

(* The command of a cycle: from the refresh, or from the command queues. *)
LEMMA IssueFirstOK ==
  ASSUME NEW c, ControllerOK(c)
  PROVE  ControllerOK(IssueFirst(c))
<1> DEFINE ch == c.channel_state
           d == AfterRefresh(c)
<1>1. ControllerOK(d) /\ d.channel_state = ch
  BY AfterRefreshOK
<1>2. CASE RefreshFirst(c)
  <2> DEFINE cmd == RefreshCommand(ch)
  <2>1. ch.refresh_q \in Seq(RefreshCommands) /\ ch.refresh_q # <<>> /\ ChannelOK(ch)
    BY <1>2 DEF RefreshFirst, IsRefreshWaiting, ControllerOK, ChannelOK
  <2>2. Head(ch.refresh_q) \in RefreshCommands
    BY <2>1, HeadTailProperties
  <2>3. IsValid(cmd)
    BY <1>2 DEF RefreshFirst
  <2>4. Issuable(ch, cmd) /\ ~IsReadWrite(cmd.cmd_type)
    BY <2>1, <2>2, <2>3, RefreshReady DEF RefreshCommand
  <2>5. IssueFirst(c) = IssueCommand(d, cmd)
    BY <1>2, <2>3 DEF IssueFirst, FirstCommand
  <2> HIDE DEF d, cmd
  <2> QED
    BY <1>1, <2>4, <2>5, IssueOtherOK
<1>3. CASE ~RefreshFirst(c)
  <2>1. IssueFirst(c) = IF IsValid(CommandFrom(d))
                        THEN IssueCommand(Take(d), CommandFrom(d)) ELSE Take(d)
    BY <1>3 DEF IssueFirst, FirstCommand
  <2> HIDE DEF d
  <2> QED
    BY <1>1, <2>1, TakeAndIssueOK
<1> QED
  BY <1>2, <1>3

(* ScheduleTransaction: a line that leaves the write buffer during a drain *)
(* is counted, and a drain starts with the lines that are there.           *)
LEMMA ScheduleOK ==
  ASSUME NEW c, ControllerOK(c)
  PROVE  ControllerOK(ScheduleTransaction(c))
<1> DEFINE draining == IF StartsDraining(c) THEN Len(c.queues["write"])
                       ELSE c.write_draining
           q == QueueFor(draining > 0)
           fits == {i \in DOMAIN c.queues[q] :
                      WillAcceptCommand(c.cmd_queue,
                                        AddressMapping(c.queues[q][i].addr))}
           i == Min(fits)
           t == c.queues[q][i]
<1>1. /\ \A r \in TransQueue : /\ c.queues[r] \in Seq(Transaction)
                               /\ Len(c.queues[r]) \in Nat
                               /\ DOMAIN c.queues[r] = 1 .. Len(c.queues[r])
      /\ draining \in 0 .. Len(c.queues["write"])
  <2>1. \A r \in TransQueue : /\ c.queues[r] \in Seq(Transaction)
                              /\ Len(c.queues[r]) \in Nat
                              /\ DOMAIN c.queues[r] = 1 .. Len(c.queues[r])
    BY LenProperties DEF ControllerOK
  <2>2. "write" \in TransQueue
    BY DEF TransQueue
  <2> QED
    BY <2>1, <2>2 DEF ControllerOK
<1>2. q \in TransQueue /\ (q = "write" => draining > 0)
  BY DEF QueueFor, TransQueue
<1>3. CASE fits = {}
  <2>1. ScheduleTransaction(c) = [c EXCEPT !.write_draining = draining]
    BY <1>3 DEF ScheduleTransaction
  <2> HIDE DEF draining
  <2> QED
    BY <1>1, <2>1 DEF ControllerOK
<1>4. CASE fits # {} /\ MustWait(c, q, t)
  <2>1. ScheduleTransaction(c) = [c EXCEPT !.write_draining = 0]
    BY <1>4 DEF ScheduleTransaction
  <2>2. 0 \in 0 .. Len(c.queues["write"])
    BY <1>1 DEF TransQueue
  <2> QED
    BY <2>1, <2>2 DEF ControllerOK
<1>5. CASE fits # {} /\ ~MustWait(c, q, t)
  <2> DEFINE n == CountDown(q, draining)
             f == [c.queues EXCEPT ![q] = RemoveAt(@, i)]
             cmd == TransToCommand(t)
             k == GetQueueIndex(cmd.addr)
             g == [c.cmd_queue.queues EXCEPT ![k] = Append(@, cmd)]
             cq == AddCommand(c.cmd_queue, cmd)
  <2>1. ScheduleTransaction(c) =
          [c EXCEPT !.write_draining = n, !.cmd_queue = cq, !.queues = f]
    <3>1. ScheduleTransaction(c) =
            [c EXCEPT !.write_draining = CountDown(q, draining),
                      !.cmd_queue = AddCommand(@, TransToCommand(t)),
                      !.queues[q] = RemoveAt(@, i)]
      BY <1>5 DEF ScheduleTransaction
    <3> HIDE DEF draining, q, i, t
    <3> QED
      BY <3>1 DEF ControllerOK
  <2>2. i \in 1 .. Len(c.queues[q])
    <3>1. fits \subseteq Nat /\ fits \subseteq 1 .. Len(c.queues[q])
      BY <1>1, <1>2
    <3> HIDE DEF fits
    <3> QED
      BY <1>5, <3>1, MinIsIn
  <2> HIDE DEF fits, i
  <2>3. t \in Transaction
    BY <1>1, <1>2, <2>2, ElementOfSeq
  <2>4. cmd \in RWCommand /\ k \in QueueIndex /\ cmd \in CommandsOf(k)
    BY <2>3, CommandOfTransaction
  <2>5. n \in 0 .. Len(f["write"])
    <3>1. /\ Len(RemoveAt(c.queues[q], i)) = Len(c.queues[q]) - 1
          /\ f["write"] = IF q = "write" THEN RemoveAt(c.queues[q], i)
                          ELSE c.queues["write"]
      BY <1>1, <1>2, <2>2, RemoveAtProperties DEF TransQueue, ControllerOK
    <3> HIDE DEF q, draining, f
    <3> QED
      BY <1>1, <1>2, <3>1 DEF CountDown, TransQueue
  <2>6. QueueOK(c.cmd_queue) /\ c.cmd_queue.queues \in [QueueIndex -> Seq(RWCommand)]
        /\ AllTravel(c.queues, c.cmd_queue.queues, c.pending_rd, c.pending_wr)
        /\ c.queues \in [TransQueue -> Seq(Transaction)]
    BY DEF ControllerOK, QueueOK
  <2> HIDE DEF q, draining
  <2>7. /\ f \in [TransQueue -> Seq(Transaction)]
        /\ g \in [QueueIndex -> Seq(RWCommand)]
        /\ AllTravel(f, g, c.pending_rd, c.pending_wr)
    <3> HIDE DEF k
    <3> QED
      BY <1>2, <2>2, <2>4, <2>6, MoveTravels
  <2>8. \A r \in QueueIndex : g[r] \in Seq(CommandsOf(r))
    <3>1. Append(c.cmd_queue.queues[k], cmd) \in Seq(CommandsOf(k))
      BY <2>4, <2>6, AppendProperties DEF QueueOK
    <3> HIDE DEF cmd, k
    <3> QED
      BY <2>4, <2>6, <3>1 DEF QueueOK
  <2>9. QueueOK(cq) /\ cq.queues = g
    <3> DEFINE u == [c.cmd_queue EXCEPT !.queues = g]
               e == [c.cmd_queue.rank_q_empty EXCEPT ![cmd.addr.rank] = FALSE]
    <3>1. QueueOK(u) /\ u.queues = g
      <4> HIDE DEF g
      <4> QED
        BY <2>6, <2>7, <2>8, OtherQueues
    <3>2. cq = [u EXCEPT !.rank_q_empty = e]
      BY <2>6 DEF AddCommand, QueueOK
    <3> HIDE DEF u, e, g, cq
    <3> QED
      BY <3>1, <3>2 DEF QueueOK
  <2> HIDE DEF n, f, cq, g
  <2> QED
    BY <2>1, <2>5, <2>7, <2>9 DEF ControllerOK
<1> QED
  BY <1>3, <1>4, <1>5

(* A whole cycle, with one command per cycle and without self-refresh. *)
LEMMA ClockTickOK ==
  ASSUME NEW c, ControllerOK(c), ~enable_hbm_dual_cmd, ~config.enable_self_refresh
  PROVE  ControllerOK(ClockTick(c))
<1> DEFINE d == TickRefresh(c)
           e == IssueFirst(d)
<1>1. ControllerOK(d)
  BY TickRefreshOK
<1>2. ControllerOK(e)
  BY <1>1, IssueFirstOK
<1>3. ClockTick(c) = Elapse(ScheduleTransaction(e))
  BY DEF ClockTick, IssueSecond, CountIdle, SelfRefresh
<1> HIDE DEF e
<1> QED
  BY <1>2, <1>3, ScheduleOK, ControllerElapseOK
=============================================================================
