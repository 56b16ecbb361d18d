----------------------------- MODULE Controller -----------------------------
(***************************************************************************)
(* Controller: the transactions of one channel, from the queue they wait   *)
(* in, through the command queue, to the answer.  The state is a record    *)
(* with the fields of the class; an operator returns the record a method   *)
(* leaves.                                                                 *)
(*                                                                         *)
(* Time is relative: a transaction of return_queue carries the cycles left *)
(* until it may be returned, where the code stores the cycle.  bus is not  *)
(* part of the code: it counts the data bursts that are on the bus in this *)
(* cycle (entry 1) and the next ones, as the commands issued imply.        *)
(***************************************************************************)
EXTENDS CommandQueue

CONSTANTS Addr,             (* byte addresses                              *)
          DrainThreshold    (* 8 in the code                               *)

(* 0 <= LogBase2(n) <= n for the sizes it is used on. *)
LogBase2(n) == CHOOSE w \in 0 .. n : 2 ^ w <= n /\ n < 2 ^ (w + 1)

field_widths ==
  [ch |-> LogBase2(config.channels), ra |-> LogBase2(ranks),
   bg |-> LogBase2(config.bankgroups), ba |-> LogBase2(config.banks_per_group),
   ro |-> LogBase2(config.rows),
   co |-> LogBase2(config.columns) - LogBase2(config.BL)]

(* The fields of address_mapping, the last one in the lowest bits. *)
field_pos(f) ==
  LET at == SelectInSeq(config.address_mapping, LAMBDA g : g = f)
      below == {config.address_mapping[i] :
                  i \in at + 1 .. Len(config.address_mapping)}
  IN  MapThenSumSet(LAMBDA g : field_widths[g], below)

shift_bits == LogBase2((config.bus_width \div 8) * config.BL)

Field(addr, f) ==
  ((addr \div 2 ^ shift_bits) \div 2 ^ field_pos(f)) % 2 ^ field_widths[f]

AddressMapping(addr) ==
  Address(Field(addr, "ra"), Field(addr, "bg"), Field(addr, "ba"),
          Field(addr, "ro"), Field(addr, "co"))

(* The mapping names a bank and a queue that exist. *)
ASSUME MappingAssumption ==
  \A a \in Addr : /\ PlaceOf(AddressMapping(a)) \in Place
                  /\ GetQueueIndex(AddressMapping(a)) \in QueueIndex

Transaction == [addr : Addr, is_write : BOOLEAN]

TransToCommand(t) ==
  Command(IF config.row_buf_policy = "CLOSE_PAGE"
          THEN IF t.is_write THEN "WRITE_PRECHARGE" ELSE "READ_PRECHARGE"
          ELSE IF t.is_write THEN "WRITE" ELSE "READ",
          AddressMapping(t.addr), t.addr)

-----------------------------------------------------------------------------

NewController ==
  [queues |-> [q \in {"unified", "read", "write"} |-> <<>>],
   pending_rd |-> [a \in Addr |-> 0],   (* how many reads of a wait        *)
   pending_wr |-> {},                   (* addresses with a write waiting  *)
   return_queue |-> <<>>,
   write_draining |-> 0,
   channel_state |-> NewChannelState,
   cmd_queue |-> NewCommandQueue,
   refresh |-> NewRefresh,
   bus |-> <<>>]

(* Neither AbruptExit nor exit has been called. *)
Running(c) == ~c.channel_state.aborted /\ ~c.cmd_queue.exited

(* unified_queue_, read_queue_ or write_buffer_. *)
QueueFor(is_write) ==
  IF config.unified_queue THEN "unified" ELSE IF is_write THEN "write" ELSE "read"

WillAcceptTransaction(c, t) ==
  Len(c.queues[QueueFor(t.is_write)]) < config.trans_queue_size

IsQueueFill(c) == c.queues["write"] # <<>>

Answer(t, wait) == [addr |-> t.addr, is_write |-> t.is_write, wait |-> wait]

Enqueue(c, t) == [c EXCEPT !.queues[QueueFor(t.is_write)] = Append(@, t)]

(* Faulty variant of AddTransaction: reads are not merged. *)
AddTransaction_EnqueuesAgain(c, t) ==
  LET answered == [c EXCEPT !.return_queue = Append(@, Answer(t, 1))] IN
  IF t.addr \in c.pending_wr THEN answered
  ELSE IF t.is_write
       THEN Enqueue([answered EXCEPT !.pending_wr = @ \cup {t.addr}], t)
       ELSE Enqueue([c EXCEPT !.pending_rd[t.addr] = @ + 1], t)

(* Writes to the same address are merged; so are reads; a read of an       *)
(* address with a write waiting is answered from it.                       *)
AddTransaction(c, t) ==
  LET answered == [c EXCEPT !.return_queue = Append(@, Answer(t, 1))] IN
  IF t.addr \in c.pending_wr THEN answered
  ELSE IF t.is_write
       THEN Enqueue([answered EXCEPT !.pending_wr = @ \cup {t.addr}], t)
       ELSE LET noted == [c EXCEPT !.pending_rd[t.addr] = @ + 1] IN
            IF c.pending_rd[t.addr] = 0 THEN Enqueue(noted, t) ELSE noted

Done(c) == {i \in DOMAIN c.return_queue : c.return_queue[i].wait = 0}

ReturnDoneTrans(c) ==
  [c EXCEPT !.return_queue = RemoveAt(@, Min(Done(c)))]

-----------------------------------------------------------------------------

(* The bursts of a command whose data starts after delay cycles. *)
OnBus(bus, delay) ==
  LET end == delay + config.burst_cycle IN
  [i \in 1 .. Larger(Len(bus), end) |->
     (IF i \in DOMAIN bus THEN bus[i] ELSE 0) + (IF i > delay /\ i <= end THEN 1 ELSE 0)]

(* Faulty variant of Answers: merged reads get one answer. *)
Answers_One(addr, n) ==
  <<Answer([addr |-> addr, is_write |-> FALSE], read_delay)>>

Answers(addr, n) ==
  [i \in 1 .. n |-> Answer([addr |-> addr, is_write |-> FALSE], read_delay)]

IssueRead(c, a) ==
  [c EXCEPT
     !.cmd_queue.exited = @ \/ c.pending_rd[a] = 0,
     !.pending_rd[a] = 0,
     !.return_queue = @ \o Answers(a, c.pending_rd[a]),
     !.bus = OnBus(@, RL)]

IssueWrite(c, a) ==
  [c EXCEPT
     !.cmd_queue.exited = @ \/ a \notin c.pending_wr,
     !.pending_wr = @ \ {a},
     !.bus = OnBus(@, WL)]

IssueCommand(c, cmd) ==
  LET d == CASE IsRead(cmd.cmd_type) -> IssueRead(c, cmd.hex_addr)
             [] IsWrite(cmd.cmd_type) -> IssueWrite(c, cmd.hex_addr)
             [] OTHER -> c
  IN  [d EXCEPT !.channel_state = UpdateTimingAndStates(@, cmd)]

(* The upper and the lower threshold of the write buffer. *)
StartsDraining(c) ==
  /\ c.write_draining = 0
  /\ ~config.unified_queue
  /\ \/ Len(c.queues["write"]) >= config.trans_queue_size
     \/ /\ Len(c.queues["write"]) > DrainThreshold
        /\ QueueEmpty(c.cmd_queue)

(* Faulty variant of CountDown: nothing counts. *)
CountDown_None(q, draining) == draining

(* A line has left queue q. *)
CountDown(q, draining) == IF q = "write" THEN draining - 1 ELSE draining

(* Faulty variant of MustWait: writes do not wait for reads. *)
MustWait_Never(c, q, t) == FALSE

(* "Enforce R->W dependency". *)
MustWait(c, q, t) == q = "write" /\ c.pending_rd[t.addr] > 0

(* One transaction becomes a command: the first whose command queue has    *)
(* room.  A write whose address is still to be read ends the draining.     *)
ScheduleTransaction(c) ==
  LET draining == IF StartsDraining(c) THEN Len(c.queues["write"])
                  ELSE c.write_draining
      q == QueueFor(draining > 0)
      fits == {i \in DOMAIN c.queues[q] :
                 WillAcceptCommand(c.cmd_queue,
                                   AddressMapping(c.queues[q][i].addr))}
      i == Min(fits)
      t == c.queues[q][i]
  IN  IF fits = {} THEN [c EXCEPT !.write_draining = draining]
      ELSE IF MustWait(c, q, t)
      THEN [c EXCEPT !.write_draining = 0]
      ELSE [c EXCEPT
              !.write_draining = CountDown(q, draining),
              !.cmd_queue = AddCommand(@, TransToCommand(t)),
              !.queues[q] = RemoveAt(@, i)]

-----------------------------------------------------------------------------

(* ClockTick, step by step: the refresh counter and the refreshes due. *)
TickRefresh(c) ==
  [c EXCEPT !.channel_state = RefreshChannel(@, c.refresh),
            !.refresh = RefreshTick(@)]

(* A refresh goes first; if it has nothing to issue, the queues are asked. *)
RefreshFirst(c) ==
  /\ IsRefreshWaiting(c.channel_state)
  /\ IsValid(RefreshCommand(c.channel_state))

AfterRefresh(c) ==
  IF IsRefreshWaiting(c.channel_state)
  THEN [c EXCEPT !.cmd_queue = FinishRefresh(c.channel_state, @)]
  ELSE c

CommandFrom(c) == CommandToIssue(c.channel_state, c.cmd_queue)

Take(c) ==
  [c EXCEPT !.cmd_queue = TakeCommandToIssue(c.channel_state, @)]

(* The command of this cycle. *)
FirstCommand(c) ==
  IF RefreshFirst(c) THEN RefreshCommand(c.channel_state)
  ELSE CommandFrom(AfterRefresh(c))

IssueFirst(c) ==
  LET d == IF RefreshFirst(c) THEN AfterRefresh(c) ELSE Take(AfterRefresh(c))
  IN  IF IsValid(FirstCommand(c)) THEN IssueCommand(d, FirstCommand(c)) ELSE d

(* HBM: a second command, unless both or neither move data.  It has left   *)
(* its queue even when it is not issued.                                   *)
IssueSecond(c, first) ==
  LET second == CommandFrom(c) IN
  IF ~enable_hbm_dual_cmd \/ ~IsValid(first) THEN c
  ELSE IF /\ IsValid(second)
          /\ IsReadWrite(second.cmd_type) # IsReadWrite(first.cmd_type)
       THEN IssueCommand(Take(c), second)
       ELSE Take(c)

(* rank_idle_cycles is only compared with sref_threshold, and only with    *)
(* self-refresh enabled: it is kept then, and up to that value.            *)
CountIdle(c) ==
  LET ch == c.channel_state IN
  IF ~config.enable_self_refresh THEN c
  ELSE [c EXCEPT !.channel_state.rank_idle_cycles = [r \in Rank |->
          CASE ch.rank_is_sref[r] -> @[r]
            [] ~ch.rank_is_sref[r] /\ IsAllBankIdleInRank(ch, r) ->
                 Min({@[r] + 1, config.sref_threshold})
            [] OTHER -> 0]]

(* What the loop over the ranks finds to do about self-refresh. *)
SelfRefreshCommand(c, r) ==
  LET ch == c.channel_state
      To(type) ==
        GetReadyCommand(ch, Command(type, Address(r, -1, -1, -1, -1), -1))
  IN  CASE ch.rank_is_sref[r] /\ ~c.cmd_queue.rank_q_empty[r] -> To("SREF_EXIT")
        [] /\ ~ch.rank_is_sref[r]
           /\ c.cmd_queue.rank_q_empty[r]
           /\ ch.rank_idle_cycles[r] >= config.sref_threshold -> To("SREF_ENTER")
        [] OTHER -> NoCommand

SelfRefresh(c, first) ==
  LET can == {r \in Rank : IsValid(SelfRefreshCommand(c, r))} IN
  IF config.enable_self_refresh /\ ~IsValid(first) /\ can # {}
  THEN IssueCommand(c, SelfRefreshCommand(c, Min(can)))
  ELSE c

SoonerReturned(return_queue) ==
  [i \in DOMAIN return_queue |-> [return_queue[i] EXCEPT !.wait = Sooner(@)]]

Elapse(c) ==
  [c EXCEPT
     !.return_queue = SoonerReturned(@),
     !.channel_state = ChannelElapse(@),
     !.bus = IF @ = <<>> THEN @ ELSE Tail(@)]

ClockTick(c) ==
  LET d == TickRefresh(c)
      first == FirstCommand(d)
  IN  Elapse(ScheduleTransaction(SelfRefresh(CountIdle(
        IssueSecond(IssueFirst(d), first)), first)))
=============================================================================
