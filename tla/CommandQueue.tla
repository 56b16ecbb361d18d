---------------------------- MODULE CommandQueue ----------------------------
(***************************************************************************)
(* CommandQueue: the commands that wait for their bank, in a queue per     *)
(* bank or per rank, and the choice of the next one to issue: first ready, *)
(* first come, from the queues in turn; the queues of a rank or bank that  *)
(* is about to be refreshed are passed over.                               *)
(***************************************************************************)
EXTENDS Refresh

num_queues ==
  IF config.queue_structure = "PER_BANK" THEN banks * ranks ELSE ranks

QueueIndex == 0 .. num_queues - 1

GetQueueIndex(addr) ==
  IF config.queue_structure = "PER_RANK" THEN addr.rank
  ELSE addr.rank * banks + addr.bankgroup * config.banks_per_group + addr.bank

NewCommandQueue ==
  [queues |-> [i \in QueueIndex |-> <<>>],
   queue_idx |-> 0,
   is_in_ref |-> FALSE,
   ref_q_indices |-> {},
   rank_q_empty |-> [r \in Rank |-> TRUE],
   exited |-> FALSE]

WillAcceptCommand(cq, addr) ==
  Len(cq.queues[GetQueueIndex(addr)]) < config.cmd_queue_size

QueueEmpty(cq) == \A i \in QueueIndex : cq.queues[i] = <<>>

(* Called only when WillAcceptCommand. *)
AddCommand(cq, cmd) ==
  [cq EXCEPT !.queues[GetQueueIndex(cmd.addr)] = Append(@, cmd),
             !.rank_q_empty[cmd.addr.rank] = FALSE]

-----------------------------------------------------------------------------

GetRefQIndices(ref) ==
  IF ref.cmd_type # "REFRESH" THEN {GetQueueIndex(ref.addr)}
  ELSE IF config.queue_structure = "PER_BANK"
       THEN {i \in QueueIndex : i \div banks = ref.addr.rank}
       ELSE {ref.addr.rank}

(* The next step of the refresh at the head of the refreshes that are due: *)
(* a PRECHARGE on its way, the refresh itself, or nothing yet.             *)
RefreshCommand(ch) == GetReadyCommand(ch, Head(ch.refresh_q))

(* Faulty variant of FinishRefresh: the queues are not released. *)
FinishRefresh_Holds(ch, cq) ==
  [cq EXCEPT
     !.ref_q_indices =
        IF cq.is_in_ref THEN @ ELSE GetRefQIndices(Head(ch.refresh_q)),
     !.is_in_ref = TRUE]

FinishRefresh(ch, cq) ==
  IF IsRefresh(RefreshCommand(ch).cmd_type)
  THEN [cq EXCEPT !.ref_q_indices = {}, !.is_in_ref = FALSE]
  ELSE [cq EXCEPT
          !.ref_q_indices =
             IF cq.is_in_ref THEN @ ELSE GetRefQIndices(Head(ch.refresh_q)),
          !.is_in_ref = TRUE]

-----------------------------------------------------------------------------

(* May the row of the bank be closed for queue[i]?  Not before an earlier  *)
(* command to the bank, and not while later ones hit the open row, unless  *)
(* the row has had its share of hits.                                      *)
ArbitratePrecharge(ch, queue, i) ==
  LET p == PlaceOf(queue[i].addr)
      b == ch.bank_states[p]
  IN  /\ \A j \in 1 .. i - 1 : PlaceOf(queue[j].addr) # p
      /\ \/ b.row_hit_count >= RowHitLimit
         \/ \A j \in i .. Len(queue) :
              ~(PlaceOf(queue[j].addr) = p /\ queue[j].addr.row = b.open_row)

HasRWDependency(queue, i) ==
  \E j \in 1 .. i - 1 :
    /\ IsRead(queue[j].cmd_type)
    /\ [queue[j].addr EXCEPT !.rank = 0] = [queue[i].addr EXCEPT !.rank = 0]

(* Can something be done now for queue[i]? *)
IsReady(ch, queue, i) ==
  LET cmd == GetReadyCommand(ch, queue[i]) IN
  /\ IsValid(cmd)
  /\ cmd.cmd_type = "PRECHARGE" => ArbitratePrecharge(ch, queue, i)
  /\ IsWrite(cmd.cmd_type) => ~HasRWDependency(queue, i)

ReadyIn(ch, queue) == {i \in DOMAIN queue : IsReady(ch, queue, i)}

GetFirstReadyInQueue(ch, queue) ==
  GetReadyCommand(ch, queue[Min(ReadyIn(ch, queue))])

(* The round over the queues, from the one after queue_idx, stops at the   *)
(* first that is not being refreshed and has something ready; a round      *)
(* without success ends where it began.                                    *)
Turn(cq, n) == (cq.queue_idx + n) % num_queues

ReadyTurns(ch, cq) ==
  {n \in 1 .. num_queues :
     /\ ~(cq.is_in_ref /\ Turn(cq, n) \in cq.ref_q_indices)
     /\ ReadyIn(ch, cq.queues[Turn(cq, n)]) # {}}

NextQueue(ch, cq) == Turn(cq, Min(ReadyTurns(ch, cq)))

(* GetCommandToIssue: the command, and the queues it leaves. *)
CommandToIssue(ch, cq) ==
  IF ReadyTurns(ch, cq) = {} THEN NoCommand
  ELSE GetFirstReadyInQueue(ch, cq.queues[NextQueue(ch, cq)])

(* Faulty variant of SameCommand: by type only. *)
SameCommand_AnyAddress(c, cmd) == c.cmd_type = cmd.cmd_type

SameCommand(c, cmd) == c.hex_addr = cmd.hex_addr /\ c.cmd_type = cmd.cmd_type

EraseRWCommand(cq, cmd) ==
  LET q == GetQueueIndex(cmd.addr)
      Same(c) == SameCommand(c, cmd)
  IN  IF \E i \in DOMAIN cq.queues[q] : Same(cq.queues[q][i])
      THEN [cq EXCEPT !.queues[q] = RemoveFirstMatch(@, Same)]
      ELSE [cq EXCEPT !.exited = TRUE]

TakeCommandToIssue(ch, cq) ==
  IF ReadyTurns(ch, cq) = {} THEN cq
  ELSE LET cmd == CommandToIssue(ch, cq)
           c == [cq EXCEPT !.queue_idx = NextQueue(ch, cq)]
       IN  IF IsReadWrite(cmd.cmd_type) THEN EraseRWCommand(c, cmd) ELSE c
=============================================================================
