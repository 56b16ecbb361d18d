------------------------------ MODULE XWReader ------------------------------
(***************************************************************************)
(* XWReader: queues the entries of the edge reader twice, once to be       *)
(* handed to the GlobalBuffer (xwq) and once to be handed to the           *)
(* Accelerator (xwq_archive) when the GlobalBuffer releases an entry.      *)
(***************************************************************************)
EXTENDS Integers, Sequences

CONSTANTS
    a_col_size,             \* edges
    w_fold,                 \* entries per edge
    XWR_QUEUE_SIZE          \* MAX_QUEUE_SIZE of Common.h

ASSUME XWReaderAssumption ==
    /\ a_col_size \in Nat \ {0} /\ w_fold \in Nat \ {0}
    /\ XWR_QUEUE_SIZE \in Nat

VARIABLE xwr

tot_req == a_col_size * w_fold

XWReaderInit ==
    xwr = [xwq |-> <<>>, xwq_archive |-> <<>>, q_space |-> 0, req_cnt |-> 0,
           q_empty |-> TRUE, can_receive |-> TRUE]

IsEndOperation == xwr.req_cnt = tot_req

\* ReceiveData: takes 2 of the space per entry.
XWReaderReceive(entry) ==
    xwr' = [xwr EXCEPT !.xwq = Append(@, entry),
                       !.xwq_archive = Append(@, entry),
                       !.q_space = @ + 2,
                       !.q_empty = FALSE,
                       !.can_receive = @ /\ XWR_QUEUE_SIZE - (xwr.q_space + 2) >= 2]

\* IsEndOperation and TurnOffFlag, at the head of the buffer's turn.
TurnOff(x) == IF x.req_cnt = tot_req THEN [x EXCEPT !.can_receive = FALSE] ELSE x

\* Request: the entry goes to the GlobalBuffer.
XWReaderRequest(x) ==
    [x EXCEPT !.xwq = Tail(@), !.req_cnt = @ + 1, !.q_empty = Len(x.xwq) = 1]

\* TransferData: the archived entry goes to the Accelerator.
XWReaderTransfer(x) ==
    [x EXCEPT !.xwq_archive = Tail(@),
              !.q_space = @ - 2,
              !.can_receive = @ \/ x.req_cnt # tot_req]
=============================================================================
