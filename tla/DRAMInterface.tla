---------------------------- MODULE DRAMInterface ----------------------------
(***************************************************************************)
(* DRAMInterface: the queue of requests towards the memory, the completion *)
(* queues filled by the memory's callbacks, and the count of result writes *)
(* that are still to be acknowledged.                                      *)
(*                                                                         *)
(* The memory system behind it is represented by what it promises, module  *)
(* Memory.                                                                 *)
(***************************************************************************)
EXTENDS Memory, Sequences

VARIABLES
  t_queue,          (* requests not yet handed to the memory               *)
  f_address,        (* completed reads below WEIGHT_START                  *)
  w_address,        (* completed reads from WEIGHT_START on                *)
  f_read_complete,
  w_read_complete,
  tot_axw_count     (* result writes not yet acknowledged                  *)

(* What a request from a reader leaves alone. *)
memVars == <<accepted, write_buffered, f_address, w_address,
             f_read_complete, w_read_complete, tot_axw_count>>

dramVars == <<t_queue, accepted, write_buffered, f_address, w_address,
              f_read_complete, w_read_complete, tot_axw_count>>

(* The request queue is not set here: its first entry is queued between the *)
(* construction and the loop.                                              *)
DRAMInit ==
  /\ MemoryInit
  /\ f_address = <<>>
  /\ w_address = <<>>
  /\ f_read_complete = FALSE
  /\ w_read_complete = FALSE

-----------------------------------------------------------------------------

DRAMRequest(region) == t_queue' = Append(t_queue, region)

(* One round of the loop of AddTransaction: the memory takes the request   *)
(* at the head of the queue.                                               *)
AcceptTransaction ==
  /\ t_queue # <<>>
  /\ MemoryAccept(Head(t_queue))
  /\ t_queue' = Tail(t_queue)
  /\ UNCHANGED <<f_address, w_address, f_read_complete, w_read_complete,
                 tot_axw_count>>

ReadCompleteCallback(region) ==
  /\ MemoryComplete(region)
  /\ \/ /\ region \in {"A_ROW", "A_COL"}
        /\ f_read_complete' = TRUE
        /\ f_address' = Append(f_address, region)
        /\ UNCHANGED <<w_address, w_read_complete>>
     \/ /\ region = "XW"
        /\ w_read_complete' = TRUE
        /\ w_address' = Append(w_address, region)
        /\ UNCHANGED <<f_address, f_read_complete>>
  /\ UNCHANGED <<t_queue, tot_axw_count>>

(* uint64_t in the code: a value below 0 stands for the wrapped counter.   *)
WriteCompleteCallback ==
  /\ MemoryComplete("AXW")
  /\ tot_axw_count' = tot_axw_count - 1
  /\ UNCHANGED <<t_queue, f_address, w_address, f_read_complete,
                 w_read_complete>>

(* GetReadData(false): the next completed read of the adjacency matrix. *)
GetFReadData ==
  /\ f_read_complete
  /\ f_address' = Tail(f_address)
  /\ f_read_complete' = (Tail(f_address) # <<>>)
  /\ UNCHANGED <<t_queue, accepted, write_buffered, w_address,
                 w_read_complete, tot_axw_count>>

(* GetReadData(true): the next completed feature read. *)
GetWReadData ==
  /\ w_read_complete
  /\ w_address' = Tail(w_address)
  /\ w_read_complete' = (Tail(w_address) # <<>>)
  /\ UNCHANGED <<t_queue, accepted, write_buffered, f_address,
                 f_read_complete, tot_axw_count>>

(* IsQueueFill of the memory. *)
WriteExist == write_buffered
=============================================================================
