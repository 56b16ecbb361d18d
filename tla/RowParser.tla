------------------------------ MODULE RowParser ------------------------------
(***************************************************************************)
(* DataReader::GetUint64Val on the line of row pointers, token by token:   *)
(* where it cuts the rows into blocks and what it queues for each.  The    *)
(* module DataReader gives the same numbers in closed form, which is what  *)
(* the readers' modules and the proofs use; here the two are compared.     *)
(***************************************************************************)
EXTENDS DataReader

VARIABLES
  parse_count,        (* tokens read after the first one                    *)
  v_count, start_v,   (* row pointers since, and row pointer at, the last cut *)
  vertex_q, edge_q    (* the queues vertex_req_count and edge_req_count     *)

vars == <<adjrowindex, parse_count, v_count, start_v, vertex_q, edge_q>>

Init ==
  /\ adjrowindex \in Graphs
  /\ parse_count = 0
  /\ v_count = 1
  /\ start_v = 0
  /\ vertex_q = <<>>
  /\ edge_q = <<>>

(* Faulty variant of CutsHere: the last, shorter block is forgotten. *)
CutsHere_NoLast(parsed) == parsed % max_v = 0

CutsHere(parsed) == parsed % max_v = 0 \/ parsed = a_h

(* One getline() of the loop. *)
ParseToken ==
  LET parsed == parse_count + 1
      token  == adjrowindex[parsed]
  IN  /\ parse_count < a_h
      /\ parse_count' = parsed
      /\ IF CutsHere(parsed)
         THEN /\ edge_q' = Append(edge_q, token - start_v)
              /\ vertex_q' = Append(vertex_q, v_count + 1)
              /\ start_v' = token
              /\ v_count' = 0
         ELSE /\ v_count' = v_count + 1
              /\ UNCHANGED <<start_v, vertex_q, edge_q>>
      /\ UNCHANGED adjrowindex

Spec == Init /\ [][ParseToken]_vars

(* What GetUint64Val has queued for a block is what vertex_req_count and   *)
(* edge_req_count of DataReader say of it, and once the line is read there *)
(* is one entry per block: InitialAxwCount takes edge_req_count.size().    *)
QueuesAsStated ==
  /\ Len(vertex_q) = Len(edge_q)
  /\ \A b \in 1 .. Len(vertex_q) :
       vertex_q[b] = vertex_req_count(b) /\ edge_q[b] = edge_req_count(b)
  /\ parse_count = a_h => Len(vertex_q) = Blocks
=============================================================================
