------------------------------ MODULE BankState ------------------------------
(***************************************************************************)
(* BankState: the row buffer of one bank.  A bank is a record of its       *)
(* fields; cmd_timing gives, per command type, the cycles still to wait    *)
(* (the code keeps the cycle from which the type is allowed).              *)
(***************************************************************************)
EXTENDS Timing

(* row_hit_count_ is only compared with this limit, and counts up to it.   *)
RowHitLimit == 4

NoRow == -1

NewBank == [state |-> "CLOSED", open_row |-> NoRow, row_hit_count |-> 0,
            cmd_timing |-> [t \in CommandType |-> 0]]

(* A command is for an address; "SIZE" is the type of the invalid command, *)
(* and "ABORT" stands for a call of AbruptExit while one was looked for.   *)
Command(type, addr, hex_addr) ==
  [cmd_type |-> type, addr |-> addr, hex_addr |-> hex_addr]

Address(rank, bankgroup, bank, row, column) ==
  [rank |-> rank, bankgroup |-> bankgroup, bank |-> bank, row |-> row,
   column |-> column]

NoCommand == Command("SIZE", Address(-1, -1, -1, -1, -1), 0)

IsValid(cmd) == cmd.cmd_type # "SIZE"

IsRefresh(type) == type \in {"REFRESH", "REFRESH_BANK"}

IsRankCMD(type) == type \in {"REFRESH", "SREF_ENTER", "SREF_EXIT"}

-----------------------------------------------------------------------------

(* Faulty variant of ClosedFor: an open row is left open. *)
ClosedFor_LeavesOpen(b, type) == IF b.state = "SREF" THEN "ABORT" ELSE type

(* A refresh or self-refresh needs the row closed. *)
ClosedFor(b, type) ==
  CASE b.state = "CLOSED" -> type
    [] b.state = "OPEN" -> "PRECHARGE"
    [] b.state = "SREF" -> "ABORT"

(* The command the bank needs next on the way to cmd. *)
RequiredType(b, cmd) ==
  CASE IsReadWrite(cmd.cmd_type) ->
         (CASE b.state = "CLOSED" -> "ACTIVATE"
            [] b.state = "SREF" -> "SREF_EXIT"
            [] b.state = "OPEN" ->
                 IF cmd.addr.row = b.open_row THEN cmd.cmd_type
                 ELSE "PRECHARGE")
    [] cmd.cmd_type \in {"REFRESH", "REFRESH_BANK", "SREF_ENTER"} ->
         ClosedFor(b, cmd.cmd_type)
    [] OTHER -> "ABORT"

BankReadyCommand(b, cmd) ==
  LET type == RequiredType(b, cmd) IN
  IF type = "ABORT" \/ b.cmd_timing[type] = 0
  THEN [cmd EXCEPT !.cmd_type = type]
  ELSE NoCommand

(* The commands UpdateState takes without calling AbruptExit. *)
Allowed(b, type) ==
  CASE b.state = "OPEN" -> IsReadWrite(type) \/ type = "PRECHARGE"
    [] b.state = "CLOSED" ->
         IsRefresh(type) \/ type \in {"ACTIVATE", "SREF_ENTER"}
    [] b.state = "SREF" -> type = "SREF_EXIT"

BankUpdateState(b, cmd) ==
  CASE cmd.cmd_type \in {"READ", "WRITE"} ->
         [b EXCEPT !.row_hit_count = Min({@ + 1, RowHitLimit})]
    [] cmd.cmd_type \in {"READ_PRECHARGE", "WRITE_PRECHARGE", "PRECHARGE"} ->
         [b EXCEPT !.state = "CLOSED", !.open_row = NoRow, !.row_hit_count = 0]
    [] cmd.cmd_type = "ACTIVATE" ->
         [b EXCEPT !.state = "OPEN", !.open_row = cmd.addr.row]
    [] cmd.cmd_type = "SREF_ENTER" -> [b EXCEPT !.state = "SREF"]
    [] cmd.cmd_type = "SREF_EXIT" -> [b EXCEPT !.state = "CLOSED"]
    [] OTHER -> b

(* UpdateTiming for every entry of a row of a timing table. *)
BankUpdateTiming(b, delays) ==
  [b EXCEPT !.cmd_timing = [t \in CommandType |->
     IF t \in DOMAIN delays THEN Larger(@[t], delays[t]) ELSE @[t]]]

(* A cycle has passed. *)
Sooner(wait) == IF wait > 0 THEN wait - 1 ELSE 0

BankElapse(b) ==
  [b EXCEPT !.cmd_timing = [t \in CommandType |-> Sooner(@[t])]]
=============================================================================
