------------------------------- MODULE Timing -------------------------------
(***************************************************************************)
(* DRAMsim3's configuration, as far as the controller reads it, and the    *)
(* tables of class Timing: after a command, how long each type of command  *)
(* has to wait on the same bank, on the other banks of its bankgroup, on   *)
(* the other bankgroups of its rank, on the other ranks, and (for commands *)
(* to a whole rank) on every bank of the rank.                             *)
(***************************************************************************)
EXTENDS Integers, FiniteSetsExt, TLC

CONSTANT config    (* the fields of class Config, under their names        *)

CommandType == {"READ", "READ_PRECHARGE", "WRITE", "WRITE_PRECHARGE",
                "ACTIVATE", "PRECHARGE", "REFRESH_BANK", "REFRESH",
                "SREF_ENTER", "SREF_EXIT"}

IsGDDR == config.protocol \in {"GDDR5", "GDDR5X", "GDDR6"}

IsHBM == config.protocol \in {"HBM", "HBM2"}

enable_hbm_dual_cmd == config.hbm_dual_cmd /\ IsHBM

RL == config.AL + config.CL
WL == config.AL + config.CWL
read_delay == RL + config.burst_cycle
write_delay == WL + config.burst_cycle
tRC == config.tRAS + config.tRP

-----------------------------------------------------------------------------

Larger(a, b) == Max({a, b})

(* With a single bankgroup the short delays replace the long ones. *)
Grouped(long, short) == IF config.bankgroups = 1 THEN short ELSE long

tCCD == Grouped(config.tCCD_L, config.tCCD_S)
read_to_read_l == Larger(config.burst_cycle, tCCD)
read_to_read_s == Larger(config.burst_cycle, config.tCCD_S)
read_to_read_o == config.burst_cycle + config.tRTRS
read_to_write == RL + config.burst_cycle - WL + config.tRTRS
read_to_write_o == read_delay + config.burst_cycle + config.tRTRS - write_delay
read_to_precharge == config.AL + config.tRTP
readp_to_act == config.AL + config.burst_cycle + config.tRTP + config.tRP
write_to_read_l == write_delay + Grouped(config.tWTR_L, config.tWTR_S)
write_to_read_s == write_delay + config.tWTR_S
write_to_read_o == write_delay + config.burst_cycle + config.tRTRS - read_delay
write_to_write_l == Larger(config.burst_cycle, tCCD)
write_to_write_s == Larger(config.burst_cycle, config.tCCD_S)
write_to_write_o == config.burst_cycle
write_to_precharge == WL + config.burst_cycle + config.tWR
read_to_activate == read_to_precharge + config.tRP
write_to_activate == write_to_precharge + config.tRP
activate_to_activate_l == Grouped(config.tRRD_L, config.tRRD_S)
activate_to_read ==
  IF IsGDDR \/ IsHBM THEN config.tRCDRD ELSE config.tRCD - config.AL
activate_to_write ==
  IF IsGDDR \/ IsHBM THEN config.tRCDWR ELSE config.tRCD - config.AL

-----------------------------------------------------------------------------

(* A row of a table gives the waiting types and their delays. *)
None == [t \in {} |-> 0]

Columns(reads, writes) ==
  [READ |-> reads, READ_PRECHARGE |-> reads,
   WRITE |-> writes, WRITE_PRECHARGE |-> writes]

Closed(act, refs) ==
  [ACTIVATE |-> act, REFRESH |-> refs, REFRESH_BANK |-> refs,
   SREF_ENTER |-> refs]

same_bank(type) ==
  CASE type = "READ" ->
         Columns(read_to_read_l, read_to_write)
           @@ [PRECHARGE |-> read_to_precharge]
    [] type = "WRITE" ->
         Columns(write_to_read_l, write_to_write_l)
           @@ [PRECHARGE |-> write_to_precharge]
    [] type = "READ_PRECHARGE" -> Closed(readp_to_act, read_to_activate)
    [] type = "WRITE_PRECHARGE" -> Closed(write_to_activate, write_to_activate)
    [] type = "ACTIVATE" ->
         Columns(activate_to_read, activate_to_write)
           @@ [ACTIVATE |-> tRC, PRECHARGE |-> config.tRAS]
    [] type = "PRECHARGE" -> Closed(config.tRP, config.tRP)
    [] OTHER -> None

IsRead(type) == type \in {"READ", "READ_PRECHARGE"}
IsWrite(type) == type \in {"WRITE", "WRITE_PRECHARGE"}
IsReadWrite(type) == IsRead(type) \/ IsWrite(type)

(* What the two tables for other banks of the rank say after a command     *)
(* that is not a read, a write or an activation.                           *)
RankNeighbours(type) ==
  CASE type = "PRECHARGE" /\ (IsGDDR \/ config.protocol = "LPDDR4") ->
         [PRECHARGE |-> config.tPPD]
    [] type = "REFRESH_BANK" ->
         [ACTIVATE |-> config.tRFC, REFRESH_BANK |-> config.tREFI]
    [] OTHER -> None

other_banks_same_bankgroup(type) ==
  CASE IsRead(type) -> Columns(read_to_read_l, read_to_write)
    [] IsWrite(type) -> Columns(write_to_read_l, write_to_write_l)
    [] type = "ACTIVATE" ->
         [ACTIVATE |-> activate_to_activate_l, REFRESH_BANK |-> tRC]
    [] OTHER -> RankNeighbours(type)

other_bankgroups_same_rank(type) ==
  CASE IsRead(type) -> Columns(read_to_read_s, read_to_write)
    [] IsWrite(type) -> Columns(write_to_read_s, write_to_write_s)
    [] type = "ACTIVATE" ->
         [ACTIVATE |-> config.tRRD_S, REFRESH_BANK |-> tRC]
    [] OTHER -> RankNeighbours(type)

(* Faulty variant of other_ranks: the ranks do not share the data bus. *)
other_ranks_Free(type) == None

other_ranks(type) ==
  CASE IsRead(type) -> Columns(read_to_read_o, read_to_write_o)
    [] IsWrite(type) -> Columns(write_to_read_o, write_to_write_o)
    [] OTHER -> None

(* The row for REFRESH_BANK is filled in here although UpdateTiming, which *)
(* treats it as a command to one bank, never reads it.                     *)
same_rank(type) ==
  CASE type = "REFRESH_BANK" -> Closed(config.tRFCb, config.tRFCb)
    [] type = "REFRESH" -> [ACTIVATE |-> config.tRFC, REFRESH |-> config.tRFC,
                            SREF_ENTER |-> config.tRFC]
    [] type = "SREF_ENTER" -> [SREF_EXIT |-> config.tCKESR]
    [] type = "SREF_EXIT" -> Closed(config.tXS, config.tXS)
    [] OTHER -> None
=============================================================================
