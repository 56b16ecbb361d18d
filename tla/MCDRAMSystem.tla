---------------------------- MODULE MCDRAMSystem ----------------------------
(* Instances of DRAMSystem for TLC. *)
EXTENDS DRAMSystem

(* A rank of two banks with two rows of one line, short delays in the      *)
(* proportions of a DDR4 memory, and room for one command at a time.       *)
SmallDDR4 ==
  [protocol |-> "DDR4", hbm_dual_cmd |-> FALSE, channels |-> 1, ranks |-> 1,
   bankgroups |-> 1, banks_per_group |-> 2, rows |-> 2, columns |-> 1,
   BL |-> 1, bus_width |-> 8,
   address_mapping |-> <<"ro", "ch", "ra", "ba", "bg", "co">>,
   queue_structure |-> "PER_RANK", row_buf_policy |-> "OPEN_PAGE",
   refresh_policy |-> "RANK_LEVEL_STAGGERED", unified_queue |-> FALSE,
   trans_queue_size |-> 2, cmd_queue_size |-> 1,
   enable_self_refresh |-> FALSE, sref_threshold |-> 2,
   burst_cycle |-> 1, AL |-> 0, CL |-> 2, CWL |-> 1, tCCD_L |-> 1,
   tCCD_S |-> 1, tRTRS |-> 1, tRTP |-> 1, tRP |-> 1, tWTR_L |-> 1,
   tWTR_S |-> 1, tWR |-> 1, tPPD |-> 1, tRAS |-> 2, tRRD_L |-> 1,
   tRRD_S |-> 1, tRCD |-> 1, tRCDRD |-> 1, tRCDWR |-> 1, tRFC |-> 2,
   tRFCb |-> 1, tREFI |-> 8, tREFIb |-> 6, tCKESR |-> 2, tXS |-> 2,
   tFAW |-> 3, t32AW |-> 6]

(* Line numbers under that mapping: bank in bit 0, row in bit 1. *)
Lines == {0, 1, 2, 3}

(* GCNSim's traffic: rows and columns of the matrix and features are read, *)
(* results are written to one address.                                     *)
RegionOfLine(a) ==
  CASE a = 0 -> "A_ROW" [] a = 1 -> "A_COL" [] a = 2 -> "XW" [] a = 3 -> "AXW"

GCNTraffic ==
  [addr : {0, 1, 2}, is_write : {FALSE}] \cup [addr : {3}, is_write : {TRUE}]
=============================================================================
