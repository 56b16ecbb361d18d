--------------------------- MODULE MCControllers ---------------------------
(***************************************************************************)
(* The controller under three configurations at once, with reads and       *)
(* writes of the same addresses: the configuration is picked in the        *)
(* initial state.                                                          *)
(***************************************************************************)
EXTENDS Integers, Sequences, TLC

VARIABLES memory, ctrls, clk, phase

(* Two banks with two rows of one line: in two ranks, in two bankgroups or *)
(* in one.  Refreshes are as dense as the delays allow.                    *)
Common ==
  [hbm_dual_cmd |-> TRUE, channels |-> 1, rows |-> 2, columns |-> 1, BL |-> 1,
   bus_width |-> 8, address_mapping |-> <<"ro", "ch", "ra", "ba", "bg", "co">>,
   trans_queue_size |-> 2, cmd_queue_size |-> 2,
   enable_self_refresh |-> FALSE, sref_threshold |-> 2,
   burst_cycle |-> 1, AL |-> 0, CL |-> 2, CWL |-> 1, tCCD_L |-> 1,
   tCCD_S |-> 1, tRTRS |-> 1, tRTP |-> 1, tRP |-> 1, tWTR_L |-> 1,
   tWTR_S |-> 1, tWR |-> 1, tPPD |-> 1, tRAS |-> 2, tRRD_L |-> 1,
   tRRD_S |-> 1, tRCD |-> 1, tRCDRD |-> 1, tRCDWR |-> 1, tRFC |-> 2,
   tRFCb |-> 1, tREFIb |-> 4, tCKESR |-> 2, tXS |-> 2, tFAW |-> 3,
   t32AW |-> 6]

Configs ==
  [DDR4 |-> Common @@
     [protocol |-> "DDR4", ranks |-> 2, bankgroups |-> 1, banks_per_group |-> 1,
      queue_structure |-> "PER_BANK", row_buf_policy |-> "OPEN_PAGE",
      refresh_policy |-> "RANK_LEVEL_STAGGERED", tREFI |-> 12,
      unified_queue |-> FALSE],
   HBM |-> Common @@
     [protocol |-> "HBM", ranks |-> 1, bankgroups |-> 2, banks_per_group |-> 1,
      queue_structure |-> "PER_RANK", row_buf_policy |-> "OPEN_PAGE",
      refresh_policy |-> "BANK_LEVEL_STAGGERED", tREFI |-> 4,
      unified_queue |-> FALSE],
   GDDR5 |-> Common @@
     [protocol |-> "GDDR5", ranks |-> 1, bankgroups |-> 1, banks_per_group |-> 2,
      queue_structure |-> "PER_BANK", row_buf_policy |-> "CLOSE_PAGE",
      refresh_policy |-> "RANK_LEVEL_SIMULTANEOUS", tREFI |-> 6,
      unified_queue |-> TRUE]]

(* Lines in the write buffer that do not start a drain. *)
Threshold == [DDR4 |-> 0, HBM |-> 1, GDDR5 |-> 0]

(* Bank in bit 0, row in bit 1. *)
Lines == {0, 1, 2}

MixedTraffic ==
  {[addr |-> 0, is_write |-> FALSE], [addr |-> 0, is_write |-> TRUE],
   [addr |-> 2, is_write |-> FALSE], [addr |-> 1, is_write |-> TRUE]}

System(m) == INSTANCE DRAMSystem WITH
  config <- Configs[m], Addr <- Lines, DrainThreshold <- Threshold[m],
  Traffic <- MixedTraffic, MaxInFlight <- 2, RegionOf <- LAMBDA a : "XW"

vars == <<memory, ctrls, clk, phase>>

Init == \E m \in DOMAIN Configs : memory = m /\ System(m)!Init

Next ==
  \E m \in DOMAIN Configs :
    memory = m /\ System(m)!Next /\ UNCHANGED memory

Spec == Init /\ [][Next]_vars

(* A property of the system under the configuration picked. *)
Picked(P(_)) == \A m \in DOMAIN Configs : memory = m => P(m)

(* The property of the same name of DRAMSystem: every pending address has  *)
(* exactly one transaction or command on its way.                          *)
PendingOnItsWay == Picked(LAMBDA m : System(m)!PendingOnItsWay)

(* No call of AbruptExit or exit(1) in BankState or Controller. *)
NeverAborts == Picked(LAMBDA m : System(m)!NeverAborts)

(* A drain in progress is covered by lines in the write buffer. *)
DrainCovered == Picked(LAMBDA m : System(m)!DrainCovered)

(* Timing keeps two bursts off the data bus in the same cycle. *)
OneBurstAtATime == Picked(LAMBDA m : System(m)!OneBurstAtATime)

(* CommandQueue holds back the queues that are being refreshed, and only   *)
(* those.                                                                  *)
HeldBackForRefresh == Picked(LAMBDA m : System(m)!HeldBackForRefresh)

(* No write is performed while an earlier read of its address is pending.  *)
ReadsBeforeWrites ==
  [][Picked(LAMBDA m : System(m)!ReadFirst)]_vars
=============================================================================
