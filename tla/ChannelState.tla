---------------------------- MODULE ChannelState ----------------------------
(***************************************************************************)
(* ChannelState: the banks of a channel, the refreshes that are due, and   *)
(* the activation windows of every rank.  The state is a record that the   *)
(* controller keeps; an operator returns the record a method leaves.       *)
(***************************************************************************)
EXTENDS BankState, SequencesExt

ASSUME StructureAssumption ==
  /\ config.ranks \in Nat \ {0}
  /\ config.bankgroups \in Nat \ {0}
  /\ config.banks_per_group \in Nat \ {0}
  /\ config.refresh_policy \in {"RANK_LEVEL_SIMULTANEOUS",
                               "RANK_LEVEL_STAGGERED", "BANK_LEVEL_STAGGERED"}

ranks == config.ranks
banks == config.bankgroups * config.banks_per_group

Rank == 0 .. ranks - 1

(* The place of a bank: its rank, bankgroup and bank number. *)
Place ==
  Rank \X (0 .. config.bankgroups - 1) \X (0 .. config.banks_per_group - 1)

PlaceOf(addr) == <<addr.rank, addr.bankgroup, addr.bank>>

(* The first of a set of banks of a rank, in the order of the code's       *)
(* nested loops over bankgroups and banks.                                 *)
FirstPlace(rank, places) ==
  LET j == Min({p[2] : p \in places})
      k == Min({p[3] : p \in {p \in places : p[2] = j}})
  IN  <<rank, j, k>>

NewChannelState ==
  [bank_states |-> [p \in Place |-> NewBank],
   refresh_q |-> <<>>,
   rank_is_sref |-> [r \in Rank |-> FALSE],
   rank_idle_cycles |-> [r \in Rank |-> 0],
   four_aw |-> [r \in Rank |-> <<>>],
   thirty_two_aw |-> [r \in Rank |-> <<>>],
   aborted |-> FALSE]

IsAllBankIdleInRank(ch, rank) ==
  \A p \in Place : p[1] = rank => ch.bank_states[p].state # "OPEN"

IsRefreshWaiting(ch) == ch.refresh_q # <<>>

BankNeedRefresh(ch, p) ==
  [ch EXCEPT !.refresh_q =
     Append(@, Command("REFRESH_BANK", Address(p[1], p[2], p[3], -1, -1), -1))]

RankNeedRefresh(ch, rank) ==
  [ch EXCEPT !.refresh_q =
     Append(@, Command("REFRESH", Address(rank, -1, -1, -1, -1), -1))]

(* Faulty variant of RefreshDone: the entry stays. *)
RefreshDone_Stays(refresh_q, cmd) == refresh_q

(* The refresh cmd is done: the first entry for its rank or bank goes. *)
RefreshDone(refresh_q, cmd) ==
  RemoveFirstMatch(refresh_q, LAMBDA ref :
    IF IsRankCMD(cmd.cmd_type) THEN ref.addr.rank = cmd.addr.rank
    ELSE PlaceOf(ref.addr) = PlaceOf(cmd.addr))

-----------------------------------------------------------------------------

(* No n activations in the window that is still open at its oldest one. *)
WindowReady(aw, n) == aw = <<>> \/ aw[1] = 0 \/ Len(aw) < n

ActivationWindowOk(ch, rank) ==
  /\ WindowReady(ch.four_aw[rank], 4)
  /\ IsGDDR => WindowReady(ch.thirty_two_aw[rank], 32)

Activated(aw, length) ==
  Append(IF aw # <<>> /\ aw[1] = 0 THEN Tail(aw) ELSE aw, length)

UpdateActivationTimes(ch, rank) ==
  [ch EXCEPT
     !.four_aw[rank] = Activated(@, config.tFAW),
     !.thirty_two_aw[rank] = IF IsGDDR THEN Activated(@, config.t32AW) ELSE @]

-----------------------------------------------------------------------------

(* A command to a rank: the first bank that can and must do something else *)
(* before (close its row), or the command once every bank is ready.        *)
RankReadyCommand(ch, cmd) ==
  LET Ready(p) == BankReadyCommand(ch.bank_states[p], cmd)
      all == {p \in Place : p[1] = cmd.addr.rank}
      before == {p \in all : Ready(p).cmd_type \notin {"SIZE", cmd.cmd_type}}
      p == FirstPlace(cmd.addr.rank, before)
  IN  IF before # {}
      THEN [Ready(p) EXCEPT !.addr = Address(p[1], p[2], p[3], -1, -1)]
      ELSE IF \A q \in all : IsValid(Ready(q)) THEN cmd ELSE NoCommand

GetReadyCommand(ch, cmd) ==
  IF IsRankCMD(cmd.cmd_type) THEN RankReadyCommand(ch, cmd)
  ELSE LET ready == BankReadyCommand(ch.bank_states[PlaceOf(cmd.addr)], cmd)
       IN  IF /\ ready.cmd_type = "ACTIVATE"
              /\ ~ActivationWindowOk(ch, cmd.addr.rank)
           THEN NoCommand
           ELSE ready

(* The banks that a command is for. *)
Targets(cmd) ==
  {p \in Place : IF IsRankCMD(cmd.cmd_type) THEN p[1] = cmd.addr.rank
                 ELSE p = PlaceOf(cmd.addr)}

UpdateState(ch, cmd) ==
  [ch EXCEPT
     !.bank_states = [p \in Place |->
        IF p \in Targets(cmd) THEN BankUpdateState(@[p], cmd) ELSE @[p]],
     !.refresh_q = IF IsRefresh(cmd.cmd_type) THEN RefreshDone(@, cmd) ELSE @,
     !.rank_is_sref[cmd.addr.rank] =
        (@ \/ cmd.cmd_type = "SREF_ENTER") /\ cmd.cmd_type # "SREF_EXIT",
     !.aborted = @ \/ \E p \in Targets(cmd) :
                        ~Allowed(ch.bank_states[p], cmd.cmd_type)]

(* The table that says how long bank p waits after cmd. *)
Delays(cmd, p) ==
  LET q == PlaceOf(cmd.addr) IN
  IF IsRankCMD(cmd.cmd_type)
  THEN IF p[1] = q[1] THEN same_rank(cmd.cmd_type) ELSE None
  ELSE CASE p = q -> same_bank(cmd.cmd_type)
         [] p # q /\ p[1] = q[1] /\ p[2] = q[2] ->
              other_banks_same_bankgroup(cmd.cmd_type)
         [] p[1] = q[1] /\ p[2] # q[2] ->
              other_bankgroups_same_rank(cmd.cmd_type)
         [] p[1] # q[1] -> other_ranks(cmd.cmd_type)

UpdateTiming(ch, cmd) ==
  LET c == IF cmd.cmd_type = "ACTIVATE"
           THEN UpdateActivationTimes(ch, cmd.addr.rank) ELSE ch
  IN  [c EXCEPT !.bank_states =
         [p \in Place |-> BankUpdateTiming(@[p], Delays(cmd, p))]]

UpdateTimingAndStates(ch, cmd) == UpdateTiming(UpdateState(ch, cmd), cmd)

ChannelElapse(ch) ==
  LET Wait(aw) == [i \in DOMAIN aw |-> Sooner(aw[i])] IN
  [ch EXCEPT
     !.bank_states = [p \in Place |-> BankElapse(@[p])],
     !.four_aw = [r \in Rank |-> Wait(@[r])],
     !.thirty_two_aw = [r \in Rank |-> Wait(@[r])]]
=============================================================================
