------------------------------- MODULE Refresh -------------------------------
(***************************************************************************)
(* Refresh: what is due for a refresh, by the three policies.  The clock   *)
(* is kept as the cycles left until the next refresh is due.               *)
(***************************************************************************)
EXTENDS ChannelState

refresh_interval ==
  CASE config.refresh_policy = "RANK_LEVEL_SIMULTANEOUS" -> config.tREFI
    [] config.refresh_policy = "BANK_LEVEL_STAGGERED" -> config.tREFIb
    [] OTHER -> config.tREFI \div ranks

(* Nothing is due at cycle 0. *)
NewRefresh == [left |-> refresh_interval, next |-> <<0, 0, 0>>]

(* next_rank_, next_bg_ and next_bank_. *)
IterateNext(next) ==
  LET bg == (next[2] + 1) % config.bankgroups
      bank == IF bg = 0 THEN (next[3] + 1) % config.banks_per_group ELSE next[3]
      rank == (next[1] + 1) % ranks
  IN  IF config.refresh_policy = "RANK_LEVEL_STAGGERED"
      THEN <<rank, next[2], next[3]>>
      ELSE <<IF bg = 0 /\ bank = 0 THEN rank ELSE next[1], bg, bank>>

(* The loop over the ranks stops at the first rank it finds awake. *)
InsertRefresh(ch, next) ==
  LET awake == {r \in Rank : ~ch.rank_is_sref[r]} IN
  CASE config.refresh_policy = "RANK_LEVEL_SIMULTANEOUS" ->
         IF awake = {} THEN ch ELSE RankNeedRefresh(ch, Min(awake))
    [] config.refresh_policy = "RANK_LEVEL_STAGGERED" ->
         IF next[1] \in awake THEN RankNeedRefresh(ch, next[1]) ELSE ch
    [] config.refresh_policy = "BANK_LEVEL_STAGGERED" ->
         IF next[1] \in awake THEN BankNeedRefresh(ch, next) ELSE ch

IsDue(ref) == ref.left = 0

(* ClockTick, for the channel and for the refresh counter. *)
RefreshChannel(ch, ref) == IF IsDue(ref) THEN InsertRefresh(ch, ref.next) ELSE ch

RefreshTick(ref) ==
  IF ~IsDue(ref) THEN [ref EXCEPT !.left = @ - 1]
  ELSE [left |-> refresh_interval - 1,
        next |-> IF config.refresh_policy = "RANK_LEVEL_SIMULTANEOUS"
                 THEN ref.next ELSE IterateNext(ref.next)]
=============================================================================
