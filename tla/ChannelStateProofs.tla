------------------------- MODULE ChannelStateProofs -------------------------
(***************************************************************************)
(* What the banks of a channel and its refresh queue keep, whatever the    *)
(* numbers of ranks, bankgroups and banks and whatever the delays of       *)
(* Timing.                                                                 *)
(*                                                                         *)
(* The argument for NeverAborts starts here. BankState gives up            *)
(* (AbruptExit) when a command reaches a bank whose state does not allow   *)
(* it. A command is issued only after GetReadyCommand has named it, and    *)
(* GetReadyCommand asks every bank the command goes to which command that  *)
(* bank needs first. So a command it names is issuable (Issuable), and     *)
(* issuing an issuable command keeps the channel well formed (UpdateOK).   *)
(* Self-refresh is left out: a bank in the state SREF answers a refresh,   *)
(* and the wake-up of the controller, with AbruptExit.                     *)
(***************************************************************************)
EXTENDS Refresh, QueueTables, TLAPS

(* A bank of BankState that is not in self-refresh. *)
BankOK(b) ==
  /\ b = [state |-> b.state, open_row |-> b.open_row,
          row_hit_count |-> b.row_hit_count, cmd_timing |-> b.cmd_timing]
  /\ b.state \in {"OPEN", "CLOSED"}

(* What RankNeedRefresh and BankNeedRefresh put on refresh_q. *)
RefreshCommands ==
  {Command("REFRESH", Address(r, -1, -1, -1, -1), -1) : r \in Rank}
    \cup {Command("REFRESH_BANK", Address(p[1], p[2], p[3], -1, -1), -1) : p \in Place}

(* A channel that has not aborted, with a bank at every place. *)
ChannelOK(ch) ==
  /\ ch = [bank_states |-> ch.bank_states, refresh_q |-> ch.refresh_q,
           rank_is_sref |-> ch.rank_is_sref,
           rank_idle_cycles |-> ch.rank_idle_cycles, four_aw |-> ch.four_aw,
           thirty_two_aw |-> ch.thirty_two_aw, aborted |-> ch.aborted]
  /\ ch.bank_states = [p \in Place |-> ch.bank_states[p]]
  /\ \A p \in Place : BankOK(ch.bank_states[p])
  /\ ch.refresh_q \in Seq(RefreshCommands)
  /\ ch.aborted = FALSE

(* UpdateTiming of a bank, and time, change its waits only. *)
LEMMA BankTimingOK ==
  ASSUME NEW b, NEW delays, BankOK(b)
  PROVE  BankOK(BankUpdateTiming(b, delays)) /\ BankOK(BankElapse(b))
BY DEF BankOK, BankUpdateTiming, BankElapse

(* BankState::UpdateState leaves a bank open or closed, self-refresh       *)
(* apart.                                                                  *)
LEMMA BankUpdateOK ==
  ASSUME NEW b, NEW cmd, BankOK(b), cmd.cmd_type # "SREF_ENTER"
  PROVE  BankOK(BankUpdateState(b, cmd))
BY DEF BankOK, BankUpdateState

(* The command GetReadyCommand of a bank finds to be required is one that  *)
(* the bank's state allows, and it is a step towards the one asked for; a  *)
(* refresh closes the row and opens none.                                  *)
LEMMA RequiredTypeOK ==
  ASSUME NEW b, NEW cmd, BankOK(b),
         IsReadWrite(cmd.cmd_type) \/ IsRefresh(cmd.cmd_type)
  PROVE  LET type == RequiredType(b, cmd) IN
         /\ Allowed(b, type)
         /\ type \in {"ACTIVATE", "PRECHARGE", cmd.cmd_type}
         /\ IsRefresh(cmd.cmd_type) => type # "ACTIVATE"
         /\ IsRefresh(cmd.cmd_type) /\ b.state = "OPEN" => type = "PRECHARGE"
BY DEF BankOK, RequiredType, Allowed, IsReadWrite, IsRead, IsWrite, IsRefresh,
       ClosedFor

(* A record of the class Command. *)
IsCommand(cmd) == cmd = Command(cmd.cmd_type, cmd.addr, cmd.hex_addr)

(* Every bank the command goes to allows it: UpdateState will not abort. *)
Issuable(ch, cmd) ==
  /\ \/ cmd.cmd_type \in {"ACTIVATE", "PRECHARGE"}
     \/ IsReadWrite(cmd.cmd_type)
     \/ IsRefresh(cmd.cmd_type)
  /\ \A p \in Targets(cmd) : Allowed(ch.bank_states[p], cmd.cmd_type)

(* A bank that is ready answers with the required type for the same        *)
(* address.                                                                *)
LEMMA BankReadyOK ==
  ASSUME NEW b, NEW cmd, BankOK(b), IsCommand(cmd),
         IsReadWrite(cmd.cmd_type) \/ IsRefresh(cmd.cmd_type),
         IsValid(BankReadyCommand(b, cmd))
  PROVE  BankReadyCommand(b, cmd) =
           Command(RequiredType(b, cmd), cmd.addr, cmd.hex_addr)
<1>1. ~IsValid(NoCommand)
  BY DEF IsValid, NoCommand, Command
<1>2. [cmd EXCEPT !.cmd_type = RequiredType(b, cmd)] =
        Command(RequiredType(b, cmd), cmd.addr, cmd.hex_addr)
  BY DEF IsCommand, Command
<1> QED
  BY <1>1, <1>2 DEF BankReadyCommand

(* A command for one bank, once ChannelState::GetReadyCommand finds it     *)
(* ready, is issuable; it is the command asked for or a step towards it.   *)
LEMMA ToOneBank ==
  ASSUME NEW ch, NEW cmd, ChannelOK(ch), IsCommand(cmd),
         IsReadWrite(cmd.cmd_type) \/ cmd.cmd_type = "REFRESH_BANK",
         PlaceOf(cmd.addr) \in Place,
         IsValid(GetReadyCommand(ch, cmd))
  PROVE  /\ Issuable(ch, GetReadyCommand(ch, cmd))
         /\ GetReadyCommand(ch, cmd).cmd_type \in {"ACTIVATE", "PRECHARGE", cmd.cmd_type}
         /\ GetReadyCommand(ch, cmd).cmd_type = cmd.cmd_type =>
              GetReadyCommand(ch, cmd) = cmd
<1> DEFINE b == ch.bank_states[PlaceOf(cmd.addr)]
           ready == BankReadyCommand(b, cmd)
           type == RequiredType(b, cmd)
<1>1. ~IsRankCMD(cmd.cmd_type) /\ (IsReadWrite(cmd.cmd_type) \/ IsRefresh(cmd.cmd_type))
  BY DEF IsRankCMD, IsReadWrite, IsRead, IsWrite, IsRefresh
<1>2. ~IsValid(NoCommand)
  BY DEF IsValid, NoCommand, Command
<1>3. GetReadyCommand(ch, cmd) = ready /\ IsValid(ready)
  BY <1>1, <1>2 DEF GetReadyCommand
<1>4. BankOK(b)
  BY DEF ChannelOK
<1>5. ready = Command(type, cmd.addr, cmd.hex_addr)
  BY <1>1, <1>3, <1>4, BankReadyOK
<1>6. Allowed(b, type) /\ type \in {"ACTIVATE", "PRECHARGE", cmd.cmd_type}
  BY <1>1, <1>4, RequiredTypeOK
<1> HIDE DEF b, type, ready
<1>7. ready.cmd_type = type /\ ready.addr = cmd.addr
  BY <1>5 DEF Command
<1>8. Targets(ready) = {PlaceOf(cmd.addr)}
  BY <1>6, <1>7, <1>1 DEF Targets, IsRankCMD
<1>9. Issuable(ch, ready)
  BY <1>1, <1>6, <1>7, <1>8 DEF Issuable, b
<1> QED
  BY <1>3, <1>5, <1>6, <1>7, <1>9 DEF IsCommand

(* The first bank in the order of the loops is one of those looked at. *)
LEMMA FirstPlaceIsIn ==
  ASSUME NEW rank, NEW places, places # {},
         places \subseteq {p \in Place : p[1] = rank}
  PROVE  FirstPlace(rank, places) \in places
<1> DEFINE J == {p[2] : p \in places}
           j == Min(J)
           K == {p[3] : p \in {p \in places : p[2] = j}}
<1>1. \A p \in places : /\ p = <<p[1], p[2], p[3]>> /\ p[1] = rank
                         /\ p[2] \in Nat /\ p[3] \in Nat
  BY StructureAssumption DEF Place, Rank
<1>2. J \subseteq Nat /\ J # {}
  BY <1>1
<1>3. j \in J
  BY <1>2, MinIsIn
<1>4. PICK p \in places : p[2] = j
  BY <1>3
<1> HIDE DEF j
<1>5. K \subseteq Nat /\ K # {}
  BY <1>1, <1>4
<1>6. Min(K) \in K
  BY <1>5, MinIsIn
<1>7. PICK q \in places : q[2] = j /\ q[3] = Min(K)
  BY <1>6
<1>8. q = <<rank, j, Min(K)>>
  BY <1>1, <1>7
<1> QED
  BY <1>8 DEF FirstPlace, j

(* A refresh of a rank, once ready, is issuable at every bank of the rank; *)
(* otherwise what is named is a precharge of one bank that is open.        *)
LEMMA ToRank ==
  ASSUME NEW ch, NEW cmd, ChannelOK(ch), IsCommand(cmd),
         cmd.cmd_type = "REFRESH", IsValid(GetReadyCommand(ch, cmd))
  PROVE  /\ Issuable(ch, GetReadyCommand(ch, cmd))
         /\ GetReadyCommand(ch, cmd).cmd_type \in {"PRECHARGE", "REFRESH"}
<1> DEFINE Ready(p) == BankReadyCommand(ch.bank_states[p], cmd)
           all == {p \in Place : p[1] = cmd.addr.rank}
           before == {p \in all : Ready(p).cmd_type \notin {"SIZE", cmd.cmd_type}}
           first == FirstPlace(cmd.addr.rank, before)
<1>1. GetReadyCommand(ch, cmd) = RankReadyCommand(ch, cmd)
  BY DEF GetReadyCommand, IsRankCMD
<1>2. \A p \in all : BankOK(ch.bank_states[p])
  BY DEF ChannelOK
<1>3. IsRefresh(cmd.cmd_type) /\ IsRankCMD(cmd.cmd_type)
  BY DEF IsRefresh, IsRankCMD
<1>4. \A p \in all : IsValid(Ready(p)) =>
        /\ Ready(p) = Command(RequiredType(ch.bank_states[p], cmd), cmd.addr, cmd.hex_addr)
        /\ Allowed(ch.bank_states[p], Ready(p).cmd_type)
        /\ Ready(p).cmd_type \in {"PRECHARGE", "REFRESH"}
  <2> SUFFICES ASSUME NEW p \in all, IsValid(Ready(p))
               PROVE  /\ Ready(p) = Command(RequiredType(ch.bank_states[p], cmd),
                                            cmd.addr, cmd.hex_addr)
                      /\ Allowed(ch.bank_states[p], Ready(p).cmd_type)
                      /\ Ready(p).cmd_type \in {"PRECHARGE", "REFRESH"}
    OBVIOUS
  <2>1. Ready(p) = Command(RequiredType(ch.bank_states[p], cmd), cmd.addr, cmd.hex_addr)
    BY <1>2, <1>3, BankReadyOK
  <2>2. Ready(p).cmd_type = RequiredType(ch.bank_states[p], cmd)
    BY <2>1 DEF Command
  <2> QED
    BY <2>1, <2>2, <1>2, <1>3, RequiredTypeOK
<1>5. CASE before # {}
  <2> DEFINE r == [Ready(first) EXCEPT
                     !.addr = Address(first[1], first[2], first[3], -1, -1)]
  <2>1. first \in before
    BY <1>5, FirstPlaceIsIn
  <2>2. GetReadyCommand(ch, cmd) = r
    BY <1>1, <1>5 DEF RankReadyCommand
  <2>3. first \in all /\ IsValid(Ready(first)) /\ Ready(first).cmd_type # cmd.cmd_type
    BY <2>1 DEF IsValid
  <2> HIDE DEF first
  <2>4. Ready(first).cmd_type = "PRECHARGE" /\ Allowed(ch.bank_states[first], "PRECHARGE")
    BY <1>4, <2>3
  <2>5. r.cmd_type = "PRECHARGE" /\ r.addr = Address(first[1], first[2], first[3], -1, -1)
    BY <1>4, <2>3, <2>4 DEF Command
  <2> HIDE DEF r
  <2>6. PlaceOf(r.addr) = first
    BY <2>3, <2>5 DEF PlaceOf, Address, Place
  <2>7. Targets(r) \subseteq {first}
    BY <2>5, <2>6 DEF Targets, IsRankCMD
  <2> QED
    BY <2>2, <2>4, <2>5, <2>7 DEF Issuable
<1>6. CASE before = {}
  <2>a. GetReadyCommand(ch, cmd) =
          IF \A q \in all : IsValid(Ready(q)) THEN cmd ELSE NoCommand
    BY <1>1, <1>6 DEF RankReadyCommand
  <2>b. ~IsValid(NoCommand)
    BY DEF NoCommand, Command, IsValid
  <2>1. GetReadyCommand(ch, cmd) = cmd /\ \A p \in all : IsValid(Ready(p))
    BY <2>a, <2>b
  <2>2. \A p \in all : Ready(p).cmd_type = cmd.cmd_type
    BY <1>6, <2>1 DEF IsValid
  <2>3. Targets(cmd) = all
    BY <1>3 DEF Targets
  <2> QED
    BY <1>3, <1>4, <2>1, <2>2, <2>3 DEF Issuable
<1> QED
  BY <1>5, <1>6

(* What GetReadyCommand makes of an entry of refresh_q is issuable, and    *)
(* moves no data.                                                          *)
LEMMA RefreshReady ==
  ASSUME NEW ch, NEW cmd \in RefreshCommands, ChannelOK(ch),
         IsValid(GetReadyCommand(ch, cmd))
  PROVE  /\ Issuable(ch, GetReadyCommand(ch, cmd))
         /\ ~IsReadWrite(GetReadyCommand(ch, cmd).cmd_type)
<1>1. IsCommand(cmd)
  BY DEF RefreshCommands, IsCommand, Command
<1>2. \/ cmd.cmd_type = "REFRESH"
      \/ cmd.cmd_type = "REFRESH_BANK" /\ PlaceOf(cmd.addr) \in Place
  BY DEF RefreshCommands, Command, PlaceOf, Address, Place
<1> QED
  BY <1>1, <1>2, ToRank, ToOneBank DEF IsReadWrite, IsRead, IsWrite

(* RefreshDone takes an entry off refresh_q and invents none. *)
LEMMA RefreshDoneOK ==
  ASSUME NEW q \in Seq(RefreshCommands), NEW cmd
  PROVE  RefreshDone(q, cmd) \in Seq(RefreshCommands)
<1> DEFINE Test(ref) == IF IsRankCMD(cmd.cmd_type) THEN ref.addr.rank = cmd.addr.rank
                        ELSE PlaceOf(ref.addr) = PlaceOf(cmd.addr)
           I == {i \in 1 .. Len(q) : Test(q[i])}
<1>1. CASE I # {}
  <2>1. I \subseteq Nat /\ I \subseteq 1 .. Len(q)
    BY LenProperties
  <2> HIDE DEF I
  <2>3. Min(I) \in 1 .. Len(q)
    BY <1>1, <2>1, MinIsIn
  <2>2. RemoveAt(q, Min(I)) \in Seq(RefreshCommands)
    BY <2>3, RemoveAtProperties
  <2> QED
    BY <1>1, <2>2 DEF I, RefreshDone, RemoveFirstMatch, SelectInSeq
<1>2. CASE I = {}
  BY <1>2 DEF RefreshDone, RemoveFirstMatch
<1> QED
  BY <1>1, <1>2

(* UpdateTimingAndStates with an issuable command does not abort and keeps *)
(* the channel well formed.                                                *)
LEMMA UpdateOK ==
  ASSUME NEW ch, NEW cmd, ChannelOK(ch), Issuable(ch, cmd)
  PROVE  ChannelOK(UpdateTimingAndStates(ch, cmd))
<1> DEFINE d == UpdateState(ch, cmd)
           e == IF cmd.cmd_type = "ACTIVATE"
                THEN UpdateActivationTimes(d, cmd.addr.rank) ELSE d
<1>1. cmd.cmd_type # "SREF_ENTER"
  BY DEF Issuable, IsReadWrite, IsRead, IsWrite, IsRefresh
<1>2. \A p \in Place : BankOK(BankUpdateState(ch.bank_states[p], cmd))
  BY <1>1, BankUpdateOK DEF ChannelOK
<1>3. RefreshDone(ch.refresh_q, cmd) \in Seq(RefreshCommands)
  BY RefreshDoneOK DEF ChannelOK
<1>4. ~\E p \in Targets(cmd) : ~Allowed(ch.bank_states[p], cmd.cmd_type)
  BY DEF Issuable
<1>5. ChannelOK(d)
  <2> DEFINE B == [p \in Place |-> IF p \in Targets(cmd)
                       THEN BankUpdateState(ch.bank_states[p], cmd) ELSE ch.bank_states[p]]
             q == IF IsRefresh(cmd.cmd_type) THEN RefreshDone(ch.refresh_q, cmd)
                  ELSE ch.refresh_q
             sref == [ch.rank_is_sref EXCEPT ![cmd.addr.rank] =
                        (@ \/ cmd.cmd_type = "SREF_ENTER")
                          /\ cmd.cmd_type # "SREF_EXIT"]
             abort == ch.aborted \/ \E p \in Targets(cmd) :
                        ~Allowed(ch.bank_states[p], cmd.cmd_type)
  <2>1. B = [p \in Place |-> B[p]] /\ \A p \in Place : BankOK(B[p])
    BY <1>2 DEF ChannelOK
  <2>2. q \in Seq(RefreshCommands)
    BY <1>3 DEF ChannelOK
  <2>3. abort = FALSE
    BY <1>4 DEF ChannelOK
  <2>4. d = [ch EXCEPT !.bank_states = B, !.refresh_q = q,
                       !.rank_is_sref = sref, !.aborted = abort]
    BY DEF ChannelOK, UpdateState
  <2> HIDE DEF d, B, q, sref, abort
  <2> QED
    BY <2>1, <2>2, <2>3, <2>4 DEF ChannelOK
<1> HIDE DEF d
<1>6. ChannelOK(e)
  BY <1>5 DEF ChannelOK, UpdateActivationTimes
<1> HIDE DEF e
<1>7. \A p \in Place : BankOK(BankUpdateTiming(e.bank_states[p], Delays(cmd, p)))
  BY <1>6, BankTimingOK DEF ChannelOK
<1> DEFINE B == [p \in Place |-> BankUpdateTiming(e.bank_states[p], Delays(cmd, p))]
<1>8. UpdateTimingAndStates(ch, cmd) = [e EXCEPT !.bank_states = B]
  BY DEF UpdateTimingAndStates, UpdateTiming, d, e
<1>9. B = [p \in Place |-> B[p]] /\ \A p \in Place : BankOK(B[p])
  BY <1>7
<1> HIDE DEF B
<1> QED
  BY <1>6, <1>8, <1>9 DEF ChannelOK

(* A cycle's time changes no state of a bank. *)
LEMMA ElapseOK ==
  ASSUME NEW ch, ChannelOK(ch)
  PROVE  ChannelOK(ChannelElapse(ch))
<1>1. \A p \in Place : BankOK(BankElapse(ch.bank_states[p]))
  BY BankTimingOK DEF ChannelOK
<1> DEFINE B == [p \in Place |-> BankElapse(ch.bank_states[p])]
           e == ChannelElapse(ch)
           Wait(aw) == [i \in DOMAIN aw |-> Sooner(aw[i])]
           four == [r \in Rank |-> Wait(ch.four_aw[r])]
           thirty_two == [r \in Rank |-> Wait(ch.thirty_two_aw[r])]
<1>2. B = [p \in Place |-> B[p]] /\ \A p \in Place : BankOK(B[p])
  BY <1>1
<1>3. e = [ch EXCEPT !.bank_states = B, !.four_aw = four,
                     !.thirty_two_aw = thirty_two]
  BY DEF ChannelElapse
<1> HIDE DEF B, e, four, thirty_two
<1>4. ChannelOK(e)
  BY <1>2, <1>3 DEF ChannelOK
<1> QED
  BY <1>4 DEF e

(* InsertRefresh, under each of the three policies, names a rank or a bank *)
(* that exists.                                                            *)
LEMMA RefreshChannelOK ==
  ASSUME NEW ch, NEW ref, ChannelOK(ch), ref.next \in Place
  PROVE  ChannelOK(RefreshChannel(ch, ref))
<1>0. ASSUME NEW cmd \in RefreshCommands
      PROVE  ChannelOK([ch EXCEPT !.refresh_q = Append(@, cmd)])
  <2>1. Append(ch.refresh_q, cmd) \in Seq(RefreshCommands)
    BY AppendProperties DEF ChannelOK
  <2> QED
    BY <2>1 DEF ChannelOK
<1> DEFINE awake == {r \in Rank : ~ch.rank_is_sref[r]}
<1>1. ASSUME NEW r \in Rank PROVE ChannelOK(RankNeedRefresh(ch, r))
  <2>1. Command("REFRESH", Address(r, -1, -1, -1, -1), -1) \in RefreshCommands
    BY DEF RefreshCommands
  <2> QED
    BY <1>0, <2>1 DEF RankNeedRefresh
<1>2. ChannelOK(BankNeedRefresh(ch, ref.next))
  <2>1. Command("REFRESH_BANK",
                Address(ref.next[1], ref.next[2], ref.next[3], -1, -1), -1)
          \in RefreshCommands
    BY DEF RefreshCommands
  <2> QED
    BY <1>0, <2>1 DEF BankNeedRefresh
<1>3. awake # {} => Min(awake) \in Rank
  BY MinIsIn, StructureAssumption DEF Rank, ranks
<1>4. ref.next[1] \in Rank
  BY DEF Place
<1>5. awake # {} => ChannelOK(RankNeedRefresh(ch, Min(awake)))
  BY <1>1, <1>3
<1>6. ChannelOK(RankNeedRefresh(ch, ref.next[1]))
  BY <1>1, <1>4
<1>7. CASE IsDue(ref)
  BY <1>2, <1>5, <1>6, <1>7, StructureAssumption DEF RefreshChannel, InsertRefresh
<1> QED
  BY <1>7 DEF RefreshChannel

(* IterateNext goes from a bank that exists to one that exists. *)
LEMMA RefreshTickOK ==
  ASSUME NEW ref, ref = [left |-> ref.left, next |-> ref.next],
         ref.next \in Place
  PROVE  /\ RefreshTick(ref) = [left |-> RefreshTick(ref).left,
                                next |-> RefreshTick(ref).next]
         /\ RefreshTick(ref).next \in Place
<1>1. IterateNext(ref.next) \in Place
  BY StructureAssumption DEF IterateNext, Place, Rank, ranks
<1> QED
  BY <1>1 DEF RefreshTick

(* The constructors of ChannelState and Refresh. *)
LEMMA NewChannelOK ==
  ChannelOK(NewChannelState) /\ NewRefresh.next \in Place
<1>1. \A p \in Place : BankOK(NewBank)
  BY DEF BankOK, NewBank
<1>2. <<>> \in Seq(RefreshCommands)
  BY EmptySeq
<1>3. <<0, 0, 0>> \in Place
  BY StructureAssumption DEF Place, Rank, ranks
<1> QED
  BY <1>1, <1>2, <1>3 DEF ChannelOK, NewChannelState, NewRefresh
=============================================================================
