----------------------------- MODULE DRAMSystem -----------------------------
(***************************************************************************)
(* JedecDRAMSystem: a controller per channel, driven by a caller that adds *)
(* transactions and advances the clock.  A cycle of the caller is any      *)
(* number of transactions, each after WillAcceptTransaction, followed by   *)
(* ClockTick, which first returns, one callback at a time, what is done    *)
(* and then advances the controllers.                                      *)
(*                                                                         *)
(* The caller sends transactions of Traffic again and again; MaxInFlight   *)
(* bounds those that are waiting for their callback (merged reads are not  *)
(* bounded by the queues).                                                 *)
(***************************************************************************)
EXTENDS Controller

CONSTANTS Traffic, MaxInFlight,
          RegionOf(_)       (* the address region of DRAMInterface         *)

ASSUME TrafficAssumption ==
  /\ Traffic \subseteq Transaction
  /\ MaxInFlight \in Nat

VARIABLES
  ctrls,     (* the controller of every channel                            *)
  clk,       (* clk_ modulo 2: it tells two ticks apart                    *)
  phase      (* "add" between two ticks, "return" once callbacks began     *)

vars == <<ctrls, clk, phase>>

Channel == 0 .. config.channels - 1

GetChannel(addr) == Field(addr, "ch")

Init ==
  /\ ctrls = [ch \in Channel |-> NewController]
  /\ clk = 0
  /\ phase = "add"

(* Transactions of a set of addresses that have not been called back. *)
InFlightIn(c, A) ==
  MapThenSumSet(LAMBDA a : c.pending_rd[a], A)
    + Cardinality({i \in DOMAIN c.return_queue : c.return_queue[i].addr \in A})

InFlight(A) == MapThenSumSet(LAMBDA ch : InFlightIn(ctrls[ch], A), Channel)

AllRunning == \A ch \in Channel : Running(ctrls[ch])

NothingDone(ch) == Done(ctrls[ch]) = {}

-----------------------------------------------------------------------------

Add(t) ==
  LET ch == GetChannel(t.addr) IN
  /\ AllRunning
  /\ phase = "add"
  /\ InFlight(Addr) < MaxInFlight
  /\ WillAcceptTransaction(ctrls[ch], t)
  /\ ctrls' = [ctrls EXCEPT ![ch] = AddTransaction(@, t)]
  /\ UNCHANGED <<clk, phase>>

(* read_callback_ or write_callback_, channel after channel. *)
Callback(ch) ==
  /\ AllRunning
  /\ ~NothingDone(ch)
  /\ \A before \in 0 .. ch - 1 : NothingDone(before)
  /\ ctrls' = [ctrls EXCEPT ![ch] = ReturnDoneTrans(@)]
  /\ phase' = "return"
  /\ UNCHANGED clk

Advance ==
  /\ AllRunning
  /\ \A ch \in Channel : NothingDone(ch)
  /\ clk' = 1 - clk

Tick ==
  /\ Advance
  /\ ctrls' = [ch \in Channel |-> ClockTick(ctrls[ch])]
  /\ phase' = "add"

Next ==
  \/ \E t \in Traffic : Add(t)
  \/ \E ch \in Channel : Callback(ch)
  \/ Tick

Spec == Init /\ [][Next]_vars

(* The caller's loop goes on: as long as the program runs, the clock       *)
(* advances once the callbacks that are due have been made.                *)
FairSpec ==
  Spec /\ WF_clk(Advance) /\ \A ch \in Channel : WF_vars(Callback(ch))

-----------------------------------------------------------------------------

(* The places where a transaction for address a, a write or a read, waits: *)
(* in a transaction queue or, as a command, in a command queue.            *)
Slots(queues) == UNION {{q} \X DOMAIN queues[q] : q \in DOMAIN queues}

WaitingAt(c, a, is_write) ==
  {s \in Slots(c.queues) :
     c.queues[s[1]][s[2]] = [addr |-> a, is_write |-> is_write]}

CommandsFor(c, a, is_write) ==
  {s \in Slots(c.cmd_queue.queues) :
     LET cmd == c.cmd_queue.queues[s[1]][s[2]] IN
     cmd.hex_addr = a /\ IsWrite(cmd.cmd_type) = is_write}

OnItsWay(c, a, is_write, pending) ==
  LET waiting == WaitingAt(c, a, is_write)
      commands == CommandsFor(c, a, is_write)
  IN  /\ pending <=> waiting # {} \/ commands # {}
      /\ waiting = {} \/ commands = {}
      /\ \A s, t \in waiting : s = t
      /\ \A s, t \in commands : s = t

(* An address with reads pending has exactly one read on its way, in one   *)
(* of the queues, and so for writes; nothing else is on its way.  It is    *)
(* what merging reads and writes rests on (AddTransaction, IssueCommand):  *)
(* a second command for an address would find nothing pending and exit     *)
(* ("not in read queue!"), a lost one would leave its reads unanswered.    *)
PendingOnItsWay ==
  \A ch \in Channel, a \in Addr :
    /\ OnItsWay(ctrls[ch], a, FALSE, ctrls[ch].pending_rd[a] > 0)
    /\ OnItsWay(ctrls[ch], a, TRUE, a \in ctrls[ch].pending_wr)

(* No command reaches a bank in a state that does not allow it, and no     *)
(* lookup fails: BankState and Controller never give up with AbruptExit    *)
(* or exit(1).                                                             *)
NeverAborts == AllRunning

(* A drain in progress is covered by lines in the write buffer; otherwise  *)
(* ScheduleTransaction would look at an empty buffer for ever and no read  *)
(* would be scheduled again.                                               *)
DrainCovered ==
  \A ch \in Channel :
    ctrls[ch].write_draining <= Len(ctrls[ch].queues["write"])

(* The delays of Timing keep the data bus free of collisions: no cycle has *)
(* two bursts, whatever the banks, bankgroups and ranks they come from.    *)
OneBurstAtATime ==
  \A ch \in Channel : \A i \in DOMAIN ctrls[ch].bus : ctrls[ch].bus[i] <= 1

(* Refreshes keep up: when the next one falls due for a rank or bank, the  *)
(* one before has been issued.                                             *)
RefreshKeepsUp ==
  \A ch \in Channel : LET q == ctrls[ch].channel_state.refresh_q IN
    \A i, j \in DOMAIN q : PlaceOf(q[i].addr) = PlaceOf(q[j].addr) => i = j

(* While a refresh is being prepared, exactly the queues of its rank or    *)
(* bank are held back; none is once the last one is done.                  *)
HeldBackForRefresh ==
  \A ch \in Channel : LET c == ctrls[ch] IN
    /\ c.cmd_queue.is_in_ref => IsRefreshWaiting(c.channel_state)
    /\ c.cmd_queue.ref_q_indices =
         IF c.cmd_queue.is_in_ref
         THEN GetRefQIndices(Head(c.channel_state.refresh_q)) ELSE {}

(* A write that is performed in a step, and no read of its address is      *)
(* pending.                                                                *)
ReadFirst ==
  \A ch \in Channel :
    \A a \in ctrls[ch].pending_wr \ ctrls'[ch].pending_wr :
      ctrls[ch].pending_rd[a] = 0

(* A write is performed only when no read of its address is pending: such  *)
(* a read was added before the write (a later one is answered from the     *)
(* write buffer) and must not see its data.                                *)
ReadsBeforeWrites == [][ReadFirst]_vars

(* A transaction that is refused is accepted after a while. *)
AcceptsAgain ==
  \A t \in Traffic : []<>WillAcceptTransaction(ctrls[GetChannel(t.addr)], t)

(* DRAMsim3 keeps the promises that DRAMInterface is modelled on. *)
Mem == INSTANCE Memory WITH
  unified_queue <- config.unified_queue,
  accepted <- [r \in {"A_ROW", "A_COL", "XW", "AXW"} |->
                 InFlight({a \in Addr : RegionOf(a) = r})],
  write_buffered <- \E ch \in Channel : IsQueueFill(ctrls[ch])

ImplementsMemory == Mem!MemorySpec
=============================================================================
