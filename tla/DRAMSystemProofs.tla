-------------------------- MODULE DRAMSystemProofs --------------------------
(***************************************************************************)
(* Safety of the memory system, for any number of channels, ranks, banks   *)
(* and rows, any delays, any queue sizes, refresh policy and page policy,  *)
(* any traffic, and any order of transactions, callbacks and ticks.        *)
(*                                                                         *)
(* IInv says that every controller satisfies ControllerOK                  *)
(* (ControllerProofs). The three properties follow from it. None of them   *)
(* is inductive alone: that the lookup of IssueCommand succeeds needs that *)
(* commands are pending, which needs that a merged transaction is never    *)
(* queued twice, which needs that a pending one is in some queue.          *)
(*                                                                         *)
(* The theorems assume one command per cycle and no self-refresh. The      *)
(* second command of an HBM cycle leaves its queue even when it is not     *)
(* issued (controller.cc:85-91), and the branch that wakes a rank from     *)
(* self-refresh (controller.cc:115-126) asks its banks for a command that  *)
(* they answer with AbruptExit (bankstate.cc:75-77). No configuration      *)
(* shipped with DRAMsim3 enables self-refresh.                             *)
(***************************************************************************)
EXTENDS DRAMSystem, ControllerProofs, TLAPS

(* The places where e waits in queues f, counted by Has and AtMostOnce. *)
LEMMA WaitingAsTable ==
  ASSUME NEW f, NEW e, NEW W,
         W = {s \in Slots(f) : f[s[1]][s[2]] = e}
  PROVE  /\ W # {} <=> Has(f, e)
         /\ AtMostOnce(f, e) => \A s, t \in W : s = t
<1>1. \A s \in W : \E q \in DOMAIN f : \E i \in DOMAIN f[q] :
        s = <<q, i>> /\ f[q][i] = e
  BY DEF Slots
<1>2. \A q \in DOMAIN f : \A i \in DOMAIN f[q] : f[q][i] = e => <<q, i>> \in W
  BY DEF Slots
<1>3. W # {} <=> Has(f, e)
  <2>1. ASSUME NEW s \in W PROVE Has(f, e)
    BY <1>1 DEF Has
  <2>2. ASSUME Has(f, e) PROVE W # {}
    <3>1. PICK q \in DOMAIN f : \E i \in DOMAIN f[q] : f[q][i] = e
      BY <2>2 DEF Has
    <3>2. PICK i \in DOMAIN f[q] : f[q][i] = e
      BY <3>1
    <3>3. <<q, i>> \in W
      BY <1>2, <3>2
    <3> QED
      BY <3>3
  <2> QED
    BY <2>1, <2>2
<1>4. ASSUME AtMostOnce(f, e), NEW s \in W, NEW t \in W PROVE s = t
  BY <1>1, <1>4 DEF AtMostOnce
<1> QED
  BY <1>3, <1>4

(* ControllerOK gives OnItsWay for reads and writes of every address. *)
LEMMA OnItsWayFromTables ==
  ASSUME NEW c, ControllerOK(c), NEW t \in Transaction
  PROVE  OnItsWay(c, t.addr, t.is_write, Pends(c.pending_rd, c.pending_wr, t))
<1> DEFINE f == c.queues
           g == c.cmd_queue.queues
           cmd == TransToCommand(t)
           waiting == WaitingAt(c, t.addr, t.is_write)
           commands == CommandsFor(c, t.addr, t.is_write)
<1>1. Travels(f, g, t, Pends(c.pending_rd, c.pending_wr, t))
  BY DEF ControllerOK, AllTravel
<1>2. waiting = {s \in Slots(f) : f[s[1]][s[2]] = t}
  <2>1. t = [addr |-> t.addr, is_write |-> t.is_write]
    BY DEF Transaction
  <2> QED
    BY <2>1 DEF WaitingAt
<1>3. commands = {s \in Slots(g) : g[s[1]][s[2]] = cmd}
  <2>1. \A q \in DOMAIN g : \A i \in DOMAIN g[q] :
          (g[q][i].hex_addr = t.addr /\ IsWrite(g[q][i].cmd_type) = t.is_write)
            <=> g[q][i] = cmd
    <3> SUFFICES ASSUME NEW q \in DOMAIN g, NEW i \in DOMAIN g[q]
                 PROVE  (g[q][i].hex_addr = t.addr
                           /\ IsWrite(g[q][i].cmd_type) = t.is_write)
                          <=> g[q][i] = cmd
      OBVIOUS
    <3>1. g[q] \in Seq(RWCommand)
      BY DEF ControllerOK, QueueOK
    <3>2. g[q][i] \in RWCommand
      BY <3>1, ElementOfSeq, LenProperties
    <3>3. PICK u \in Transaction : g[q][i] = TransToCommand(u)
      BY <3>2 DEF RWCommand
    <3>4. /\ g[q][i].hex_addr = u.addr /\ cmd.hex_addr = t.addr
          /\ IsWrite(g[q][i].cmd_type) <=> u.is_write
          /\ IsWrite(cmd.cmd_type) <=> t.is_write
      BY <3>3, CommandOfTransaction
    <3>5. /\ IsWrite(g[q][i].cmd_type) \in BOOLEAN
          /\ IsWrite(cmd.cmd_type) \in BOOLEAN
          /\ u.is_write \in BOOLEAN /\ t.is_write \in BOOLEAN
      BY DEF IsWrite, Transaction
    <3>6. u.addr = t.addr /\ u.is_write = t.is_write => u = t
      BY DEF Transaction
    <3> QED
      BY <3>3, <3>4, <3>5, <3>6
  <2>2. \A s \in Slots(g) : s[1] \in DOMAIN g /\ s[2] \in DOMAIN g[s[1]]
    BY DEF Slots
  <2> HIDE DEF g, cmd
  <2> QED
    BY <2>1, <2>2 DEF CommandsFor, g
<1> HIDE DEF waiting, commands, f, g, cmd
<1>4. /\ waiting # {} <=> Has(f, t)
      /\ AtMostOnce(f, t) => \A s, u \in waiting : s = u
  BY <1>2, WaitingAsTable
<1>5. /\ commands # {} <=> Has(g, cmd)
      /\ AtMostOnce(g, cmd) => \A s, u \in commands : s = u
  BY <1>3, WaitingAsTable
<1> QED
  BY <1>1, <1>4, <1>5 DEF OnItsWay, Travels, waiting, commands, cmd

(* The inductive invariant: every channel has a well-formed controller. *)
IInv ==
  /\ ctrls = [ch \in Channel |-> ctrls[ch]]
  /\ \A ch \in Channel : ControllerOK(ctrls[ch])

(* The constructor of JedecDRAMSystem establishes it. *)
LEMMA InitOK == Init => IInv
BY NewControllerOK DEF Init, IInv

(* AddTransaction, a callback and ClockTick preserve it. *)
LEMMA NextOK ==
  ASSUME ~enable_hbm_dual_cmd, ~config.enable_self_refresh
  PROVE  IInv /\ [Next]_vars => IInv'
<1> SUFFICES ASSUME IInv, [Next]_vars
             PROVE  IInv'
  OBVIOUS
<1>1. ASSUME NEW t \in Traffic, Add(t) PROVE IInv'
  <2> DEFINE ch == GetChannel(t.addr)
  <2>1. t \in Transaction
    BY TrafficAssumption
  <2>2. ctrls' = [ctrls EXCEPT ![ch] = AddTransaction(ctrls[ch], t)]
    BY <1>1 DEF Add
  <2>3. ch \in Channel => ControllerOK(AddTransaction(ctrls[ch], t))
    BY <2>1, AddTransactionOK DEF IInv
  <2> HIDE DEF ch
  <2> QED
    BY <2>2, <2>3 DEF IInv
<1>2. ASSUME NEW ch \in Channel, Callback(ch) PROVE IInv'
  <2>1. ctrls' = [ctrls EXCEPT ![ch] = ReturnDoneTrans(ctrls[ch])]
    BY <1>2 DEF Callback
  <2>2. ControllerOK(ReturnDoneTrans(ctrls[ch]))
    BY ReturnOK DEF IInv
  <2> QED
    BY <2>1, <2>2 DEF IInv
<1>3. ASSUME Tick PROVE IInv'
  <2>1. ctrls' = [ch \in Channel |-> ClockTick(ctrls[ch])]
    BY <1>3 DEF Tick
  <2>2. \A ch \in Channel : ControllerOK(ClockTick(ctrls[ch]))
    BY ClockTickOK DEF IInv
  <2> QED
    BY <2>1, <2>2 DEF IInv
<1>4. ASSUME UNCHANGED vars PROVE IInv'
  BY <1>4 DEF vars, IInv
<1> QED
  BY <1>1, <1>2, <1>3, <1>4 DEF Next

(* It implies the three properties. *)
LEMMA Consequences == IInv => PendingOnItsWay /\ NeverAborts /\ DrainCovered
<1> SUFFICES ASSUME IInv, NEW ch \in Channel
             PROVE  /\ \A a \in Addr :
                         /\ OnItsWay(ctrls[ch], a, FALSE, ctrls[ch].pending_rd[a] > 0)
                         /\ OnItsWay(ctrls[ch], a, TRUE, a \in ctrls[ch].pending_wr)
                    /\ Running(ctrls[ch])
                    /\ ctrls[ch].write_draining <= Len(ctrls[ch].queues["write"])
  BY DEF PendingOnItsWay, NeverAborts, AllRunning, DrainCovered
<1> DEFINE c == ctrls[ch]
<1>1. ControllerOK(c)
  BY DEF IInv
<1> HIDE DEF c
<1>2. ASSUME NEW a \in Addr, NEW w \in BOOLEAN
      PROVE  OnItsWay(c, a, w, IF w THEN a \in c.pending_wr ELSE c.pending_rd[a] > 0)
  <2> DEFINE t == [addr |-> a, is_write |-> w]
  <2>1. t \in Transaction /\ t.addr = a /\ t.is_write = w
    BY DEF Transaction
  <2> HIDE DEF t
  <2>2. OnItsWay(c, t.addr, t.is_write, Pends(c.pending_rd, c.pending_wr, t))
    BY <1>1, <2>1, OnItsWayFromTables
  <2>3. Pends(c.pending_rd, c.pending_wr, t) =
          IF w THEN a \in c.pending_wr ELSE c.pending_rd[a] > 0
    BY <2>1 DEF Pends
  <2> QED
    BY <2>1, <2>2, <2>3
<1>3. ASSUME NEW a \in Addr
      PROVE  /\ OnItsWay(c, a, FALSE, c.pending_rd[a] > 0)
             /\ OnItsWay(c, a, TRUE, a \in c.pending_wr)
  <2>1. OnItsWay(c, a, FALSE, IF FALSE THEN a \in c.pending_wr ELSE c.pending_rd[a] > 0)
    BY <1>2
  <2>2. OnItsWay(c, a, TRUE, IF TRUE THEN a \in c.pending_wr ELSE c.pending_rd[a] > 0)
    BY <1>2
  <2> QED
    BY <2>1, <2>2
<1>4. Running(c)
  BY <1>1 DEF ControllerOK, ChannelOK, QueueOK, Running
<1>5. c.write_draining <= Len(c.queues["write"])
  BY <1>1 DEF ControllerOK
<1> QED
  BY <1>3, <1>4, <1>5 DEF c

(* An address with reads pending has exactly one read on its way, in a     *)
(* transaction queue or a command queue, and so for writes                 *)
(* (AddTransaction, ScheduleTransaction, IssueCommand, EraseRWCommand): no *)
(* pending read is lost, no command is issued twice.                       *)
THEOREM QueuesHoldWhatPends ==
  ASSUME ~enable_hbm_dual_cmd, ~config.enable_self_refresh
  PROVE  Spec => []PendingOnItsWay
BY InitOK, NextOK, Consequences, PTL DEF Spec

(* No command reaches a bank that does not allow it, and no lookup of      *)
(* IssueCommand or EraseRWCommand fails: the program never ends in         *)
(* AbruptExit or exit(1).                                                  *)
THEOREM ControllerNeverAborts ==
  ASSUME ~enable_hbm_dual_cmd, ~config.enable_self_refresh
  PROVE  Spec => []NeverAborts
BY InitOK, NextOK, Consequences, PTL DEF Spec

(* write_draining_ never exceeds the lines in the write buffer, so a drain *)
(* comes to its end when the lines do (ScheduleTransaction).               *)
THEOREM DrainsHaveLines ==
  ASSUME ~enable_hbm_dual_cmd, ~config.enable_self_refresh
  PROVE  Spec => []DrainCovered
BY InitOK, NextOK, Consequences, PTL DEF Spec
=============================================================================
