------------------------------ MODULE NetmapTx ------------------------------
(***************************************************************************)
(* Transmission on a netmap interface (lib/libuinet/uinet_if_netmap.c):    *)
(* threads of the stack put packets on the interface's send queue and call *)
(* if_start (IFQ_HANDOFF, sys/net/if_var.h), which counts them for the     *)
(* transmit thread; the thread moves packets to slots of the ring and      *)
(* tells the kernel with a sync.  The kernel is modelled from what         *)
(* uinet_if_netmap_host.c reads and writes: the ring's cur, and the room   *)
(* it reports, which a sync or a poll brings up to date.                   *)
(*                                                                         *)
(* Packets are numbered in the order they are queued.  tx_lock is only     *)
(* held within a step: cv_timedwait releases it.                           *)
(***************************************************************************)
EXTENDS Integers, Sequences, FiniteSets

CONSTANTS
  Sender,        \* threads that send
  MaxPkts,       \* bound: packets sent in all
  QLen,          \* ifq_maxlen
  NSlots,        \* slots of the ring, one of which stays empty
  None

ASSUME QAssumption == QLen \in Nat \ {0} /\ MaxPkts \in Nat
ASSUME RingAssumption == NSlots \in Nat /\ NSlots >= 2
ASSUME SenderAssumption == IsFiniteSet(Sender) /\ None \notin Nat

VARIABLES
  if_snd, queued,        \* the send queue, and the packets put on it so far
  spc,                   \* each sender in IFQ_HANDOFF
  tx_pkts_to_send,
  opackets,              \* the packets if_opackets counts
  tpc, m, cur, avail, pkts_sent, done,     \* if_netmap_send and its locals
  slot, txcur, space,    \* the ring: packets in its slots, its cur and its room
  wire,                  \* what the kernel was given to send
  stop_req, due          \* td_stop_req; whether a stop check is due again

sendVars == <<if_snd, queued, spc>>
locals   == <<m, cur, avail, pkts_sent, done>>
ringVars == <<slot, txcur, space, wire>>
stopVars == <<stop_req, due>>
vars == <<sendVars, tx_pkts_to_send, opackets, tpc, locals, ringVars, stopVars>>

Init ==
  /\ if_snd = <<>> /\ queued = 0
  /\ spc = [s \in Sender |-> "idle"]
  /\ tx_pkts_to_send = 0 /\ opackets = {}
  /\ tpc = "top" /\ m = None /\ cur = 0 /\ avail = 0 /\ pkts_sent = 0 /\ done = FALSE
  /\ slot = [i \in 0 .. NSlots - 1 |-> None] /\ txcur = 0 /\ space = NSlots - 1
  /\ wire = <<>>
  /\ stop_req = FALSE /\ due = FALSE

-----------------------------------------------------------------------------
(***************************************************************************)
(* IFQ_HANDOFF: the packet is queued, or dropped if the queue is full, and *)
(* then if_start is called (the driver never sets IFF_DRV_OACTIVE).        *)
(***************************************************************************)

Enqueue(s) ==
  /\ spc[s] = "idle" /\ queued < MaxPkts /\ Len(if_snd) < QLen
  /\ queued' = queued + 1
  /\ if_snd' = Append(if_snd, queued')
  /\ spc' = [spc EXCEPT ![s] = "queued"]
  /\ UNCHANGED <<tx_pkts_to_send, opackets, tpc, locals, ringVars, stopVars>>

\* Mutant: the thread is signalled for the first packet in the queue.
StartByQueue(s) ==
  /\ spc[s] = "queued"
  /\ spc' = [spc EXCEPT ![s] = "idle"]
  /\ tx_pkts_to_send' = tx_pkts_to_send + 1
  /\ tpc' = IF tpc = "wait" /\ Len(if_snd) = 1 THEN "woken" ELSE tpc
  /\ UNCHANGED <<if_snd, queued, opackets, locals, ringVars, stopVars>>

\* Mutant: a packet queued while the thread works is not counted.
StartOnlyWaiting(s) ==
  /\ spc[s] = "queued"
  /\ spc' = [spc EXCEPT ![s] = "idle"]
  /\ tx_pkts_to_send' = IF tpc = "wait" THEN tx_pkts_to_send + 1 ELSE tx_pkts_to_send
  /\ tpc' = IF tpc = "wait" THEN "woken" ELSE tpc
  /\ UNCHANGED <<if_snd, queued, opackets, locals, ringVars, stopVars>>

if_netmap_start(s) ==
  /\ spc[s] = "queued"
  /\ spc' = [spc EXCEPT ![s] = "idle"]
  /\ tx_pkts_to_send' = tx_pkts_to_send + 1
  /\ tpc' = IF tpc = "wait" /\ tx_pkts_to_send' = 1 THEN "woken" ELSE tpc
  /\ UNCHANGED <<if_snd, queued, opackets, locals, ringVars, stopVars>>

-----------------------------------------------------------------------------
(***************************************************************************)
(* if_netmap_send.                                                         *)
(***************************************************************************)

\* kthread_stop_check looks at the request only when it is due again.
StopChecked(b) == b = (due /\ stop_req) /\ due' = FALSE

\* With tx_lock held: wait while nothing is to be sent, or go on.
WaitOrGo(count) == IF count = 0 THEN "wait" ELSE "dequeue"

Top ==
  /\ tpc = "top"
  /\ tx_pkts_to_send' = tx_pkts_to_send - pkts_sent
  /\ pkts_sent' = 0
  /\ tpc' = WaitOrGo(tx_pkts_to_send')
  /\ UNCHANGED <<sendVars, opackets, m, cur, avail, done, ringVars, stopVars>>

Woken ==
  /\ tpc = "woken"
  /\ tpc' = WaitOrGo(tx_pkts_to_send)
  /\ UNCHANGED <<sendVars, tx_pkts_to_send, opackets, locals, ringVars, stopVars>>

\* Mutant: the thread does not ask for a stop while it has nothing to do.
WaitTimeoutNoCheck ==
  /\ tpc = "wait"
  /\ tpc' = "woken"
  /\ UNCHANGED <<sendVars, tx_pkts_to_send, opackets, locals, ringVars, stopVars>>

WaitTimeout ==
  /\ tpc = "wait"
  /\ \E b \in BOOLEAN : StopChecked(b) /\ done' = b
  /\ tpc' = IF done' THEN "ack" ELSE "woken"
  /\ UNCHANGED <<sendVars, tx_pkts_to_send, opackets, m, cur, avail, pkts_sent, ringVars,
                 stop_req>>

\* Mutant: the packet that was queued last is taken.
DequeuedLast ==
  /\ m' = IF if_snd = <<>> THEN None ELSE if_snd[Len(if_snd)]
  /\ if_snd' = IF if_snd = <<>> THEN if_snd ELSE SubSeq(if_snd, 1, Len(if_snd) - 1)

\* IFQ_DRV_DEQUEUE.
Dequeued ==
  /\ m' = IF if_snd = <<>> THEN None ELSE Head(if_snd)
  /\ if_snd' = IF if_snd = <<>> THEN if_snd ELSE Tail(if_snd)

Dequeue ==
  /\ tpc = "dequeue"
  /\ Dequeued
  /\ tpc' = IF m' = None THEN "sync" ELSE "room"
  /\ UNCHANGED <<queued, spc, tx_pkts_to_send, opackets, cur, avail, pkts_sent, done, ringVars,
                 stopVars>>

\* No room as far as the thread knows: poll, until there is or the time is up.
PollReady ==
  /\ tpc = "room" /\ avail = 0
  /\ \E r \in space .. NSlots - 1 : r > 0 /\ space' = r /\ avail' = r
  /\ UNCHANGED <<sendVars, tx_pkts_to_send, opackets, tpc, m, cur, pkts_sent, done, slot, txcur,
                 wire, stopVars>>

PollTimeout ==
  /\ tpc = "room" /\ avail = 0 /\ space = 0
  /\ \E b \in BOOLEAN : StopChecked(b) /\ done' = b
  /\ tpc' = IF done' THEN "sync" ELSE "room"
  /\ UNCHANGED <<sendVars, tx_pkts_to_send, opackets, m, cur, avail, pkts_sent, ringVars,
                 stop_req>>

\* Mutant: the thread goes on from its own cur.
RoomKeepsCur ==
  /\ tpc = "room" /\ avail > 0
  /\ \E b \in BOOLEAN : StopChecked(b) /\ done' = b
  /\ tpc' = IF done' THEN "sync" ELSE "fill"
  /\ UNCHANGED <<sendVars, tx_pkts_to_send, opackets, m, cur, avail, pkts_sent, ringVars,
                 stop_req>>

\* There is: stop if asked to, or start to fill slots at the ring's cur.
Room ==
  /\ tpc = "room" /\ avail > 0
  /\ \E b \in BOOLEAN : StopChecked(b) /\ done' = b
  /\ tpc' = IF done' THEN "sync" ELSE "fill"
  /\ cur' = IF done' THEN cur ELSE txcur
  /\ UNCHANGED <<sendVars, tx_pkts_to_send, opackets, m, avail, pkts_sent, ringVars, stop_req>>

\* A packet goes into a slot and the next one is dequeued.
Fill ==
  /\ tpc = "fill"
  /\ slot' = [slot EXCEPT ![cur] = m]
  /\ cur' = (cur + 1) % NSlots
  /\ avail' = avail - 1 /\ pkts_sent' = pkts_sent + 1
  /\ opackets' = opackets \cup {m}
  /\ Dequeued
  /\ tpc' = IF m' = None THEN "sync" ELSE IF avail' = 0 THEN "room" ELSE "fill"
  /\ UNCHANGED <<queued, spc, tx_pkts_to_send, done, txcur, space, wire, stopVars>>

\* if_netmap_txsync: the kernel sends the slots from its cur up to c, and
\* makes room of what has been sent.
Batch(c) == [i \in 1 .. (c - txcur) % NSlots |-> slot[(txcur + i - 1) % NSlots]]

txsync(c) ==
  /\ wire' = wire \o Batch(c)
  /\ txcur' = c
  /\ \E r \in space - Len(Batch(c)) .. NSlots - 1 : space' = r /\ avail' = r

Sync ==
  /\ tpc = "sync"
  /\ IF pkts_sent > 0 THEN txsync(cur) ELSE UNCHANGED <<wire, txcur, space, avail>>
  /\ tpc' = IF done THEN "ack" ELSE "top"
  /\ UNCHANGED <<sendVars, tx_pkts_to_send, opackets, m, cur, pkts_sent, done, slot, stopVars>>

kthread_stop_ack ==
  /\ tpc = "ack"
  /\ tpc' = "stopped"
  /\ UNCHANGED <<sendVars, tx_pkts_to_send, opackets, locals, ringVars, stopVars>>

if_netmap_send ==
  \/ Top \/ Woken \/ Dequeue \/ PollReady \/ PollTimeout \/ Room \/ Fill \/ Sync
  \/ kthread_stop_ack

-----------------------------------------------------------------------------
\* if_netmap_detach asks the thread to stop.
kthread_stop ==
  /\ ~stop_req
  /\ stop_req' = TRUE
  /\ UNCHANGED <<sendVars, tx_pkts_to_send, opackets, tpc, locals, ringVars, due>>

\* td_stop_check_ticks pass.
Tick ==
  /\ ~due
  /\ due' = TRUE
  /\ UNCHANGED <<sendVars, tx_pkts_to_send, opackets, tpc, locals, ringVars, stop_req>>

Next ==
  \/ \E s \in Sender : Enqueue(s) \/ if_netmap_start(s)
  \/ if_netmap_send \/ WaitTimeout
  \/ kthread_stop \/ Tick

Spec == Init /\ [][Next]_vars

(***************************************************************************)
(* The thread runs, a sender that has queued a packet calls if_start, time *)
(* passes, waits time out, and the hardware sends what it is given, so     *)
(* that a poll does not always find the ring full.                         *)
(***************************************************************************)
FairSpec ==
  /\ Spec
  /\ WF_vars(if_netmap_send) /\ SF_vars(PollReady) /\ WF_vars(Tick)
  /\ SF_vars(WaitTimeout /\ due)
  /\ \A s \in Sender : WF_vars(if_netmap_start(s))

-----------------------------------------------------------------------------
Pending == {s \in Sender : spc[s] = "queued"}

TypeOK ==
  /\ if_snd \in Seq(1 .. MaxPkts) /\ Len(if_snd) <= QLen /\ queued \in 0 .. MaxPkts
  /\ spc \in [Sender -> {"idle", "queued"}]
  /\ tx_pkts_to_send \in -Cardinality(Sender) .. MaxPkts
  /\ opackets \subseteq 1 .. MaxPkts
  /\ tpc \in {"top", "wait", "woken", "dequeue", "room", "fill", "sync", "ack", "stopped"}
  /\ m \in 1 .. MaxPkts \cup {None} /\ done \in BOOLEAN
  /\ cur \in 0 .. NSlots - 1 /\ txcur \in 0 .. NSlots - 1
  /\ avail \in 0 .. NSlots - 1 /\ space \in 0 .. NSlots - 1 /\ pkts_sent \in 0 .. MaxPkts
  /\ slot \in [0 .. NSlots - 1 -> 1 .. MaxPkts \cup {None}]
  /\ wire \in Seq(1 .. MaxPkts)
  /\ stop_req \in BOOLEAN /\ due \in BOOLEAN

\* The count is short of the packets not yet accounted for as sent by
\* exactly the senders that have not called if_start yet.  It may be
\* negative, but only while one of them is under way.
CountExact ==
  LET hand == IF m = None THEN 0 ELSE 1
  IN tx_pkts_to_send + Cardinality(Pending) = Len(if_snd) + hand + pkts_sent

\* The thread waits with packets in the queue only while a sender is about
\* to count them (and, if the count becomes 1, to signal the thread).
NoSleepOnQueue ==
  tpc = "wait" => Len(if_snd) <= Cardinality(Pending)

\* The ring is not overrun: the thread never puts a packet in a slot the
\* kernel has not given back, and never believes to have more room than the
\* ring has.
SlotsFree ==
  tpc = "fill" => avail + Len(Batch(cur)) <= space

\* Packets leave in the order they were queued, and none twice.
WireInOrder == \A i, j \in DOMAIN wire : i < j => wire[i] < wire[j]

\* if_opackets counts "packets sent on interface" (sys/net/if.h): a packet
\* counted has been given to the kernel, or is in a slot of the ring that the
\* next sync hands over.
OpacketsSent ==
  \A p \in opackets :
    \/ \E i \in DOMAIN wire : wire[i] = p
    \/ \E i \in DOMAIN Batch(cur) : Batch(cur)[i] = p

\* A packet on the queue is taken off it, unless the thread is asked to stop.
QueueDrains == \A p \in 1 .. MaxPkts : (if_snd # <<>> /\ Head(if_snd) = p)
                 ~> (stop_req \/ if_snd = <<>> \/ Head(if_snd) # p)

\* A stop that is asked for is acknowledged, so detaching the interface ends.
StopAcked == stop_req ~> tpc = "stopped"

\* The count kept by if_netmap_start and if_netmap_send and the queue they
\* change at other moments agree, and the thread does not sleep on a queue it
\* was told of; the ring is not overrun.
SendInv == TypeOK /\ CountExact /\ NoSleepOnQueue /\ SlotsFree
=============================================================================
