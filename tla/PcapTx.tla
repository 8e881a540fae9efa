------------------------------- MODULE PcapTx -------------------------------
(***************************************************************************)
(* Transmission on a pcap interface (lib/libuinet/uinet_if_pcap.c).  Here  *)
(* IFF_DRV_OACTIVE says that the transmit thread is at work: IFQ_HANDOFF   *)
(* (sys/net/if_var.h) calls if_start only while it is clear, and reads it  *)
(* without the driver's lock.                                              *)
(*                                                                         *)
(* Packets are numbered in the order they are queued.  tx_lock is held     *)
(* from the test of the queue to the sleep, which releases it.             *)
(***************************************************************************)
EXTENDS Integers, Sequences

CONSTANTS
  Sender,      \* threads that send
  MaxPkts,     \* bound: packets sent in all
  QLen         \* ifq_maxlen

ASSUME QAssumption == QLen \in Nat \ {0} /\ MaxPkts \in Nat

VARIABLES
  if_snd, queued,    \* the send queue, and the packets put on it so far
  oactive,           \* IFF_DRV_OACTIVE
  spc, tpc,          \* each sender in IFQ_HANDOFF; the thread in if_pcap_send
  sent               \* what was given to pcap

pcapVars == <<if_snd, queued, oactive, spc, tpc, sent>>

\* tx_lock is taken by if_start for one step only.
LockFree == tpc \notin {"tested", "clear"}

PcapInit ==
  /\ if_snd = <<>> /\ queued = 0 /\ sent = <<>>
  /\ oactive = FALSE
  /\ spc = [s \in Sender |-> "idle"] /\ tpc = "top"

-----------------------------------------------------------------------------
Enqueue(s) ==
  /\ spc[s] = "idle" /\ queued < MaxPkts /\ Len(if_snd) < QLen
  /\ queued' = queued + 1
  /\ if_snd' = Append(if_snd, queued')
  /\ spc' = [spc EXCEPT ![s] = "queued"]
  /\ UNCHANGED <<oactive, tpc, sent>>

\* IFF_DRV_OACTIVE is read: if_start or not.
Handoff(s) ==
  /\ spc[s] = "queued"
  /\ spc' = [spc EXCEPT ![s] = IF oactive THEN "idle" ELSE "start"]
  /\ UNCHANGED <<if_snd, queued, oactive, tpc, sent>>

\* Mutant: if_start does not wake the thread if the flag is set already.
StartIfClear(s) ==
  /\ spc[s] = "start" /\ LockFree
  /\ oactive' = TRUE
  /\ tpc' = IF tpc = "sleep" /\ oactive THEN "woken" ELSE tpc
  /\ spc' = [spc EXCEPT ![s] = "idle"]
  /\ UNCHANGED <<if_snd, queued, sent>>

if_pcap_start(s) ==
  /\ spc[s] = "start" /\ LockFree
  /\ oactive' = TRUE
  /\ tpc' = IF tpc = "sleep" THEN "woken" ELSE tpc
  /\ spc' = [spc EXCEPT ![s] = "idle"]
  /\ UNCHANGED <<if_snd, queued, sent>>

\* SIOCSIFFLAGS: if_pcap_init or if_pcap_stop clears the flag, without tx_lock.
if_pcap_ioctl ==
  /\ oactive
  /\ oactive' = FALSE
  /\ UNCHANGED <<if_snd, queued, spc, tpc, sent>>

-----------------------------------------------------------------------------
(***************************************************************************)
(* if_pcap_send.                                                           *)
(***************************************************************************)

\* With tx_lock: is the queue empty?
Test ==
  /\ tpc \in {"top", "woken"}
  /\ tpc' = IF if_snd = <<>> THEN "tested" ELSE "drain"
  /\ UNCHANGED <<if_snd, queued, oactive, spc, sent>>

\* Mutant: the flag stays set.
ClearNot ==
  /\ tpc = "tested"
  /\ tpc' = "clear"
  /\ UNCHANGED <<if_snd, queued, oactive, spc, sent>>

Clear ==
  /\ tpc = "tested"
  /\ oactive' = FALSE
  /\ tpc' = "clear"
  /\ UNCHANGED <<if_snd, queued, spc, sent>>

AwaitWork ==
  /\ tpc = "clear"
  /\ tpc' = "sleep"
  /\ UNCHANGED <<if_snd, queued, oactive, spc, sent>>

SpuriousWake ==
  /\ tpc = "sleep"
  /\ tpc' = "woken"
  /\ UNCHANGED <<if_snd, queued, oactive, spc, sent>>

\* Mutant: the last packet of a burst is dequeued and forgotten.
DrainForgets ==
  /\ tpc = "drain" /\ if_snd # <<>>
  /\ if_snd' = Tail(if_snd)
  /\ IF if_snd' = <<>> THEN tpc' = "top" /\ UNCHANGED sent
     ELSE sent' = Append(sent, Head(if_snd)) /\ UNCHANGED tpc
  /\ UNCHANGED <<queued, oactive, spc>>

\* Without tx_lock: a packet is dequeued and sent, or the queue is empty.
Drain ==
  /\ tpc = "drain"
  /\ \/ /\ if_snd # <<>>
        /\ sent' = Append(sent, Head(if_snd)) /\ if_snd' = Tail(if_snd)
        /\ UNCHANGED tpc
     \/ /\ if_snd = <<>>
        /\ tpc' = "top"
        /\ UNCHANGED <<sent, if_snd>>
  /\ UNCHANGED <<queued, oactive, spc>>

if_pcap_send == Test \/ Clear \/ AwaitWork \/ Drain

-----------------------------------------------------------------------------
PcapNext ==
  \/ \E s \in Sender : Enqueue(s) \/ Handoff(s) \/ if_pcap_start(s)
  \/ if_pcap_send \/ SpuriousWake \/ if_pcap_ioctl

PcapSpec == PcapInit /\ [][PcapNext]_pcapVars

(***************************************************************************)
(* The thread runs, and a sender goes on with what it has begun.           *)
(***************************************************************************)
FairPcapSpec ==
  /\ PcapSpec
  /\ WF_pcapVars(if_pcap_send)
  /\ \A s \in Sender : WF_pcapVars(Handoff(s)) /\ SF_pcapVars(if_pcap_start(s))

-----------------------------------------------------------------------------
PcapTypeOK ==
  /\ if_snd \in Seq(1 .. MaxPkts) /\ Len(if_snd) <= QLen
  /\ queued \in 0 .. MaxPkts /\ oactive \in BOOLEAN
  /\ spc \in [Sender -> {"idle", "queued", "start"}]
  /\ tpc \in {"top", "tested", "clear", "sleep", "woken", "drain"}
  /\ sent \in Seq(1 .. MaxPkts)

\* Packets accepted are sent in order; the queue holds those still to be sent.
FifoLossless == sent \o if_snd = [i \in 1 .. queued |-> i]

\* A packet left in the queue while the thread sleeps is at least noticed
\* with the next one: the flag is clear, so the next sender calls if_start,
\* or one is about to.
NextPacketWakes ==
  tpc = "sleep" /\ if_snd # <<>> => ~oactive \/ \E s \in Sender : spc[s] = "start"

\* Every packet on the queue is sent.  The handoff logic relies on this when
\* it skips if_start because IFF_DRV_OACTIVE is set.
QueueSent == \A p \in 1 .. MaxPkts : p <= queued ~> p <= Len(sent)

\* A packet is sent once a sender has called if_start after it was queued.
StartedSent ==
  \A p \in 1 .. MaxPkts :
    (p <= queued /\ \E s \in Sender : spc[s] = "start") ~> p <= Len(sent)

\* The queue keeps its limit, and whatever the race for IFF_DRV_OACTIVE left in
\* it goes out with the next packet.
PcapInv == PcapTypeOK /\ NextPacketWakes
=============================================================================
