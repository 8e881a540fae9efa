----------------------------- MODULE NetmapRx ------------------------------
(***************************************************************************)
(* Zero-copy receive of the netmap driver: if_netmap_receive, its sweep,   *)
(* the ring accessors of uinet_if_netmap_host.c and the end of             *)
(* if_netmap_detach, composed with the context pool of BufinfoPool.        *)
(*                                                                         *)
(* The rx ring has NSlots slots, each naming a netmap buffer.  Going round *)
(* from hw_rx_rsvd_begin there are the reserved slots, whose buffers are   *)
(* with the stack, up to cur; all other slots are owned by the kernel or   *)
(* hold packets not yet received.  A packet is only the buffer it is in.   *)
(***************************************************************************)
EXTENDS BufinfoPool

CONSTANT NSlots    \* if_netmap_rxslots

\* if_netmap_attach makes the pool a proper fraction of the ring.
ASSUME NSlotsAssumption == NSlots \in Nat /\ Max < NSlots

Slot == 0 .. NSlots - 1

VARIABLES
  slot,             \* ring->slot[i].buf_idx
  ringCur, ringAvail, ringReserved,
  hw_rx_rsvd_begin,
  nm_index,         \* bi->nm_index of every context
  pc, cur, left, reserved, new_reserved    \* if_netmap_receive: its locals

ringVars == <<slot, ringCur, ringAvail, ringReserved, hw_rx_rsvd_begin,
              nm_index, pc, cur, left, reserved, new_reserved>>
vars == <<poolVars, ringVars>>

\* NETMAP_RING_NEXT
RingNext(i) == IF i + 1 = NSlots THEN 0 ELSE i + 1

\* The rx ring as found by if_netmap_attach (nm_buffer_indices).
nm_buffer_indices == [i \in Slot |-> i]

Init ==
  /\ PoolInit
  /\ slot = nm_buffer_indices
  /\ ringCur = 0 /\ ringAvail = 0 /\ ringReserved = 0
  /\ hw_rx_rsvd_begin = 0
  /\ nm_index = [bi \in Bufinfo |-> 0]
  /\ pc = "poll"
  /\ cur = 0 /\ left = 0 /\ reserved = 0 /\ new_reserved = 0

-----------------------------------------------------------------------------
\* The kernel, in uhi_poll: packets have arrived in some of its slots, of
\* which it keeps one empty.
KernelRx ==
  /\ pc = "poll" /\ ringAvail = 0
  /\ ringAvail' \in 1 .. NSlots - 1 - ringReserved
  /\ UNCHANGED <<poolVars, slot, ringCur, ringReserved, hw_rx_rsvd_begin,
                 nm_index, pc, cur, left, reserved, new_reserved>>

\* kthread_stop_check: a stop request ends the thread, between two passes.
RxStop ==
  /\ pc = "poll"
  /\ pc' = "stopped"
  /\ UNCHANGED <<poolVars, slot, ringCur, ringAvail, ringReserved,
                 hw_rx_rsvd_begin, nm_index, cur, left, reserved, new_reserved>>

PassStart ==
  /\ pc = "poll" /\ ringAvail > 0
  /\ pc' = "slot"
  /\ cur' = ringCur
  /\ left' = ringAvail
  /\ new_reserved' = 0
  /\ UNCHANGED <<poolVars, slot, ringCur, ringAvail, ringReserved,
                 hw_rx_rsvd_begin, nm_index, reserved>>

\* if_netmap_rxsetslot(&hw_rx_rsvd_begin, buf)
RxSetSlot(buf) ==
  /\ slot' = [slot EXCEPT ![hw_rx_rsvd_begin] = buf]
  /\ hw_rx_rsvd_begin' = RingNext(hw_rx_rsvd_begin)

\* A packet with a context for it ...
RxAlloc ==
  /\ pc = "slot" /\ left > 0
  /\ Alloc
  /\ nm_index' = [nm_index EXCEPT ![pend'] = slot[cur]]
  /\ cur' = RingNext(cur)
  /\ pc' = "hdr"
  /\ UNCHANGED <<slot, ringCur, ringAvail, ringReserved, hw_rx_rsvd_begin,
                 left, reserved, new_reserved>>

\* ... goes to the stack in its netmap buffer, if m_gethdr succeeds;
RxZeroCopy ==
  /\ pc = "hdr"
  /\ HandOff
  /\ new_reserved' = new_reserved + 1
  /\ left' = left - 1
  /\ pc' = "slot"
  /\ UNCHANGED <<slot, ringCur, ringAvail, ringReserved, hw_rx_rsvd_begin,
                 nm_index, cur, reserved>>

\* otherwise it is dropped and its buffer recovered.
RxNoHeader ==
  /\ pc = "hdr"
  /\ RxSetSlot(nm_index[pend])
  /\ Unalloc
  /\ left' = left - 1
  /\ pc' = "slot"
  /\ UNCHANGED <<ringCur, ringAvail, ringReserved, nm_index, cur, reserved,
                 new_reserved>>

\* Mutant: the copied packet's buffer is put back in its own slot.
RxCopyInPlace ==
  /\ pc = "slot" /\ left > 0
  /\ avail = 0
  /\ hw_rx_rsvd_begin' = RingNext(hw_rx_rsvd_begin)
  /\ cur' = RingNext(cur)
  /\ left' = left - 1
  /\ UNCHANGED <<poolVars, slot, ringCur, ringAvail, ringReserved, nm_index,
                 pc, reserved, new_reserved>>

\* A packet without a context is copied (or dropped, if m_devget fails) and
\* its buffer is recovered at the far end of the reserved trail.
RxCopy ==
  /\ pc = "slot" /\ left > 0
  /\ avail = 0
  /\ RxSetSlot(slot[cur])
  /\ cur' = RingNext(cur)
  /\ left' = left - 1
  /\ UNCHANGED <<poolVars, ringCur, ringAvail, ringReserved, nm_index, pc,
                 reserved, new_reserved>>

\* Mutant: the sweep counts against the reserved slots of earlier passes only.
PassEndForgetsNew ==
  /\ pc = "slot" /\ left = 0
  /\ SweepStart
  /\ reserved' = reserved
  /\ pc' = "sweep"
  /\ UNCHANGED <<slot, ringCur, ringAvail, ringReserved, hw_rx_rsvd_begin,
                 nm_index, cur, left, new_reserved>>

PassEnd ==
  /\ pc = "slot" /\ left = 0
  /\ SweepStart
  /\ reserved' = reserved + new_reserved
  /\ pc' = "sweep"
  /\ UNCHANGED <<slot, ringCur, ringAvail, ringReserved, hw_rx_rsvd_begin,
                 nm_index, cur, left, new_reserved>>

RxSweepOne ==
  /\ pc = "sweep"
  /\ SweepOne
  /\ RxSetSlot(nm_index[Swept])
  /\ UNCHANGED <<ringCur, ringAvail, ringReserved, nm_index, pc, cur, left,
                 reserved, new_reserved>>

\* if_netmap_rxupdate: the kernel gets the swept slots back.
RxUpdate ==
  /\ pc = "sweep"
  /\ SweepEnd
  /\ reserved' = reserved - returned
  /\ ringCur' = cur /\ ringAvail' = 0 /\ ringReserved' = reserved'
  /\ pc' = "poll"
  /\ UNCHANGED <<slot, hw_rx_rsvd_begin, nm_index, cur, left, new_reserved>>

\* if_netmap_detach, once the thread has acknowledged the stop request: the
\* ring gets the buffers it had when the interface was attached.
Detach ==
  /\ pc = "stopped"
  /\ slot' = nm_buffer_indices
  /\ pc' = "detached"
  /\ UNCHANGED <<poolVars, ringCur, ringAvail, ringReserved, hw_rx_rsvd_begin,
                 nm_index, cur, left, reserved, new_reserved>>

\* An mbuf with a netmap buffer is freed, by any thread at any time.
StackFree == Free /\ UNCHANGED ringVars

RxThread ==
  \/ PassStart \/ RxAlloc \/ RxZeroCopy \/ RxNoHeader \/ RxCopy
  \/ PassEnd \/ RxSweepOne \/ RxUpdate

Next == KernelRx \/ RxStop \/ RxThread \/ Detach \/ StackFree

Spec == Init /\ [][Next]_vars

(***************************************************************************)
(* The driver's threads keep running; traffic keeps arriving, because only *)
(* a pass with packets in it sweeps the trail.                             *)
(***************************************************************************)
FairSpec == Spec /\ WF_vars(RxThread) /\ WF_vars(KernelRx)

-----------------------------------------------------------------------------
\* How many slots are reserved at this point of the thread.
NReserved ==
  CASE pc = "slot" -> reserved + new_reserved
    [] pc = "hdr" -> reserved + new_reserved + 1
    [] OTHER -> reserved - n

Offset(i) == IF i >= hw_rx_rsvd_begin THEN i - hw_rx_rsvd_begin
                                      ELSE i + NSlots - hw_rx_rsvd_begin

\* The slots the kernel may fill or has filled.
RingOwned == {i \in Slot : Offset(i) >= NReserved}

\* Contexts given back by the stack and not swept yet.
GivenBack == {free_list[Place(k)] : k \in avail + n .. avail + returnable - 1}

Running == pc \in {"poll", "slot", "hdr", "sweep"}

TypeOK ==
  /\ PoolTypeOK
  /\ slot \in [Slot -> Slot]
  /\ ringCur \in Slot /\ ringAvail \in 0 .. NSlots - 1 /\ ringReserved \in 0 .. Max
  /\ hw_rx_rsvd_begin \in Slot
  /\ nm_index \in [Bufinfo -> Slot]
  /\ pc \in {"poll", "slot", "hdr", "sweep", "stopped", "detached"}
  /\ cur \in Slot /\ left \in 0 .. NSlots - 1
  /\ reserved \in 0 .. 2 * Max /\ new_reserved \in 0 .. 2 * Max

\* No netmap buffer is in two places: the buffers of the slots the kernel
\* can fill are all different, and none of them is with the stack or on its
\* way back from it.  Missing and duplicate indices occur in the reserved
\* range only, as if_netmap_detach says.
NoBufferShared ==
  Running =>
    /\ \A i, j \in RingOwned : i # j => slot[i] # slot[j]
    /\ \A bi \in held \cup GivenBack :
         /\ \A i \in RingOwned : slot[i] # nm_index[bi]
         /\ \A bj \in (held \cup GivenBack) \ {bi} : nm_index[bi] # nm_index[bj]

\* The reserved trail ends where the receive thread is: the slot it writes
\* a recovered buffer to is always the oldest reserved one (or, when there
\* is none, the slot just received).
TrailMeetsCur ==
  /\ pc \in {"slot", "hdr", "sweep"} =>
       /\ NReserved < NSlots
       /\ Offset(cur) = NReserved
  /\ pc = "poll" => Offset(ringCur) = ringReserved /\ ringReserved = reserved

\* The driver's count of reserved slots is the number of buffers really
\* away from the ring, so every slot is accounted for.
ReservedExact ==
  Running => NReserved = Cardinality(held) + returnable - n

\* At the end of each pass at most the pool's share of the ring is reserved,
\* so the rest is there for new packets (the comment on ZCOPY_FRAC).
RingShare == pc = "poll" => ringReserved <= Max

\* A buffer the stack has given back is eventually on the ring again, as
\* long as packets arrive and the interface is not stopped.
GivenBackRecycled ==
  \A bi \in Bufinfo : (bi \in GivenBack) ~> (bi \notin GivenBack \/ ~Running)

\* The thread and the pool agree where they are, and the packets of a pass
\* that are still to be received do not reach round to the reserved slots.
PassInv ==
  /\ pc = "hdr" <=> pend # NoBufinfo
  /\ pc = "sweep" <=> rxpc = "sweep"
  /\ pc = "slot" => left + NReserved < NSlots
  /\ pc = "hdr" => left > 0 /\ left + NReserved <= NSlots
  /\ pc = "poll" => ringAvail + ringReserved < NSlots

\* The bookkeeping of the ring: its state has its type, the trail of the pool
\* and cur meet at the ends of the reserved slots, reserved counts them, the
\* kernel is left its share, and a pass stays within what the kernel filled.
RingInv == TypeOK /\ TrailMeetsCur /\ ReservedExact /\ RingShare /\ PassInv
=============================================================================
