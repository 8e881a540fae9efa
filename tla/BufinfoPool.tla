---------------------------- MODULE BufinfoPool ----------------------------
(***************************************************************************)
(* The pool of zero-copy receive contexts of the netmap driver             *)
(* (struct if_netmap_bufinfo_pool in lib/libuinet/uinet_if_netmap.c).      *)
(*                                                                         *)
(* free_list is a circular array of bufinfo indices.  Going round from     *)
(* head it holds first the avail contexts the receive thread may allocate, *)
(* then, from trail, the returnable contexts the stack has given back and  *)
(* the receive thread has not swept yet, then, from tail, stale entries.   *)
(*                                                                         *)
(* head, avail and trail belong to the receive thread, which takes no      *)
(* lock.  tail belongs to whoever holds tail_lock: mbufs are freed by      *)
(* arbitrary threads.  returnable is shared and updated atomically.  A     *)
(* freeing thread is therefore modelled at the grain of its three stores.  *)
(***************************************************************************)
EXTENDS Integers, FiniteSets

CONSTANT Max    \* p->max: the number of contexts; 0 disables zero copy

ASSUME MaxAssumption == Max \in Nat

Bufinfo == 0 .. Max - 1

NoBufinfo == -1

VARIABLES
  free_list,    \* p->free_list
  avail,        \* p->avail
  returnable,   \* p->returnable
  head, tail, trail,
  held,         \* contexts attached to an mbuf, or just allocated for one
  pend,         \* the context allocated for the slot being received, if any
  fpc, fbi,     \* if_netmap_bufinfo_free: where it is, and its context
  rxpc, returned, n    \* if_netmap_sweep_trail: its locals

rxVars == <<avail, head, trail, pend, rxpc, returned, n>>
freeVars == <<tail, fpc, fbi>>
poolVars == <<free_list, avail, returnable, head, tail, trail, held, pend,
              fpc, fbi, rxpc, returned, n>>

(***************************************************************************)
(* "x++; if (x == p->max) x = 0;" and its converse.                        *)
(***************************************************************************)
Bump(i) == IF i + 1 = Max THEN 0 ELSE i + 1
Drop(i) == IF i > 0 THEN i - 1 ELSE Max - 1

PoolInit ==
  /\ free_list = [i \in Bufinfo |-> i]
  /\ avail = Max
  /\ returnable = 0
  /\ head = 0 /\ tail = 0 /\ trail = 0
  /\ held = {}
  /\ pend = NoBufinfo
  /\ fpc = "idle" /\ fbi = NoBufinfo
  /\ rxpc = "receive" /\ returned = 0 /\ n = 0

-----------------------------------------------------------------------------
(***************************************************************************)
(* The receive thread.                                                     *)
(***************************************************************************)

\* Mutant: the context is taken from behind the head.
AllocStale ==
  /\ pend = NoBufinfo /\ rxpc = "receive"
  /\ avail > 0
  /\ avail' = avail - 1
  /\ head' = Bump(head)
  /\ pend' = free_list[head']
  /\ held' = held \cup {pend'}
  /\ UNCHANGED <<free_list, returnable, trail, freeVars, rxpc, returned, n>>

\* if_netmap_bufinfo_alloc with p->avail != 0.
Alloc ==
  /\ pend = NoBufinfo /\ rxpc = "receive"
  /\ avail > 0
  /\ avail' = avail - 1
  /\ pend' = free_list[head]
  /\ head' = Bump(head)
  /\ held' = held \cup {pend'}
  /\ UNCHANGED <<free_list, returnable, trail, freeVars, rxpc, returned, n>>

\* The allocated context leaves with its mbuf: from now on it may be freed.
HandOff ==
  /\ pend # NoBufinfo
  /\ pend' = NoBufinfo
  /\ UNCHANGED <<free_list, avail, returnable, head, trail, held, freeVars,
                 rxpc, returned, n>>

\* Mutant: the head is left where the allocation put it.
UnallocKeepHead ==
  /\ pend # NoBufinfo
  /\ avail' = avail + 1
  /\ pend' = NoBufinfo
  /\ held' = held \ {pend}
  /\ UNCHANGED <<free_list, returnable, head, trail, freeVars, rxpc,
                 returned, n>>

\* if_netmap_bufinfo_unalloc: no mbuf header for the context just allocated.
Unalloc ==
  /\ pend # NoBufinfo
  /\ avail' = avail + 1
  /\ head' = Drop(head)
  /\ pend' = NoBufinfo
  /\ held' = held \ {pend}
  /\ UNCHANGED <<free_list, returnable, trail, freeVars, rxpc, returned, n>>

\* Mutant: the count is taken as zero, so that nothing is ever swept.
SweepStartNone ==
  /\ pend = NoBufinfo /\ rxpc = "receive"
  /\ rxpc' = "sweep"
  /\ returned' = 0
  /\ n' = 0
  /\ UNCHANGED <<free_list, avail, returnable, head, trail, held, pend, freeVars>>

\* if_netmap_sweep_trail up to its loop: how many contexts to take back.
SweepStart ==
  /\ pend = NoBufinfo /\ rxpc = "receive"
  /\ rxpc' = "sweep"
  /\ returned' = returnable
  /\ n' = 0
  /\ UNCHANGED <<free_list, avail, returnable, head, trail, held, pend, freeVars>>

\* One turn of the loop: the netmap buffer of Swept goes back to the ring.
Swept == free_list[trail]

SweepOne ==
  /\ rxpc = "sweep" /\ n < returned
  /\ n' = n + 1
  /\ trail' = Bump(trail)
  /\ UNCHANGED <<free_list, avail, returnable, head, held, pend, freeVars,
                 rxpc, returned>>

\* Mutant: returnable is cleared, losing what was freed during the loop.
SweepEndClears ==
  /\ rxpc = "sweep" /\ n = returned
  /\ rxpc' = "receive"
  /\ returnable' = 0
  /\ avail' = avail + returned
  /\ returned' = 0 /\ n' = 0
  /\ UNCHANGED <<free_list, head, trail, held, pend, freeVars>>

SweepEnd ==
  /\ rxpc = "sweep" /\ n = returned
  /\ rxpc' = "receive"
  /\ returnable' = returnable - returned
  /\ avail' = avail + returned
  /\ returned' = 0 /\ n' = 0
  /\ UNCHANGED <<free_list, head, trail, held, pend, freeVars>>

-----------------------------------------------------------------------------
(***************************************************************************)
(* if_netmap_bufinfo_free, by any thread, under tail_lock (fpc # "idle"    *)
(* is the lock being held).                                                *)
(***************************************************************************)

FreeWrite(bi) ==
  /\ fpc = "idle"
  /\ bi \in held \ {pend}
  /\ free_list' = [free_list EXCEPT ![tail] = bi]
  /\ fpc' = "written" /\ fbi' = bi
  /\ UNCHANGED <<returnable, tail, held, rxVars>>

FreePublish ==
  /\ fpc = "written"
  /\ returnable' = returnable + 1
  /\ held' = held \ {fbi}
  /\ fpc' = "published"
  /\ UNCHANGED <<free_list, tail, fbi, rxVars>>

FreeAdvance ==
  /\ fpc = "published"
  /\ tail' = Bump(tail)
  /\ fpc' = "idle" /\ fbi' = NoBufinfo
  /\ UNCHANGED <<free_list, returnable, held, rxVars>>

Free == (\E bi \in Bufinfo : FreeWrite(bi)) \/ FreePublish \/ FreeAdvance

PoolNext ==
  \/ Alloc \/ HandOff \/ Unalloc
  \/ SweepStart \/ SweepOne \/ SweepEnd
  \/ Free

PoolSpec == PoolInit /\ [][PoolNext]_poolVars

-----------------------------------------------------------------------------
(***************************************************************************)
(* Correctness.                                                            *)
(***************************************************************************)

\* The place k entries after h, and after the head, going round.
At(h, k) == IF h + k < Max THEN h + k ELSE h + k - Max
Place(k) == At(head, k)

\* A place of the array; 0 also stands for an array without places.
Index == Bufinfo \cup {0}

\* The type of the pool's state.
PoolTypeOK ==
  /\ free_list \in [Bufinfo -> Bufinfo]
  /\ avail \in 0 .. Max /\ returnable \in 0 .. Max
  /\ head \in Index /\ tail \in Index /\ trail \in Index
  /\ held \subseteq Bufinfo
  /\ pend \in held \cup {NoBufinfo}
  /\ fpc \in {"idle", "written", "published"}
  /\ fbi \in Bufinfo \cup {NoBufinfo}
  /\ rxpc \in {"receive", "sweep"} /\ returned \in 0 .. Max /\ n \in 0 .. returned

\* Every context is allocatable, given back or with the stack: the three
\* counts always add up to the size of the pool.
PoolConserved == avail + returnable + Cardinality(held) = Max

\* The contexts on the list are all different, and none of them is still
\* attached to an mbuf: alloc never hands out a context that is in use.
NoDoubleUse ==
  \A k \in 0 .. avail + returnable - 1 :
    /\ free_list[Place(k)] \notin held
    /\ \A j \in 0 .. k - 1 : free_list[Place(j)] # free_list[Place(k)]

\* The lock-free and the locked side agree about the circular array: the
\* trail is avail (plus what this sweep has passed) entries after the head,
\* and the tail is where the returnable entries end.
RingOrder ==
  /\ avail + n < Max => trail = Place(avail + n)
  /\ (avail + n = Max /\ Max > 0) => trail = head
  /\ LET m == avail + returnable - (IF fpc = "published" THEN 1 ELSE 0)
     IN /\ m \in 0 .. Max - 1 => tail = Place(m)
        /\ (m = Max /\ Max > 0) => tail = head
        /\ m = -1 => tail = Drop(head)

\* if_netmap_bufinfo_unalloc gives back the context that was allocated: no
\* thread freeing in between has overwritten the entry behind the head.
UnallocRestores ==
  pend # NoBufinfo => free_list[Drop(head)] = pend

(***************************************************************************)
(* What the invariants above need to be inductive: where the two sides are *)
(* in their code.                                                          *)
(***************************************************************************)
SweepInv ==
  /\ returned <= returnable
  /\ rxpc = "receive" => returned = 0 /\ n = 0
  /\ pend # NoBufinfo => rxpc = "receive"

FreeInv ==
  /\ fpc = "written" => fbi \in held \ {pend} /\ free_list[tail] = fbi
  /\ fpc = "published" => fbi \in Bufinfo
  /\ fpc = "idle" => fbi = NoBufinfo

\* The whole invariant of the pool: nothing lost, nothing used twice, the two
\* sides agree on the list, and unalloc can undo an alloc.
PoolInv ==
  /\ PoolTypeOK /\ PoolConserved /\ NoDoubleUse /\ RingOrder
  /\ UnallocRestores /\ SweepInv /\ FreeInv

-----------------------------------------------------------------------------
(***************************************************************************)
(* The abstract pool: the entries from head on are ready, those from trail *)
(* (as it will be after the sweep) on are back.                            *)
(***************************************************************************)
Entries(S) == {free_list[Place(k)] : k \in S}

Contexts == INSTANCE ContextPool WITH
  Context <- Bufinfo,
  ready <- Entries(0 .. avail - 1),
  out <- held,
  back <- Entries(avail .. avail + returnable - 1)

\* The circular list behaves as three disjoint sets of contexts, whatever
\* the order in which threads free mbufs: alloc takes a ready context, free
\* moves one from out to back, the sweep makes what is back ready again.
ImplementsContextPool == Contexts!Spec
=============================================================================
