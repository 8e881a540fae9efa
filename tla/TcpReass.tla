------------------------------ MODULE TcpReass ------------------------------
(***************************************************************************)
(* The TCP reassembly queue with its passive extension                     *)
(* (sys/netinet/tcp_reass.c under PASSIVE_INET): a passive socket watches  *)
(* a connection between others, so what it misses never comes again.  When *)
(* entries or time run out the missing bytes are given to the socket as a  *)
(* hole, and the stream goes on behind it.                                 *)
(*                                                                         *)
(* The connection is established.  A byte is named by its offset in the    *)
(* stream, which ends, with the FIN, at End; sequence numbers are relative *)
(* to the first one.  An age is the time since an entry was queued, and    *)
(* does not grow past the deadline DL.                                     *)
(***************************************************************************)
EXTENDS Integers, Sequences, FiniteSets, SequencesExt

CONSTANTS
  End,         \* length of the stream
  Limit,       \* so_rcv.sb_hiwat / t_maxseg + 1
  DL           \* TP_REASSDL

ASSUME ReassAssumption ==
  /\ End \in Nat /\ Limit \in Nat \ {0} /\ DL \in Nat \ {0}

Hole == -1
Off  == -1               \* the callout is not pending
Tqs  == 0                \* the entry on the stack; the others are the zone's
Id   == 0 .. 2 * Limit + 2
NoEntry == [seq |-> 0, len |-> 0, fin |-> FALSE, age |-> 0]

VARIABLES
  passive,               \* INP_PASSIVE
  t_segq, t_segageq,     \* entries by sequence number, and by age
  t_segqlen,
  ent,                   \* what the entries hold
  zone,                  \* entries allocated from the zone
  rcv_nxt,
  stream,                \* what was put in the socket buffer
  got,                   \* bytes that arrived before they were due as a hole
  fin,                   \* TCPS_HAVERCVDFIN
  cantrcv,               \* SBS_CANTRCVMORE
  timer, active, fired   \* the callout: ticks to go, callout_active, handler due

vars == <<passive, t_segq, t_segageq, t_segqlen, ent, zone, rcv_nxt, stream, got, fin,
          cantrcv, timer, active, fired>>

Init ==
  /\ passive \in BOOLEAN
  /\ t_segq = <<>> /\ t_segageq = <<>> /\ t_segqlen = 0
  /\ ent = [i \in Id |-> NoEntry] /\ zone = {}
  /\ rcv_nxt = 0 /\ stream = <<>> /\ got = {} /\ fin = FALSE /\ cantrcv = FALSE
  /\ timer = Off /\ active = FALSE /\ fired = FALSE

-----------------------------------------------------------------------------
EndOf(e) == e.seq + e.len

\* Appended to the socket buffer, unless the socket takes no more.
sbappendstream(str, bytes) == IF cantrcv THEN str ELSE str \o bytes
Bytes(e) == [k \in 1 .. e.len |-> e.seq + k - 1]
Holes(n) == [k \in 1 .. n |-> Hole]

\* Mutant: the hole is as long as the segment behind it.
DeliverShort(en, a, i) ==
  [nxt |-> EndOf(en[i]),
   str |-> sbappendstream(a.str, (IF en[i].seq = a.nxt THEN <<>> ELSE Holes(en[i].len)) \o Bytes(en[i]))]

\* One entry goes to the socket, and the hole before it, if there is one.
Deliver(en, a, i) ==
  [nxt |-> EndOf(en[i]),
   str |-> sbappendstream(a.str, Holes(en[i].seq - a.nxt) \o Bytes(en[i]))]

\* How far the entries after the n-th follow on each other.
RunFrom(q, en, n) ==
  CHOOSE k \in n .. Len(q) :
    /\ \A j \in n .. k - 1 : en[q[j + 1]].seq = EndOf(en[q[j]])
    /\ k < Len(q) => en[q[k + 1]].seq # EndOf(en[q[k]])

\* The first k entries of the queue leave it for the socket.
Flow(q, en, k) ==
  FoldLeft(LAMBDA a, i : Deliver(en, a, i), [nxt |-> rcv_nxt, str |-> stream], SubSeq(q, 1, k))

Without(q, S) == SelectSeq(q, LAMBDA i : i \notin S)

AgeRemove(ageq, S) == Without(ageq, S)

\* Mutant: the FIN counts as soon as it is queued.
FinSeen(q, en, k) == \E j \in 1 .. Len(q) : en[q[j]].fin

\* The flags of the last entry that left.
FinAt(q, en, k) == en[q[k]].fin

tcp_reass_next_hole_deadline(ageq, en) ==
  IF ageq = <<>> THEN 0
  ELSE IF en[Head(ageq)].age < DL THEN DL - en[Head(ageq)].age ELSE 1

tcp_timer_activate(delta) ==
  /\ timer' = IF delta = 0 THEN Off ELSE delta
  /\ active' = (delta # 0)

-----------------------------------------------------------------------------
(***************************************************************************)
(* A segment comes in.  tcp_do_segment has cut off what is before rcv_nxt. *)
(***************************************************************************)

\* In order, and nothing queued.
Direct(seg) ==
  /\ ~fin /\ t_segq = <<>> /\ seg.seq = rcv_nxt
  /\ rcv_nxt' = EndOf(seg) + (IF seg.fin THEN 1 ELSE 0)
  /\ stream' = sbappendstream(stream, Bytes(seg))
  /\ got' = got \cup (seg.seq .. EndOf(seg) - 1)
  /\ fin' = seg.fin /\ cantrcv' = (cantrcv \/ seg.fin)
  /\ UNCHANGED <<passive, t_segq, t_segageq, t_segqlen, ent, zone, timer, active, fired>>

\* Entries the segment completely covers.
Covered(seg) ==
  {i \in {t_segq[k] : k \in 1 .. Len(t_segq)} :
     /\ ent[i].seq > seg.seq /\ EndOf(seg) > ent[i].seq /\ EndOf(seg) >= EndOf(ent[i])}

\* The number of entries that do not begin after the segment does.
Before(seg) == Cardinality({k \in 1 .. Len(t_segq) : ent[t_segq[k]].seq <= seg.seq})

\* "queue limit reached", or "global zone limit reached", and not the missing segment.
Short(seg, zfull) ==
  seg.seq # rcv_nxt /\ (t_segqlen >= Limit \/ zfull)

Drop(seg, zfull) ==
  /\ ~fin /\ ~(t_segq = <<>> /\ seg.seq = rcv_nxt)
  /\ ~passive /\ Short(seg, zfull)
  /\ UNCHANGED vars

\* Mutant: entries the segment runs into stay as they are.
TrimNone(seg, p) == [e \in Id |-> IF e \in Covered(seg) THEN NoEntry ELSE ent[e]]

\* The entry the segment runs into, after the p-th, gives up what the segment has.
Trim(seg, p) ==
  [e \in Id |->
     IF e \in Covered(seg) THEN NoEntry
     ELSE IF ent[e].seq < EndOf(seg) /\ \E k \in p + 1 .. Len(t_segq) : t_segq[k] = e
     THEN [ent[e] EXCEPT !.seq = EndOf(seg), !.len = EndOf(ent[e]) - EndOf(seg)]
     ELSE ent[e]]

\* What the segment's arrival makes of the queues, before anything is presented.
Insert(seg, te) ==
  LET p     == Before(seg)
      i     == IF p = 0 THEN 0 ELSE EndOf(ent[t_segq[p]]) - seg.seq
      dup   == i > 0 /\ i >= seg.len
      new   == [seq |-> IF i > 0 THEN seg.seq + i ELSE seg.seq,
                len |-> IF i > 0 THEN seg.len - i ELSE seg.len, fin |-> seg.fin, age |-> 0]
      gone  == Covered(seg)
  IN IF dup
     THEN [q |-> t_segq, age |-> t_segageq, en |-> ent, len |-> t_segqlen, zone |-> zone]
     ELSE [q    |-> SubSeq(t_segq, 1, p) \o <<te>>
                      \o Without(SubSeq(t_segq, p + 1, Len(t_segq)), gone),
           age  |-> t_segageq \o <<te>>,
           en   |-> [Trim(seg, p) EXCEPT ![te] = new],
           len  |-> t_segqlen + 1 - Cardinality(gone),
           zone |-> (zone \ gone) \cup ({te} \ {Tqs})]

\* Nothing can be presented: the queue stays, and a passive socket sets its deadline.
Wait(s) ==
  /\ t_segq' = s.q /\ t_segageq' = s.age /\ ent' = s.en /\ t_segqlen' = s.len /\ zone' = s.zone
  /\ IF passive /\ s.q # <<>> THEN tcp_timer_activate(tcp_reass_next_hole_deadline(s.age, s.en))
     ELSE UNCHANGED <<timer, active>>
  /\ UNCHANGED <<rcv_nxt, stream, fin, cantrcv>>

\* The first run of entries is presented.  When the stack's entry stays in the
\* queue it is replaced by the first one that left; when it left behind one,
\* nobody gives that one back to the zone.
Present(s) ==
  LET k    == RunFrom(s.q, s.en, 1)
      out  == {s.q[j] : j \in 1 .. k}
      tqsq == \E j \in 2 .. Len(s.q) : s.q[j] = Tqs
      keep == IF tqsq THEN s.q[1] ELSE Tqs
      subst(i) == IF i = Tqs THEN keep ELSE i
      stays == tqsq /\ Tqs \notin out
      q2   == [j \in 1 .. Len(s.q) - k |-> subst(s.q[j + k])]
      left == AgeRemove(s.age, out)
      age2 == [j \in 1 .. Len(left) |-> subst(left[j])]
      en2  == [i \in Id |-> IF i = keep /\ stays THEN s.en[Tqs]
                            ELSE IF i \in out \cup {Tqs} THEN NoEntry ELSE s.en[i]]
      a    == Flow(s.q, s.en, k)
      next == tcp_reass_next_hole_deadline(age2, en2)
      last == FinAt(s.q, s.en, k)
  IN /\ t_segq' = q2 /\ t_segageq' = age2 /\ ent' = en2
     /\ t_segqlen' = s.len - k
     /\ zone' = s.zone \ (out \ {keep})
     /\ rcv_nxt' = a.nxt + (IF last THEN 1 ELSE 0) /\ stream' = a.str
     /\ fin' = last /\ cantrcv' = (cantrcv \/ last)
     /\ IF ~active \/ next = 0 THEN tcp_timer_activate(next) ELSE UNCHANGED <<timer, active>>

\* te is an entry of the zone, or the one on the stack when the zone is exhausted.
tcp_reass(seg, zfull) ==
  LET te == IF zfull THEN Tqs ELSE CHOOSE i \in Id \ {Tqs} :
                 i \notin zone /\ \A j \in (Id \ {Tqs}) \ zone : i <= j
      s  == Insert(seg, te)
  IN /\ ~fin /\ ~(t_segq = <<>> /\ seg.seq = rcv_nxt)
     /\ passive \/ ~Short(seg, zfull)
     /\ got' = got \cup (seg.seq .. EndOf(seg) - 1)
     /\ IF s.q = <<>> \/ (s.en[s.q[1]].seq # rcv_nxt /\ ~Short(seg, zfull))
        THEN Wait(s) ELSE Present(s)
     /\ UNCHANGED <<passive, fired>>

Segment == {s \in [seq : 0 .. End, len : 0 .. End, fin : BOOLEAN, age : {0}] :
              /\ EndOf(s) <= End
              /\ s.len > 0 \/ s.fin
              /\ s.fin => EndOf(s) = End}

Receive(seg, zfull) ==
  /\ seg.seq >= rcv_nxt
  /\ Direct(seg) \/ Drop(seg, zfull) \/ tcp_reass(seg, zfull)

-----------------------------------------------------------------------------
(***************************************************************************)
(* Time, the callout, and its handler.                                     *)
(***************************************************************************)

Tick ==
  /\ t_segq # <<>> \/ timer # Off
  /\ ent' = [i \in Id |-> IF \E k \in 1 .. Len(t_segq) : t_segq[k] = i /\ ent[i].age < DL
                          THEN [ent[i] EXCEPT !.age = @ + 1] ELSE ent[i]]
  /\ timer' = IF timer > 0 THEN timer - 1 ELSE timer
  /\ UNCHANGED <<passive, t_segq, t_segageq, t_segqlen, zone, rcv_nxt, stream, got, fin, cantrcv, active, fired>>

\* The callout wheel takes the timer; its handler waits for the lock.
Expire ==
  /\ timer = 0
  /\ timer' = Off /\ fired' = TRUE
  /\ UNCHANGED <<passive, t_segq, t_segageq, t_segqlen, ent, zone, rcv_nxt, stream, got, fin, cantrcv, active>>

\* "Search into the sequence space for the furthest expired segment."
Furthest ==
  LET X == {k \in 1 .. Len(t_segq) : ent[t_segq[k]].age >= DL}
  IN IF X = {} THEN 0 ELSE CHOOSE k \in X : \A j \in X : j <= k

\* Everything up to it, and what follows on it, goes to the socket.  Nothing
\* follows on a FIN, which rcv_nxt counts at once: a second FIN stays queued.
tcp_reass_deliver_holes ==
  LET k    == IF ent[t_segq[Furthest]].fin THEN Furthest ELSE RunFrom(t_segq, ent, Furthest)
      out  == {t_segq[j] : j \in 1 .. k}
      a    == Flow(t_segq, ent, k)
      last == FinAt(t_segq, ent, k)
      age2 == AgeRemove(t_segageq, out)
      en2  == [i \in Id |-> IF i \in out THEN NoEntry ELSE ent[i]]
  IN /\ t_segq' = SubSeq(t_segq, k + 1, Len(t_segq)) /\ t_segageq' = age2
     /\ ent' = en2 /\ zone' = zone \ out /\ t_segqlen' = t_segqlen - k
     /\ rcv_nxt' = a.nxt + (IF last THEN 1 ELSE 0) /\ stream' = a.str
     /\ fin' = last /\ cantrcv' = (cantrcv \/ last)
     /\ tcp_timer_activate(tcp_reass_next_hole_deadline(age2, en2))

tcp_timer_reassdl ==
  /\ fired /\ fired' = FALSE
  /\ UNCHANGED <<passive, got>>
  /\ IF timer # Off \/ ~active
     THEN UNCHANGED <<t_segq, t_segageq, t_segqlen, ent, zone, rcv_nxt, stream, fin, cantrcv, timer, active>>
     ELSE IF Furthest = 0
     THEN /\ active' = FALSE
          /\ UNCHANGED <<t_segq, t_segageq, t_segqlen, ent, zone, rcv_nxt, stream, fin, cantrcv, timer>>
     ELSE tcp_reass_deliver_holes

\* The application reads no more.
sorflush ==
  /\ ~cantrcv /\ cantrcv' = TRUE
  /\ UNCHANGED <<passive, t_segq, t_segageq, t_segqlen, ent, zone, rcv_nxt, stream, got, fin, timer, active, fired>>

Clock == Tick \/ Expire \/ tcp_timer_reassdl

\* A segment that covers a queued entry frees it and leaves it on the age queue.
\* What is read from or linked through freed memory is undefined: the model
\* stops with the call that did it.
Dangling == \E k \in 1 .. Len(t_segageq) : \A j \in 1 .. Len(t_segq) : t_segq[j] # t_segageq[k]

Next ==
  /\ ~Dangling
  /\ \/ \E seg \in Segment, z \in BOOLEAN : Receive(seg, z)
     \/ Clock \/ sorflush

Spec == Init /\ [][Next]_vars

-----------------------------------------------------------------------------
Queued == {t_segq[k] : k \in 1 .. Len(t_segq)}

TypeOK ==
  /\ passive \in BOOLEAN
  /\ t_segq \in Seq(Id) /\ t_segageq \in Seq(Id)
  /\ t_segqlen \in 0 .. Limit
  /\ \A i \in Id : ent[i].seq \in 0 .. End /\ EndOf(ent[i]) <= End /\ ent[i].age \in 0 .. DL
  /\ zone \subseteq Id \ {Tqs} /\ rcv_nxt \in 0 .. End + 1
  /\ stream \in Seq((0 .. End) \cup {Hole}) /\ got \subseteq 0 .. End
  /\ fin \in BOOLEAN /\ cantrcv \in BOOLEAN
  /\ timer \in {Off} \cup 0 .. DL /\ active \in BOOLEAN /\ fired \in BOOLEAN

\* tcp_reass's trimming keeps the queue in order, without overlaps, behind the
\* hole that starts at rcv_nxt, unless only repeated FINs are left; t_segqlen
\* counts it; the stack's entry is never in it between two calls.
QueueInOrder ==
  /\ t_segqlen = Len(t_segq) /\ Tqs \notin Queued
  /\ \A k \in 1 .. Len(t_segq) :
       ent[t_segq[k]].seq > (IF k > 1 THEN EndOf(ent[t_segq[k - 1]]) - 1
                             ELSE IF fin THEN End - 1 ELSE rcv_nxt)

\* The application gets every byte of the stream at its place: the byte, if it
\* arrived in time, or else a hole of its size.
StreamExact ==
  /\ ~cantrcv => Len(stream) = rcv_nxt
  /\ Len(stream) <= End
  /\ \A k \in 1 .. Len(stream) :
       stream[k] = k - 1 \/ (stream[k] = Hole /\ k - 1 \notin got)

\* Every queued entry is on the age queue once, oldest first: the deadline of
\* the first one is the next deadline (tcp_reass_next_hole_deadline).
AgeListed ==
  LET age == SelectSeq(t_segageq, LAMBDA i : i \in Queued)
  IN /\ Len(age) = Len(t_segq) /\ {age[k] : k \in 1 .. Len(age)} = Queued
     /\ \A k \in 1 .. Len(age) - 1 : ent[age[k]].age >= ent[age[k + 1]].age

\* The "segment age queue" holds the queued entries and no other.
AgeExact == AgeListed /\ ~Dangling

\* The FIN counts when all before it is with the socket, not when it comes,
\* and counts once, however often it was queued.
FinLast == fin => rcv_nxt = End + 1 /\ \A i \in Queued : ent[i].len = 0

\* The entries taken from the zone are those of the queue ("Global number of
\* TCP Segments currently in Reassembly Queue").
ZoneExact == zone = Queued

\* A queued segment has a deadline under way ("deadline for segment delivery
\* from reassembly queue").
DeadlineSet == passive /\ t_segq # <<>> => timer # Off \/ fired

\* Holes are a matter of passive sockets ("initial passive reassembly deadline").
NoHoleUnlessPassive == ~passive => \A k \in 1 .. Len(stream) : stream[k] # Hole

\* The two queues of tcp_reass are within their limits, in order, and agree,
\* and nothing comes after the FIN.
ReassInv == TypeOK /\ QueueInOrder /\ AgeListed /\ FinLast
=============================================================================
