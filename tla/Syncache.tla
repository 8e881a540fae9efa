------------------------------- MODULE Syncache -------------------------------
(***************************************************************************)
(* One hash row of the TCP SYN cache: connection attempts to a listening   *)
(* socket between the SYN and the ACK that makes a socket of them, with    *)
(* libuinet's additions: passive entries (for which nothing is ever sent), *)
(* their conversion to active ones on timeout, and the listener's SYN      *)
(* filter, whose decision may be deferred and delivered later by the       *)
(* application.                                                            *)
(*                                                                         *)
(* Receive threads Rx and the application thread "app" run                 *)
(* _syncache_add(), which drops every lock between its look-up, its        *)
(* SYN|ACK and its insertion.  The network loses, repeats and reorders     *)
(* SYNs, ACKs and RSTs as it likes: each may arrive whenever the code      *)
(* would take it.  Times are counted down from now: a tick lowers every    *)
(* one of them.                                                            *)
(***************************************************************************)
EXTENDS Naturals, FiniteSets, Sequences, SequencesExt, FiniteSetsExt

CONSTANTS
  Conns,            \* address and port pairs that hash to the row
  Rx,               \* receive threads
  Mbufs,            \* packets
  bucket_limit,     \* V_tcp_syncache.bucket_limit
  rexmt_limit,      \* V_tcp_syncache.rexmt_limit
  tcp_backoff,      \* timeout in ticks by number of transmissions
  GoActive,         \* ticks the filter gives a passive entry to convert
  Decisions         \* answers of the SYN filter

ASSUME SyncacheAssumption ==
  /\ bucket_limit \in Nat \ {0} /\ rexmt_limit \in Nat
  /\ GoActive \in Nat \ {0}
  /\ \A n \in 0 .. rexmt_limit : tcp_backoff[n] \in Nat \ {0}
  /\ "app" \notin Rx

VARIABLES
  listener,  \* INP_PASSIVE and INP_SYNFILTER of the listening socket
  bucket,    \* sch_bucket, newest entry first
  nextc,     \* sch_nextc
  timer,     \* ticks until sch_timer runs, Far when it is not pending
  zone,      \* entries allocated for the row
  th,        \* threads inside _syncache_add()
  deferred,  \* decisions the application owes: struct syn_filter_cbarg
  pool,      \* free mbufs
  leaked,    \* mbufs nobody owns any more
  socks      \* connections that have a socket

vars == <<listener, bucket, nextc, timer, zone, th, deferred, pool, leaked,
          socks>>

Threads == Rx \cup {"app"}

\* ticks + INT_MAX
Far == 1000

Idle == [pc |-> "idle"]

Init ==
  /\ listener \in [passive : BOOLEAN, synfilter : BOOLEAN]
  /\ bucket = << >> /\ nextc = Far /\ timer = Far /\ zone = 0
  /\ th = [t \in Threads |-> Idle]
  /\ deferred = {} /\ pool = Mbufs /\ leaked = {}
  /\ socks = {}

-----------------------------------------------------------------------------
(* Entries: look up, drop, timeout *)

Matches(c) == {i \in DOMAIN bucket : bucket[i].conn = c}
InCache(c) == Matches(c) # {}

\* syncache_lookup(): the first entry of the row that matches.
syncache_lookup(c) == Min(Matches(c))

\* syncache_drop() of the entry at i.
syncache_drop(i) == bucket' = RemoveAt(bucket, i) /\ zone' = zone - 1

\* Mutant: the retransmission is not counted.
RetimedUncounted(sc, timeout_ticks) ==
  [sc EXCEPT !.rxt = IF timeout_ticks > 0 THEN timeout_ticks ELSE tcp_backoff[sc.rxmits],
             !.rxmits = IF @ = 0 THEN 1 ELSE @]

\* syncache_timeout(): the entry's new time.
Retimed(sc, timeout_ticks) ==
  [sc EXCEPT !.rxt = IF timeout_ticks > 0 THEN timeout_ticks ELSE tcp_backoff[sc.rxmits],
             !.rxmits = @ + 1]

\* ... and the row's: brought forward if the entry is due earlier.
RowTimer(next, rxt) ==
  IF rxt < next THEN nextc' = rxt /\ timer' = rxt
  ELSE nextc' = next /\ UNCHANGED timer

\* syncache_insert(): toss the oldest entry of a full row, put the new one first.
syncache_insert(sc, timeout_ticks) ==
  LET full == Len(bucket) >= bucket_limit
      rest == IF full THEN Front(bucket) ELSE bucket
      new == Retimed(sc, timeout_ticks)
  IN
  /\ bucket' = <<new>> \o rest
  /\ zone' = IF full THEN zone - 1 ELSE zone
  /\ RowTimer(IF rest = << >> THEN Far ELSE nextc, new.rxt)

Free(m) == pool' = pool \cup {m}

-----------------------------------------------------------------------------
(* _syncache_add() *)

\* A listener with a SYN filter stays locked until the row is looked up.
ListenerFree == listener.synfilter => \A t \in Threads : th[t].pc # "add"

\* tcp_input(): a SYN for the listening socket, that is one of a connection
\* without a socket.
SynArrives(t, c) ==
  /\ th[t] = Idle /\ t \in Rx /\ ListenerFree
  /\ c \notin socks
  /\ pool # {}
  /\ LET m == CHOOSE m \in pool : TRUE IN      \* whichever
       /\ pool' = pool \ {m}
       /\ th' = [th EXCEPT ![t] =
            [pc |-> "add", conn |-> c, m |-> m, tmo |-> 0,
             inc |-> IF listener.passive THEN {"PASSIVE"} ELSE {}]]
  /\ UNCHANGED <<listener, bucket, nextc, timer, zone, deferred, leaked, socks>>

\* An entry exists: send the SYN|ACK again and restart the timer.
DuplicateSyn(t) ==
  /\ th[t].pc = "add" /\ InCache(th[t].conn)
  /\ UNCHANGED <<listener, zone, deferred, leaked, socks>>
  /\ LET i == syncache_lookup(th[t].conn)
         sc == bucket[i]
         again == Retimed([sc EXCEPT !.rxmits = 0], 0)
     IN \/ /\ "NO_TIMEOUT_RESET" \notin sc.flags
           /\ bucket' = [bucket EXCEPT ![i] = again]
           /\ RowTimer(nextc, again.rxt)
        \/ \* the SYN|ACK could not be sent, or the timer is not to be reset
           /\ "PASSIVE" \in sc.flags => "NO_TIMEOUT_RESET" \in sc.flags
           /\ UNCHANGED <<bucket, nextc, timer>>
  /\ Free(th[t].m)
  /\ th' = [th EXCEPT ![t] = Idle]

\* Mutant: a duplicate SYN resets the timeout of every entry.
NewFlagsReset(passive, inc, tmo) ==
  IF ~passive THEN {}
  ELSE {"PASSIVE"} \cup (IF "CONVONTMO" \in inc THEN {"CONVERT_ON_TIMEOUT"} ELSE {})

\* The new entry's flags.
NewFlags(passive, inc, tmo) ==
  IF ~passive THEN {}
  ELSE {"PASSIVE"}
       \cup (IF tmo > 0 THEN {"NO_TIMEOUT_RESET"} ELSE {})
       \cup (IF "CONVONTMO" \in inc THEN {"CONVERT_ON_TIMEOUT"} ELSE {})

\* An entry from the zone.  All rows share it, so it may have none: then the
\* row's oldest is dropped and the zone asked again.  Without an entry an active
\* attempt goes on with a syncookie only and a passive one ends.
Allocate(t, passive, tmo) ==
  LET sc == [conn |-> th[t].conn, flags |-> NewFlags(passive, th[t].inc, tmo),
             rxt |-> 0, rxmits |-> 0]
      go(stack) == th' = [th EXCEPT ![t] =
                     [pc |-> "respond", sc |-> sc, tmo |-> tmo, m |-> th[t].m, stack |-> stack]]
  IN
  \E zonefail \in BOOLEAN :
    LET drop == zonefail /\ bucket # << >>
        left == IF drop THEN zone - 1 ELSE zone
    IN
    /\ bucket' = IF drop THEN Front(bucket) ELSE bucket
    /\ \/ zone' = left + 1 /\ go(FALSE) /\ UNCHANGED pool
       \/ zonefail /\ ~passive /\ zone' = left /\ go(TRUE) /\ UNCHANGED pool
       \/ /\ zonefail /\ passive /\ zone' = left
          /\ th' = [th EXCEPT ![t] = Idle] /\ Free(th[t].m)

NewUnfiltered(t) ==
  /\ th[t].pc = "add" /\ ~InCache(th[t].conn)
  /\ ~listener.synfilter \/ "SYNFILTERED" \in th[t].inc
  /\ UNCHANGED <<listener, nextc, timer, deferred, leaked, socks>>
  /\ Allocate(t, "PASSIVE" \in th[t].inc, th[t].tmo)

\* Mutant: m = NULL is forgotten, and the deferred SYN freed on the way out.
DeferFreed(t, cbarg) ==
  /\ deferred' = deferred \cup {cbarg}
  /\ Free(cbarg.m)
  /\ th' = [th EXCEPT ![t] = Idle]
  /\ UNCHANGED <<bucket, zone>>

\* SYNF_DEFER: the application has the SYN, and answers later.
Defer(t, cbarg) ==
  /\ deferred' = deferred \cup {cbarg}
  /\ th' = [th EXCEPT ![t] = Idle]
  /\ UNCHANGED <<bucket, zone, pool>>

\* The filter's callback answers, perhaps after it has called
\* uinet_synfilter_go_active_on_timeout(), which marks the callback's copy of
\* the connection information.
NewFiltered(t) ==
  /\ th[t].pc = "add" /\ ~InCache(th[t].conn)
  /\ listener.synfilter /\ "SYNFILTERED" \notin th[t].inc
  /\ UNCHANGED <<listener, nextc, timer, leaked, socks>>
  /\ \E decision \in Decisions, go_active \in BOOLEAN :
       LET tmo == IF go_active THEN GoActive ELSE 0
           cbarg == [conn |-> th[t].conn, m |-> th[t].m, tmo |-> tmo,
                     inc |-> th[t].inc \cup {"SYNFILTERED"}
                             \cup (IF go_active THEN {"CONVONTMO"} ELSE {})]
       IN
       \/ /\ decision \in {"ACCEPT", "ACCEPT_PASSIVE"}
          /\ Allocate(t, decision = "ACCEPT_PASSIVE" \/ "PASSIVE" \in th[t].inc,
                      IF "PASSIVE" \in cbarg.inc THEN tmo ELSE th[t].tmo)
          /\ UNCHANGED deferred
       \/ decision = "DEFER" /\ Defer(t, cbarg)
       \/ /\ decision \in {"REJECT_RST", "REJECT_SILENT"}
          /\ Free(th[t].m)
          /\ th' = [th EXCEPT ![t] = Idle]
          /\ UNCHANGED <<bucket, zone, deferred>>

\* syncache_respond() with no lock held.  A passive entry says nothing; an
\* active one that cannot be answered is freed, one on the stack is done with.
Respond(t) ==
  /\ th[t].pc = "respond"
  /\ \/ /\ ~th[t].stack
        /\ th' = [th EXCEPT ![t].pc = "insert"]
        /\ UNCHANGED <<zone, pool>>
     \/ /\ "PASSIVE" \notin th[t].sc.flags
        /\ zone' = IF th[t].stack THEN zone ELSE zone - 1
        /\ Free(th[t].m)
        /\ th' = [th EXCEPT ![t] = Idle]
  /\ UNCHANGED <<listener, bucket, nextc, timer, deferred, leaked, socks>>

Insert(t) ==
  /\ th[t].pc = "insert"
  /\ syncache_insert(th[t].sc, th[t].tmo)
  /\ Free(th[t].m)
  /\ th' = [th EXCEPT ![t] = Idle]
  /\ UNCHANGED <<listener, deferred, leaked, socks>>

-----------------------------------------------------------------------------
(* The application's deferred decisions *)

\* uinet_synfilter_deferral_deliver(): IP_SYNFILTER_RESULT.  An accepted SYN is
\* handed to syncache_add() again, without a look at the connections; any other
\* answer than the three known ones is EINVAL and forgets the mbuf.
Deliver ==
  \E cbarg \in deferred, decision \in Decisions :
    /\ th["app"] = Idle
    /\ deferred' = deferred \ {cbarg}
    /\ \/ /\ decision \in {"REJECT_SILENT", "REJECT_RST"}
          /\ Free(cbarg.m)
          /\ UNCHANGED <<th, leaked>>
       \/ /\ decision = "ACCEPT" /\ ListenerFree
          /\ th' = [th EXCEPT !["app"] =
               [pc |-> "add", conn |-> cbarg.conn, m |-> cbarg.m, tmo |-> cbarg.tmo,
                inc |-> cbarg.inc]]
          /\ UNCHANGED <<pool, leaked>>
       \/ /\ decision \notin {"REJECT_SILENT", "REJECT_RST", "ACCEPT"}
          /\ leaked' = leaked \cup {cbarg.m}
          /\ UNCHANGED <<th, pool>>
    /\ UNCHANGED <<listener, bucket, nextc, timer, zone, socks>>

\* uinet_synfilter_deferral_free() frees the record, not the SYN.
DeferralFree ==
  \E cbarg \in deferred :
    /\ deferred' = deferred \ {cbarg}
    /\ leaked' = leaked \cup {cbarg.m}
    /\ UNCHANGED <<listener, bucket, nextc, timer, zone, th, pool, socks>>

-----------------------------------------------------------------------------
(* Other segments for the listening socket *)

\* Mutant: the entry is not freed when the ACK fails the checks.
syncache_expand_leak(c) ==
  /\ c \notin socks /\ ListenerFree /\ InCache(c)
  /\ \E valid \in BOOLEAN :
       /\ bucket' = RemoveAt(bucket, syncache_lookup(c))
       /\ zone' = IF valid THEN zone - 1 ELSE zone
       /\ socks' = IF valid THEN socks \cup {c} ELSE socks
  /\ UNCHANGED <<listener, nextc, timer, th, deferred, pool, leaked>>

\* syncache_expand(): the entry leaves the row whether or not the ACK passes
\* the checks and a socket can be made; without an entry, a syncookie may do
\* (whether the ACK carries one that is still good is the client's affair).
syncache_expand(c) ==
  /\ c \notin socks /\ ListenerFree
  /\ \E valid \in BOOLEAN :
       \/ /\ InCache(c)
          /\ LET i == syncache_lookup(c) IN
             /\ syncache_drop(i)
             /\ socks' = IF valid THEN socks \cup {c} ELSE socks
       \/ /\ ~InCache(c) /\ ~listener.passive /\ valid
          /\ socks' = socks \cup {c}
          /\ UNCHANGED <<bucket, zone>>
  /\ UNCHANGED <<listener, nextc, timer, th, deferred, pool, leaked>>

\* The connection ends; the next segment is the listening socket's again.
SocketGone(c) ==
  /\ c \in socks
  /\ socks' = socks \ {c}
  /\ UNCHANGED <<listener, bucket, nextc, timer, zone, th, deferred, pool, leaked>>

\* syncache_chkrst() for a reset in the window, syncache_badack() for a SYN|ACK.
syncache_chkrst(c) ==
  /\ c \notin socks /\ ListenerFree /\ InCache(c)
  /\ syncache_drop(syncache_lookup(c))
  /\ UNCHANGED <<listener, nextc, timer, th, deferred, pool, leaked, socks>>

\* syncache_passive_synack(): the server's SYN|ACK, seen by a passive listener.
syncache_passive_synack(c) ==
  /\ c \notin socks /\ ListenerFree /\ listener.passive /\ InCache(c)
  /\ LET i == syncache_lookup(c) IN
     /\ "PASSIVE" \in bucket[i].flags
     /\ bucket' = [bucket EXCEPT ![i].flags = @ \cup {"PASSIVE_SYNACK"}]
  /\ UNCHANGED <<listener, nextc, timer, zone, th, deferred, pool, leaked, socks>>

-----------------------------------------------------------------------------
(* Time *)

Lower(n) == IF n \in {0, Far} THEN n ELSE n - 1

Tick ==
  /\ bucket' = [i \in DOMAIN bucket |-> [bucket[i] EXCEPT !.rxt = Lower(@)]]
  /\ nextc' = Lower(nextc) /\ timer' = Lower(timer)
  /\ UNCHANGED <<listener, zone, th, deferred, pool, leaked, socks>>

\* A passive entry that is to convert on timeout becomes an active one.
ConvertOnTimeout(sc) ==
  IF {"PASSIVE", "CONVERT_ON_TIMEOUT"} \subseteq sc.flags
  THEN [sc EXCEPT !.flags = @ \ {"PASSIVE", "PASSIVE_SYNACK", "CONVERT_ON_TIMEOUT"}]
  ELSE sc

\* syncache_timer(): retransmit or drop what is due, then re-arm for the
\* earliest of the rest.
syncache_timer ==
  LET due(sc) == sc.rxt = 0
      expired(sc) == due(sc) /\ sc.rxmits > rexmt_limit
      kept == SelectSeq(bucket, LAMBDA sc : ~expired(sc))
      row == [i \in DOMAIN kept |->
                IF due(kept[i]) THEN Retimed(ConvertOnTimeout(kept[i]), 0) ELSE kept[i]]
      next == IF row = << >> THEN Far ELSE Min({row[i].rxt : i \in DOMAIN row})
  IN
  /\ timer = 0
  /\ bucket' = row
  /\ zone' = zone - (Len(bucket) - Len(row))
  /\ nextc' = next /\ timer' = next
  /\ UNCHANGED <<listener, th, deferred, pool, leaked, socks>>

-----------------------------------------------------------------------------

Add(t) == DuplicateSyn(t) \/ NewUnfiltered(t) \/ NewFiltered(t) \/ Respond(t) \/ Insert(t)

Next ==
  \/ \E t \in Rx, c \in Conns : SynArrives(t, c)
  \/ \E t \in Threads : Add(t)
  \/ Deliver \/ DeferralFree
  \/ \E c \in Conns : \/ syncache_expand(c) \/ SocketGone(c)
                      \/ syncache_chkrst(c) \/ syncache_passive_synack(c)
  \/ Tick \/ syncache_timer

\* Threads run, time passes and the callout runs when it is due; what the
\* network and the application do is up to them.
Fairness ==
  /\ \A t \in Threads : WF_vars(Add(t))
  /\ WF_vars(Tick) /\ WF_vars(syncache_timer)

Spec == Init /\ [][Next]_vars /\ Fairness

-----------------------------------------------------------------------------
(* Properties *)

Flags == {"PASSIVE", "PASSIVE_SYNACK", "NO_TIMEOUT_RESET", "CONVERT_ON_TIMEOUT"}
IncFlags == {"PASSIVE", "SYNFILTERED", "CONVONTMO"}
Entry == [conn : Conns, flags : SUBSET Flags, rxt : Nat, rxmits : Nat]
CbArg == [conn : Conns, m : Mbufs, tmo : {0, GoActive}, inc : SUBSET IncFlags]

TypeOK ==
  /\ listener \in [passive : BOOLEAN, synfilter : BOOLEAN]
  /\ bucket \in Seq(Entry) /\ nextc \in Nat /\ timer \in Nat /\ zone \in Nat
  /\ \A t \in Threads :
       CASE th[t].pc = "idle" -> th[t] = Idle
         [] th[t].pc = "add" ->
              [f \in {"conn", "m", "tmo", "inc"} |-> th[t][f]] \in CbArg
         [] OTHER -> th[t].sc \in Entry /\ th[t].m \in Mbufs /\ th[t].pc \in {"respond", "insert"}
  /\ deferred \subseteq CbArg /\ pool \subseteq Mbufs /\ leaked \subseteq Mbufs
  /\ socks \subseteq Conns

\* Threads that hold an entry which is in no row yet.
Holding == {t \in Threads : th[t].pc \in {"respond", "insert"} /\ ~th[t].stack}

\* Every entry of the zone is in the row or in the hands of one thread, and
\* the row does not exceed its limit.
EntriesAccounted ==
  /\ zone = Len(bucket) + Cardinality(Holding)
  /\ Len(bucket) <= bucket_limit

\* No entry is left behind by its timer: while the row has entries its callout
\* is pending and runs no later than any of them is due.
RowTimed == \A i \in DOMAIN bucket : timer <= bucket[i].rxt

\* tcp_backoff[] is not read past the retransmission limit.
BackoffInRange == \A i \in DOMAIN bucket : bucket[i].rxmits \in 1 .. rexmt_limit + 1

\* An entry due to convert is passive and no duplicate SYN postpones it; only a
\* passive entry has recorded the server's SYN|ACK.
ConversionConsistent ==
  \A i \in DOMAIN bucket :
    LET f == bucket[i].flags IN
    /\ "CONVERT_ON_TIMEOUT" \in f => {"PASSIVE", "NO_TIMEOUT_RESET"} \subseteq f
    /\ "PASSIVE_SYNACK" \in f => "PASSIVE" \in f

\* The row in order, with every thread anywhere inside _syncache_add().
SynInv ==
  /\ TypeOK /\ EntriesAccounted /\ RowTimed /\ BackoffInRange
  /\ ConversionConsistent

\* A SYN's mbuf has one owner on every path through _syncache_add(), its filter
\* and the deferred decision: it is never freed twice or freed while the
\* application still has it.
MbufOnce ==
  \A m \in Mbufs :
    Cardinality({t \in Threads : th[t].pc # "idle" /\ th[t].m = m})
      + Cardinality({d \in deferred : d.m = m})
      + Cardinality({s \in {pool} : m \in s}) + Cardinality({s \in {leaked} : m \in s}) = 1

Adding(c) == \E t \in Threads : th[t].pc = "add" /\ th[t].conn = c

\* An attempt whose ACK never comes leaves the cache, unless its SYN reaches
\* _syncache_add() again and again.
Expires == \A c \in Conns : []<>(~InCache(c)) \/ []<>Adding(c)

Converting(c) == \E i \in Matches(c) : "CONVERT_ON_TIMEOUT" \in bucket[i].flags

\* A passive entry that is to go active does so, or is gone, however often the
\* client repeats its SYN.
ConversionComes == \A c \in Conns : []<>(~Converting(c))

\* in_pcb.h:124 has INC_CONVONTMO "convert from passive to active on syncache
\* timeout": a passive entry with the timeout that only
\* uinet_synfilter_go_active_on_timeout() sets converts when it expires.
GoesActive ==
  \A i \in DOMAIN bucket :
    {"PASSIVE", "NO_TIMEOUT_RESET"} \subseteq bucket[i].flags
      => "CONVERT_ON_TIMEOUT" \in bucket[i].flags

\* _syncache_add() has "See if we already have an entry for this connection"
\* (tcp_syncache.c:1883): a connection has at most one entry.
UniqueEntry == \A c \in Conns : Cardinality(Matches(c)) <= 1

\* uinet_api_types.h:437 has ACCEPT_PASSIVE "Process SYN for passive
\* reassembly": whatever a deferred decision is, its SYN is not lost.
NoSynLost == leaked = {}
=============================================================================
