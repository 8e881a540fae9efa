------------------------------- MODULE EvUinet ------------------------------
(***************************************************************************)
(* Socket watchers of the event loop (lib/libev/ev.c, EV_UINET_ENABLE).    *)
(* Threads of the stack make sockets readable or writable and call the     *)
(* socket's upcall, which puts the socket's context on the pending list    *)
(* and, outside of a batch of received packets, notifies the loop.  The    *)
(* loop takes the list over, turns the upcalls of the sockets on it off,   *)
(* runs the callbacks of their watchers, and turns the upcalls on again    *)
(* before it waits for the next notification.                              *)
(*                                                                         *)
(* An upcall runs with the lock of its socket buffer, which                *)
(* uinet_soupcall_set, uinet_soupcall_clear and uinet_soreadable take too, *)
(* so it is one step.                                                      *)
(***************************************************************************)
EXTENDS Integers, FiniteSets

CONSTANTS
  Sock, Watcher, Interface,
  WSock, WEvents,   \* the socket and the events of each watcher
  NoSock

Event == {"READ", "WRITE"}

ASSUME WatcherAssumption ==
  /\ IsFiniteSet(Watcher)
  /\ WSock \in [Watcher -> Sock] /\ WEvents \in [Watcher -> (SUBSET Event) \ {{}}]

VARIABLES
  ready,            \* <<so, e>>: so is readable, writable
  upcall,           \* <<so, e>>: the upcall is set
  pend_flags, pend, prev_pend,      \* flags of each context; the two lists
  in_batch,         \* interfaces in a batch
  async,            \* a notification is under way
  active, fed,      \* active watchers; events their callbacks are due for
  pc, walk,         \* the loop: where, and contexts still to be walked over
  so, evs, acc, ret \* the context at hand; events still to arm; events found; then where

flagVars == <<pend_flags, pend, prev_pend, async>>
armVars  == <<so, evs, acc, ret>>
evVars == <<ready, upcall, flagVars, in_batch, active, fed, pc, walk, armVars>>

EvInit ==
  /\ ready = {} /\ upcall = {}
  /\ pend_flags = [s \in Sock |-> {}] /\ pend = {} /\ prev_pend = {}
  /\ in_batch = {} /\ async = FALSE
  /\ active = {} /\ fed = [w \in Watcher |-> {}]
  /\ pc = "invoke" /\ walk = {}
  /\ so = NoSock /\ evs = {} /\ acc = {} /\ ret = "invoke"

\* num_readers, num_writers.
Num(s, e) == Cardinality({w \in active : WSock[w] = s /\ e \in WEvents[w]})

\* READ is looked after before WRITE.
First(E) == IF "READ" \in E THEN "READ" ELSE "WRITE"

-----------------------------------------------------------------------------
(***************************************************************************)
(* Upcalls and batches, in threads of the stack.                           *)
(***************************************************************************)

uinet_socket_events(s, E) ==
  LET new == "PENDING" \notin pend_flags[s]
  IN /\ pend_flags' = [pend_flags EXCEPT ![s] = @ \cup E \cup {"PENDING"}]
     /\ pend' = IF new THEN pend \cup {s} ELSE pend
     /\ async' = (async \/ (new /\ in_batch = {}))
     /\ UNCHANGED prev_pend

\* Something arrives, or room is made: the socket is ready, maybe again.
Upcall(s, e) ==
  /\ ready' = ready \cup {<<s, e>>}
  /\ IF <<s, e>> \in upcall THEN uinet_socket_events(s, {e}) ELSE UNCHANGED flagVars
  /\ UNCHANGED <<upcall, in_batch, active, fed, pc, walk, armVars>>

BatchStart(i) ==
  /\ i \notin in_batch
  /\ in_batch' = in_batch \cup {i}
  /\ UNCHANGED <<ready, upcall, flagVars, active, fed, pc, walk, armVars>>

\* Mutant: the loop is notified when no batch is left.
BatchFinishLast(i) ==
  /\ i \in in_batch
  /\ in_batch' = in_batch \ {i}
  /\ async' = (async \/ in_batch' = {})
  /\ UNCHANGED <<ready, upcall, pend_flags, pend, prev_pend, active, fed, pc, walk, armVars>>

BatchFinish(i) ==
  /\ i \in in_batch
  /\ in_batch' = in_batch \ {i}
  /\ async' = TRUE
  /\ UNCHANGED <<ready, upcall, pend_flags, pend, prev_pend, active, fed, pc, walk, armVars>>

-----------------------------------------------------------------------------
(***************************************************************************)
(* Arming: what ev_uinet_start and uinet_reenable_upcalls have in common.  *)
(* Each upcall is set before its event is looked for.                      *)
(***************************************************************************)

ArmSet ==
  /\ pc = "arm" /\ evs # {}
  /\ upcall' = upcall \cup {<<so, First(evs)>>}
  /\ pc' = "check"
  /\ UNCHANGED <<ready, flagVars, in_batch, active, fed, walk, armVars>>

\* Mutant: events that are there already are not looked for.
ArmCheckNot ==
  /\ pc = "check"
  /\ evs' = evs \ {First(evs)}
  /\ pc' = "arm"
  /\ UNCHANGED <<ready, upcall, flagVars, in_batch, active, fed, walk, so, acc, ret>>

ArmCheck ==
  /\ pc = "check"
  /\ acc' = acc \cup {e \in {First(evs)} : <<so, e>> \in ready}
  /\ evs' = evs \ {First(evs)}
  /\ pc' = "arm"
  /\ UNCHANGED <<ready, upcall, flagVars, in_batch, active, fed, walk, so, ret>>

ArmPost ==
  /\ pc = "arm" /\ evs = {}
  /\ IF acc # {} THEN uinet_socket_events(so, acc) ELSE UNCHANGED flagVars
  /\ pc' = ret /\ so' = NoSock /\ acc' = {}
  /\ UNCHANGED <<ready, upcall, in_batch, active, fed, walk, evs, ret>>

-----------------------------------------------------------------------------
(***************************************************************************)
(* The prepare watcher: uinet_reenable_upcalls.                            *)
(***************************************************************************)

Reenable(s) ==
  /\ pc = "prepare" /\ s \in walk
  /\ walk' = walk \ {s}
  /\ pend_flags' = [pend_flags EXCEPT ![s] = {}]
  /\ prev_pend' = prev_pend \ {s}
  /\ so' = s /\ evs' = {e \in Event : Num(s, e) > 0} /\ acc' = {}
  /\ pc' = "arm" /\ ret' = "prepare"
  /\ UNCHANGED <<ready, upcall, pend, async, in_batch, active, fed>>

ReenableDone ==
  /\ pc = "prepare" /\ walk = {}
  /\ pc' = "poll"
  /\ UNCHANGED <<ready, upcall, flagVars, in_batch, active, fed, walk, armVars>>

(***************************************************************************)
(* The async watcher: uinet_process_pending_list.                          *)
(***************************************************************************)

\* The loop is notified ...
Async ==
  /\ pc = "poll" /\ async
  /\ async' = FALSE
  /\ pc' = "swap"
  /\ UNCHANGED <<ready, upcall, pend_flags, pend, prev_pend, in_batch, active, fed, walk, armVars>>

\* ... or woken by some other watcher, whose callback may start and stop these.
OtherEvents ==
  /\ pc = "poll"
  /\ pc' = "invoke"
  /\ UNCHANGED <<ready, upcall, flagVars, in_batch, active, fed, walk, armVars>>

Swap ==
  /\ pc = "swap"
  /\ prev_pend' = pend /\ pend' = prev_pend
  /\ walk' = pend
  /\ pc' = "walk"
  /\ UNCHANGED <<ready, upcall, pend_flags, async, in_batch, active, fed, armVars>>

\* Mutant: the upcall for writing stays on.
ClearOnlyRead(s) ==
  /\ pc = "walk" /\ s \in walk
  /\ upcall' = upcall \ {<<s, e>> : e \in {f \in {"READ"} : Num(s, f) > 0}}
  /\ walk' = walk \ {s}
  /\ so' = s /\ pc' = "feed"
  /\ UNCHANGED <<ready, flagVars, in_batch, active, fed, evs, acc, ret>>

\* The upcalls of a context are turned off ...
ClearUpcalls(s) ==
  /\ pc = "walk" /\ s \in walk
  /\ upcall' = upcall \ {<<s, e>> : e \in {f \in Event : Num(s, f) > 0}}
  /\ walk' = walk \ {s}
  /\ so' = s /\ pc' = "feed"
  /\ UNCHANGED <<ready, flagVars, in_batch, active, fed, evs, acc, ret>>

\* ... and its watchers are fed what was pending.
Feed ==
  /\ pc = "feed"
  /\ fed' = [w \in Watcher |-> IF w \in active /\ WSock[w] = so
                               THEN fed[w] \cup (WEvents[w] \cap pend_flags[so]) ELSE fed[w]]
  /\ pend_flags' = [pend_flags EXCEPT ![so] = {"INHIBITED"}]
  /\ pc' = "walk" /\ so' = NoSock
  /\ UNCHANGED <<ready, upcall, pend, prev_pend, async, in_batch, active, walk, evs, acc, ret>>

WalkDone ==
  /\ pc = "walk" /\ walk = {}
  /\ pc' = "invoke"
  /\ UNCHANGED <<ready, upcall, flagVars, in_batch, active, fed, walk, armVars>>

-----------------------------------------------------------------------------
(***************************************************************************)
(* Callbacks: they use up some of what is ready, or nothing, and start and *)
(* stop watchers.                                                          *)
(***************************************************************************)

Callback(w) ==
  /\ pc = "invoke" /\ fed[w] # {}
  /\ fed' = [fed EXCEPT ![w] = {}]
  /\ \E E \in SUBSET fed[w] : ready' = ready \ {<<WSock[w], e>> : e \in E}
  /\ UNCHANGED <<upcall, flagVars, in_batch, active, pc, walk, armVars>>

InvokeDone ==
  /\ pc = "invoke" /\ \A w \in Watcher : fed[w] = {}
  /\ pc' = "prepare"
  /\ walk' = prev_pend
  /\ UNCHANGED <<ready, upcall, flagVars, in_batch, active, fed, armVars>>

ev_uinet_start(w) ==
  /\ pc = "invoke" /\ w \notin active
  /\ active' = active \cup {w}
  /\ so' = WSock[w] /\ acc' = {}
  /\ evs' = {e \in WEvents[w] :
               "INHIBITED" \notin pend_flags[WSock[w]] /\ Num(WSock[w], e) = 0}
  /\ pc' = "arm" /\ ret' = "invoke"
  /\ UNCHANGED <<ready, upcall, flagVars, in_batch, fed, walk>>

\* Mutant: a context without watchers stays on the list.
StopKeepsListed(w) ==
  /\ pc = "invoke" /\ w \in active
  /\ active' = active \ {w}
  /\ fed' = [fed EXCEPT ![w] = {}]
  /\ LET s    == WSock[w]
         last == {e \in WEvents[w] : Num(s, e) = 1}
         none == \A v \in active \ {w} : WSock[v] # s
     IN /\ upcall' = upcall \ {<<s, e>> : e \in last}
        /\ pend_flags' = IF none THEN [pend_flags EXCEPT ![s] = {}] ELSE pend_flags
  /\ UNCHANGED <<ready, pend, prev_pend, async, in_batch, pc, walk, armVars>>

\* The upcalls of an inhibited context are off already.
ev_uinet_stop(w) ==
  /\ pc = "invoke" /\ w \in active
  /\ active' = active \ {w}
  /\ fed' = [fed EXCEPT ![w] = {}]
  /\ LET s    == WSock[w]
         inh  == "INHIBITED" \in pend_flags[s]
         last == {e \in WEvents[w] : Num(s, e) = 1}
         none == \A v \in active \ {w} : WSock[v] # s
     IN /\ upcall' = IF inh THEN upcall ELSE upcall \ {<<s, e>> : e \in last}
        /\ prev_pend' = IF none /\ inh THEN prev_pend \ {s} ELSE prev_pend
        /\ pend' = IF none /\ ~inh /\ "PENDING" \in pend_flags[s] THEN pend \ {s} ELSE pend
        /\ pend_flags' = IF none THEN [pend_flags EXCEPT ![s] = {}] ELSE pend_flags
  /\ UNCHANGED <<ready, async, in_batch, pc, walk, armVars>>

-----------------------------------------------------------------------------
Loop ==
  \/ ArmSet \/ ArmCheck \/ ArmPost
  \/ (\E s \in Sock : Reenable(s) \/ ClearUpcalls(s)) \/ ReenableDone
  \/ Async \/ Swap \/ Feed \/ WalkDone
  \/ (\E w \in Watcher : Callback(w)) \/ InvokeDone

EvNext ==
  \/ Loop \/ OtherEvents
  \/ \E s \in Sock, e \in Event : Upcall(s, e)
  \/ \E i \in Interface : BatchStart(i) \/ BatchFinish(i)
  \/ \E w \in Watcher : ev_uinet_start(w) \/ ev_uinet_stop(w)

EvSpec == EvInit /\ [][EvNext]_evVars

(***************************************************************************)
(* The loop runs, callbacks return, and batches end.                       *)
(***************************************************************************)
FairEvSpec ==
  /\ EvSpec
  /\ WF_evVars(Loop) /\ SF_evVars(Async) /\ SF_evVars(InvokeDone)
  /\ \A w \in Watcher : SF_evVars(Callback(w))
  /\ \A i \in Interface : WF_evVars(BatchFinish(i))

-----------------------------------------------------------------------------
Flag == Event \cup {"PENDING", "INHIBITED"}

EvTypeOK ==
  /\ ready \subseteq Sock \X Event /\ upcall \subseteq Sock \X Event
  /\ pend_flags \in [Sock -> SUBSET Flag]
  /\ pend \subseteq Sock /\ prev_pend \subseteq Sock
  /\ in_batch \subseteq Interface /\ async \in BOOLEAN
  /\ active \subseteq Watcher /\ fed \in [Watcher -> SUBSET Event]
  /\ pc \in {"arm", "check", "prepare", "poll", "swap", "walk", "feed", "invoke"}
  /\ walk \subseteq Sock /\ so \in Sock \cup {NoSock}
  /\ evs \subseteq Event /\ acc \subseteq Event /\ ret \in {"prepare", "invoke"}

\* "libev: uinet_prev_pend list not empty" (the assertion in
\* uinet_process_pending_list) does not fail.
PrevPendEmpty == pc \in {"poll", "swap"} => prev_pend = {}

\* A context's flags say which list it is on: one, or none.
FlagsMatchLists ==
  \A s \in Sock :
    /\ ~(s \in pend /\ s \in prev_pend)
    /\ s \in pend => "PENDING" \in pend_flags[s]
    /\ s \in prev_pend <=> \/ "INHIBITED" \in pend_flags[s]
                           \/ "PENDING" \in pend_flags[s] /\ s \notin pend

\* "Inhibit upcalls for all sockets that will have watchers invoked ... so
\* that the pending event status of these sockets does not change before
\* those watchers complete their execution" (the comment there).
Inhibited ==
  \A s \in Sock : "INHIBITED" \in pend_flags[s] =>
    pend_flags[s] = {"INHIBITED"} /\ \A e \in Event : <<s, e>> \notin upcall

\* When the loop waits, what is ready and watched is pending, and there is a
\* notification under way or a batch whose end will bring one.
NothingForgotten ==
  pc = "poll" =>
    /\ \A s \in Sock, e \in Event :
         <<s, e>> \in ready /\ Num(s, e) > 0 => s \in pend /\ e \in pend_flags[s]
    /\ pend # {} => async \/ in_batch # {}

\* A watcher whose socket stays ready has its callback run, however batches
\* overlap ("so continuously overlapping batches from multiple interfaces
\* don't result in event starvation").
Delivered ==
  \A w \in Watcher :
    (w \in active /\ \E e \in WEvents[w] : <<WSock[w], e>> \in ready)
      ~> (fed[w] # {} \/ w \notin active \/ \A e \in WEvents[w] : <<WSock[w], e>> \notin ready)

\* The flags of every socket agree with the two lists, and the loop leaves
\* nothing on the previous list (uinet_process_pending_list, ev_uinet_stop);
\* an inhibited socket has no upcall.
EvInv == EvTypeOK /\ PrevPendEmpty /\ FlagsMatchLists /\ Inhibited
=============================================================================
