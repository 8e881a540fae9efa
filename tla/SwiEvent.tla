------------------------------ MODULE SwiEvent ------------------------------
(***************************************************************************)
(* A software interrupt event and its thread                               *)
(* (lib/libuinet/uinet_kern_intr.c, without INTR_FILTER): handlers are     *)
(* added by swi_add, the first one creating the thread; swi_sched asks for *)
(* a handler to be run; swi_remove takes one out.  The thread walks the    *)
(* handler list without the event's lock.                                  *)
(*                                                                         *)
(* ie_lock and the thread's td_lock are only held within a step: cv_wait   *)
(* releases td_lock as the thread goes to sleep, and msleep ie_lock.       *)
(***************************************************************************)
EXTENDS Integers, Sequences

CONSTANTS
  Handler,       \* one client per handler adds, schedules and removes it
  Pri,           \* its priority, [Handler -> Nat]
  StartLate,     \* does a new thread first run after its creator is done with it?
  NULL

ASSUME PriAssumption == Pri \in [Handler -> Nat] /\ NULL \notin Handler
ASSUME FlagAssumption == StartLate \in BOOLEAN

VARIABLES
  ie_handlers, ie_thread, adding,   \* struct intr_event; IE_ADDING_THREAD
  need, dead, freed,    \* handlers with ih_need, with IH_DEAD, and freed ones
  it_event, it_need, iwait,         \* struct intr_thread; TDI_IWAIT of its thread
  created,              \* threads created
  apc, spc,             \* each client in swi_add or swi_remove, and in swi_sched
  tpc, ie, ih, ihn      \* the thread: where, and its local variables

eventVars  == <<ie_handlers, ie_thread, adding>>
flagVars   == <<need, dead, freed>>
clientVars == <<apc, spc>>
localVars  == <<ie, ih, ihn>>
swiVars == <<eventVars, flagVars, it_event, it_need, iwait, created, clientVars, tpc, localVars>>

SwiInit ==
  /\ ie_handlers = <<>> /\ ie_thread = FALSE /\ adding = FALSE
  /\ need = {} /\ dead = {} /\ freed = {}
  /\ it_event = NULL /\ it_need = FALSE /\ iwait = FALSE
  /\ created = 0
  /\ apc = [h \in Handler |-> "none"] /\ spc = [h \in Handler |-> "idle"]
  /\ tpc = "unborn" /\ ie = NULL /\ ih = NULL /\ ihn = NULL

-----------------------------------------------------------------------------
(***************************************************************************)
(* intr_event_add_handler.                                                 *)
(***************************************************************************)

\* h goes before the first handler of a lower priority, or to the end.
Insert(h) ==
  \E at \in 1 .. Len(ie_handlers) + 1 :
    /\ \A i \in 1 .. at - 1 : Pri[ie_handlers[i]] <= Pri[h]
    /\ at <= Len(ie_handlers) => Pri[ie_handlers[at]] > Pri[h]
    /\ ie_handlers' = SubSeq(ie_handlers, 1, at - 1) \o <<h>> \o SubSeq(ie_handlers, at, Len(ie_handlers))

\* Mutant: the adder does not look at IE_ADDING_THREAD.
NeedThreadAlways(h) ==
  IF ie_thread THEN apc' = [apc EXCEPT ![h] = "ready"] /\ UNCHANGED adding
  ELSE apc' = [apc EXCEPT ![h] = "create"] /\ adding' = TRUE

\* The test of the loop that waits for the thread or sets out to create it.
NeedThread(h) ==
  \/ ie_thread /\ apc' = [apc EXCEPT ![h] = "ready"] /\ UNCHANGED adding
  \/ ~ie_thread /\ adding /\ apc' = [apc EXCEPT ![h] = "msleep"] /\ UNCHANGED adding
  \/ ~ie_thread /\ ~adding /\ apc' = [apc EXCEPT ![h] = "create"] /\ adding' = TRUE

AddInsert(h) ==
  /\ apc[h] = "none"
  /\ Insert(h)
  /\ NeedThread(h)
  /\ UNCHANGED <<ie_thread, flagVars, it_event, it_need, iwait, created, spc, tpc, localVars>>

AddWoken(h) ==
  /\ apc[h] = "woken"
  /\ NeedThread(h)
  /\ UNCHANGED <<ie_handlers, ie_thread, flagVars, it_event, it_need, iwait, created, spc,
                 tpc, localVars>>

\* msleep may return without a wakeup.
AddSpurious(h) ==
  /\ apc[h] = "msleep"
  /\ apc' = [apc EXCEPT ![h] = "woken"]
  /\ UNCHANGED <<eventVars, flagVars, it_event, it_need, iwait, created, spc, tpc, localVars>>

\* ithread_create: the thread is born with an event of its own for the moment.
ithread_create(h) ==
  /\ apc[h] = "create"
  /\ apc' = [apc EXCEPT ![h] = "created"]
  /\ it_event' = "placeholder"
  /\ created' = created + 1
  /\ tpc' = "start"
  /\ UNCHANGED <<eventVars, flagVars, it_need, iwait, spc, localVars>>

\* Mutant: the threads that wait for the new thread are not woken.
AddFinishSilent(h) ==
  /\ apc[h] = "created"
  /\ adding' = FALSE /\ ie_thread' = TRUE /\ it_event' = "event"
  /\ apc' = [apc EXCEPT ![h] = "ready"]
  /\ UNCHANGED <<ie_handlers, flagVars, it_need, iwait, created, spc, tpc, localVars>>

AddFinish(h) ==
  /\ apc[h] = "created"
  /\ adding' = FALSE /\ ie_thread' = TRUE /\ it_event' = "event"
  /\ apc' = [g \in Handler |-> IF g = h THEN "ready"
                               ELSE IF apc[g] = "msleep" THEN "woken" ELSE apc[g]]
  /\ UNCHANGED <<ie_handlers, flagVars, it_need, iwait, created, spc, tpc, localVars>>

-----------------------------------------------------------------------------
(***************************************************************************)
(* swi_sched: ih_need, then it_need, then under td_lock the thread is      *)
(* woken if it awaits interrupts.                                          *)
(***************************************************************************)

swi_sched(h) ==
  /\ apc[h] = "ready" /\ spc[h] = "idle"
  /\ need' = need \cup {h}
  /\ spc' = [spc EXCEPT ![h] = "flagged"]
  /\ UNCHANGED <<eventVars, dead, freed, it_event, it_need, iwait, created, apc, tpc, localVars>>

SchedNeed(h) ==
  /\ spc[h] = "flagged"
  /\ it_need' = TRUE
  /\ spc' = [spc EXCEPT ![h] = "needed"]
  /\ UNCHANGED <<eventVars, flagVars, it_event, iwait, created, apc, tpc, localVars>>

SchedWake(h) ==
  /\ spc[h] = "needed"
  /\ spc' = [spc EXCEPT ![h] = "idle"]
  /\ iwait' = FALSE
  /\ tpc' = IF iwait /\ tpc = "wait" THEN "loop" ELSE tpc
  /\ UNCHANGED <<eventVars, flagVars, it_event, it_need, created, apc, localVars>>

intr_event_schedule_thread(h) == SchedNeed(h) \/ SchedWake(h)

-----------------------------------------------------------------------------
(***************************************************************************)
(* intr_event_remove_handler.  Its caller has stopped scheduling h.        *)
(***************************************************************************)

\* Mutant: the remover does not make the thread walk the list again.
RemoveNoPass(h) ==
  /\ apc[h] = "ready" /\ spc[h] = "idle"
  /\ ~iwait
  /\ dead' = dead \cup {h}
  /\ apc' = [apc EXCEPT ![h] = "rmwait"]
  /\ UNCHANGED <<eventVars, need, freed, it_event, it_need, iwait, created, spc, tpc, localVars>>

\* Mutant: the handler is freed without waiting for the thread.
RemoveNoWait(h) ==
  /\ apc[h] = "ready" /\ spc[h] = "idle"
  /\ ~iwait
  /\ dead' = dead \cup {h} /\ it_need' = TRUE
  /\ freed' = freed \cup {h}
  /\ apc' = [apc EXCEPT ![h] = "gone"]
  /\ UNCHANGED <<eventVars, need, it_event, iwait, created, spc, tpc, localVars>>

\* The thread runs: mark the handler dead, have the list walked again, wait.
RemoveHandler(h) ==
  /\ apc[h] = "ready" /\ spc[h] = "idle"
  /\ ~iwait
  /\ dead' = dead \cup {h} /\ it_need' = TRUE
  /\ apc' = [apc EXCEPT ![h] = "rmwait"]
  /\ UNCHANGED <<eventVars, need, freed, it_event, iwait, created, spc, tpc, localVars>>

\* The thread awaits interrupts: the handler is not dead, so it is freed.
RemoveAwaiting(h) ==
  /\ apc[h] = "ready" /\ spc[h] = "idle"
  /\ iwait
  /\ freed' = freed \cup {h}
  /\ apc' = [apc EXCEPT ![h] = "gone"]
  /\ UNCHANGED <<eventVars, need, dead, it_event, it_need, iwait, created, spc, tpc, localVars>>

\* The thread's wakeup, or a spurious one, with IH_DEAD clear: free it.
RemoveFree(h) ==
  /\ apc[h] = "rmwait" /\ h \notin dead
  /\ freed' = freed \cup {h}
  /\ apc' = [apc EXCEPT ![h] = "gone"]
  /\ UNCHANGED <<eventVars, need, dead, it_event, it_need, iwait, created, spc, tpc, localVars>>

-----------------------------------------------------------------------------
(***************************************************************************)
(* ithread_loop.                                                           *)
(***************************************************************************)

\* It reads it_event once, when it starts.
ThreadStart ==
  /\ tpc = "start"
  /\ StartLate => ie_thread
  /\ ie' = it_event
  /\ tpc' = "loop"
  /\ UNCHANGED <<eventVars, flagVars, it_event, it_need, iwait, created, clientVars, ih, ihn>>

\* Where h is on the list.
Place(h) == CHOOSE i \in DOMAIN ie_handlers : ie_handlers[i] = h

NextOf(h) == IF Place(h) = Len(ie_handlers) THEN NULL ELSE ie_handlers[Place(h) + 1]

\* TAILQ_REMOVE
Unlink(h) ==
  ie_handlers' = SubSeq(ie_handlers, 1, Place(h) - 1) \o SubSeq(ie_handlers, Place(h) + 1, Len(ie_handlers))

\* The walk goes on with handler h: ih is h, ihn the one after it for now.
Walk(h) ==
  /\ ih' = h
  /\ ihn' = IF h = NULL THEN NULL ELSE NextOf(h)
  /\ tpc' = IF h = NULL THEN "loop" ELSE "visit"

\* A pass begins.  An event that is not the real one has no handlers.
Pass ==
  /\ tpc = "loop" /\ it_need
  /\ it_need' = FALSE
  /\ Walk(IF ie = "event" /\ ie_handlers # <<>> THEN Head(ie_handlers) ELSE NULL)
  /\ UNCHANGED <<eventVars, flagVars, it_event, iwait, created, clientVars, ie>>

\* A dead handler is unlinked and its remover woken.
VisitDead ==
  /\ tpc = "visit" /\ ih \in dead
  /\ Unlink(ih)
  /\ dead' = dead \ {ih}
  /\ ih' = ihn
  /\ ihn' = IF ihn = NULL THEN NULL ELSE NextOf(ihn)
  /\ tpc' = IF ihn = NULL THEN "loop" ELSE "visit"
  /\ UNCHANGED <<ie_thread, adding, need, freed, it_event, it_need, iwait, created, clientVars,
                 ie>>

VisitIdle ==
  /\ tpc = "visit" /\ ih \notin dead /\ ih \notin need
  /\ Walk(ihn)
  /\ UNCHANGED <<eventVars, flagVars, it_event, it_need, iwait, created, clientVars, ie>>

VisitExec ==
  /\ tpc = "visit" /\ ih \notin dead /\ ih \in need
  /\ need' = need \ {ih}
  /\ tpc' = "exec"
  /\ UNCHANGED <<eventVars, dead, freed, it_event, it_need, iwait, created, clientVars,
                 localVars>>

ExecDone ==
  /\ tpc = "exec"
  /\ Walk(ihn)
  /\ UNCHANGED <<eventVars, flagVars, it_event, it_need, iwait, created, clientVars, ie>>

\* Mutant: it_need is not looked at again under td_lock.
SuspendBlindly ==
  /\ tpc = "suspend"
  /\ iwait' = TRUE /\ tpc' = "wait"
  /\ UNCHANGED <<eventVars, flagVars, it_event, it_need, created, clientVars, localVars>>

\* No more to do, it seems: the thread gets td_lock, looks at it_need again
\* and waits.
LoopEnds ==
  /\ tpc = "loop" /\ ~it_need
  /\ tpc' = "suspend"
  /\ UNCHANGED <<eventVars, flagVars, it_event, it_need, iwait, created, clientVars, localVars>>

Suspend ==
  /\ tpc = "suspend"
  /\ \/ it_need /\ tpc' = "loop" /\ UNCHANGED iwait
     \/ ~it_need /\ iwait' = TRUE /\ tpc' = "wait"
  /\ UNCHANGED <<eventVars, flagVars, it_event, it_need, created, clientVars, localVars>>

\* The condition variable may wake the thread for no reason, with TDI_IWAIT set.
SpuriousWake ==
  /\ tpc = "wait"
  /\ tpc' = "loop"
  /\ UNCHANGED <<eventVars, flagVars, it_event, it_need, iwait, created, clientVars, localVars>>

ithread_loop ==
  \/ ThreadStart \/ Pass \/ VisitDead \/ VisitIdle \/ VisitExec \/ ExecDone
  \/ LoopEnds \/ Suspend

-----------------------------------------------------------------------------
swi_add(h) == AddInsert(h) \/ AddWoken(h) \/ ithread_create(h) \/ AddFinish(h)

SwiNext ==
  \/ \E h \in Handler :
       \/ swi_add(h) \/ AddSpurious(h)
       \/ swi_sched(h) \/ intr_event_schedule_thread(h)
       \/ RemoveHandler(h) \/ RemoveFree(h)
  \/ ithread_loop \/ SpuriousWake

SwiSpec == SwiInit /\ [][SwiNext]_swiVars

\* With removals at any time.
RemoveSpec == SwiInit /\ [][SwiNext \/ \E h \in Handler : RemoveAwaiting(h)]_swiVars

(***************************************************************************)
(* Threads are scheduled: what a client has begun it goes on with, and the *)
(* interrupt thread runs.                                                  *)
(***************************************************************************)
FairSwiSpec ==
  /\ SwiSpec
  /\ WF_swiVars(ithread_loop)
  /\ \A h \in Handler :
       /\ WF_swiVars(AddWoken(h) \/ ithread_create(h) \/ AddFinish(h))
       /\ WF_swiVars(intr_event_schedule_thread(h))
       /\ WF_swiVars(RemoveFree(h))

-----------------------------------------------------------------------------
SwiTypeOK ==
  /\ ie_handlers \in Seq(Handler)
  /\ \A i, j \in DOMAIN ie_handlers : ie_handlers[i] = ie_handlers[j] => i = j
  /\ ie_thread \in BOOLEAN /\ adding \in BOOLEAN /\ it_need \in BOOLEAN /\ iwait \in BOOLEAN
  /\ need \subseteq Handler /\ dead \subseteq Handler /\ freed \subseteq Handler
  /\ it_event \in {NULL, "placeholder", "event"} /\ ie \in {NULL, "placeholder", "event"}
  /\ created \in Nat
  /\ apc \in [Handler -> {"none", "create", "created", "msleep", "woken", "ready", "rmwait", "gone"}]
  /\ spc \in [Handler -> {"idle", "flagged", "needed"}]
  /\ tpc \in {"unborn", "start", "loop", "visit", "exec", "suspend", "wait"}
  /\ ih \in Handler \cup {NULL} /\ ihn \in Handler \cup {NULL}

\* However many handlers are added at once, one thread is created for the
\* event: IE_ADDING_THREAD covers the time ie_lock is released.
OneIthread == created <= 1

\* The thread does not sleep on work: a handler with ih_need set while the
\* thread waits has a swi_sched under way that will wake it.
NotAsleepWithWork ==
  tpc = "wait" /\ ie = "event" =>
    /\ \A h \in need : spc[h] # "idle" \/ apc[h] \in {"rmwait", "gone"} \/ it_need
    /\ it_need => \E h \in Handler : spc[h] = "needed"

\* A handler that has been freed is out of the thread's reach: neither on
\* the list nor in a local variable of its walk.
FreedUnreachable ==
  \A h \in freed :
    /\ \A i \in DOMAIN ie_handlers : ie_handlers[i] # h
    /\ tpc \in {"visit", "exec"} => ih # h /\ ihn # h

\* "if the ithread is already running it will execute this handler on the
\* next pass.  Otherwise, it will execute it the next time it runs" (the
\* comment in swi_sched): a handler scheduled is run, or removed.
ScheduledRuns ==
  \A h \in Handler :
    h \in need ~> ((tpc = "exec" /\ ih = h) \/ apc[h] \in {"rmwait", "gone"})

\* Every swi_add returns.
AddReturns == \A h \in Handler : apc[h] \in {"create", "created", "msleep"} ~> apc[h] = "ready"

\* A remover that marked its handler dead gets it back.
RemovalEnds == \A h \in Handler : apc[h] = "rmwait" ~> apc[h] = "gone"

\* No call waits for ever: swi_add() for the thread another adder is making,
\* swi_remove() for the thread to let go of the handler.
CallsReturn == AddReturns /\ RemovalEnds

\* The event and its thread: one thread, made once, which does not wait while
\* a handler needs it (intr_event_add_handler, ithread_loop).
SwiInv == SwiTypeOK /\ OneIthread /\ NotAsleepWithWork
=============================================================================
