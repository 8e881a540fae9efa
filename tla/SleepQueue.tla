----------------------------- MODULE SleepQueue -----------------------------
(***************************************************************************)
(* sleep and wakeup (lib/libuinet/uinet_kern_synch.c) over condition       *)
(* variables (uinet_kern_condvar.c): a table of sleep entries, one per     *)
(* channel slept on, each with a condition variable and a count of the     *)
(* threads that use it; the last one frees it.                             *)
(*                                                                         *)
(* The threads use it the way the kernel does: under an interlock they     *)
(* test a condition, here whether the channel has an item, and sleep on    *)
(* the channel until it has; whoever puts an item wakes the channel.       *)
(* synch_lock is only held within a step.                                  *)
(***************************************************************************)
EXTENDS Integers, FiniteSets

CONSTANTS
  Thread, Chan,
  Entry,          \* the memory sleep entries are allocated from
  MaxItems,       \* bound: items on a channel
  Priorities,     \* flags in the priority argument: "none" or "PDROP"
  NULL

ASSUME EntryAssumption == Cardinality(Entry) >= Cardinality(Thread)
ASSUME ThreadAssumption ==
  IsFiniteSet(Thread) /\ NULL \notin Thread \cup Entry /\ MaxItems \in Nat

VARIABLES
  se_active,      \* the entry of each channel in the hash table, or NULL
  waiters,        \* se->waiters of each allocated entry
  lock,           \* the owner of the interlock
  pc, chan, se, timo, prio,    \* _sleep of each thread: where, arguments, locals
  rv, awakened,   \* ... its result, and whether its channel was woken meanwhile
  items,          \* the condition the threads wait for
  owed            \* wakeups of each channel to be done for items put on it

argVars == <<chan, se, timo, prio, rv, awakened>>
sleepVars == <<se_active, waiters, lock, pc, argVars, items, owed>>

Allocated == DOMAIN waiters

SleepInit ==
  /\ se_active = [c \in Chan |-> NULL]
  /\ waiters = [e \in {} |-> 0]
  /\ lock = NULL
  /\ pc = [t \in Thread |-> "out"]
  /\ chan = [t \in Thread |-> NULL] /\ se = [t \in Thread |-> NULL]
  /\ timo = [t \in Thread |-> FALSE] /\ prio = [t \in Thread |-> "none"]
  /\ rv = [t \in Thread |-> "0"] /\ awakened = [t \in Thread |-> FALSE]
  /\ items = [c \in Chan |-> 0] /\ owed = [c \in Chan |-> 0]

-----------------------------------------------------------------------------
(***************************************************************************)
(* The users.                                                              *)
(***************************************************************************)

\* A thread takes the interlock to get an item of channel c.
Enter(t, c) ==
  /\ pc[t] = "out" /\ lock = NULL
  /\ lock' = t
  /\ pc' = [pc EXCEPT ![t] = "test"]
  /\ chan' = [chan EXCEPT ![t] = c]
  /\ UNCHANGED <<se_active, waiters, se, timo, prio, rv, awakened, items, owed>>

\* There is an item: no need to sleep (any more).
Take(t) ==
  /\ pc[t] = "test" /\ items[chan[t]] > 0
  /\ items' = [items EXCEPT ![chan[t]] = @ - 1]
  /\ lock' = NULL
  /\ pc' = [pc EXCEPT ![t] = "out"] /\ chan' = [chan EXCEPT ![t] = NULL]
  /\ rv' = [rv EXCEPT ![t] = "0"] /\ awakened' = [awakened EXCEPT ![t] = FALSE]
  /\ UNCHANGED <<se_active, waiters, se, timo, prio, owed>>

\* Another thread puts an item, with the interlock held ...
Put(c) ==
  /\ lock = NULL
  /\ items[c] < MaxItems /\ owed[c] < MaxItems
  /\ items' = [items EXCEPT ![c] = @ + 1]
  /\ owed' = [owed EXCEPT ![c] = @ + 1]
  /\ UNCHANGED <<se_active, waiters, lock, pc, argVars>>

\* ... and calls wakeup or wakeup_one, before or after it lets go of it.  The
\* threads woken are among those that wait on the condition variable of the
\* channel's entry.
WaitingOn(c) ==
  {u \in Thread : pc[u] = "wait" /\ se_active[c] # NULL /\ se[u] = se_active[c]}

Wake(W) ==
  /\ pc' = [u \in Thread |-> IF u \in W THEN "woken" ELSE pc[u]]
  /\ awakened' = [u \in Thread |-> awakened[u] \/ u \in W]

wakeup(c) == Wake(WaitingOn(c))

wakeup_one(c) ==
  \/ WaitingOn(c) = {} /\ Wake({})
  \/ \E u \in WaitingOn(c) : Wake({u})

Wakeup(c) ==
  /\ owed[c] > 0
  /\ owed' = [owed EXCEPT ![c] = @ - 1]
  /\ wakeup(c) \/ wakeup_one(c)
  /\ UNCHANGED <<se_active, waiters, lock, chan, se, timo, prio, rv, items>>

-----------------------------------------------------------------------------
(***************************************************************************)
(* _sleep, and msleep_spin, with an interlock.                             *)
(***************************************************************************)

\* Mutant: a new entry is made even if the channel has one.
SleepAlwaysAlloc(t) ==
  /\ pc[t] = "test" /\ items[chan[t]] = 0
  /\ LET c == chan[t]
     IN \E e \in Entry \ Allocated :
          /\ waiters' = [x \in Allocated \cup {e} |-> IF x = e THEN 1 ELSE waiters[x]]
          /\ se_active' = [se_active EXCEPT ![c] = e]
          /\ se' = [se EXCEPT ![t] = e]
  /\ \E b \in BOOLEAN : timo' = [timo EXCEPT ![t] = b]
  /\ \E p \in Priorities : prio' = [prio EXCEPT ![t] = p]
  /\ rv' = [rv EXCEPT ![t] = "0"] /\ awakened' = [awakened EXCEPT ![t] = FALSE]
  /\ pc' = [pc EXCEPT ![t] = "enqueued"]
  /\ UNCHANGED <<lock, chan, items, owed>>

\* The first part: find or allocate the channel's entry, under synch_lock.
Sleep(t) ==
  /\ pc[t] = "test" /\ items[chan[t]] = 0
  /\ LET c == chan[t]
     IN \/ /\ se_active[c] # NULL
           /\ waiters' = [waiters EXCEPT ![se_active[c]] = @ + 1]
           /\ se' = [se EXCEPT ![t] = se_active[c]]
           /\ UNCHANGED se_active
        \/ /\ se_active[c] = NULL
           /\ \E e \in Entry \ Allocated :
                /\ waiters' = [x \in Allocated \cup {e} |-> IF x = e THEN 1 ELSE waiters[x]]
                /\ se_active' = [se_active EXCEPT ![c] = e]
                /\ se' = [se EXCEPT ![t] = e]
  /\ \E b \in BOOLEAN : timo' = [timo EXCEPT ![t] = b]
  /\ \E p \in Priorities : prio' = [prio EXCEPT ![t] = p]
  /\ rv' = [rv EXCEPT ![t] = "0"] /\ awakened' = [awakened EXCEPT ![t] = FALSE]
  /\ pc' = [pc EXCEPT ![t] = "enqueued"]
  /\ UNCHANGED <<lock, chan, items, owed>>

\* Mutant: the interlock is released some time before the thread waits.
CvWaitLate(t) ==
  /\ pc[t] = "enqueued"
  /\ \/ lock = t /\ lock' = NULL /\ pc' = pc
     \/ lock # t /\ pc' = [pc EXCEPT ![t] = "wait"] /\ lock' = lock
  /\ UNCHANGED <<se_active, waiters, argVars, items, owed>>

\* cv_wait or cv_timedwait: the interlock is released and the thread waits.
CvWait(t) ==
  /\ pc[t] = "enqueued"
  /\ lock' = NULL
  /\ pc' = [pc EXCEPT ![t] = "wait"]
  /\ UNCHANGED <<se_active, waiters, argVars, items, owed>>

\* The wait ends by itself: the time has run out, or for no reason at all,
\* as pthread_cond_wait may.
CvTimeout(t) ==
  /\ pc[t] = "wait" /\ timo[t]
  /\ pc' = [pc EXCEPT ![t] = "woken"]
  /\ rv' = [rv EXCEPT ![t] = "EWOULDBLOCK"]
  /\ UNCHANGED <<se_active, waiters, lock, chan, se, timo, prio, awakened, items, owed>>

CvSpurious(t) ==
  /\ pc[t] = "wait"
  /\ pc' = [pc EXCEPT ![t] = "woken"]
  /\ UNCHANGED <<se_active, waiters, lock, argVars, items, owed>>

\* ... and cv_wait returns with the interlock held again.
CvReturn(t) ==
  /\ pc[t] = "woken" /\ lock = NULL
  /\ lock' = t
  /\ pc' = [pc EXCEPT ![t] = "return"]
  /\ UNCHANGED <<se_active, waiters, argVars, items, owed>>

\* Mutant: the entry is freed by whoever returns first.
SeFreeFirst(t) ==
  /\ pc[t] = "return"
  /\ waiters' = [x \in Allocated \ {se[t]} |-> waiters[x]]
  /\ se_active' = [se_active EXCEPT ![chan[t]] = NULL]
  /\ se' = [se EXCEPT ![t] = NULL]
  /\ timo' = [timo EXCEPT ![t] = FALSE]
  /\ pc' = [pc EXCEPT ![t] = IF prio[t] = "PDROP" THEN "relock" ELSE "test"]
  /\ UNCHANGED <<lock, chan, prio, rv, awakened, items, owed>>

\* se_free, under synch_lock: the last user takes the entry out of the table
\* and frees it.  _sleep returns and the caller tests its condition again.
SeFree(t) ==
  /\ pc[t] = "return"
  /\ LET e == se[t]
     IN \/ /\ waiters[e] > 1
           /\ waiters' = [waiters EXCEPT ![e] = @ - 1]
           /\ UNCHANGED se_active
        \/ /\ waiters[e] = 1
           /\ waiters' = [x \in Allocated \ {e} |-> waiters[x]]
           /\ se_active' = [se_active EXCEPT ![chan[t]] = NULL]
  /\ se' = [se EXCEPT ![t] = NULL]
  /\ timo' = [timo EXCEPT ![t] = FALSE]
  /\ pc' = [pc EXCEPT ![t] = IF prio[t] = "PDROP" THEN "relock" ELSE "test"]
  /\ UNCHANGED <<lock, chan, prio, rv, awakened, items, owed>>

\* The caller of a sleep with PDROP (kqueue_register) takes the interlock
\* again itself.
Relock(t) ==
  /\ pc[t] = "relock" /\ lock = NULL
  /\ lock' = t
  /\ pc' = [pc EXCEPT ![t] = "test"]
  /\ UNCHANGED <<se_active, waiters, argVars, items, owed>>

(***************************************************************************)
(* tsleep: _sleep without an interlock.  It makes no entry: with a timeout *)
(* the thread is delayed for that long, with none it returns at once.      *)
(***************************************************************************)
Tsleep(t, c) ==
  /\ pc[t] = "out"
  /\ pc' = [pc EXCEPT ![t] = "tsleep"]
  /\ chan' = [chan EXCEPT ![t] = c]
  /\ \E b \in BOOLEAN : timo' = [timo EXCEPT ![t] = b]
  /\ UNCHANGED <<se_active, waiters, lock, se, prio, rv, awakened, items, owed>>

TsleepReturn(t) ==
  /\ pc[t] = "tsleep"
  /\ pc' = [pc EXCEPT ![t] = "tslept"]
  /\ rv' = [rv EXCEPT ![t] = IF timo[t] THEN "EWOULDBLOCK" ELSE "0"]
  /\ UNCHANGED <<se_active, waiters, lock, chan, se, timo, prio, awakened, items, owed>>

\* The caller goes on.
TsleepDone(t) ==
  /\ pc[t] = "tslept"
  /\ pc' = [pc EXCEPT ![t] = "out"]
  /\ chan' = [chan EXCEPT ![t] = NULL]
  /\ timo' = [timo EXCEPT ![t] = FALSE] /\ rv' = [rv EXCEPT ![t] = "0"]
  /\ UNCHANGED <<se_active, waiters, lock, se, prio, awakened, items, owed>>

-----------------------------------------------------------------------------
Run(t) ==
  \/ Take(t) \/ Sleep(t) \/ CvWait(t) \/ CvReturn(t) \/ SeFree(t)
  \/ TsleepReturn(t) \/ TsleepDone(t)

SleepNext ==
  \/ \E t \in Thread :
       \/ Run(t) \/ CvTimeout(t) \/ CvSpurious(t)
       \/ \E c \in Chan : Enter(t, c) \/ Tsleep(t, c)
  \/ \E c \in Chan : Put(c) \/ Wakeup(c)

SleepSpec == SleepInit /\ [][SleepNext]_sleepVars

(***************************************************************************)
(* Threads are scheduled, a thread that waits for the interlock gets it in *)
(* the end, and who owes a wakeup performs it.                             *)
(***************************************************************************)
FairSleepSpec ==
  /\ SleepSpec
  /\ \A t \in Thread : WF_sleepVars(Run(t)) /\ SF_sleepVars(CvReturn(t))
  /\ \A c \in Chan : WF_sleepVars(Wakeup(c))

\* With callers that pass PDROP.
PdropSpec == SleepInit /\ [][SleepNext \/ \E t \in Thread : Relock(t)]_sleepVars

-----------------------------------------------------------------------------
SleepTypeOK ==
  /\ se_active \in [Chan -> Entry \cup {NULL}]
  /\ Allocated \subseteq Entry /\ waiters \in [Allocated -> 1 .. Cardinality(Thread)]
  /\ lock \in Thread \cup {NULL}
  /\ pc \in [Thread -> {"out", "test", "enqueued", "wait", "woken", "return",
                      "relock", "tsleep", "tslept"}]
  /\ chan \in [Thread -> Chan \cup {NULL}] /\ se \in [Thread -> Entry \cup {NULL}]
  /\ timo \in [Thread -> BOOLEAN] /\ prio \in [Thread -> Priorities \cup {"none"}]
  /\ rv \in [Thread -> {"0", "EWOULDBLOCK"}] /\ awakened \in [Thread -> BOOLEAN]
  /\ items \in [Chan -> 0 .. MaxItems] /\ owed \in [Chan -> 0 .. MaxItems]

Sleeping(t) == pc[t] \in {"enqueued", "wait", "woken", "return"}

\* A thread inside _sleep holds a pointer to an entry that is allocated and
\* is the one wakeup finds for its channel: the entry is not freed under it
\* and no second one shadows it.
EntryIsMine ==
  \A t \in Thread : Sleeping(t) => se[t] \in Allocated /\ se_active[chan[t]] = se[t]

\* waiters counts the threads that use the entry, so that it is freed
\* exactly when the last one leaves, and no entry leaks.
WaitersExact ==
  \A e \in Allocated :
    waiters[e] = Cardinality({t \in Thread : Sleeping(t) /\ se[t] = e})

\* The interlock is held by a thread in its test and throughout the parts of
\* _sleep before and after the wait: it is never held by two.
InterlockHeld ==
  \A t \in Thread : pc[t] \in {"test", "enqueued", "return"} <=> lock = t

\* No wakeup is lost: a thread that sleeps on a channel while it has items is
\* woken, or the items are taken by others.
NoLostWakeup ==
  \A t \in Thread, c \in Chan :
    (pc[t] = "wait" /\ chan[t] = c /\ items[c] > 0) ~> (pc[t] # "wait" \/ items[c] = 0)

\* "If priority includes the PDROP flag the lock is not re-locked before
\* returning" (the comment on _sleep): its caller finds it free, or at least
\* not its own, when it takes it again.
PdropDrops == \A t \in Thread : pc[t] = "relock" => lock # t

\* "Suspends the current thread until a wakeup is performed on the specified
\* identifier ... Returns 0 if awakened" (the comment on _sleep), of a tsleep.
TsleepSuspends == \A t \in Thread : pc[t] = "tslept" /\ rv[t] = "0" => awakened[t]

\* The table of entries: no entry is leaked, its count is that of its users,
\* and _sleep returns with the interlock.
SleepInv == SleepTypeOK /\ WaitersExact /\ InterlockHeld
=============================================================================
