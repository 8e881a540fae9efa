------------------------------ MODULE Callout -------------------------------
(***************************************************************************)
(* The callout wheel of libuinet (lib/libuinet/uinet_kern_timeout.c): one  *)
(* struct callout_cpu, the timer thread that runs uinet_hardclock,         *)
(* callout_tick and softclock, and threads that schedule, stop and drain   *)
(* callouts.                                                               *)
(*                                                                         *)
(* Everything done under cc_lock is one step, except that softclock holds  *)
(* the lock while it walks a bucket and gives it up around the handler.    *)
(* A callout is initialised either with a lock, which softclock takes      *)
(* around the handler, or MPSAFE, in which case the handler takes the lock *)
(* itself and then tests the callout's flags, as the timers of             *)
(* sys/netinet/tcp_timer.c do.  All callouts here share the lock c_lock,   *)
(* held by whoever schedules or stops them.                                *)
(*                                                                         *)
(* ticks and c_time are machine integers: TickMod stands for 2^32.         *)
(***************************************************************************)
EXTENDS Integers, Sequences

CONSTANTS
  Locked, Mpsafe,      \* the callouts, by the way they were initialised
  Thread,              \* threads that use them
  WheelSize,           \* callwheelsize
  TickMod,             \* the range of ticks and c_time
  MaxTo,               \* the largest to_ticks
  MaxSteps,            \* MAX_SOFTCLOCK_STEPS
  Timer,               \* the timer thread
  None                 \* NULL

ASSUME WheelAssumption ==
  /\ WheelSize \in Nat \ {0} /\ MaxTo \in Nat \ {0} /\ MaxSteps \in Nat \ {0}
  /\ TickMod \in Nat /\ TickMod % WheelSize = 0 /\ TickMod > 2 * (MaxTo + 1)
  /\ Locked \cap Mpsafe = {} /\ Timer \notin Thread
  /\ None \notin Locked \cup Mpsafe \cup Thread \cup {Timer}

Callouts == Locked \cup Mpsafe

VARIABLES
  ticks,
  cc_softticks, cc_callwheel, cc_next, cc_curr, cc_cancel, cc_waiting,
  cc_lock,             \* the owner of cc_lock between steps
  c_time, pending, active,
  c_lock,              \* the owner of the lock of the callouts
  pc, c, curticks, steps,    \* the timer thread and locals of softclock
  drain,               \* for each thread, the callout it waits for in drain
  woken,               \* threads cv_broadcast has woken and that have not run
  (* History: invocations still owed to a callout, whether its last          *)
  (* operation was a reset, and how many ticks it must still wait.           *)
  owed, armed, left

wheelVars == <<cc_softticks, cc_callwheel, cc_next, cc_curr, cc_cancel, cc_waiting>>
calloutVars == <<c_time, pending, active>>
timerVars == <<pc, c, curticks, steps>>
drainVars == <<drain, woken>>
history == <<owed, armed, left>>
vars == <<ticks, wheelVars, cc_lock, calloutVars, c_lock, timerVars, drainVars, history>>

Bucket(t) == t % WheelSize

Inc(t) == (t + 1) % TickMod

Init ==
  /\ ticks = 0 /\ cc_softticks = 0
  /\ cc_callwheel = [b \in 0 .. WheelSize - 1 |-> <<>>]
  /\ cc_next = None /\ cc_curr = None /\ cc_cancel = FALSE /\ cc_waiting = FALSE
  /\ cc_lock = None /\ c_lock = None
  /\ c_time = [x \in Callouts |-> 0] /\ pending = {} /\ active = {}
  /\ pc = "tick" /\ c = None /\ curticks = 0 /\ steps = 0
  /\ drain = [t \in Thread |-> None] /\ woken = {}
  /\ owed = [x \in Callouts |-> 0]
  /\ armed = [x \in Callouts |-> FALSE]
  /\ left = [x \in Callouts |-> 0]

\* TAILQ_FIRST, TAILQ_NEXT and TAILQ_REMOVE.
First(q) == IF q = <<>> THEN None ELSE q[1]
Pos(q, x) == CHOOSE i \in DOMAIN q : q[i] = x
After(q, x) == IF Pos(q, x) < Len(q) THEN q[Pos(q, x) + 1] ELSE None
Without(q, x) == SubSeq(q, 1, Pos(q, x) - 1) \o SubSeq(q, Pos(q, x) + 1, Len(q))

NextInBucket(x) == After(cc_callwheel[Bucket(c_time[x])], x)

-----------------------------------------------------------------------------
(***************************************************************************)
(* The timer thread.                                                       *)
(***************************************************************************)

\* uinet_hardclock
Hardclock ==
  /\ pc = "tick"
  /\ ticks' = Inc(ticks)
  /\ left' = [x \in Callouts |-> IF left[x] > 0 THEN left[x] - 1 ELSE 0]
  /\ pc' = "callout_tick"
  /\ UNCHANGED <<wheelVars, cc_lock, calloutVars, c_lock, c, curticks, steps,
                 drainVars, owed, armed>>

\* callout_tick: skip the empty buckets up to ticks.
CalloutTick ==
  /\ pc = "callout_tick" /\ cc_lock = None
  /\ LET lag == (ticks - cc_softticks) % TickMod
         busy == {k \in 0 .. lag - 1 :
                    cc_callwheel[Bucket((cc_softticks + k) % TickMod)] # <<>>}
     IN IF busy = {}
        THEN cc_softticks' = ticks /\ pc' = "tick"
        ELSE LET k == CHOOSE k \in busy : \A j \in busy : k <= j
             IN cc_softticks' = (cc_softticks + k) % TickMod /\ pc' = "softclock"
  /\ UNCHANGED <<ticks, cc_callwheel, cc_next, cc_curr, cc_cancel, cc_waiting,
                 cc_lock, calloutVars, c_lock, c, curticks, steps, drainVars, history>>

Softclock ==
  /\ pc = "softclock" /\ cc_lock = None
  /\ cc_lock' = Timer
  /\ steps' = 0
  /\ pc' = "bucket"
  /\ UNCHANGED <<ticks, wheelVars, calloutVars, c_lock, c, curticks, drainVars, history>>

\* Mutant: the wheel does not move on to the next bucket.
SoftBucketAgain ==
  /\ pc = "bucket" /\ cc_softticks # ticks
  /\ curticks' = cc_softticks
  /\ c' = First(cc_callwheel[Bucket(cc_softticks)])
  /\ pc' = "scan"
  /\ UNCHANGED <<ticks, wheelVars, cc_lock, calloutVars, c_lock, steps, drainVars, history>>

SoftBucket ==
  /\ pc = "bucket" /\ cc_softticks # ticks
  /\ curticks' = cc_softticks
  /\ cc_softticks' = Inc(cc_softticks)
  /\ c' = First(cc_callwheel[Bucket(cc_softticks)])
  /\ pc' = "scan"
  /\ UNCHANGED <<ticks, cc_callwheel, cc_next, cc_curr, cc_cancel, cc_waiting, cc_lock,
                 calloutVars, c_lock, steps, drainVars, history>>

SoftBucketEnd ==
  /\ pc = "scan" /\ c = None
  /\ pc' = "bucket"
  /\ UNCHANGED <<ticks, wheelVars, cc_lock, calloutVars, c_lock, c, curticks, steps,
                 drainVars, history>>

SoftEnd ==
  /\ pc = "bucket" /\ cc_softticks = ticks
  /\ cc_next' = None
  /\ cc_lock' = None
  /\ pc' = "tick"
  /\ UNCHANGED <<ticks, cc_softticks, cc_callwheel, cc_curr, cc_cancel, cc_waiting,
                 calloutVars, c_lock, c, curticks, steps, drainVars, history>>

\* A callout of a later turn of the wheel; after MaxSteps of them cc_lock is
\* given up for a moment.
SoftSkip ==
  /\ pc = "scan" /\ c # None /\ c_time[c] # curticks
  /\ c' = NextInBucket(c)
  /\ IF steps + 1 >= MaxSteps
     THEN cc_next' = c' /\ cc_lock' = None /\ pc' = "yield" /\ steps' = steps
     ELSE steps' = steps + 1 /\ UNCHANGED <<cc_next, cc_lock, pc>>
  /\ UNCHANGED <<ticks, cc_softticks, cc_callwheel, cc_curr, cc_cancel, cc_waiting,
                 calloutVars, c_lock, curticks, drainVars, history>>

SoftYield ==
  /\ pc = "yield" /\ cc_lock = None
  /\ cc_lock' = Timer
  /\ c' = cc_next
  /\ steps' = 0
  /\ pc' = "scan"
  /\ UNCHANGED <<ticks, wheelVars, calloutVars, c_lock, curticks, drainVars, history>>

\* A callout that is due leaves the wheel and becomes the current one.
Fire ==
  /\ pc = "scan" /\ c # None
  /\ cc_next' = NextInBucket(c)
  /\ cc_callwheel' = [cc_callwheel EXCEPT ![Bucket(curticks)] = Without(@, c)]
  /\ pending' = pending \ {c}
  /\ cc_curr' = c /\ cc_cancel' = FALSE
  /\ cc_lock' = None
  /\ pc' = IF c \in Locked THEN "lock" ELSE "handler"
  /\ UNCHANGED <<ticks, cc_softticks, cc_waiting, c_time, active, c_lock, c, curticks,
                 steps, drainVars, history>>

\* Mutant: the turn of the wheel is not compared.
SoftFireAnyTurn == Fire

SoftFire == Fire /\ c_time[c] = curticks

\* The handler's code proper starts: one owed invocation is delivered.
StartBody ==
  /\ c_lock' = Timer
  /\ pc' = "body"
  /\ owed' = [owed EXCEPT ![c] = @ - 1]
  /\ armed' = [armed EXCEPT ![c] = FALSE]

\* softclock takes the callout's lock and looks whether it was cancelled
\* while it waited for it.
SoftLockUnless(cancelled) ==
  /\ pc = "lock" /\ c_lock = None
  /\ IF cancelled
     THEN pc' = "done" /\ UNCHANGED <<c_lock, cc_cancel, owed, armed>>
     ELSE StartBody /\ cc_cancel' = TRUE
  /\ UNCHANGED <<ticks, cc_softticks, cc_callwheel, cc_next, cc_curr, cc_waiting,
                 cc_lock, calloutVars, c, curticks, steps, drainVars, left>>

\* Mutant: cc_cancel is not looked at again once the lock is held.
SoftLockNoRecheck == SoftLockUnless(FALSE)

SoftLock == SoftLockUnless(cc_cancel)

\* The prologue of an MPSAFE handler: take the lock; go back if the callout
\* was rescheduled or stopped in the meantime; callout_deactivate.
HandlerUnless(back) ==
  /\ pc = "handler" /\ c_lock = None
  /\ IF back
     THEN /\ pc' = "done" /\ owed' = [owed EXCEPT ![c] = @ - 1]
          /\ UNCHANGED <<c_lock, active, armed>>
     ELSE StartBody /\ active' = active \ {c}
  /\ UNCHANGED <<ticks, wheelVars, cc_lock, c_time, pending, c, curticks, steps,
                 drainVars, left>>

\* Mutant: the handler does not test callout_active.
HandlerNoActiveTest == HandlerUnless(c \in pending)

Handler == HandlerUnless(c \in pending \/ c \notin active)

\* The handler returns and the lock is released.
HandlerEnd ==
  /\ pc = "body"
  /\ c_lock' = None
  /\ pc' = "done"
  /\ UNCHANGED <<ticks, wheelVars, cc_lock, calloutVars, c, curticks, steps,
                 drainVars, history>>

SoftDone ==
  /\ pc = "done" /\ cc_lock = None
  /\ cc_lock' = Timer
  /\ cc_curr' = None
  /\ cc_waiting' = FALSE
  /\ woken' = IF cc_waiting THEN {t \in Thread : drain[t] # None} ELSE woken
  /\ c' = cc_next
  /\ steps' = 0
  /\ pc' = "scan"
  /\ UNCHANGED <<ticks, cc_softticks, cc_callwheel, cc_next, cc_cancel, calloutVars,
                 c_lock, curticks, drain, history>>

-----------------------------------------------------------------------------
(***************************************************************************)
(* Scheduling and stopping.  The caller is a thread or a running handler,  *)
(* and holds c_lock.                                                       *)
(***************************************************************************)

Lock(t) ==
  /\ c_lock = None /\ drain[t] = None
  /\ c_lock' = t
  /\ UNCHANGED <<ticks, wheelVars, cc_lock, calloutVars, timerVars, drainVars, history>>

Unlock(t) ==
  /\ c_lock = t
  /\ c_lock' = None
  /\ UNCHANGED <<ticks, wheelVars, cc_lock, calloutVars, timerVars, drainVars, history>>

\* The current callout waits for its lock: it can still be cancelled.
CanCancel(x) == cc_curr = x /\ x \in Locked /\ ~cc_cancel

\* Mutant: cc_next is moved whichever callout leaves the wheel.
FixAlways(x) == NextInBucket(x)

\* softclock is to go on behind a callout that leaves the wheel.
Fix(x) == IF cc_next = x THEN NextInBucket(x) ELSE cc_next
Removed(x) == [cc_callwheel EXCEPT ![Bucket(c_time[x])] = Without(@, x)]

\* What callout_reset_on does when the current invocation is cancelled or
\* not (cancel) and the callout has been taken off the wheel or was not on
\* it (next and wheel are cc_next and the wheel after that).  It returns
\* whether it cancelled an invocation; if so the new one takes its place.
Reschedule(a, x, to, cancel, next, wheel) ==
  /\ c_lock = a /\ cc_lock = None
  /\ cc_cancel' = (cc_cancel \/ cancel)
  /\ IF cc_curr = x /\ cc_waiting
     THEN /\ owed' = IF cancel THEN [owed EXCEPT ![x] = @ - 1] ELSE owed
          /\ UNCHANGED <<cc_next, cc_callwheel, calloutVars, armed, left>>
     ELSE LET when == (ticks + (IF to <= 0 THEN 1 ELSE to)) % TickMod
          IN /\ cc_next' = next
             /\ cc_callwheel' = [wheel EXCEPT ![Bucket(when)] = Append(@, x)]
             /\ c_time' = [c_time EXCEPT ![x] = when]
             /\ pending' = pending \cup {x} /\ active' = active \cup {x}
             /\ owed' = IF cancel \/ x \in pending THEN owed ELSE [owed EXCEPT ![x] = @ + 1]
             /\ armed' = [armed EXCEPT ![x] = TRUE]
             /\ left' = [left EXCEPT ![x] = to]
  /\ UNCHANGED <<ticks, cc_softticks, cc_curr, cc_waiting, cc_lock, c_lock,
                 timerVars, drainVars>>

\* Mutant: a pending callout is not taken off the wheel first.
CalloutResetKeepQueued(a, x, to) ==
  Reschedule(a, x, to, CanCancel(x), cc_next, cc_callwheel)

\* callout_reset_on
CalloutReset(a, x, to) ==
  Reschedule(a, x, to, CanCancel(x), IF x \in pending THEN Fix(x) ELSE cc_next,
             IF x \in pending THEN Removed(x) ELSE cc_callwheel)

\* _callout_stop_safe on a pending callout: it leaves the wheel; returns 1.
Dequeue(x) ==
  /\ pending' = pending \ {x} /\ active' = active \ {x}
  /\ cc_next' = Fix(x)
  /\ cc_callwheel' = Removed(x)
  /\ owed' = [owed EXCEPT ![x] = @ - 1]
  /\ armed' = [armed EXCEPT ![x] = FALSE]

\* callout_stop.  On a callout that is not pending it succeeds if it can
\* cancel the current invocation, and otherwise returns 0.
CalloutStop(a, x) ==
  /\ c_lock = a /\ cc_lock = None
  /\ IF x \in pending
     THEN Dequeue(x) /\ UNCHANGED cc_cancel
     ELSE /\ active' = active \ {x}
          /\ cc_cancel' = (cc_cancel \/ CanCancel(x))
          /\ owed' = IF CanCancel(x) THEN [owed EXCEPT ![x] = @ - 1] ELSE owed
          /\ armed' = [armed EXCEPT ![x] = FALSE]
          /\ UNCHANGED <<pending, cc_next, cc_callwheel>>
  /\ UNCHANGED <<ticks, cc_softticks, cc_curr, cc_waiting, cc_lock, c_time, c_lock,
                 timerVars, drainVars, left>>

\* callout_drain, by a thread that holds no lock: like callout_stop, but it
\* waits for the current invocation to finish.
CalloutDrain(t, x) ==
  /\ c_lock # t /\ cc_lock = None /\ drain[t] = None
  /\ IF x \in pending
     THEN Dequeue(x) /\ UNCHANGED drain
     ELSE /\ active' = active \ {x}
          /\ drain' = [drain EXCEPT ![t] = IF cc_curr = x THEN x ELSE None]
          /\ UNCHANGED <<pending, cc_next, cc_callwheel, owed, armed>>
  /\ UNCHANGED <<ticks, cc_softticks, cc_curr, cc_cancel, cc_waiting, cc_lock, c_time,
                 c_lock, timerVars, woken, left>>

\* cv_wait returns, woken by softclock or spuriously, and the callout is not
\* current any more.
DrainReturn(t) ==
  /\ drain[t] # None /\ cc_lock = None
  /\ cc_curr # drain[t]
  /\ drain' = [drain EXCEPT ![t] = None]
  /\ woken' = woken \ {t}
  /\ UNCHANGED <<ticks, wheelVars, cc_lock, calloutVars, c_lock, timerVars, history>>

-----------------------------------------------------------------------------
TimerNext ==
  \/ Hardclock \/ CalloutTick \/ Softclock \/ SoftBucket \/ SoftBucketEnd \/ SoftEnd
  \/ SoftSkip \/ SoftYield \/ SoftFire \/ SoftLock \/ Handler \/ HandlerEnd \/ SoftDone

Next ==
  \/ TimerNext
  \/ \E t \in Thread : Lock(t) \/ Unlock(t) \/ DrainReturn(t)
  \/ \E a \in Thread \cup {Timer}, x \in Callouts :
       CalloutStop(a, x) \/ \E to \in 0 .. MaxTo : CalloutReset(a, x, to)
  \/ \E t \in Thread, x \in Callouts : CalloutDrain(t, x)

Spec == Init /\ [][Next]_vars

(***************************************************************************)
(* The timer thread is scheduled and pthread mutexes are acquired in the   *)
(* end; whoever holds c_lock releases it; a thread woken in cv_wait runs.  *)
(***************************************************************************)
Fairness ==
  /\ WF_vars(TimerNext)
  /\ SF_vars(SoftLock) /\ SF_vars(Handler)
  /\ \A t \in Thread : WF_vars(Unlock(t)) /\ WF_vars(t \in woken /\ DrainReturn(t))

FairSpec == Spec /\ Fairness

-----------------------------------------------------------------------------
TypeOK ==
  /\ {ticks, cc_softticks, curticks} \subseteq 0 .. TickMod - 1
  /\ cc_callwheel \in [0 .. WheelSize - 1 -> Seq(Callouts)]
  /\ {cc_next, cc_curr, c} \subseteq Callouts \cup {None}
  /\ {cc_cancel, cc_waiting} \subseteq BOOLEAN
  /\ cc_lock \in {None, Timer} /\ c_lock \in Thread \cup {None, Timer}
  /\ c_time \in [Callouts -> 0 .. TickMod - 1]
  /\ pending \subseteq Callouts /\ active \subseteq Callouts
  /\ pc \in {"tick", "callout_tick", "softclock", "bucket", "scan", "yield", "lock",
              "handler", "body", "done"}
  /\ steps \in 0 .. MaxSteps - 1
  /\ drain \in [Thread -> Callouts \cup {None}] /\ woken \subseteq Thread
  /\ owed \in [Callouts -> 0 .. 2] /\ armed \in [Callouts -> BOOLEAN]
  /\ left \in [Callouts -> 0 .. MaxTo]

\* The part of the current bucket that the walk has not reached.
Ahead ==
  IF pc \notin {"scan", "yield", "lock", "handler", "body", "done"} THEN {}
  ELSE LET q == cc_callwheel[Bucket(curticks)]
           at == IF pc = "scan" THEN c ELSE cc_next
       IN {q[i] : i \in {i \in DOMAIN q : \E j \in 1 .. i : q[j] = at}}

\* No callout is forgotten: one whose time has passed the point the wheel
\* has reached is still ahead of the walk through its bucket, whoever has
\* changed the bucket while softclock had dropped cc_lock.
NoneMissed ==
  \A x \in pending :
    \/ (c_time[x] - cc_softticks) % TickMod <= MaxTo + 1
    \/ c_time[x] = curticks /\ x \in Ahead

\* A callout is on the wheel, once and in the bucket of its time, exactly
\* while it is marked pending.
WheelMatchesPending ==
  \A b \in 0 .. WheelSize - 1 :
    LET q == cc_callwheel[b]
    IN /\ \A i \in DOMAIN q : q[i] \in pending /\ Bucket(c_time[q[i]]) = b
       /\ \A i, j \in DOMAIN q : q[i] = q[j] => i = j
       /\ \A x \in pending : Bucket(c_time[x]) = b => \E i \in DOMAIN q : q[i] = x

\* What the return values of callout_reset and callout_stop promise is what
\* the wheel will do: the invocations not reported as cancelled and not yet
\* made are exactly the one on the wheel and the one about to start.
ReturnValuesExact ==
  \A x \in Callouts :
    owed[x] = (IF x \in pending THEN 1 ELSE 0)
            + (IF cc_curr = x /\ (pc = "handler" \/ (pc = "lock" /\ ~cc_cancel))
               THEN 1 ELSE 0)

\* A callout that was stopped, or whose invocation was overtaken by a reset,
\* does not run: when a handler's body starts, the last operation on the
\* callout under its lock was a reset not yet served.
StoppedStaysStopped ==
  [][pc # "body" /\ pc' = "body" => armed[cc_curr]]_vars

\* No callout leaves the wheel before its number of ticks has passed.
NeverEarly ==
  [][pc = "scan" /\ pc' \in {"lock", "handler"} => left[c] = 0]_vars

\* softclock always finishes its pass: the clock keeps ticking however
\* callouts are rescheduled by their own handlers and by other threads.
ClockTicks == []<>(pc = "tick")

\* "threads waiting in callout_drain() will be woken up as soon as the
\* relevant callout completes" (the comment on struct callout_cpu).
DrainWoken == \A t \in Thread : drain[t] # None ~> drain[t] = None

\* The wheel is well-formed and agrees with the callouts' flags, whatever
\* callout_reset_on, _callout_stop_safe and softclock do to it.
WheelInv == TypeOK /\ WheelMatchesPending
=============================================================================
