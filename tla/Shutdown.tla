------------------------------ MODULE Shutdown ------------------------------
(***************************************************************************)
(* uinet_shutdown (lib/libuinet/uinet_init.c): callers, which may be       *)
(* signal handlers, send a message to the shutdown helper thread and wait  *)
(* for its response; the messages are bytes in the two directions of a     *)
(* socket pair (uhi_msg_*, uinet_host_interface.c).  The helper destroys   *)
(* every interface once.  For a netmap interface (if_netmap_detach) that   *)
(* is the stop handshake of uinet_kern_kthread.c with its two threads.     *)
(***************************************************************************)
EXTENDS Integers, Sequences, FiniteSets

CONSTANTS
  Caller,
  Interruptible,   \* callers outside signal handlers: a signal may end their wait
  Ifs,             \* the types of the interfaces, in the order of the list
  Attempts,        \* tries to get the vnet list lock
  Other, Nobody      \* another thread; nobody

ASSUME CallerAssumption ==
  IsFiniteSet(Caller) /\ Interruptible \subseteq Caller /\ Attempts \in Nat
ASSUME IfsAssumption == Ifs \in Seq({"netmap", "pcap", "bridge"})

IfThread == {"rx", "tx"}

VARIABLES
  cpc,              \* each caller of uinet_shutdown
  msgs, rsps,       \* bytes in the socket pair, one for each message or response
  hpc, k, attempts, have_lock, shutdown_complete,    \* shutdown_helper; interface k
  vnet_lock,        \* who holds the vnet list lock
  shutdowns,        \* how often each interface's destruction was begun
  wpc, td_stop_req, \* the threads of each netmap interface
  tsr, tsr_ack, tsr_lock     \* their thread_stop_req, in the helper's stack

callVars == <<cpc, msgs, rsps>>
stopVars == <<wpc, td_stop_req, tsr, tsr_ack, tsr_lock>>
helpVars == <<k, attempts, have_lock, shutdown_complete, shutdowns>>
vars == <<callVars, hpc, helpVars, vnet_lock, stopVars>>

Worker == {i \in DOMAIN Ifs : Ifs[i] = "netmap"} \X IfThread

ASSUME NoneAssumption == Nobody \notin Worker

Init ==
  /\ cpc = [c \in Caller |-> "out"] /\ msgs = 0 /\ rsps = 0
  /\ hpc = "msg_wait" /\ k = 1 /\ attempts = 0 /\ have_lock = FALSE
  /\ shutdown_complete = FALSE /\ shutdowns = [i \in DOMAIN Ifs |-> 0]
  /\ vnet_lock \in Caller \cup {Other, Nobody}
  /\ wpc = [w \in Worker |-> "run"] /\ td_stop_req = [w \in Worker |-> FALSE]
  /\ tsr = [w \in Worker |-> "none"] /\ tsr_ack = [w \in Worker |-> FALSE]
  /\ tsr_lock = [w \in Worker |-> Nobody]

-----------------------------------------------------------------------------
(***************************************************************************)
(* uinet_shutdown.                                                         *)
(***************************************************************************)

msg_send(c) ==
  /\ cpc[c] = "out"
  /\ cpc' = [cpc EXCEPT ![c] = "rsp_wait"]
  /\ msgs' = msgs + 1
  /\ UNCHANGED <<rsps, hpc, helpVars, vnet_lock, stopVars>>

rsp_wait(c) ==
  /\ cpc[c] = "rsp_wait" /\ rsps > 0
  /\ rsps' = rsps - 1
  /\ cpc' = [cpc EXCEPT ![c] = "returned"]
  /\ UNCHANGED <<msgs, hpc, helpVars, vnet_lock, stopVars>>

\* The read is interrupted (EINTR); the result is not looked at.
Interrupted(c) ==
  /\ cpc[c] = "rsp_wait" /\ c \in Interruptible
  /\ cpc' = [cpc EXCEPT ![c] = "interrupted"]
  /\ UNCHANGED <<msgs, rsps, hpc, helpVars, vnet_lock, stopVars>>

\* A thread that holds the list lock lets go of it, unless it was interrupted
\* by the handler that calls uinet_shutdown.
VnetUnlock ==
  /\ vnet_lock = Other \/ (vnet_lock \in Caller /\ cpc[vnet_lock] # "rsp_wait")
  /\ vnet_lock' = Nobody
  /\ UNCHANGED <<callVars, hpc, helpVars, stopVars>>

-----------------------------------------------------------------------------
(***************************************************************************)
(* shutdown_helper.                                                        *)
(***************************************************************************)

\* Mutant: every message starts a shutdown.
MsgAlways ==
  /\ hpc = "msg_wait" /\ msgs > 0
  /\ msgs' = msgs - 1
  /\ hpc' = "lock"
  /\ k' = 1
  /\ UNCHANGED <<cpc, rsps, attempts, have_lock, shutdown_complete, shutdowns, vnet_lock, stopVars>>

msg_wait ==
  /\ hpc = "msg_wait" /\ msgs > 0
  /\ msgs' = msgs - 1
  /\ hpc' = IF shutdown_complete THEN "rsp_send" ELSE "lock"
  /\ UNCHANGED <<cpc, rsps, helpVars, vnet_lock, stopVars>>

\* Mutant: the helper does not give up.
TryLockForever ==
  /\ hpc = "lock" /\ vnet_lock = Nobody
  /\ have_lock' = TRUE /\ hpc' = "destroy"
  /\ UNCHANGED <<callVars, k, attempts, shutdown_complete, shutdowns, vnet_lock, stopVars>>

\* VNET_LIST_TRY_RLOCK, at most Attempts times; then without the lock.
TryLock ==
  /\ hpc = "lock"
  /\ \/ /\ attempts < Attempts /\ vnet_lock = Nobody
        /\ have_lock' = TRUE /\ hpc' = "destroy" /\ UNCHANGED attempts
     \/ /\ attempts < Attempts /\ vnet_lock # Nobody
        /\ attempts' = attempts + 1 /\ UNCHANGED <<have_lock, hpc>>
     \/ /\ attempts = Attempts
        /\ hpc' = "destroy" /\ UNCHANGED <<have_lock, attempts>>
  /\ UNCHANGED <<callVars, k, shutdown_complete, shutdowns, vnet_lock, stopVars>>

\* uinet_ifdestroy_all: the next interface.  Only netmap has threads to stop.
ifdestroy ==
  /\ hpc = "destroy" /\ k <= Len(Ifs)
  /\ shutdowns' = [shutdowns EXCEPT ![k] = @ + 1]
  /\ IF Ifs[k] = "netmap" THEN hpc' = "stop_rx" /\ UNCHANGED k
     ELSE k' = k + 1 /\ UNCHANGED hpc
  /\ UNCHANGED <<callVars, attempts, have_lock, shutdown_complete, vnet_lock, stopVars>>

Complete ==
  /\ hpc = "destroy" /\ k > Len(Ifs)
  /\ shutdown_complete' = TRUE /\ have_lock' = FALSE
  /\ hpc' = "rsp_send"
  /\ UNCHANGED <<callVars, k, attempts, shutdowns, vnet_lock, stopVars>>

rsp_send ==
  /\ hpc = "rsp_send"
  /\ rsps' = rsps + 1
  /\ hpc' = "msg_wait"
  /\ UNCHANGED <<cpc, msgs, helpVars, vnet_lock, stopVars>>

-----------------------------------------------------------------------------
(***************************************************************************)
(* if_netmap_detach: kthread_stop of both threads, then kthread_stop_wait  *)
(* of both.                                                                *)
(***************************************************************************)

kthread_stop(t, next) ==
  /\ tsr' = [tsr EXCEPT ![<<k, t>>] = "live"]
  /\ tsr_ack' = [tsr_ack EXCEPT ![<<k, t>>] = FALSE]
  /\ td_stop_req' = [td_stop_req EXCEPT ![<<k, t>>] = TRUE]
  /\ hpc' = next
  /\ UNCHANGED <<callVars, helpVars, vnet_lock, wpc, tsr_lock>>

\* Acknowledged: the request is taken down.
StopAcked(t, next) ==
  /\ tsr_lock[<<k, t>>] = Nobody /\ tsr_ack[<<k, t>>]
  /\ tsr' = [tsr EXCEPT ![<<k, t>>] = "destroyed"]
  /\ hpc' = next
  /\ UNCHANGED <<callVars, attempts, have_lock, shutdown_complete, shutdowns, vnet_lock, wpc,
                 td_stop_req, tsr_ack, tsr_lock>>

\* Not yet: cv_wait.
StopWaits(t, next) ==
  /\ tsr_lock[<<k, t>>] = Nobody /\ ~tsr_ack[<<k, t>>]
  /\ hpc' = next
  /\ UNCHANGED <<callVars, helpVars, vnet_lock, stopVars>>

StopRx == hpc = "stop_rx" /\ kthread_stop("rx", "stop_tx")
StopTx == hpc = "stop_tx" /\ kthread_stop("tx", "wait_rx")

\* Mutant: the transmit thread is not waited for.
WaitRxOnly ==
  /\ hpc = "wait_rx"
  /\ \/ StopAcked("rx", "destroy") /\ k' = k + 1
     \/ StopWaits("rx", "cv_rx")

WaitRx ==
  /\ hpc = "wait_rx"
  /\ (StopAcked("rx", "wait_tx") /\ UNCHANGED k) \/ StopWaits("rx", "cv_rx")

WaitTx ==
  /\ hpc = "wait_tx"
  /\ \/ StopAcked("tx", "destroy") /\ k' = k + 1
     \/ StopWaits("tx", "cv_tx")

kthread_stop_wait == WaitRx \/ WaitTx

shutdown_helper ==
  \/ msg_wait \/ TryLock \/ ifdestroy \/ Complete \/ rsp_send
  \/ StopRx \/ StopTx \/ kthread_stop_wait

(***************************************************************************)
(* A thread of an interface finds the request when it checks for one, and  *)
(* acknowledges it.                                                        *)
(***************************************************************************)

\* Mutant: the acknowledgement is made without the lock.
AckUnlocked(w) ==
  /\ wpc[w] = "run" /\ td_stop_req[w]
  /\ tsr_ack' = [tsr_ack EXCEPT ![w] = TRUE]
  /\ wpc' = [wpc EXCEPT ![w] = "locked"]
  /\ UNCHANGED <<callVars, hpc, helpVars, vnet_lock, td_stop_req, tsr, tsr_lock>>

AckLock(w) ==
  /\ wpc[w] = "run" /\ td_stop_req[w] /\ tsr_lock[w] = Nobody
  /\ tsr_lock' = [tsr_lock EXCEPT ![w] = w]
  /\ wpc' = [wpc EXCEPT ![w] = "locked"]
  /\ UNCHANGED <<callVars, hpc, helpVars, vnet_lock, td_stop_req, tsr, tsr_ack>>

\* Where the helper is once the signal has reached it.
Signalled(w) ==
  IF w[1] = k /\ hpc = "cv_rx" /\ w[2] = "rx" THEN "wait_rx"
  ELSE IF w[1] = k /\ hpc = "cv_tx" /\ w[2] = "tx" THEN "wait_tx" ELSE hpc

AckSignal(w) ==
  /\ wpc[w] = "locked"
  /\ tsr_ack' = [tsr_ack EXCEPT ![w] = TRUE]
  /\ hpc' = Signalled(w)
  /\ wpc' = [wpc EXCEPT ![w] = "signalled"]
  /\ UNCHANGED <<callVars, helpVars, vnet_lock, td_stop_req, tsr, tsr_lock>>

AckUnlock(w) ==
  /\ wpc[w] = "signalled"
  /\ tsr_lock' = [tsr_lock EXCEPT ![w] = Nobody]
  /\ wpc' = [wpc EXCEPT ![w] = "exited"]
  /\ UNCHANGED <<callVars, hpc, helpVars, vnet_lock, td_stop_req, tsr, tsr_ack>>

kthread_stop_ack(w) == AckLock(w) \/ AckSignal(w) \/ AckUnlock(w)

HelperSpurious ==
  /\ hpc \in {"cv_rx", "cv_tx"}
  /\ hpc' = IF hpc = "cv_rx" THEN "wait_rx" ELSE "wait_tx"
  /\ UNCHANGED <<callVars, helpVars, vnet_lock, stopVars>>

-----------------------------------------------------------------------------
uinet_shutdown(c) == msg_send(c) \/ rsp_wait(c)

Next ==
  \/ \E c \in Caller : uinet_shutdown(c) \/ Interrupted(c)
  \/ VnetUnlock \/ shutdown_helper \/ HelperSpurious
  \/ \E w \in Worker : kthread_stop_ack(w)

Spec == Init /\ [][Next]_vars

(***************************************************************************)
(* The helper and the interfaces' threads run, and a caller reads its      *)
(* response.  Nothing is assumed of a thread that holds the list lock.     *)
(***************************************************************************)
FairSpec ==
  /\ Spec
  /\ WF_vars(shutdown_helper)
  /\ \A c \in Caller : SF_vars(rsp_wait(c))
  /\ \A w \in Worker : SF_vars(AckLock(w)) /\ WF_vars(AckSignal(w) \/ AckUnlock(w))

-----------------------------------------------------------------------------
Phase == {"msg_wait", "lock", "destroy", "stop_rx", "stop_tx", "wait_rx", "cv_rx", "wait_tx",
          "cv_tx", "rsp_send"}

TypeOK ==
  /\ cpc \in [Caller -> {"out", "rsp_wait", "returned", "interrupted"}]
  /\ msgs \in 0 .. Cardinality(Caller) /\ rsps \in 0 .. Cardinality(Caller)
  /\ hpc \in Phase /\ k \in 1 .. Len(Ifs) + 1 /\ attempts \in 0 .. Attempts
  /\ have_lock \in BOOLEAN /\ shutdown_complete \in BOOLEAN
  /\ shutdowns \in [DOMAIN Ifs -> Nat]
  /\ vnet_lock \in Caller \cup {Other, Nobody}
  /\ wpc \in [Worker -> {"run", "locked", "signalled", "exited"}]
  /\ td_stop_req \in [Worker -> BOOLEAN] /\ tsr_ack \in [Worker -> BOOLEAN]
  /\ tsr \in [Worker -> {"none", "live", "destroyed"}]
  /\ tsr_lock \in [Worker -> Worker \cup {Nobody}]

\* "multiple, possibly concurrent, executions of uinet_shutdown() ... result
\* in one shutdown" (the comment in shutdown_helper).
OneShutdown == \A i \in DOMAIN Ifs : shutdowns[i] <= 1

\* uinet_shutdown returns only when the shutdown is complete and the threads
\* of all netmap interfaces have left their loops, except to a caller whose
\* read was interrupted; a response meant for that one does not let another
\* caller return too early.
ReturnsComplete ==
  \A c \in Caller : cpc[c] = "returned" =>
    shutdown_complete /\ \A w \in Worker : wpc[w] \in {"signalled", "exited"}

\* Every caller that waits has a message or a response in the socket pair, or
\* the helper at work for it.
ResponsesSuffice ==
  LET waiting == Cardinality({c \in Caller : cpc[c] = "rsp_wait"})
      inhand  == IF hpc = "msg_wait" THEN 0 ELSE 1
  IN waiting <= msgs + rsps + inhand

\* The stop request lives in the stack of the thread that waits for it: a
\* stopping thread never locks, signals or unlocks one that is gone.
RequestAlive == \A w \in Worker : wpc[w] = "locked" \/ tsr_lock[w] = w => tsr[w] = "live"

(***************************************************************************)
(* What the invariants above need to be inductive: where the helper is,    *)
(* and how far each stop handshake has come.                               *)
(***************************************************************************)
StopPhase == {"stop_rx", "stop_tx", "wait_rx", "cv_rx", "wait_tx", "cv_tx"}

\* The helper goes through the list once, and answers only afterwards.
HelperAt ==
  /\ hpc \in StopPhase => k <= Len(Ifs) /\ Ifs[k] = "netmap"
  /\ hpc \in {"msg_wait", "lock"} /\ ~shutdown_complete => k = 1
  /\ shutdown_complete => hpc \in {"msg_wait", "rsp_send"} /\ k = Len(Ifs) + 1
  /\ hpc = "rsp_send" \/ rsps > 0 \/ (\E c \in Caller : cpc[c] = "returned")
       => shutdown_complete
  /\ \A i \in DOMAIN Ifs :
       shutdowns[i] = IF i < k \/ (i = k /\ hpc \in StopPhase) THEN 1 ELSE 0

\* The phases in which the stop request of interface k's thread t is there.
Requested(t) ==
  IF t = "rx" THEN {"stop_tx", "wait_rx", "cv_rx"}
  ELSE {"wait_rx", "cv_rx", "wait_tx", "cv_tx"}

\* ... and in which it has been.
Done(t) == IF t = "rx" THEN {"wait_tx", "cv_tx"} ELSE {}

HandshakeOf(w) ==
  /\ tsr[w] = IF w[1] < k \/ (w[1] = k /\ hpc \in Done(w[2])) THEN "destroyed"
              ELSE IF w[1] = k /\ hpc \in Requested(w[2]) THEN "live" ELSE "none"
  /\ td_stop_req[w] <=> tsr[w] # "none"
  /\ wpc[w] # "run" => td_stop_req[w]
  /\ tsr[w] = "destroyed" => wpc[w] = "exited"
  /\ tsr_ack[w] <=> wpc[w] \in {"signalled", "exited"}
  /\ tsr_lock[w] = IF wpc[w] \in {"locked", "signalled"} THEN w ELSE Nobody

Handshake == \A w \in Worker : HandshakeOf(w)

\* Every caller that has not read a response, interrupted or not, stands for
\* one message, one response or the helper's present work.
Unanswered == {c \in Caller : cpc[c] \in {"rsp_wait", "interrupted"}}

UnansweredExact ==
  Cardinality(Unanswered) = msgs + rsps + (IF hpc = "msg_wait" THEN 0 ELSE 1)

\* "none of the calls to uinet_shutdown() ... block indefinitely" (ibid.),
\* even if the caller interrupted a thread that holds the vnet list lock.
NoneBlocked == \A c \in Caller : cpc[c] = "rsp_wait" ~> cpc[c] # "rsp_wait"

\* The helper carries out one shutdown, and there is a response for every
\* caller that waits for one (shutdown_helper, uinet_shutdown); no worker
\* touches a stop request that is gone.  The last three parts make it inductive.
ShutdownInv ==
  /\ TypeOK /\ OneShutdown /\ ResponsesSuffice /\ RequestAlive
  /\ HelperAt /\ Handshake /\ UnansweredExact
=============================================================================
