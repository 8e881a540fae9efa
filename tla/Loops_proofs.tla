---------------------------- MODULE Loops_proofs ----------------------------
(***************************************************************************)
(* The loops that sleep until they are told of work, and the end of all of *)
(* them.  The pcap transmit thread, for any number of senders, and the     *)
(* libev loop, for any sockets, watchers and interfaces, do not forget     *)
(* what they were told of.  The shutdown, for any number of callers and    *)
(* any list of interfaces, is done once; every caller is answered, none    *)
(* before it is complete, and no stop request is used after it is gone.    *)
(* The models share no state.                                              *)
(***************************************************************************)
EXTENDS PcapTx, EvUinet, Shutdown, FiniteSetTheorems, TLAPS

-----------------------------------------------------------------------------
(***************************************************************************)
(* Shutdown: the inductive invariant is ShutdownInv of Shutdown, its       *)
(* bounds on the counters replaced by their types.                         *)
(***************************************************************************)

\* The parts of the invariant that do not count callers.
Shape ==
  /\ cpc \in [Caller -> {"out", "rsp_wait", "returned", "interrupted"}]
  /\ msgs \in Nat /\ rsps \in Nat
  /\ hpc \in Phase /\ k \in 1 .. Len(Ifs) + 1 /\ attempts \in 0 .. Attempts
  /\ have_lock \in BOOLEAN /\ shutdown_complete \in BOOLEAN
  /\ shutdowns \in [DOMAIN Ifs -> Nat]
  /\ vnet_lock \in Caller \cup {Other, Nobody}
  /\ wpc \in [Worker -> {"run", "locked", "signalled", "exited"}]
  /\ td_stop_req \in [Worker -> BOOLEAN] /\ tsr_ack \in [Worker -> BOOLEAN]
  /\ tsr \in [Worker -> {"none", "live", "destroyed"}]
  /\ tsr_lock \in [Worker -> Worker \cup {Nobody}]

ShutdownIInv == Shape /\ HelperAt /\ Handshake /\ UnansweredExact

\* A worker is a pair of a netmap interface and one of its two threads.
LEMMA WorkerFacts ==
  /\ Len(Ifs) \in Nat /\ DOMAIN Ifs = 1 .. Len(Ifs)
  /\ \A w \in Worker : /\ w = <<w[1], w[2]>> /\ w[1] \in 1 .. Len(Ifs)
                       /\ Ifs[w[1]] = "netmap" /\ w[2] \in {"rx", "tx"} /\ w # Nobody
  /\ \A i \in 1 .. Len(Ifs), t \in {"rx", "tx"} : Ifs[i] = "netmap" => <<i, t>> \in Worker
  BY IfsAssumption, NoneAssumption DEF Worker, IfThread

\* Callers can be counted.
LEMMA CallersFinite ==
  ASSUME NEW S \in SUBSET Caller
  PROVE  /\ IsFiniteSet(S) /\ Cardinality(S) \in Nat
         /\ Cardinality(S) <= Cardinality(Caller) /\ Cardinality(Caller) \in Nat
  BY CallerAssumption, FS_Subset, FS_CardinalityType

\* The inductive invariant gives every part of ShutdownInv, and that no caller
\* returns too early.
LEMMA IInvSuffices == ShutdownIInv => ShutdownInv /\ ReturnsComplete
<1> SUFFICES ASSUME ShutdownIInv PROVE ShutdownInv /\ ReturnsComplete
  OBVIOUS
<1> USE DEF ShutdownIInv
<1>1. Unanswered \in SUBSET Caller
  BY Zenon DEF Unanswered
<1>2. TypeOK
  <2>1. msgs <= Cardinality(Unanswered) /\ rsps <= Cardinality(Unanswered)
    BY DEF UnansweredExact, Shape
  <2>2. Cardinality(Unanswered) <= Cardinality(Caller) /\ Cardinality(Caller) \in Nat
        /\ Cardinality(Unanswered) \in Nat
    BY <1>1, CallersFinite, Zenon
  <2>3. msgs \in 0 .. Cardinality(Caller) /\ rsps \in 0 .. Cardinality(Caller)
    BY <2>1, <2>2 DEF Shape
  <2> QED
    BY <2>3, Zenon DEF TypeOK, Shape
<1>3. OneShutdown
  BY DEF OneShutdown, HelperAt
<1>4. ResponsesSuffice
  <2> DEFINE W == {c \in Caller : cpc[c] = "rsp_wait"}
  <2>1. W \in SUBSET Unanswered
    BY DEF Unanswered
  <2>2. Cardinality(W) <= Cardinality(Unanswered)
    BY <1>1, <2>1, CallersFinite, FS_Subset, Zenon
  <2> QED
    BY <2>2 DEF ResponsesSuffice, UnansweredExact
<1>5. RequestAlive
  <2> SUFFICES ASSUME NEW w \in Worker, wpc[w] = "locked" \/ tsr_lock[w] = w
               PROVE  tsr[w] = "live"
    BY Zenon DEF RequestAlive
  <2>1. tsr[w] \in {"none", "live", "destroyed"} /\ w # Nobody
    BY WorkerFacts, Zenon DEF Shape
  <2>2. wpc[w] \in {"locked", "signalled"}
    BY <2>1, Zenon DEF Handshake, HandshakeOf
  <2> QED
    BY <2>1, <2>2 DEF Handshake, HandshakeOf
<1>6. ReturnsComplete
  <2> SUFFICES ASSUME NEW c \in Caller, cpc[c] = "returned"
               PROVE  shutdown_complete /\ \A w \in Worker : wpc[w] \in {"signalled", "exited"}
    BY DEF ReturnsComplete
  <2>1. shutdown_complete /\ k = Len(Ifs) + 1
    BY DEF HelperAt
  <2>2. \A w \in Worker : w[1] < k
    BY <2>1, WorkerFacts
  <2> QED
    BY <2>1, <2>2 DEF Handshake, HandshakeOf
<1> QED
  BY <1>2, <1>3, <1>4, <1>5, <1>6 DEF ShutdownInv

\* Before any call there is nothing to answer and no stop request.
LEMMA ShutdownInitIInv == Init => ShutdownIInv
<1> SUFFICES ASSUME Init PROVE ShutdownIInv
  OBVIOUS
<1> USE DEF Init
<1>1. Shape
  <2>1. /\ cpc \in [Caller -> {"out", "rsp_wait", "returned", "interrupted"}]
        /\ msgs \in Nat /\ rsps \in Nat /\ hpc \in Phase
    BY Zenon DEF Phase
  <2>2. /\ k \in 1 .. Len(Ifs) + 1 /\ attempts \in 0 .. Attempts
        /\ shutdowns \in [DOMAIN Ifs -> Nat]
    BY WorkerFacts, CallerAssumption
  <2>3. /\ have_lock \in BOOLEAN /\ shutdown_complete \in BOOLEAN
        /\ vnet_lock \in Caller \cup {Other, Nobody}
    BY Zenon
  <2>4. td_stop_req \in [Worker -> BOOLEAN] /\ tsr_ack \in [Worker -> BOOLEAN]
    BY Zenon
  <2>5. /\ wpc \in [Worker -> {"run", "locked", "signalled", "exited"}]
        /\ tsr \in [Worker -> {"none", "live", "destroyed"}]
        /\ tsr_lock \in [Worker -> Worker \cup {Nobody}]
    BY Zenon
  <2> QED
    BY <2>1, <2>2, <2>3, <2>4, <2>5, Zenon DEF Shape
<1>2. HelperAt
  BY WorkerFacts DEF HelperAt, StopPhase
<1>3. Handshake
  BY WorkerFacts DEF Handshake, HandshakeOf, Done, Requested
<1>4. UnansweredExact
  <2>1. Unanswered = {}
    BY DEF Unanswered
  <2> QED
    BY <2>1, FS_EmptySet DEF UnansweredExact
<1> QED
  BY <1>1, <1>2, <1>3, <1>4, Zenon DEF ShutdownIInv

-----------------------------------------------------------------------------
(* The callers *)

\* A caller's step changes the number of unanswered callers by what it changes
\* in the socket pair.
LEMMA CallerStep ==
  ASSUME ShutdownIInv, NEW c \in Caller, msg_send(c) \/ rsp_wait(c) \/ Interrupted(c)
  PROVE  ShutdownIInv'
<1> USE DEF ShutdownIInv
<1>1. /\ UNCHANGED <<hpc, helpVars, vnet_lock, stopVars>>
      /\ cpc' \in [Caller -> {"out", "rsp_wait", "returned", "interrupted"}]
      /\ msgs' \in Nat /\ rsps' \in Nat
  BY DEF msg_send, rsp_wait, Interrupted, Shape
<1>2. Shape'
  BY <1>1, Zenon DEF Shape, helpVars, stopVars
<1>3. Handshake'
  BY <1>1, ZenonT(60) DEF Handshake, HandshakeOf, helpVars, stopVars
<1>4. HelperAt'
  <2>1. rsps' > 0 \/ (\E d \in Caller : cpc'[d] = "returned") => shutdown_complete
    BY DEF msg_send, rsp_wait, Interrupted, Shape, HelperAt
  <2> QED
    BY <1>1, <2>1, Zenon DEF HelperAt, helpVars
<1>5. UnansweredExact'
  <2>1. /\ Unanswered \in SUBSET Caller /\ IsFiniteSet(Unanswered)
        /\ Cardinality(Unanswered) \in Nat
    BY CallersFinite, Zenon DEF Unanswered
  <2>2. CASE msg_send(c)
    <3>1. c \notin Unanswered /\ Unanswered' = Unanswered \cup {c}
      BY <2>2 DEF msg_send, Unanswered, Shape
    <3>2. Cardinality(Unanswered') = Cardinality(Unanswered) + 1
      BY <2>1, <3>1, FS_AddElement, Zenon
    <3> QED
      BY <2>2, <3>2 DEF msg_send, UnansweredExact, Shape
  <2>3. CASE rsp_wait(c)
    <3>1. c \in Unanswered /\ Unanswered' = Unanswered \ {c}
      BY <2>3 DEF rsp_wait, Unanswered, Shape
    <3>2. Cardinality(Unanswered') = Cardinality(Unanswered) - 1
      BY <2>1, <3>1, FS_RemoveElement, Zenon
    <3> QED
      BY <2>3, <3>2 DEF rsp_wait, UnansweredExact, Shape
  <2>4. CASE Interrupted(c)
    <3>1. Unanswered' = Unanswered
      BY <2>4 DEF Interrupted, Unanswered, Shape
    <3> QED
      BY <2>4, <3>1, Zenon DEF Interrupted, UnansweredExact
  <2> QED
    BY <2>2, <2>3, <2>4, Zenon
<1> QED
  BY <1>2, <1>3, <1>4, <1>5, Zenon

-----------------------------------------------------------------------------
(* The helper *)

\* The helper takes a request, or sends a response.
LEMMA MsgStep == ASSUME ShutdownIInv, msg_wait \/ rsp_send PROVE ShutdownIInv'
<1> USE DEF ShutdownIInv
<1>1. /\ UNCHANGED <<cpc, helpVars, vnet_lock, stopVars>>
      /\ msgs' \in Nat /\ rsps' \in Nat
      /\ hpc' \in Phase /\ hpc \notin StopPhase /\ hpc' \notin StopPhase
  BY DEF msg_wait, rsp_send, Shape, Phase, StopPhase
<1>2. Shape'
  BY <1>1, Zenon DEF Shape, helpVars, stopVars
<1>3. HelperAt'
  BY <1>1, ZenonT(60) DEF HelperAt, helpVars, msg_wait, rsp_send, Shape
<1>4. Handshake'
  BY <1>1 DEF Handshake, HandshakeOf, helpVars, stopVars, Done, Requested, StopPhase
<1>5. UnansweredExact'
  <2>1. Cardinality(Unanswered)' = Cardinality(Unanswered)
    BY <1>1 DEF Unanswered
  <2>2. msgs' + rsps' + (IF hpc' = "msg_wait" THEN 0 ELSE 1)
          = msgs + rsps + (IF hpc = "msg_wait" THEN 0 ELSE 1)
    <3>1. msgs \in Nat /\ rsps \in Nat
      BY DEF Shape
    <3>2. CASE msg_wait
      <4>1. msgs' = msgs - 1 /\ rsps' = rsps /\ hpc = "msg_wait" /\ hpc' # "msg_wait"
        BY <3>2 DEF msg_wait
      <4> QED
        BY <3>1, <4>1
    <3>3. CASE rsp_send
      <4>1. msgs' = msgs /\ rsps' = rsps + 1 /\ hpc # "msg_wait" /\ hpc' = "msg_wait"
        BY <3>3 DEF rsp_send
      <4> QED
        BY <3>1, <4>1
    <3> QED
      BY <3>2, <3>3, Zenon
  <2> QED
    BY <2>1, <2>2 DEF UnansweredExact
<1> QED
  BY <1>2, <1>3, <1>4, <1>5, Zenon

\* The helper tries for the list lock and walks the interfaces.
LEMMA ListStep == ASSUME ShutdownIInv, TryLock \/ ifdestroy \/ Complete PROVE ShutdownIInv'
<1> USE WorkerFacts DEF ShutdownIInv
<1>1. /\ UNCHANGED <<callVars, vnet_lock, stopVars>>
      /\ hpc \in {"lock", "destroy"} /\ ~shutdown_complete
      /\ hpc' \in {"lock", "destroy", "stop_rx", "rsp_send"}
  BY Zenon DEF TryLock, ifdestroy, Complete, HelperAt, Shape
<1>2. Shape'
  <2>1. attempts' \in 0 .. Attempts
    <3>1. attempts' = attempts \/ (attempts' = attempts + 1 /\ attempts < Attempts)
      BY Zenon DEF TryLock, ifdestroy, Complete
    <3>2. attempts \in 0 .. Attempts /\ Attempts \in Nat
      BY CallerAssumption, Zenon DEF Shape
    <3> QED
      BY ONLY <3>1, <3>2
  <2>2. k' \in 1 .. Len(Ifs) + 1
    <3>1. k' = k \/ (k' = k + 1 /\ k <= Len(Ifs))
      BY Zenon DEF TryLock, ifdestroy, Complete
    <3>2. k \in 1 .. Len(Ifs) + 1 /\ Len(Ifs) \in Nat
      BY WorkerFacts, Zenon DEF Shape
    <3> QED
      BY ONLY <3>1, <3>2
  <2>3. shutdowns' \in [DOMAIN Ifs -> Nat]
    <3>1. shutdowns \in [DOMAIN Ifs -> Nat]
      BY Zenon DEF Shape
    <3>2. shutdowns' = shutdowns \/ shutdowns' = [shutdowns EXCEPT ![k] = @ + 1]
      BY DEF TryLock, ifdestroy, Complete
    <3> QED
      BY <3>1, <3>2
  <2>4. have_lock' \in BOOLEAN /\ shutdown_complete' \in BOOLEAN
    BY Zenon DEF TryLock, ifdestroy, Complete, Shape
  <2> QED
    BY <1>1, <2>1, <2>2, <2>3, <2>4, ZenonT(60) DEF Shape, callVars, stopVars, Phase
<1>3. HelperAt'
  <2>1. CASE TryLock
    BY <2>1, <1>1, ZenonT(60) DEF TryLock, HelperAt, callVars, StopPhase, Shape
  <2>2. CASE ifdestroy
    <3>1. /\ hpc = "destroy" /\ k <= Len(Ifs) /\ shutdowns' = [shutdowns EXCEPT ![k] = shutdowns[k] + 1]
          /\ \/ Ifs[k] = "netmap" /\ hpc' = "stop_rx" /\ k' = k
             \/ k' = k + 1 /\ hpc' = "destroy"
          /\ shutdown_complete' = shutdown_complete
      BY <2>2, Zenon DEF ifdestroy
    <3>2. /\ k \in 1 .. Len(Ifs) + 1 /\ Len(Ifs) \in Nat /\ shutdowns \in [DOMAIN Ifs -> Nat]
          /\ DOMAIN Ifs = 1 .. Len(Ifs)
      BY WorkerFacts, Zenon DEF Shape
    <3>3. \A i \in DOMAIN Ifs : shutdowns[i] = IF i < k THEN 1 ELSE 0
      BY <3>1, Zenon DEF HelperAt, StopPhase
    <3>4. "stop_rx" \in StopPhase /\ "destroy" \notin StopPhase
      BY DEF StopPhase
    <3>5. \A i \in DOMAIN Ifs : shutdowns'[i] = IF i < k' \/ (i = k' /\ hpc' \in StopPhase) THEN 1 ELSE 0
      BY ONLY <3>1, <3>2, <3>3, <3>4
    <3>6. ~shutdown_complete' /\ rsps' = rsps /\ cpc' = cpc
      BY <1>1, <3>1, Zenon DEF callVars
    <3>7. hpc' \in StopPhase => k' <= Len(Ifs) /\ Ifs[k'] = "netmap"
      BY <3>1, <3>4, Zenon
    <3>8. hpc' \notin {"msg_wait", "lock"} /\ hpc' # "rsp_send"
      BY <3>1, Zenon
    <3>9. ~(rsps > 0 \/ (\E c \in Caller : cpc[c] = "returned"))
      BY <1>1, Zenon DEF HelperAt
    <3> QED
      BY <3>5, <3>6, <3>7, <3>8, <3>9, Zenon DEF HelperAt
  <2>3. CASE Complete
    <3>1. /\ hpc = "destroy" /\ k > Len(Ifs) /\ shutdown_complete' /\ hpc' = "rsp_send"
          /\ k' = k /\ shutdowns' = shutdowns
      BY <2>3, Zenon DEF Complete
    <3>2. k = Len(Ifs) + 1
      <4>1. k \in 1 .. Len(Ifs) + 1 /\ Len(Ifs) \in Nat
        BY WorkerFacts, Zenon DEF Shape
      <4> QED
        BY ONLY <3>1, <4>1
    <3> QED
      BY <3>1, <3>2, Zenon DEF HelperAt, StopPhase
  <2> QED
    BY <2>1, <2>2, <2>3, Zenon
<1>4. Handshake'
  <2> SUFFICES ASSUME NEW w \in Worker
               PROVE  /\ ~(w[1] = k /\ k' = k + 1)
                      /\ k' = k \/ k' = k + 1
                      /\ hpc \notin Done(w[2]) /\ hpc' \notin Done(w[2])
                      /\ hpc \notin Requested(w[2]) /\ hpc' \notin Requested(w[2])
    <3>1. k \in Nat
      BY DEF Shape
    <3>2. \A w \in Worker : w[1] \in Nat
      OBVIOUS
    <3> QED
      BY <1>1, <3>1, <3>2 DEF Handshake, HandshakeOf, stopVars
  <2> QED
    BY <1>1 DEF TryLock, ifdestroy, Complete, Done, Requested
<1>5. UnansweredExact'
  BY <1>1 DEF UnansweredExact, Unanswered, callVars
<1> QED
  BY <1>2, <1>3, <1>4, <1>5, Zenon

-----------------------------------------------------------------------------
(* The stop handshake *)

\* A step of the handshake leaves the callers and the list of interfaces alone.
LEMMA HandshakeFrame ==
  ASSUME ShutdownIInv, UNCHANGED <<callVars, k, shutdown_complete, shutdowns>>,
         hpc \in StopPhase, hpc' \in StopPhase
  PROVE  HelperAt' /\ UnansweredExact'
<1> USE DEF ShutdownIInv
<1>1. HelperAt'
  BY DEF HelperAt, callVars, StopPhase
<1>2. UnansweredExact'
  BY DEF UnansweredExact, Unanswered, callVars, StopPhase
<1> QED
  BY <1>1, <1>2, Zenon

\* kthread_stop: the thread of the worker asked is still running.
LEMMA StopStep == ASSUME ShutdownIInv, StopRx \/ StopTx PROVE ShutdownIInv'
<1> USE DEF ShutdownIInv
<1>1. PICK t \in {"rx", "tx"} :
        /\ hpc = IF t = "rx" THEN "stop_rx" ELSE "stop_tx"
        /\ hpc' = IF t = "rx" THEN "stop_tx" ELSE "wait_rx"
        /\ tsr' = [tsr EXCEPT ![<<k, t>>] = "live"]
        /\ tsr_ack' = [tsr_ack EXCEPT ![<<k, t>>] = FALSE]
        /\ td_stop_req' = [td_stop_req EXCEPT ![<<k, t>>] = TRUE]
        /\ UNCHANGED <<callVars, helpVars, vnet_lock, wpc, tsr_lock>>
  BY DEF StopRx, StopTx, kthread_stop
<1>2. <<k, t>> \in Worker
  <2>1. k \in 1 .. Len(Ifs) /\ Ifs[k] = "netmap"
    BY <1>1, WorkerFacts DEF HelperAt, StopPhase, Shape
  <2> QED
    BY <2>1, WorkerFacts, Zenon
<1>3. HelperAt' /\ UnansweredExact'
  BY <1>1, HandshakeFrame, Zenon DEF StopPhase, helpVars
<1>4. Shape'
  <2>1. td_stop_req' \in [Worker -> BOOLEAN] /\ tsr_ack' \in [Worker -> BOOLEAN]
    BY <1>1, Zenon DEF Shape
  <2>2. tsr' \in [Worker -> {"none", "live", "destroyed"}] /\ hpc' \in Phase
    BY <1>1, Zenon DEF Shape, Phase
  <2> QED
    BY <1>1, <2>1, <2>2 DEF Shape, callVars, helpVars
<1>5. Handshake'
  <2> SUFFICES ASSUME NEW w \in Worker PROVE HandshakeOf(w)'
    BY Zenon DEF Handshake
  <2>1. HandshakeOf(w) /\ w = <<w[1], w[2]>> /\ w[2] \in {"rx", "tx"} /\ k \in Nat /\ w[1] \in Nat
    BY WorkerFacts DEF Handshake, Shape
  <2>2. k' = k /\ wpc' = wpc /\ tsr_lock' = tsr_lock
    BY <1>1, Zenon DEF helpVars
  <2>3. CASE w = <<k, t>>
    <3>1. w[1] = k /\ w[2] = t /\ tsr[w] = "none"
      BY <1>1, <2>1, <2>3 DEF HandshakeOf, Done, Requested
    <3>2. wpc[w] = "run"
      BY <2>1, <3>1, Zenon DEF HandshakeOf
    <3>3. tsr'[w] = "live" /\ td_stop_req'[w] /\ ~tsr_ack'[w]
      BY <1>1, <1>2, <2>3, Zenon DEF Shape
    <3>4. hpc' \in Requested(w[2]) /\ hpc' \notin Done(w[2])
      BY <1>1, <3>1, Zenon DEF Requested, Done
    <3> QED
      BY <2>1, <2>2, <3>1, <3>2, <3>3, <3>4, ZenonT(60) DEF HandshakeOf
  <2>4. CASE w # <<k, t>>
    <3>1. tsr'[w] = tsr[w] /\ td_stop_req'[w] = td_stop_req[w] /\ tsr_ack'[w] = tsr_ack[w]
      BY <1>1, <1>2, <2>4, Zenon DEF Shape
    <3>2. w[1] = k => /\ hpc \in Done(w[2]) <=> hpc' \in Done(w[2])
                      /\ hpc \in Requested(w[2]) <=> hpc' \in Requested(w[2])
      <4>1. w[1] = k => w[2] # t
        BY <2>1, <2>4
      <4> QED
        BY <1>1, <2>1, <4>1 DEF Done, Requested
    <3> QED
      BY <2>1, <2>2, <3>1, <3>2 DEF HandshakeOf
  <2> QED
    BY <2>3, <2>4
<1> QED
  BY <1>3, <1>4, <1>5, Zenon

\* cv_wait and its return, for whatever reason, change only where the helper is.
LEMMA WaitStep ==
  ASSUME ShutdownIInv,
         \/ HelperSpurious
         \/ hpc = "wait_rx" /\ StopWaits("rx", "cv_rx")
         \/ hpc = "wait_tx" /\ StopWaits("tx", "cv_tx")
  PROVE  ShutdownIInv'
<1> USE DEF ShutdownIInv
<1>1. /\ UNCHANGED <<callVars, helpVars, vnet_lock, stopVars>>
      /\ \/ hpc \in {"wait_rx", "cv_rx"} /\ hpc' \in {"wait_rx", "cv_rx"}
         \/ hpc \in {"wait_tx", "cv_tx"} /\ hpc' \in {"wait_tx", "cv_tx"}
  BY Zenon DEF HelperSpurious, StopWaits
<1>2. HelperAt' /\ UnansweredExact'
  BY <1>1, HandshakeFrame, Zenon DEF StopPhase, helpVars
<1>3. Shape'
  BY <1>1, ZenonT(60) DEF Shape, Phase, callVars, helpVars, stopVars
<1>4. Handshake'
  <2> SUFFICES ASSUME NEW w \in Worker PROVE HandshakeOf(w)'
    BY DEF Handshake
  <2>1. HandshakeOf(w)
    BY DEF Handshake
  <2>2. /\ hpc \in Done(w[2]) <=> hpc' \in Done(w[2])
        /\ hpc \in Requested(w[2]) <=> hpc' \in Requested(w[2])
    BY <1>1 DEF Done, Requested
  <2> QED
    BY <1>1, <2>1, <2>2 DEF HandshakeOf, helpVars, stopVars
<1> QED
  BY <1>2, <1>3, <1>4, Zenon

\* The end of kthread_stop_wait: an acknowledgement seen with the lock free
\* means that the thread has let go of the request.
LEMMA AckedStep ==
  ASSUME ShutdownIInv,
         \/ hpc = "wait_rx" /\ StopAcked("rx", "wait_tx") /\ UNCHANGED k
         \/ hpc = "wait_tx" /\ StopAcked("tx", "destroy") /\ k' = k + 1
  PROVE  ShutdownIInv'
<1> USE DEF ShutdownIInv
<1>1. PICK t \in {"rx", "tx"} :
        /\ hpc = IF t = "rx" THEN "wait_rx" ELSE "wait_tx"
        /\ hpc' = IF t = "rx" THEN "wait_tx" ELSE "destroy"
        /\ k' = IF t = "rx" THEN k ELSE k + 1
        /\ tsr_lock[<<k, t>>] = Nobody /\ tsr_ack[<<k, t>>]
        /\ tsr' = [tsr EXCEPT ![<<k, t>>] = "destroyed"]
        /\ UNCHANGED <<callVars, attempts, have_lock, shutdown_complete, shutdowns,
                       vnet_lock, wpc, td_stop_req, tsr_ack, tsr_lock>>
  BY DEF StopAcked
<1>2. <<k, t>> \in Worker /\ k \in 1 .. Len(Ifs) /\ Len(Ifs) \in Nat
  <2>1. k \in 1 .. Len(Ifs) /\ Ifs[k] = "netmap"
    BY <1>1, WorkerFacts DEF HelperAt, StopPhase, Shape
  <2> QED
    BY <2>1, WorkerFacts, ZenonT(60)
<1>3. UnansweredExact'
  BY <1>1, ZenonT(60) DEF UnansweredExact, Unanswered, callVars
<1>4. HelperAt'
  <2>1. /\ hpc \in StopPhase /\ (t = "rx" => hpc' \in StopPhase) /\ (t = "tx" => hpc' \notin StopPhase)
        /\ hpc' \notin {"msg_wait", "lock", "rsp_send"}
    BY <1>1, Zenon DEF StopPhase
  <2>2. \A i \in DOMAIN Ifs : shutdowns[i] = IF i < k \/ i = k THEN 1 ELSE 0
    BY <2>1, Zenon DEF HelperAt
  <2>3. \A i \in DOMAIN Ifs : i \in Nat /\ (i < k + 1 <=> i < k \/ i = k)
    BY <1>2, WorkerFacts
  <2>4. \A i \in DOMAIN Ifs : shutdowns'[i] = IF i < k' \/ (i = k' /\ hpc' \in StopPhase) THEN 1 ELSE 0
    BY <1>1, <2>1, <2>2, <2>3, ZenonT(60)
  <2>5. ~shutdown_complete' /\ rsps' = rsps /\ cpc' = cpc /\ ~shutdown_complete
    BY <1>1, Zenon DEF HelperAt, callVars
  <2>6. hpc' \in StopPhase => k' <= Len(Ifs) /\ Ifs[k'] = "netmap"
    BY <1>1, <2>1, Zenon DEF HelperAt
  <2>7. ~(rsps > 0 \/ (\E c \in Caller : cpc[c] = "returned"))
    BY <2>5, Zenon DEF HelperAt
  <2> QED
    BY <2>1, <2>4, <2>5, <2>6, <2>7, Zenon DEF HelperAt
<1>5. Shape'
  BY <1>1, <1>2 DEF Shape, Phase, callVars
<1>6. wpc[<<k, t>>] = "exited"
  <2>1. HandshakeOf(<<k, t>>) /\ <<k, t>> # Nobody
    BY <1>2, WorkerFacts DEF Handshake
  <2> QED
    BY <1>1, <2>1, Zenon DEF HandshakeOf
<1>7. Handshake'
  <2> SUFFICES ASSUME NEW w \in Worker PROVE HandshakeOf(w)'
    BY Zenon DEF Handshake
  <2>1. HandshakeOf(w) /\ w = <<w[1], w[2]>> /\ w[2] \in {"rx", "tx"} /\ k \in Nat /\ w[1] \in Nat
    BY WorkerFacts DEF Handshake, Shape
  <2>2. /\ wpc' = wpc /\ tsr_lock' = tsr_lock /\ tsr_ack' = tsr_ack
        /\ td_stop_req' = td_stop_req
    BY <1>1
  <2>3. CASE w = <<k, t>>
    <3>1. w[1] = k /\ w[2] = t /\ tsr[w] = "live"
      BY <1>1, <2>1, <2>3 DEF HandshakeOf, Done, Requested
    <3>2. tsr'[w] = "destroyed"
      BY <1>1, <1>2, <2>3, Zenon DEF Shape
    <3>3. w[1] < k' \/ (w[1] = k' /\ hpc' \in Done(w[2]))
      BY <1>1, <2>1, <3>1 DEF Done
    <3> QED
      BY <1>6, <2>1, <2>2, <2>3, <3>1, <3>2, <3>3, ZenonT(60) DEF HandshakeOf
  <2>4. CASE w # <<k, t>>
    <3>1. tsr'[w] = tsr[w]
      BY <1>1, <1>2, <2>4 DEF Shape
    <3>2. w[1] = k => w[2] # t
      BY <2>1, <2>4, Zenon
    <3>3. /\ (w[1] < k \/ (w[1] = k /\ hpc \in Done(w[2])))
               <=> (w[1] < k' \/ (w[1] = k' /\ hpc' \in Done(w[2])))
          /\ (w[1] = k /\ hpc \in Requested(w[2])) <=> (w[1] = k' /\ hpc' \in Requested(w[2]))
      <4>1. CASE t = "rx"
        BY <1>1, <2>1, <3>2, <4>1, Zenon DEF Done, Requested
      <4>2. CASE t = "tx"
        BY <1>1, <2>1, <3>2, <4>2 DEF Done, Requested
      <4> QED
        BY <4>1, <4>2, Zenon
    <3> QED
      BY <2>1, <2>2, <3>1, <3>3, ZenonT(60) DEF HandshakeOf
  <2> QED
    BY <2>3, <2>4
<1> QED
  BY <1>3, <1>4, <1>5, <1>7, ZenonT(60)

\* kthread_stop_ack in its three steps.
LEMMA AckStep ==
  ASSUME ShutdownIInv, NEW v \in Worker, AckLock(v) \/ AckSignal(v) \/ AckUnlock(v)
  PROVE  ShutdownIInv'
<1> USE DEF ShutdownIInv
<1>1. /\ UNCHANGED <<callVars, helpVars, vnet_lock, td_stop_req, tsr>>
      /\ hpc' = hpc \/ (hpc = "cv_rx" /\ hpc' = "wait_rx") \/ (hpc = "cv_tx" /\ hpc' = "wait_tx")
  BY DEF AckLock, AckSignal, AckUnlock, Signalled
<1>2. UnansweredExact'
  BY <1>1, Zenon DEF UnansweredExact, Unanswered, callVars
<1>3. HelperAt'
  BY <1>1, Zenon DEF HelperAt, callVars, helpVars, StopPhase
<1>4. Shape'
  <2>1. /\ wpc' \in [Worker -> {"run", "locked", "signalled", "exited"}]
        /\ tsr_lock' \in [Worker -> Worker \cup {Nobody}]
    <3>1. CASE AckLock(v)
      BY <3>1, Zenon DEF AckLock, Shape
    <3>2. CASE AckSignal(v)
      BY <3>2, Zenon DEF AckSignal, Shape
    <3>3. CASE AckUnlock(v)
      BY <3>3 DEF AckUnlock, Shape
    <3> QED
      BY <3>1, <3>2, <3>3, Zenon
  <2>2. tsr_ack' \in [Worker -> BOOLEAN]
    BY Zenon DEF AckLock, AckSignal, AckUnlock, Shape
  <2>3. hpc' \in Phase
    BY <1>1 DEF Shape, Phase
  <2> QED
    BY <1>1, <2>1, <2>2, <2>3, Zenon DEF Shape, callVars, helpVars
<1>5. Handshake'
  <2> SUFFICES ASSUME NEW w \in Worker PROVE HandshakeOf(w)'
    BY DEF Handshake
  <2>1. HandshakeOf(w) /\ w # Nobody
    BY WorkerFacts, Zenon DEF Handshake
  <2>2. /\ hpc \in Done(w[2]) <=> hpc' \in Done(w[2])
        /\ hpc \in Requested(w[2]) <=> hpc' \in Requested(w[2])
    BY <1>1 DEF Done, Requested
  <2>3. k' = k /\ tsr' = tsr /\ td_stop_req' = td_stop_req
    BY <1>1, Zenon DEF helpVars
  <2>4. CASE w # v
    <3>1. wpc'[w] = wpc[w] /\ tsr_ack'[w] = tsr_ack[w] /\ tsr_lock'[w] = tsr_lock[w]
      BY <2>4 DEF AckLock, AckSignal, AckUnlock, Shape
    <3> QED
      BY <2>1, <2>2, <2>3, <3>1, Zenon DEF HandshakeOf
  <2>5. CASE w = v /\ AckLock(v)
    <3>1. /\ wpc[w] = "run" /\ td_stop_req[w] /\ wpc'[w] = "locked" /\ tsr_lock'[w] = w
          /\ tsr_ack'[w] = tsr_ack[w]
      BY <2>5, Zenon DEF AckLock, Shape
    <3> QED
      BY <2>1, <2>2, <2>3, <3>1, Zenon DEF HandshakeOf
  <2>6. CASE w = v /\ AckSignal(v)
    <3>1. /\ wpc[w] = "locked" /\ wpc'[w] = "signalled" /\ tsr_lock'[w] = tsr_lock[w]
          /\ tsr_ack'[w]
      BY <2>6, Zenon DEF AckSignal, Shape
    <3> QED
      BY <2>1, <2>2, <2>3, <3>1, Zenon DEF HandshakeOf
  <2>7. CASE w = v /\ AckUnlock(v)
    <3>1. /\ wpc[w] = "signalled" /\ wpc'[w] = "exited" /\ tsr_lock'[w] = Nobody
          /\ tsr_ack'[w] = tsr_ack[w]
      BY <2>7, Zenon DEF AckUnlock, Shape
    <3> QED
      BY <2>1, <2>2, <2>3, <3>1, Zenon DEF HandshakeOf
  <2> QED
    BY <2>4, <2>5, <2>6, <2>7, Zenon
<1> QED
  BY <1>2, <1>3, <1>4, <1>5, Zenon

\* The vnet list lock changes hands.
LEMMA VnetStep == ASSUME ShutdownIInv, VnetUnlock \/ UNCHANGED vars PROVE ShutdownIInv'
<1> USE DEF ShutdownIInv
<1>1. UNCHANGED <<callVars, hpc, helpVars, stopVars>> /\ vnet_lock' \in {vnet_lock, Nobody}
  BY Zenon DEF VnetUnlock, vars
<1>2. Shape'
  BY <1>1, Zenon DEF Shape, callVars, helpVars, stopVars
<1>3. HelperAt' /\ UnansweredExact'
  BY <1>1, Zenon DEF HelperAt, UnansweredExact, Unanswered, callVars, helpVars
<1>4. Handshake'
  BY <1>1, Zenon DEF Handshake, HandshakeOf, helpVars, stopVars
<1> QED
  BY <1>2, <1>3, <1>4, Zenon

-----------------------------------------------------------------------------

\* Every step keeps the invariant.
LEMMA ShutdownIInvStep == ShutdownIInv /\ [Next]_vars => ShutdownIInv'
<1> SUFFICES ASSUME ShutdownIInv, [Next]_vars PROVE ShutdownIInv'
  OBVIOUS
<1>1. ASSUME NEW c \in Caller, uinet_shutdown(c) \/ Interrupted(c) PROVE ShutdownIInv'
  BY <1>1, CallerStep, Zenon DEF uinet_shutdown
<1>2. CASE shutdown_helper
  BY <1>2, MsgStep, ListStep, StopStep, WaitStep, AckedStep, Zenon
     DEF shutdown_helper, kthread_stop_wait, WaitRx, WaitTx
<1>3. CASE HelperSpurious
  BY <1>3, WaitStep
<1>4. ASSUME NEW w \in Worker, kthread_stop_ack(w) PROVE ShutdownIInv'
  BY <1>4, AckStep, Zenon DEF kthread_stop_ack
<1>5. CASE VnetUnlock \/ UNCHANGED vars
  BY <1>5, VnetStep
<1> QED
  BY <1>1, <1>2, <1>3, <1>4, <1>5, Zenon DEF Next

\* ... so it holds throughout.
LEMMA ShutdownAlwaysIInv == Spec => []ShutdownIInv
  BY ShutdownInitIInv, ShutdownIInvStep, PTL DEF Spec

\* However many threads and signal handlers call uinet_shutdown, and whichever
\* interfaces there are, shutdown_helper destroys each interface once, has an
\* answer for every caller that waits, and no interface thread touches a stop
\* request that is gone.
THEOREM ShutdownInvariant == Spec => []ShutdownInv
  BY ShutdownAlwaysIInv, IInvSuffices, PTL

\* uinet_shutdown does not return to an uninterrupted caller before the
\* shutdown is complete and every netmap thread has left its loop.
THEOREM ReturnsAreComplete == Spec => []ReturnsComplete
  BY ShutdownAlwaysIInv, IInvSuffices, PTL

-----------------------------------------------------------------------------
(***************************************************************************)
(* PcapTx: the queue and what was sent.                                    *)
(***************************************************************************)

\* The packets in s and then those in q are 1 .. n, in this order.
Consecutive(s, q, n) ==
  /\ Len(s) + Len(q) = n
  /\ \A i \in 1 .. Len(s) : s[i] = i
  /\ \A i \in 1 .. Len(q) : q[i] = Len(s) + i

\* A sequence is a function.
LEMMA FunctionIs ==
  ASSUME NEW S, NEW s \in Seq(S)
  PROVE  s \in [1 .. Len(s) -> S]
  OBVIOUS

\* FifoLossless element by element.
LEMMA InOrder ==
  ASSUME NEW S, NEW s \in Seq(S), NEW q \in Seq(S), NEW n \in Nat
  PROVE  s \o q = [i \in 1 .. n |-> i] <=> Consecutive(s, q, n)
<1>1. Len(s) \in Nat /\ Len(q) \in Nat
  OBVIOUS
<1>2. /\ DOMAIN (s \o q) = 1 .. Len(s) + Len(q) /\ s \o q = [i \in 1 .. Len(s) + Len(q) |-> (s \o q)[i]]
      /\ \A i \in 1 .. Len(s) + Len(q) : (s \o q)[i] = IF i <= Len(s) THEN s[i] ELSE q[i - Len(s)]
  <2>1. s \o q \in Seq(S) /\ Len(s \o q) = Len(s) + Len(q)
        /\ \A i \in 1 .. Len(s) + Len(q) : (s \o q)[i] = IF i <= Len(s) THEN s[i] ELSE q[i - Len(s)]
    OBVIOUS
  <2>2. s \o q \in [1 .. Len(s \o q) -> S]
    BY <2>1, FunctionIs, Zenon
  <2> QED
    BY <2>1, <2>2, Zenon
<1> DEFINE c == s \o q
<1> HIDE DEF c
<1>3. ASSUME c = [i \in 1 .. n |-> i]
      PROVE  /\ Len(s) + Len(q) = n
             /\ \A i \in 1 .. Len(s) : s[i] = i
             /\ \A i \in 1 .. Len(q) : q[i] = Len(s) + i
  <2>1. DOMAIN c = 1 .. n
    BY <1>3
  <2>2. Len(s) + Len(q) = n
    BY <1>1, <1>2, <2>1 DEF c
  <2>3. \A i \in 1 .. n : c[i] = i
    BY <1>3
  <2>4. \A i \in 1 .. n : i = IF i <= Len(s) THEN s[i] ELSE q[i - Len(s)]
    BY <1>2, <2>2, <2>3, Zenon DEF c
  <2>5. ASSUME NEW i \in 1 .. Len(q) PROVE q[i] = Len(s) + i
    <3>1. Len(s) + i \in 1 .. n /\ ~(Len(s) + i <= Len(s)) /\ (Len(s) + i) - Len(s) = i
      BY <1>1, <2>2
    <3> QED
      BY <2>4, <3>1
  <2>6. ASSUME NEW i \in 1 .. Len(s) PROVE s[i] = i
    <3>1. i \in 1 .. n /\ i <= Len(s)
      BY <1>1, <2>2
    <3> QED
      BY <2>4, <3>1
  <2> QED
    BY <2>2, <2>5, <2>6
<1>4. ASSUME Len(s) + Len(q) = n,
             \A i \in 1 .. Len(s) : s[i] = i, \A i \in 1 .. Len(q) : q[i] = Len(s) + i
      PROVE  c = [i \in 1 .. n |-> i]
  <2>1. \A i \in 1 .. n : c[i] = i
    BY <1>1, <1>2, <1>4 DEF c
  <2>2. c = [i \in 1 .. n |-> c[i]]
    BY <1>2, <1>4 DEF c
  <2> QED
    BY <2>1, <2>2
<1> QED
  BY <1>3, <1>4 DEF c, Consecutive

-----------------------------------------------------------------------------
\* The thread clears IFF_DRV_OACTIVE with tx_lock held until it sleeps, and a
\* sender that sets it wakes the thread.
SleepsClear == tpc \in {"clear", "sleep"} => ~oactive

\* The inductive invariant of the pcap transmit thread.
PcapIInv == PcapTypeOK /\ FifoLossless /\ SleepsClear

\* Nothing is queued at first.
LEMMA PcapInitIInv == PcapInit => PcapIInv
<1> SUFFICES ASSUME PcapInit PROVE PcapIInv
  OBVIOUS
<1>1. PcapTypeOK
  <2>1. if_snd \in Seq(1 .. MaxPkts) /\ Len(if_snd) = 0 /\ sent \in Seq(1 .. MaxPkts)
    BY DEF PcapInit
  <2>2. spc \in [Sender -> {"idle", "queued", "start"}] /\ queued \in 0 .. MaxPkts
    BY QAssumption DEF PcapInit
  <2>3. Len(if_snd) <= QLen
    BY <2>1, QAssumption
  <2> QED
    BY <2>1, <2>2, <2>3, Zenon DEF PcapInit, PcapTypeOK
<1>2. sent \o if_snd = <<>> /\ [i \in 1 .. queued |-> i] = <<>>
  BY DEF PcapInit
<1> QED
  BY <1>1, <1>2 DEF PcapInit, PcapIInv, FifoLossless, SleepsClear

\* Every step of senders and thread keeps the invariant.
LEMMA PcapIInvStep == PcapIInv /\ [PcapNext]_pcapVars => PcapIInv'
<1> SUFFICES ASSUME PcapIInv, [PcapNext]_pcapVars PROVE PcapIInv'
  OBVIOUS
<1> USE QAssumption
<1>1. PcapTypeOK /\ FifoLossless /\ SleepsClear
  BY DEF PcapIInv
<1>2. ASSUME NEW s \in Sender, Enqueue(s) PROVE PcapIInv'
  <2>1. /\ queued \in Nat /\ queued + 1 \in 1 .. MaxPkts /\ queued' = queued + 1
        /\ if_snd' = Append(if_snd, queued + 1) /\ sent' = sent /\ tpc' = tpc /\ oactive' = oactive
        /\ spc' = [spc EXCEPT ![s] = "queued"] /\ Len(if_snd) < QLen
    BY <1>1, <1>2 DEF Enqueue, PcapTypeOK
  <2>2. if_snd' \in Seq(1 .. MaxPkts) /\ Len(if_snd') = Len(if_snd) + 1 /\ FifoLossless'
    <3>1. /\ if_snd' \in Seq(1 .. MaxPkts) /\ Len(if_snd') = Len(if_snd) + 1 /\ Len(if_snd) \in Nat
          /\ \A i \in 1 .. Len(if_snd') : if_snd'[i] = IF i <= Len(if_snd) THEN if_snd[i] ELSE queued + 1
      BY <1>1, <2>1 DEF PcapTypeOK
    <3>2. sent \in Seq(1 .. MaxPkts) /\ if_snd \in Seq(1 .. MaxPkts) /\ Len(sent) \in Nat
      BY <1>1 DEF PcapTypeOK
    <3>3. Consecutive(sent, if_snd, queued)
      BY <1>1, <2>1, <3>2, InOrder, Zenon DEF FifoLossless
    <3>4. Consecutive(sent, if_snd', queued + 1)
      BY <2>1, <3>1, <3>2, <3>3 DEF Consecutive
    <3>5. sent \o if_snd' = [i \in 1 .. queued + 1 |-> i]
      <4>1. queued + 1 \in Nat
        BY <2>1
      <4> QED
        BY <3>1, <3>2, <3>4, <4>1, InOrder, Zenon
    <3> QED
      BY <2>1, <3>1, <3>5, Zenon DEF FifoLossless
  <2>3. PcapTypeOK'
    BY <1>1, <2>1, <2>2 DEF PcapTypeOK
  <2> QED
    BY <1>1, <2>1, <2>2, <2>3 DEF PcapIInv, SleepsClear
<1>3. ASSUME NEW s \in Sender, Handoff(s) PROVE PcapIInv'
  BY <1>1, <1>3 DEF Handoff, PcapIInv, PcapTypeOK, FifoLossless, SleepsClear
<1>4. ASSUME NEW s \in Sender, if_pcap_start(s) PROVE PcapIInv'
  BY <1>1, <1>4 DEF if_pcap_start, LockFree, PcapIInv, PcapTypeOK, FifoLossless, SleepsClear
<1>5. CASE Test \/ Clear \/ AwaitWork
  <2>1. CASE Test
    BY <1>1, <2>1 DEF Test, PcapIInv, PcapTypeOK, FifoLossless, SleepsClear
  <2>2. CASE Clear
    BY <1>1, <2>2, Zenon DEF Clear, PcapIInv, PcapTypeOK, FifoLossless, SleepsClear
  <2>3. CASE AwaitWork
    BY <1>1, <2>3 DEF AwaitWork, PcapIInv, PcapTypeOK, FifoLossless, SleepsClear
  <2> QED
    BY <1>5, <2>1, <2>2, <2>3
<1>6. CASE Drain
  <2>1. CASE if_snd # <<>>
    <3>1. /\ sent' = Append(sent, Head(if_snd)) /\ if_snd' = Tail(if_snd)
          /\ UNCHANGED <<queued, oactive, spc, tpc>>
      BY <1>6, <2>1 DEF Drain
    <3>2. /\ sent' \in Seq(1 .. MaxPkts) /\ if_snd' \in Seq(1 .. MaxPkts)
          /\ Len(if_snd') = Len(if_snd) - 1 /\ Len(if_snd) \in Nat /\ FifoLossless'
      <4>1. /\ sent \in Seq(1 .. MaxPkts) /\ if_snd \in Seq(1 .. MaxPkts) /\ queued \in Nat
            /\ Len(sent) \in Nat /\ Len(if_snd) \in Nat \ {0}
        BY <1>1, <2>1 DEF PcapTypeOK
      <4>2. Consecutive(sent, if_snd, queued)
        BY <1>1, <4>1, InOrder, Zenon DEF FifoLossless
      <4>3. /\ if_snd' \in Seq(1 .. MaxPkts) /\ Len(if_snd') = Len(if_snd) - 1
            /\ \A i \in 1 .. Len(if_snd') : if_snd'[i] = if_snd[i + 1]
        BY <2>1, <3>1, <4>1
      <4>4. sent' = Append(sent, if_snd[1]) /\ if_snd[1] \in 1 .. MaxPkts
        BY <2>1, <3>1, <4>1
      <4>5. /\ sent' \in Seq(1 .. MaxPkts) /\ Len(sent') = Len(sent) + 1
            /\ \A i \in 1 .. Len(sent') : sent'[i] = IF i <= Len(sent) THEN sent[i] ELSE if_snd[1]
        BY <4>1, <4>4
      <4>6. Consecutive(sent', if_snd', queued)
        <5>1. /\ if_snd[1] = Len(sent) + 1 /\ Len(sent) + Len(if_snd) = queued
              /\ \A i \in 1 .. Len(sent) : sent[i] = i
          BY <4>1, <4>2 DEF Consecutive
        <5>2. ASSUME NEW i \in 1 .. Len(sent') PROVE sent'[i] = i
          <6>1. \/ i <= Len(sent) /\ i \in 1 .. Len(sent)
                \/ ~(i <= Len(sent)) /\ i = Len(sent) + 1
            BY <4>1, <4>5
          <6> QED
            BY <4>5, <5>1, <6>1, Zenon
        <5>3. \A i \in 1 .. Len(if_snd') : if_snd'[i] = Len(sent') + i
          <6> SUFFICES ASSUME NEW i \in 1 .. Len(if_snd') PROVE if_snd'[i] = Len(sent') + i
            OBVIOUS
          <6>1. i \in Nat /\ i + 1 \in 1 .. Len(if_snd) /\ if_snd'[i] = if_snd[i + 1]
            BY <4>1, <4>3
          <6>2. if_snd[i + 1] = Len(sent) + (i + 1)
            BY <4>2, <6>1, Zenon DEF Consecutive
          <6>3. Len(sent') + i = Len(sent) + (i + 1)
            BY <4>1, <4>5, <6>1
          <6> QED
            BY <6>1, <6>2, <6>3, Zenon
        <5>4. Len(sent') + Len(if_snd') = queued
          <6>1. Len(sent') = Len(sent) + 1 /\ Len(if_snd') = Len(if_snd) - 1
            BY <4>3, <4>5, Zenon
          <6>2. Len(sent) \in Nat /\ Len(if_snd) \in Nat /\ Len(sent) + Len(if_snd) = queued
            BY <4>1, <5>1
          <6> QED
            BY <6>1, <6>2
        <5> QED
          BY <5>2, <5>3, <5>4 DEF Consecutive
      <4>7. sent' \o if_snd' = [i \in 1 .. queued |-> i]
        BY <4>1, <4>3, <4>5, <4>6, InOrder, Zenon
      <4> QED
        BY <3>1, <4>1, <4>3, <4>5, <4>7 DEF FifoLossless
    <3> QED
      BY <1>1, <3>1, <3>2 DEF PcapIInv, PcapTypeOK, SleepsClear
  <2>2. CASE if_snd = <<>>
    BY <1>1, <1>6, <2>2 DEF Drain, PcapIInv, PcapTypeOK, FifoLossless, SleepsClear
  <2> QED
    BY <2>1, <2>2
<1>7. CASE SpuriousWake \/ if_pcap_ioctl
  BY <1>1, <1>7, Zenon DEF SpuriousWake, if_pcap_ioctl, PcapIInv, PcapTypeOK, FifoLossless, SleepsClear
<1>8. CASE UNCHANGED pcapVars
  BY <1>1, <1>8 DEF pcapVars, PcapIInv, PcapTypeOK, FifoLossless, SleepsClear
<1> QED
  BY <1>2, <1>3, <1>4, <1>5, <1>6, <1>7, <1>8 DEF PcapNext, if_pcap_send

\* Every packet that was queued is sent once, in the order of queueing, or is
\* still in the queue (if_pcap_send dequeues what IFQ_HANDOFF queued), however
\* many senders race.
THEOREM SentInOrder == PcapSpec => []FifoLossless
<1>1. PcapIInv => FifoLossless
  BY DEF PcapIInv
<1> QED
  BY PcapInitIInv, PcapIInvStep, <1>1, PTL DEF PcapSpec

\* A packet the race for IFF_DRV_OACTIVE left in the queue of a sleeping
\* thread goes out with the next one: the flag is clear (if_pcap_send), so
\* IFQ_HANDOFF calls if_start.
THEOREM PcapInvariant == PcapSpec => []PcapInv
<1>1. PcapIInv => PcapInv
  BY DEF PcapIInv, PcapInv, SleepsClear, NextPacketWakes
<1> QED
  BY PcapInitIInv, PcapIInvStep, <1>1, PTL DEF PcapSpec

-----------------------------------------------------------------------------
(***************************************************************************)
(* EvUinet: the pending lists, the upcalls and the loop.                   *)
(***************************************************************************)

\* Some active watcher waits for event e on socket s (num_readers, num_writers
\* are not 0).
Watched(s, e) == \E w \in active : WSock[w] = s /\ e \in WEvents[w]

\* The upcalls of s are being set.
Arming(s) == pc \in {"arm", "check"} /\ so = s

\* The context of s is being taken off the previous list.
Feeding(s) == pc = "feed" /\ so = s

\* What the loop has in hand at each point, and what is left to be walked over.
Where ==
  /\ pc \in {"arm", "check", "feed"} => so \in Sock
  /\ pc = "check" => evs # {} /\ <<so, First(evs)>> \in upcall
  /\ pc \in {"invoke", "poll", "swap"} \/ (pc \in {"arm", "check"} /\ ret = "invoke") => walk = {}
  /\ pc = "prepare" \/ (pc \in {"arm", "check"} /\ ret = "prepare") => walk = prev_pend
  /\ pc \in {"poll", "swap"} => prev_pend = {}
  /\ pc \in {"walk", "feed"} => walk \subseteq prev_pend
  /\ pc = "feed" => so \in prev_pend \ walk

\* On the previous list, a context is pending until it was fed, then inhibited.
Fed ==
  \A s \in prev_pend :
    "PENDING" \in pend_flags[s] <=> Feeding(s) \/ (pc \in {"walk", "feed"} /\ s \in walk)

\* Upcalls are set for watched events only, and for all of them, except while
\* the context is fed, inhibited or armed again.
Armed ==
  \A s \in Sock, e \in Event :
    /\ <<s, e>> \in upcall => Watched(s, e) /\ ~Feeding(s)
    /\ Watched(s, e) => \/ <<s, e>> \in upcall \/ "INHIBITED" \in pend_flags[s] \/ Feeding(s)
                        \/ Arming(s) /\ e \in evs

\* Upcalls are set for events that are watched, and not of an inhibited context.
ToArm ==
  \A s \in Sock : Arming(s) =>
    /\ \A e \in evs : Watched(s, e)
    /\ "INHIBITED" \in pend_flags[s] => evs = {} /\ acc = {}

\* What is ready and watched is pending, or will be looked for.
NotLost ==
  \A s \in Sock, e \in Event : <<s, e>> \in ready /\ Watched(s, e) =>
    \/ "PENDING" \in pend_flags[s] /\ e \in pend_flags[s]
    \/ "INHIBITED" \in pend_flags[s] \/ Feeding(s)
    \/ Arming(s) /\ e \in evs \cup acc

\* Something pending has been, or will be, notified.
Notified == pend # {} => async \/ in_batch # {} \/ pc = "swap"

\* The inductive invariant of the event loop.
EvIInv == EvTypeOK /\ Where /\ FlagsMatchLists /\ Inhibited /\ Fed /\ Armed /\ ToArm /\ NotLost /\ Notified

-----------------------------------------------------------------------------
\* num_readers and num_writers count the active watchers.
LEMMA NumIs ==
  ASSUME active \subseteq Watcher, NEW s, NEW e
  PROVE  /\ Num(s, e) \in Nat /\ (Num(s, e) > 0 <=> Watched(s, e)) /\ (Num(s, e) = 0 <=> ~Watched(s, e))
<1> DEFINE W == {w \in active : WSock[w] = s /\ e \in WEvents[w]}
<1>1. W \in SUBSET Watcher
  OBVIOUS
<1>2. IsFiniteSet(W) /\ Cardinality(W) \in Nat /\ (Cardinality(W) = 0 <=> W = {})
  BY <1>1, WatcherAssumption, FS_Subset, FS_CardinalityType, FS_EmptySet, Zenon
<1>3. Num(s, e) = Cardinality(W) /\ (Watched(s, e) <=> W # {})
  BY DEF Num, Watched
<1> HIDE DEF W
<1> QED
  BY <1>2, <1>3

\* The last watcher of an event.
LEMMA NumOne ==
  ASSUME active \subseteq Watcher, NEW w \in active, NEW e \in WEvents[w]
  PROVE  Num(WSock[w], e) = 1 <=> ~\E v \in active \ {w} : WSock[v] = WSock[w] /\ e \in WEvents[v]
<1> DEFINE W == {v \in active : WSock[v] = WSock[w] /\ e \in WEvents[v]}
<1>1. W \in SUBSET Watcher /\ w \in W
  OBVIOUS
<1>2. /\ Cardinality(W) \in Nat /\ Cardinality(W \ {w}) = Cardinality(W) - 1
      /\ (Cardinality(W \ {w}) = 0 <=> W \ {w} = {})
  <2>1. IsFiniteSet(W) /\ IsFiniteSet(W \ {w})
    BY <1>1, WatcherAssumption, FS_Subset
  <2> QED
    BY <1>1, <2>1, FS_RemoveElement, FS_CardinalityType, FS_EmptySet, Zenon
<1>3. Num(WSock[w], e) = Cardinality(W)
  BY DEF Num
<1>4. W \ {w} = {} <=> ~\E v \in active \ {w} : WSock[v] = WSock[w] /\ e \in WEvents[v]
  OBVIOUS
<1> HIDE DEF W
<1> QED
  BY <1>2, <1>3, <1>4

-----------------------------------------------------------------------------
\* At first nothing is watched.
LEMMA EvInitHolds == EvInit => EvIInv
<1> SUFFICES ASSUME EvInit PROVE EvIInv
  OBVIOUS
<1>1. EvTypeOK
  BY Zenon DEF EvInit, EvTypeOK
<1>2. \A s, e : ~Watched(s, e)
  BY DEF EvInit, Watched
<1>3. ToArm
  BY DEF EvInit, ToArm, Arming
<1>4. Armed /\ NotLost
  BY <1>2, Zenon DEF EvInit, Armed, NotLost
<1>5. Where /\ FlagsMatchLists /\ Inhibited /\ Fed /\ Notified
  BY DEF EvInit, Where, FlagsMatchLists, Inhibited, Fed, Notified
<1> QED
  BY <1>1, <1>3, <1>4, <1>5 DEF EvIInv

\* A step that leaves the watchers alone.
LEMMA SameWatched ==
  ASSUME active' = active
  PROVE  \A s, e : Watched(s, e)' <=> Watched(s, e)
  BY DEF Watched

\* What uinet_socket_events does to the flags and the lists of a context that
\* is not inhibited.
LEMMA PostIs ==
  ASSUME EvTypeOK, FlagsMatchLists, NEW s \in Sock, NEW E \in SUBSET Event,
         "INHIBITED" \notin pend_flags[s], uinet_socket_events(s, E)
  PROVE  /\ pend_flags' \in [Sock -> SUBSET Flag] /\ pend' \subseteq Sock /\ async' \in BOOLEAN
         /\ prev_pend' = prev_pend
         /\ pend_flags'[s] = pend_flags[s] \cup E \cup {"PENDING"}
         /\ \A u \in Sock : u # s => pend_flags'[u] = pend_flags[u]
         /\ FlagsMatchLists'
         /\ \A u \in prev_pend : "PENDING" \in pend_flags'[u] <=> "PENDING" \in pend_flags[u]
         /\ async => async'
         /\ pend' # pend => async' \/ in_batch # {}
<1>1. pend_flags \in [Sock -> SUBSET Flag] /\ pend \subseteq Sock /\ prev_pend \subseteq Sock
      /\ async \in BOOLEAN
  BY DEF EvTypeOK
<1>2. /\ pend_flags' = [pend_flags EXCEPT ![s] = @ \cup E \cup {"PENDING"}]
      /\ pend' = (IF "PENDING" \notin pend_flags[s] THEN pend \cup {s} ELSE pend)
      /\ async' = (async \/ ("PENDING" \notin pend_flags[s] /\ in_batch = {}))
      /\ prev_pend' = prev_pend
  BY DEF uinet_socket_events
<1>3. /\ pend_flags' \in [Sock -> SUBSET Flag]
      /\ pend_flags'[s] = pend_flags[s] \cup E \cup {"PENDING"}
      /\ \A u \in Sock : u # s => pend_flags'[u] = pend_flags[u]
  <2>1. pend_flags[s] \cup E \cup {"PENDING"} \in SUBSET Flag
    BY <1>1 DEF Flag
  <2> QED
    BY <1>1, <1>2, <2>1, Zenon
<1>4. "INHIBITED" \notin pend_flags'[s] /\ "PENDING" \in pend_flags'[s]
  BY <1>3, Zenon DEF Event
<1>5. FlagsMatchLists'
  BY <1>1, <1>2, <1>3, <1>4, Zenon DEF FlagsMatchLists
<1>6. \A u \in prev_pend : "PENDING" \in pend_flags'[u] <=> "PENDING" \in pend_flags[u]
  BY <1>1, <1>3, <1>4 DEF FlagsMatchLists
<1>7. /\ pend' \subseteq Sock /\ async' \in BOOLEAN /\ (async => async')
      /\ pend' # pend => async' \/ in_batch # {}
  BY <1>1, <1>2, Zenon
<1> QED
  BY <1>2, <1>3, <1>5, <1>6, <1>7, Zenon

\* An upcall is set.
LEMMA ArmSetStep ==
  ASSUME EvIInv, ArmSet
  PROVE  EvIInv'
<1>0. EvTypeOK /\ Where /\ FlagsMatchLists /\ Inhibited /\ Fed
      /\ Armed /\ ToArm /\ NotLost /\ Notified
  BY DEF EvIInv
<1>1. /\ pc = "arm" /\ pc' = "check" /\ evs # {} /\ upcall' = upcall \cup {<<so, First(evs)>>}
      /\ UNCHANGED <<ready, pend_flags, pend, prev_pend, async, in_batch, active, fed, walk,
                     so, evs, acc, ret>>
  BY DEF ArmSet, flagVars, armVars
<1>2. so \in Sock /\ Arming(so) /\ First(evs) \in evs /\ First(evs) \in Event /\ evs \subseteq Event
  BY <1>0, <1>1, Zenon DEF Where, First, EvTypeOK, Event, Arming
<1>3. Watched(so, First(evs)) /\ "INHIBITED" \notin pend_flags[so]
  BY <1>0, <1>1, <1>2 DEF ToArm
<1>4. \A s1, e1 : Watched(s1, e1)' <=> Watched(s1, e1)
  BY <1>1, SameWatched
<1>5. \A s1 \in Sock, e1 \in Event : <<s1, e1>> \in upcall' <=> (<<s1, e1>> \in upcall \/ (s1 = so /\ e1 = First(evs)))
  BY <1>1, Zenon
<1>6. EvTypeOK'
  <2>1. upcall' \subseteq Sock \X Event
    BY <1>0, <1>1, <1>2 DEF EvTypeOK
  <2> QED
    BY <1>0, <1>1, <1>2, <2>1, Zenon DEF EvTypeOK
<1>7. Where' /\ FlagsMatchLists' /\ Fed' /\ Notified'
  BY <1>0, <1>1, Zenon DEF Where, FlagsMatchLists, Fed, Feeding, Notified
<1>8. Inhibited'
  BY <1>0, <1>1, <1>3, <1>5, Zenon DEF Inhibited
<1>9. Armed'
  BY <1>0, <1>1, <1>3, <1>4, <1>5, Zenon DEF Armed, Feeding, Arming
<1>10. ToArm' /\ NotLost'
  BY <1>0, <1>1, <1>4, Zenon DEF ToArm, NotLost, Feeding, Arming
<1> QED
  BY <1>6, <1>7, <1>8, <1>9, <1>10, Zenon DEF EvIInv

\* The event is looked for.
LEMMA ArmCheckStep ==
  ASSUME EvIInv, ArmCheck
  PROVE  EvIInv'
<1>0. EvTypeOK /\ Where /\ FlagsMatchLists /\ Inhibited /\ Fed
      /\ Armed /\ ToArm /\ NotLost /\ Notified
  BY DEF EvIInv
<1>1. /\ pc = "check" /\ pc' = "arm" /\ evs' = evs \ {First(evs)}
      /\ acc' = acc \cup {e \in {First(evs)} : <<so, e>> \in ready}
      /\ UNCHANGED <<ready, upcall, pend_flags, pend, prev_pend, async, in_batch, active, fed, walk,
                     so, ret>>
  BY Zenon DEF ArmCheck, flagVars, armVars
<1>2. so \in Sock /\ Arming(so) /\ First(evs) \in evs /\ First(evs) \in Event /\ evs # {}
  BY <1>0, <1>1, Zenon DEF Where, First, EvTypeOK, Event, Arming
<1>3. "INHIBITED" \notin pend_flags[so] /\ <<so, First(evs)>> \in upcall
  BY <1>0, <1>1, <1>2, Zenon DEF ToArm, Where
<1>4. \A s1, e1 : Watched(s1, e1)' <=> Watched(s1, e1)
  BY <1>1, SameWatched, Zenon
<1>5. \A e1 \in evs : e1 \in evs' \/ e1 = First(evs)
  BY <1>1
<1>6. EvTypeOK'
  BY <1>0, <1>1, <1>2, Zenon DEF EvTypeOK
<1>7. Where' /\ FlagsMatchLists' /\ Inhibited' /\ Fed' /\ Notified'
  BY <1>0, <1>1, Zenon DEF Where, FlagsMatchLists, Inhibited, Fed, Feeding, Notified
<1>8. Armed'
  BY <1>0, <1>1, <1>3, <1>4, <1>5, Zenon DEF Armed, Feeding, Arming
<1>9. ToArm'
  BY <1>0, <1>1, <1>3, <1>4, Zenon DEF ToArm, Arming
<1>10. NotLost'
  BY <1>0, <1>1, <1>4, <1>5, Zenon DEF NotLost, Feeding, Arming
<1> QED
  BY <1>6, <1>7, <1>8, <1>9, <1>10, Zenon DEF EvIInv

\* What was found is pending.
LEMMA ArmPostStep ==
  ASSUME EvIInv, ArmPost
  PROVE  EvIInv'
<1>0. EvTypeOK /\ Where /\ FlagsMatchLists /\ Inhibited /\ Fed
      /\ Armed /\ ToArm /\ NotLost /\ Notified
  BY DEF EvIInv
<1>1. /\ pc = "arm" /\ evs = {} /\ pc' = ret /\ acc' = {} /\ so' = NoSock
      /\ UNCHANGED <<ready, upcall, in_batch, active, fed, walk, evs, ret>>
  BY DEF ArmPost
<1>2. so \in Sock /\ Arming(so) /\ acc \in SUBSET Event /\ ret \in {"prepare", "invoke"}
      /\ pend_flags \in [Sock -> SUBSET Flag]
  BY <1>0, <1>1 DEF Where, EvTypeOK, Arming
<1>3. \A s1, e1 : Watched(s1, e1)' <=> Watched(s1, e1)
  BY <1>1, SameWatched
<1>4. CASE acc = {}
  <2>1. UNCHANGED <<pend_flags, pend, prev_pend, async>>
    BY <1>4, Zenon DEF ArmPost, flagVars
  <2>2. EvTypeOK'
    BY <1>0, <1>1, <2>1, Zenon DEF EvTypeOK
  <2>3. Where' /\ FlagsMatchLists' /\ Inhibited' /\ Fed' /\ Notified'
    BY <1>0, <1>1, <1>2, <2>1, Zenon DEF Where, FlagsMatchLists, Inhibited, Fed, Feeding, Notified
  <2>4. Armed' /\ ToArm' /\ NotLost'
    BY <1>0, <1>1, <1>2, <1>3, <1>4, <2>1, Zenon DEF Armed, ToArm, NotLost, Feeding, Arming
  <2> QED
    BY <2>2, <2>3, <2>4, Zenon DEF EvIInv
<1>5. CASE acc # {}
  <2>1. uinet_socket_events(so, acc)
    BY <1>5 DEF ArmPost
  <2>2. "INHIBITED" \notin pend_flags[so]
    BY <1>0, <1>2, <1>5, Zenon DEF ToArm
  <2>3. /\ pend_flags' \in [Sock -> SUBSET Flag] /\ pend' \subseteq Sock /\ async' \in BOOLEAN
        /\ prev_pend' = prev_pend
        /\ pend_flags'[so] = pend_flags[so] \cup acc \cup {"PENDING"}
        /\ \A u \in Sock : u # so => pend_flags'[u] = pend_flags[u]
        /\ FlagsMatchLists'
        /\ \A u \in prev_pend : "PENDING" \in pend_flags'[u] <=> "PENDING" \in pend_flags[u]
        /\ async => async'
        /\ pend' # pend => async' \/ in_batch # {}
    BY <1>0, <1>2, <2>1, <2>2, PostIs, Zenon
  <2>4. "INHIBITED" \notin pend_flags'[so]
    BY <1>2, <2>2, <2>3, Zenon DEF Event
  <2>5. EvTypeOK'
    BY <1>0, <1>1, <2>3, Zenon DEF EvTypeOK
  <2>6. Where' /\ Fed' /\ Notified'
    BY <1>0, <1>1, <1>2, <2>3, Zenon DEF Where, Fed, Feeding, Notified
  <2>7. Inhibited'
    BY <1>0, <1>1, <2>3, <2>4, Zenon DEF Inhibited
  <2>8. Armed'
    BY <1>0, <1>1, <1>2, <1>3, <2>2, <2>3, <2>4, Zenon DEF Armed, Feeding, Arming
  <2>9. ToArm'
    BY <1>1, <1>2, Zenon DEF ToArm, Arming
  <2>10. NotLost'
    BY <1>0, <1>1, <1>2, <1>3, <2>2, <2>3, Zenon DEF NotLost, Feeding, Arming
  <2> QED
    BY <2>3, <2>5, <2>6, <2>7, <2>8, <2>9, <2>10, Zenon DEF EvIInv
<1> QED
  BY <1>4, <1>5

\* A socket becomes ready.
LEMMA UpcallStep ==
  ASSUME EvIInv, NEW s \in Sock, NEW e \in Event, Upcall(s, e)
  PROVE  EvIInv'
<1>0. EvTypeOK /\ Where /\ FlagsMatchLists /\ Inhibited /\ Fed
      /\ Armed /\ ToArm /\ NotLost /\ Notified
  BY DEF EvIInv
<1>1. /\ ready' = ready \cup {<<s, e>>}
      /\ UNCHANGED <<upcall, in_batch, active, fed, pc, walk, so, evs, acc, ret>>
  BY Zenon DEF Upcall, armVars
<1>2. \A s1, e1 : Watched(s1, e1)' <=> Watched(s1, e1)
  BY <1>1, SameWatched
<1>3. \A s1 \in Sock, e1 \in Event : <<s1, e1>> \in ready' <=> (<<s1, e1>> \in ready \/ (s1 = s /\ e1 = e))
  BY <1>1, Zenon
<1>4. CASE <<s, e>> \notin upcall
  <2>1. UNCHANGED <<pend_flags, pend, prev_pend, async>>
    BY <1>4, Zenon DEF Upcall, flagVars
  <2>2. EvTypeOK'
    BY <1>0, <1>1, <2>1 DEF EvTypeOK
  <2>3. Where' /\ FlagsMatchLists' /\ Inhibited' /\ Fed' /\ Notified'
    BY <1>0, <1>1, <2>1, Zenon DEF Where, FlagsMatchLists, Inhibited, Fed, Feeding, Notified
  <2>4. Armed' /\ ToArm'
    BY <1>0, <1>1, <1>2, <2>1, Zenon DEF Armed, ToArm, Feeding, Arming
  <2>5. NotLost'
    BY <1>0, <1>1, <1>2, <1>3, <1>4, <2>1, Zenon DEF NotLost, Armed, Feeding, Arming
  <2> QED
    BY <2>2, <2>3, <2>4, <2>5, Zenon DEF EvIInv
<1>5. CASE <<s, e>> \in upcall
  <2>1. uinet_socket_events(s, {e})
    BY <1>5, Zenon DEF Upcall
  <2>2. "INHIBITED" \notin pend_flags[s]
    BY <1>0, <1>5, Zenon DEF Inhibited
  <2>3. /\ pend_flags' \in [Sock -> SUBSET Flag] /\ pend' \subseteq Sock /\ async' \in BOOLEAN
        /\ prev_pend' = prev_pend
        /\ pend_flags'[s] = pend_flags[s] \cup {e} \cup {"PENDING"}
        /\ \A u \in Sock : u # s => pend_flags'[u] = pend_flags[u]
        /\ FlagsMatchLists'
        /\ \A u \in prev_pend : "PENDING" \in pend_flags'[u] <=> "PENDING" \in pend_flags[u]
        /\ async => async'
        /\ pend' # pend => async' \/ in_batch # {}
    <3>1. {e} \in SUBSET Event
      OBVIOUS
    <3> QED
      BY <1>0, <2>1, <2>2, <3>1, PostIs, Zenon
  <2>4. "INHIBITED" \notin pend_flags'[s]
    BY <2>2, <2>3, Zenon DEF Event
  <2>5. EvTypeOK'
    BY <1>0, <1>1, <2>3 DEF EvTypeOK
  <2>6. Where' /\ Fed' /\ Notified'
    BY <1>0, <1>1, <2>3, Zenon DEF Where, Fed, Feeding, Notified
  <2>7. Inhibited'
    BY <1>0, <1>1, <2>3, <2>4, Zenon DEF Inhibited
  <2>8. Armed'
    BY <1>0, <1>1, <1>2, <2>2, <2>3, <2>4, Zenon DEF Armed, Feeding, Arming
  <2>9. ToArm'
    BY <1>0, <1>1, <1>2, <2>2, <2>3, <2>4, Zenon DEF ToArm, Arming
  <2>10. NotLost'
    BY <1>0, <1>1, <1>2, <1>3, <2>2, <2>3, Zenon DEF NotLost, Feeding, Arming
  <2> QED
    BY <2>3, <2>5, <2>6, <2>7, <2>8, <2>9, <2>10, Zenon DEF EvIInv
<1> QED
  BY <1>4, <1>5, Zenon

\* A context leaves the previous list, to be armed again.
LEMMA ReenableStep ==
  ASSUME EvIInv, NEW s \in Sock, Reenable(s)
  PROVE  EvIInv'
<1>0. EvTypeOK /\ Where /\ FlagsMatchLists /\ Inhibited /\ Fed
      /\ Armed /\ ToArm /\ NotLost /\ Notified
  BY DEF EvIInv
<1>1. /\ pc = "prepare" /\ pc' = "arm" /\ s \in walk /\ walk' = walk \ {s}
      /\ prev_pend' = prev_pend \ {s} /\ so' = s /\ acc' = {} /\ ret' = "prepare"
      /\ UNCHANGED <<ready, upcall, pend, async, in_batch, active, fed>>
  BY Zenon DEF Reenable
<1>2. walk = prev_pend /\ s \in prev_pend /\ s \notin pend
  BY <1>0, <1>1, Zenon DEF Where, FlagsMatchLists
<1>3. /\ pend_flags' \in [Sock -> SUBSET Flag] /\ pend_flags'[s] = {}
      /\ \A u \in Sock : u # s => pend_flags'[u] = pend_flags[u]
  BY <1>0, Zenon DEF EvTypeOK, Reenable
<1>4. evs' = {e \in Event : Watched(s, e)}
  <2>1. active \subseteq Watcher /\ evs' = {e \in Event : Num(s, e) > 0}
    BY <1>0 DEF EvTypeOK, Reenable
  <2>2. \A e : Num(s, e) > 0 <=> Watched(s, e)
    BY <2>1, NumIs, Zenon
  <2> QED
    BY <2>1, <2>2, Zenon
<1>5. \A s1, e1 : Watched(s1, e1)' <=> Watched(s1, e1)
  BY <1>1, SameWatched, Zenon
<1>6. EvTypeOK'
  BY <1>0, <1>1, <1>3, <1>4, Zenon DEF EvTypeOK
<1>7. Where' /\ Notified'
  BY <1>0, <1>1, <1>2, Zenon DEF Where, Notified
<1>8. FlagsMatchLists'
  BY <1>0, <1>1, <1>2, <1>3, Zenon DEF FlagsMatchLists
<1>9. Inhibited'
  BY <1>0, <1>1, <1>3, Zenon DEF Inhibited
<1>10. Fed'
  <2>1. prev_pend \subseteq Sock
    BY <1>0, Zenon DEF EvTypeOK
  <2> QED
    BY <1>0, <1>1, <1>3, <2>1, Zenon DEF Fed, Feeding
<1>11. Armed'
  <2> SUFFICES ASSUME NEW s1 \in Sock, NEW e1 \in Event
               PROVE  /\ <<s1, e1>> \in upcall => Watched(s1, e1)
                      /\ Watched(s1, e1) => \/ <<s1, e1>> \in upcall
                                            \/ "INHIBITED" \in pend_flags'[s1]
                                            \/ s1 = s /\ e1 \in evs'
    BY <1>1, <1>5, Zenon DEF Armed, Feeding, Arming
  <2>1. /\ <<s1, e1>> \in upcall => Watched(s1, e1)
        /\ Watched(s1, e1) => <<s1, e1>> \in upcall \/ "INHIBITED" \in pend_flags[s1]
    BY <1>0, <1>1, Zenon DEF Armed, Feeding, Arming
  <2> QED
    BY <1>3, <1>4, <2>1, Zenon
<1>12. ToArm'
  BY <1>1, <1>3, <1>4, <1>5, Zenon DEF ToArm, Arming
<1>13. NotLost'
  <2> SUFFICES ASSUME NEW s1 \in Sock, NEW e1 \in Event, <<s1, e1>> \in ready, Watched(s1, e1)
               PROVE  \/ "PENDING" \in pend_flags'[s1] /\ e1 \in pend_flags'[s1]
                      \/ "INHIBITED" \in pend_flags'[s1]
                      \/ s1 = s /\ e1 \in evs'
    BY <1>1, <1>5, Zenon DEF NotLost, Feeding, Arming
  <2>1. \/ "PENDING" \in pend_flags[s1] /\ e1 \in pend_flags[s1]
        \/ "INHIBITED" \in pend_flags[s1]
    BY <1>0, <1>1, Zenon DEF NotLost, Feeding, Arming
  <2> QED
    BY <1>3, <1>4, <2>1, Zenon
<1> QED
  BY <1>6, <1>7, <1>8, <1>9, <1>10, <1>11, <1>12, <1>13, Zenon DEF EvIInv

\* The loop takes the pending list over: the previous one is empty.
LEMMA SwapStep ==
  ASSUME EvIInv, Swap
  PROVE  EvIInv'
<1>0. EvTypeOK /\ Where /\ FlagsMatchLists /\ Inhibited /\ Fed
      /\ Armed /\ ToArm /\ NotLost /\ Notified
  BY DEF EvIInv
<1>1. /\ pc = "swap" /\ pc' = "walk" /\ prev_pend' = pend /\ pend' = prev_pend /\ walk' = pend
      /\ UNCHANGED <<ready, upcall, pend_flags, async, in_batch, active, fed, so, evs, acc, ret>>
  BY Zenon DEF Swap, armVars
<1>2. prev_pend = {} /\ pend \subseteq Sock
  BY <1>0, <1>1, Zenon DEF Where, EvTypeOK
<1>3. \A s1, e1 : Watched(s1, e1)' <=> Watched(s1, e1)
  BY <1>1, SameWatched, Zenon
<1>4. EvTypeOK'
  BY <1>0, <1>1, Zenon DEF EvTypeOK
<1>5. Where' /\ Inhibited' /\ Notified'
  BY <1>0, <1>1, <1>2, Zenon DEF Where, Inhibited, Notified
<1>6. FlagsMatchLists'
  BY <1>0, <1>1, <1>2, Zenon DEF FlagsMatchLists, Inhibited
<1>7. Fed'
  BY <1>0, <1>1, <1>2, Zenon DEF Fed, FlagsMatchLists
<1>8. Armed' /\ ToArm' /\ NotLost'
  BY <1>0, <1>1, <1>3, Zenon DEF Armed, ToArm, NotLost, Feeding, Arming
<1> QED
  BY <1>4, <1>5, <1>6, <1>7, <1>8, Zenon DEF EvIInv

\* The upcalls of a context are turned off.
LEMMA ClearUpcallsStep ==
  ASSUME EvIInv, NEW s \in Sock, ClearUpcalls(s)
  PROVE  EvIInv'
<1>0. EvTypeOK /\ Where /\ FlagsMatchLists /\ Inhibited /\ Fed
      /\ Armed /\ ToArm /\ NotLost /\ Notified
  BY DEF EvIInv
<1>1. /\ pc = "walk" /\ pc' = "feed" /\ s \in walk /\ walk' = walk \ {s} /\ so' = s
      /\ UNCHANGED <<ready, pend_flags, pend, prev_pend, async, in_batch, active, fed,
                     evs, acc, ret>>
  BY Zenon DEF ClearUpcalls, flagVars
<1>2. s \in prev_pend
  BY <1>0, <1>1, Zenon DEF Where
<1>3. \A s1 \in Sock, e1 \in Event :
        <<s1, e1>> \in upcall' <=> <<s1, e1>> \in upcall /\ ~(s1 = s /\ Watched(s, e1))
  <2>1. active \subseteq Watcher
        /\ upcall' = upcall \ {<<s, e>> : e \in {f \in Event : Num(s, f) > 0}}
    BY <1>0, Zenon DEF EvTypeOK, ClearUpcalls
  <2>2. \A e : Num(s, e) > 0 <=> Watched(s, e)
    BY <2>1, NumIs, Zenon
  <2> QED
    BY <2>1, <2>2, Zenon
<1>4. \A s1, e1 : Watched(s1, e1)' <=> Watched(s1, e1)
  BY <1>1, SameWatched, Zenon
<1>5. EvTypeOK'
  <2>1. upcall' \subseteq upcall
    BY Zenon DEF ClearUpcalls
  <2> QED
    BY <1>0, <1>1, <2>1, Zenon DEF EvTypeOK
<1>6. Where' /\ FlagsMatchLists' /\ Notified'
  BY <1>0, <1>1, <1>2, Zenon DEF Where, FlagsMatchLists, Notified
<1>7. Inhibited'
  BY <1>0, <1>1, <1>3, Zenon DEF Inhibited
<1>8. Fed'
  BY <1>0, <1>1, Zenon DEF Fed, Feeding
<1>9. Armed'
  <2> SUFFICES ASSUME NEW s1 \in Sock, NEW e1 \in Event
               PROVE  /\ <<s1, e1>> \in upcall' => Watched(s1, e1) /\ s1 # s
                      /\ Watched(s1, e1) => \/ <<s1, e1>> \in upcall'
                                            \/ "INHIBITED" \in pend_flags[s1]
                                            \/ s1 = s
    BY <1>1, <1>4, Zenon DEF Armed, Feeding, Arming
  <2>1. /\ <<s1, e1>> \in upcall => Watched(s1, e1)
        /\ Watched(s1, e1) => <<s1, e1>> \in upcall \/ "INHIBITED" \in pend_flags[s1]
    BY <1>0, <1>1, Zenon DEF Armed, Feeding, Arming
  <2> QED
    BY <1>3, <2>1, Zenon
<1>10. ToArm' /\ NotLost'
  BY <1>0, <1>1, <1>4, Zenon DEF ToArm, NotLost, Feeding, Arming
<1> QED
  BY <1>5, <1>6, <1>7, <1>8, <1>9, <1>10, Zenon DEF EvIInv

\* The watchers of a context are fed and the context is inhibited.
LEMMA FeedStep ==
  ASSUME EvIInv, Feed
  PROVE  EvIInv'
<1>0. EvTypeOK /\ Where /\ FlagsMatchLists /\ Inhibited /\ Fed
      /\ Armed /\ ToArm /\ NotLost /\ Notified
  BY DEF EvIInv
<1>1. /\ pc = "feed" /\ pc' = "walk" /\ so' = NoSock
      /\ UNCHANGED <<ready, upcall, pend, prev_pend, async, in_batch, active, walk,
                     evs, acc, ret>>
  BY DEF Feed
<1>2. so \in Sock /\ so \in prev_pend /\ so \notin walk /\ so \notin pend
  BY <1>0, <1>1, Zenon DEF Where, FlagsMatchLists
<1>3. /\ pend_flags' \in [Sock -> SUBSET Flag] /\ pend_flags'[so] = {"INHIBITED"}
      /\ \A u \in Sock : u # so => pend_flags'[u] = pend_flags[u]
  BY <1>0, <1>2, Zenon DEF EvTypeOK, Feed, Flag
<1>4. fed' \in [Watcher -> SUBSET Event]
  <2>1. fed \in [Watcher -> SUBSET Event] /\ WEvents \in [Watcher -> (SUBSET Event) \ {{}}]
    BY <1>0, WatcherAssumption, Zenon DEF EvTypeOK
  <2>2. \A w \in Watcher : fed[w] \cup (WEvents[w] \cap pend_flags[so]) \in SUBSET Event
    BY <2>1
  <2> QED
    BY <2>1, <2>2, Zenon DEF Feed
<1>5. \A s1, e1 : Watched(s1, e1)' <=> Watched(s1, e1)
  BY <1>1, SameWatched, Zenon
<1>6. \A e1 \in Event : <<so, e1>> \notin upcall
  BY <1>0, <1>1, <1>2, Zenon DEF Armed, Feeding
<1>7. EvTypeOK'
  BY <1>0, <1>1, <1>3, <1>4, Zenon DEF EvTypeOK
<1>8. Where' /\ Notified'
  BY <1>0, <1>1, Zenon DEF Where, Notified
<1>9. FlagsMatchLists'
  BY <1>0, <1>1, <1>2, <1>3, Zenon DEF FlagsMatchLists
<1>10. Inhibited'
  BY <1>0, <1>1, <1>2, <1>3, <1>6, Zenon DEF Inhibited
<1>11. Fed'
  <2>1. prev_pend \subseteq Sock
    BY <1>0 DEF EvTypeOK
  <2>2. \A s1 \in prev_pend : s1 # so => ("PENDING" \in pend_flags[s1] <=> s1 \in walk)
    BY <1>0, <1>1, Zenon DEF Fed, Feeding
  <2> QED
    BY <1>1, <1>2, <1>3, <2>1, <2>2 DEF Fed, Feeding
<1>12. Armed'
  <2> SUFFICES ASSUME NEW s1 \in Sock, NEW e1 \in Event
               PROVE  /\ <<s1, e1>> \in upcall => Watched(s1, e1)
                      /\ Watched(s1, e1) => <<s1, e1>> \in upcall \/ "INHIBITED" \in pend_flags'[s1]
    BY <1>1, <1>5, Zenon DEF Armed, Feeding, Arming
  <2>1. /\ <<s1, e1>> \in upcall => Watched(s1, e1)
        /\ Watched(s1, e1) => <<s1, e1>> \in upcall \/ "INHIBITED" \in pend_flags[s1] \/ s1 = so
    BY <1>0, <1>1, Zenon DEF Armed, Feeding, Arming
  <2> QED
    BY <1>3, <2>1, Zenon
<1>13. ToArm'
  BY <1>1 DEF ToArm, Arming
<1>14. NotLost'
  <2> SUFFICES ASSUME NEW s1 \in Sock, NEW e1 \in Event, <<s1, e1>> \in ready, Watched(s1, e1)
               PROVE  \/ "PENDING" \in pend_flags'[s1] /\ e1 \in pend_flags'[s1]
                      \/ "INHIBITED" \in pend_flags'[s1]
    BY <1>1, <1>5, Zenon DEF NotLost, Feeding, Arming
  <2>1. \/ "PENDING" \in pend_flags[s1] /\ e1 \in pend_flags[s1]
        \/ "INHIBITED" \in pend_flags[s1] \/ s1 = so
    BY <1>0, <1>1 DEF NotLost, Feeding, Arming
  <2> QED
    BY <1>3, <2>1, Zenon
<1> QED
  BY <1>7, <1>8, <1>9, <1>10, <1>11, <1>12, <1>13, <1>14, Zenon DEF EvIInv

\* A batch starts or ends.
LEMMA BatchStep ==
  ASSUME EvIInv, NEW i \in Interface, BatchStart(i) \/ BatchFinish(i)
  PROVE  EvIInv'
<1>0. EvTypeOK /\ Where /\ FlagsMatchLists /\ Inhibited /\ Fed
      /\ Armed /\ ToArm /\ NotLost /\ Notified
  BY DEF EvIInv
<1>1. \A s1, e1 : Watched(s1, e1)' <=> Watched(s1, e1)
  BY SameWatched, Zenon DEF BatchStart, BatchFinish
<1>2. EvTypeOK'
  BY <1>0, Zenon DEF BatchStart, BatchFinish, flagVars, armVars, EvTypeOK
<1>3. Where' /\ FlagsMatchLists' /\ Inhibited' /\ Notified'
  <2>1. Where'
    BY <1>0, Zenon DEF BatchStart, BatchFinish, flagVars, armVars, Where
  <2>2. FlagsMatchLists'
    BY <1>0, Zenon DEF BatchStart, BatchFinish, flagVars, armVars, FlagsMatchLists
  <2>3. Inhibited' /\ Notified'
    BY <1>0, Zenon DEF BatchStart, BatchFinish, flagVars, armVars, Inhibited, Notified
  <2> QED
    BY <2>1, <2>2, <2>3, Zenon
<1>4. Fed'
  BY <1>0, Zenon DEF BatchStart, BatchFinish, flagVars, armVars, Fed, Feeding
<1>5. Armed' /\ ToArm'
  BY <1>0, <1>1, Zenon DEF BatchStart, BatchFinish, flagVars, armVars, Armed, ToArm, Feeding, Arming
<1>6. NotLost'
  BY <1>0, <1>1 DEF BatchStart, BatchFinish, flagVars, armVars, NotLost, Feeding, Arming
<1> QED
  BY <1>2, <1>3, <1>4, <1>5, <1>6, Zenon DEF EvIInv

\* The loop goes on: nothing but its place changes, and what it was told.
LEMMA PassStep ==
  ASSUME EvIInv, ReenableDone \/ Async \/ OtherEvents \/ WalkDone
  PROVE  EvIInv'
<1>0. EvTypeOK /\ Where /\ FlagsMatchLists /\ Inhibited /\ Fed
      /\ Armed /\ ToArm /\ NotLost /\ Notified
  BY Zenon DEF EvIInv
<1>1. \A s1, e1 : Watched(s1, e1)' <=> Watched(s1, e1)
  BY SameWatched, Zenon DEF ReenableDone, Async, OtherEvents, WalkDone
<1>2. EvTypeOK'
  BY <1>0, Zenon DEF ReenableDone, Async, OtherEvents, WalkDone, flagVars, armVars, EvTypeOK
<1>3. Where' /\ FlagsMatchLists' /\ Inhibited' /\ Notified'
  <2>1. Where'
    BY <1>0, Zenon DEF ReenableDone, Async, OtherEvents, WalkDone, flagVars, armVars, Where
  <2>2. FlagsMatchLists'
    BY <1>0, Zenon DEF ReenableDone, Async, OtherEvents, WalkDone, flagVars, armVars, FlagsMatchLists
  <2>3. Inhibited' /\ Notified'
    BY <1>0, Zenon DEF ReenableDone, Async, OtherEvents, WalkDone, flagVars, armVars, Inhibited, Notified
  <2> QED
    BY <2>1, <2>2, <2>3, Zenon
<1>4. Fed'
  BY <1>0, ZenonT(60) DEF ReenableDone, Async, OtherEvents, WalkDone, flagVars, armVars, Fed, Feeding
<1>5. Armed' /\ ToArm'
  BY <1>0, <1>1, Zenon DEF ReenableDone, Async, OtherEvents, WalkDone, flagVars, armVars, Armed, ToArm, Feeding, Arming
<1>6. NotLost'
  BY <1>0, <1>1, Zenon DEF ReenableDone, Async, OtherEvents, WalkDone, flagVars, armVars, NotLost, Feeding, Arming
<1> QED
  BY <1>2, <1>3, <1>4, <1>5, <1>6, Zenon DEF EvIInv

\* A callback uses up some of what is ready.
LEMMA CallbackStep ==
  ASSUME EvIInv, NEW w \in Watcher, Callback(w)
  PROVE  EvIInv'
<1>0. EvTypeOK /\ Where /\ FlagsMatchLists /\ Inhibited /\ Fed
      /\ Armed /\ ToArm /\ NotLost /\ Notified
  BY DEF EvIInv
<1>1. \A s1, e1 : Watched(s1, e1)' <=> Watched(s1, e1)
  BY SameWatched, Zenon DEF Callback
<1>2. EvTypeOK'
  BY <1>0, Zenon DEF Callback, flagVars, armVars, EvTypeOK
<1>3. Where' /\ FlagsMatchLists' /\ Inhibited' /\ Notified'
  BY <1>0, Zenon DEF Callback, flagVars, armVars, Where, FlagsMatchLists, Inhibited,
              Notified
<1>4. Fed'
  BY <1>0, Zenon DEF Callback, flagVars, armVars, Fed, Feeding
<1>5. Armed' /\ ToArm'
  BY <1>0, <1>1, Zenon DEF Callback, flagVars, armVars, Armed, ToArm, Feeding, Arming
<1>6. NotLost'
  BY <1>0, <1>1, Zenon DEF Callback, flagVars, armVars, NotLost, Feeding, Arming
<1> QED
  BY <1>2, <1>3, <1>4, <1>5, <1>6, Zenon DEF EvIInv

\* All callbacks were run: the previous list is walked over.
LEMMA InvokeDoneStep ==
  ASSUME EvIInv, InvokeDone
  PROVE  EvIInv'
<1>0. EvTypeOK /\ Where /\ FlagsMatchLists /\ Inhibited /\ Fed
      /\ Armed /\ ToArm /\ NotLost /\ Notified
  BY DEF EvIInv
<1>1. \A s1, e1 : Watched(s1, e1)' <=> Watched(s1, e1)
  BY SameWatched, Zenon DEF InvokeDone
<1>2. EvTypeOK'
  BY <1>0, Zenon DEF InvokeDone, flagVars, armVars, EvTypeOK
<1>3. Where' /\ FlagsMatchLists' /\ Inhibited' /\ Notified'
  BY <1>0, Zenon DEF InvokeDone, flagVars, armVars, Where, FlagsMatchLists, Inhibited,
              Notified
<1>4. Fed'
  BY <1>0, Zenon DEF InvokeDone, flagVars, armVars, Fed, Feeding
<1>5. Armed' /\ ToArm'
  BY <1>0, <1>1, Zenon DEF InvokeDone, flagVars, armVars, Armed, ToArm, Feeding, Arming
<1>6. NotLost'
  BY <1>0, <1>1, Zenon DEF InvokeDone, flagVars, armVars, NotLost, Feeding, Arming
<1> QED
  BY <1>2, <1>3, <1>4, <1>5, <1>6, Zenon DEF EvIInv

\* A watcher is started: the events that had no watcher are armed, unless the
\* context is inhibited, when uinet_reenable_upcalls will.
LEMMA WatcherStartStep ==
  ASSUME EvIInv, NEW w \in Watcher, ev_uinet_start(w)
  PROVE  EvIInv'
<1>0. EvTypeOK /\ Where /\ FlagsMatchLists /\ Inhibited /\ Fed
      /\ Armed /\ ToArm /\ NotLost /\ Notified
  BY DEF EvIInv
<1> DEFINE s == WSock[w]
<1>1. /\ pc = "invoke" /\ pc' = "arm" /\ active' = active \cup {w} /\ so' = s /\ acc' = {}
      /\ ret' = "invoke"
      /\ UNCHANGED <<ready, upcall, pend_flags, pend, prev_pend, async, in_batch, fed, walk>>
  BY Zenon DEF ev_uinet_start, flagVars
<1>2. s \in Sock /\ WEvents[w] \in SUBSET Event
  BY WatcherAssumption, Zenon
<1>3. evs' = {e \in WEvents[w] : "INHIBITED" \notin pend_flags[s] /\ ~Watched(s, e)}
  <2>1. active \subseteq Watcher
        /\ evs' = {e \in WEvents[w] : "INHIBITED" \notin pend_flags[s] /\ Num(s, e) = 0}
    BY <1>0, Zenon DEF EvTypeOK, ev_uinet_start
  <2>2. \A e : Num(s, e) = 0 <=> ~Watched(s, e)
    BY <2>1, NumIs, Zenon
  <2> QED
    BY <2>1, <2>2, Zenon
<1>4. \A s1, e1 : Watched(s1, e1)' <=> Watched(s1, e1) \/ (s1 = s /\ e1 \in WEvents[w])
  BY <1>1, Zenon DEF Watched
<1> HIDE DEF s
<1>5. EvTypeOK'
  BY <1>0, <1>1, <1>2, <1>3, Zenon DEF EvTypeOK
<1>6. Where' /\ FlagsMatchLists' /\ Inhibited' /\ Notified'
  BY <1>0, <1>1, <1>2, Zenon DEF Where, FlagsMatchLists, Inhibited, Notified
<1>7. Fed'
  BY <1>0, <1>1, Zenon DEF Fed, Feeding
<1>8. Armed'
  <2> SUFFICES ASSUME NEW s1 \in Sock, NEW e1 \in Event
               PROVE  /\ <<s1, e1>> \in upcall => Watched(s1, e1)'
                      /\ Watched(s1, e1)' => \/ <<s1, e1>> \in upcall
                                             \/ "INHIBITED" \in pend_flags[s1]
                                             \/ s1 = s /\ e1 \in evs'
    BY <1>1, Zenon DEF Armed, Feeding, Arming
  <2>1. /\ <<s1, e1>> \in upcall => Watched(s1, e1)
        /\ Watched(s1, e1) => <<s1, e1>> \in upcall \/ "INHIBITED" \in pend_flags[s1]
    BY <1>0, <1>1, Zenon DEF Armed, Feeding, Arming
  <2> QED
    BY <1>3, <1>4, <2>1, Zenon
<1>9. ToArm'
  <2>1. (\A e \in evs' : Watched(s, e)') /\ ("INHIBITED" \in pend_flags[s] => evs' = {})
    BY <1>3, <1>4, Zenon
  <2> QED
    BY <1>1, <2>1, Zenon DEF ToArm, Arming
<1>10. NotLost'
  <2> SUFFICES ASSUME NEW s1 \in Sock, NEW e1 \in Event, <<s1, e1>> \in ready, Watched(s1, e1)'
               PROVE  \/ "PENDING" \in pend_flags[s1] /\ e1 \in pend_flags[s1]
                      \/ "INHIBITED" \in pend_flags[s1]
                      \/ s1 = s /\ e1 \in evs'
    BY <1>1, Zenon DEF NotLost, Feeding, Arming
  <2>1. Watched(s1, e1) => \/ "PENDING" \in pend_flags[s1] /\ e1 \in pend_flags[s1]
                           \/ "INHIBITED" \in pend_flags[s1]
    BY <1>0, <1>1, Zenon DEF NotLost, Feeding, Arming
  <2> QED
    BY <1>3, <1>4, <2>1, Zenon
<1> QED
  BY <1>5, <1>6, <1>7, <1>8, <1>9, <1>10, ZenonT(60) DEF EvIInv

\* A watcher is stopped: the upcalls of events that no other watcher waits for
\* are turned off, and a context without watchers leaves its list.
LEMMA WatcherStopStep ==
  ASSUME EvIInv, NEW w \in Watcher, ev_uinet_stop(w)
  PROVE  EvIInv'
<1>0. EvTypeOK /\ Where /\ FlagsMatchLists /\ Inhibited /\ Fed
      /\ Armed /\ ToArm /\ NotLost /\ Notified
  BY DEF EvIInv
<1> DEFINE s    == WSock[w]
           inh  == "INHIBITED" \in pend_flags[s]
           none == \A v \in active \ {w} : WSock[v] # s
<1>1. /\ pc = "invoke" /\ w \in active /\ active' = active \ {w} /\ fed' = [fed EXCEPT ![w] = {}]
      /\ UNCHANGED <<ready, async, in_batch, pc, walk, so, evs, acc, ret>>
  BY Zenon DEF ev_uinet_stop, armVars
<1>2. /\ upcall' = IF inh THEN upcall ELSE upcall \ {<<s, e>> : e \in {f \in WEvents[w] : Num(s, f) = 1}}
      /\ prev_pend' = IF none /\ inh THEN prev_pend \ {s} ELSE prev_pend
      /\ pend' = IF none /\ ~inh /\ "PENDING" \in pend_flags[s] THEN pend \ {s} ELSE pend
      /\ pend_flags' = IF none THEN [pend_flags EXCEPT ![s] = {}] ELSE pend_flags
  BY Zenon DEF ev_uinet_stop
<1>3. s \in Sock /\ WEvents[w] \in SUBSET Event /\ active \subseteq Watcher
  BY <1>0, WatcherAssumption, Zenon DEF EvTypeOK
<1>4. /\ \A s1, e1 : Watched(s1, e1)' => Watched(s1, e1)
      /\ \A s1, e1 : s1 # s => (Watched(s1, e1)' <=> Watched(s1, e1))
      /\ \A e1 : e1 \notin WEvents[w] => (Watched(s, e1)' <=> Watched(s, e1))
      /\ none => \A e1 : ~Watched(s, e1)'
  BY <1>1, Zenon DEF Watched
<1>5. \A e1 \in WEvents[w] : Num(s, e1) = 1 <=> ~Watched(s, e1)'
  <2>1. \A e1 : Watched(s, e1)' <=> \E v \in active \ {w} : WSock[v] = s /\ e1 \in WEvents[v]
    BY <1>1, Zenon DEF Watched
  <2> QED
    BY <1>1, <1>3, <2>1, NumOne, Zenon
<1>6. \A s1 \in Sock, e1 \in Event :
        <<s1, e1>> \in upcall' <=>
          <<s1, e1>> \in upcall /\ (inh \/ ~(s1 = s /\ e1 \in WEvents[w] /\ ~Watched(s, e1)'))
  BY <1>2, <1>5, Zenon
<1>7. /\ pend_flags' \in [Sock -> SUBSET Flag]
      /\ pend_flags'[s] = IF none THEN {} ELSE pend_flags[s]
      /\ \A u \in Sock : u # s => pend_flags'[u] = pend_flags[u]
  BY <1>0, <1>2, <1>3, Zenon DEF EvTypeOK
<1>8. inh => \A e1 \in Event : <<s, e1>> \notin upcall
  BY <1>0, <1>3, Zenon DEF Inhibited
<1>9. s \in prev_pend => inh
  BY <1>0, <1>1, <1>3, Zenon DEF Fed, FlagsMatchLists, Feeding
<1>10. s \in pend => "PENDING" \in pend_flags[s] /\ ~inh
  BY <1>0, <1>3, Zenon DEF FlagsMatchLists, Inhibited
<1>11. prev_pend' \subseteq prev_pend /\ pend' \subseteq pend /\ prev_pend \subseteq Sock /\ pend \subseteq Sock
       /\ (none => s \notin prev_pend' /\ s \notin pend')
       /\ \A u : u # s \/ ~none => (u \in pend' <=> u \in pend) /\ (u \in prev_pend' <=> u \in prev_pend)
  BY <1>0, <1>2, <1>9, <1>10, Zenon DEF EvTypeOK
<1>12. EvTypeOK'
  <2>1. fed' \in [Watcher -> SUBSET Event] /\ upcall' \subseteq upcall /\ active' \subseteq active
    BY <1>0, <1>1, <1>2, Zenon DEF EvTypeOK
  <2> QED
    BY <1>0, <1>1, <1>7, <1>11, <2>1, Zenon DEF EvTypeOK
<1> HIDE DEF s, inh, none
<1>13. Where' /\ Notified'
  BY <1>0, <1>1, <1>11, Zenon DEF Where, Notified
<1>14. FlagsMatchLists'
  <2> SUFFICES ASSUME NEW u \in Sock
               PROVE  /\ ~(u \in pend' /\ u \in prev_pend')
                      /\ u \in pend' => "PENDING" \in pend_flags'[u]
                      /\ u \in prev_pend' <=> \/ "INHIBITED" \in pend_flags'[u]
                                              \/ "PENDING" \in pend_flags'[u] /\ u \notin pend'
    BY Zenon DEF FlagsMatchLists
  <2>1. CASE u = s /\ none
    BY <1>7, <1>11, <2>1, Zenon
  <2>2. CASE u # s \/ ~none
    BY <1>0, <1>7, <1>11, <2>2, Zenon DEF FlagsMatchLists
  <2> QED
    BY <2>1, <2>2, Zenon
<1>15. Inhibited'
  BY <1>0, <1>6, <1>7, Zenon DEF Inhibited
<1>16. Fed'
  <2> SUFFICES ASSUME NEW u \in prev_pend'
               PROVE  "PENDING" \notin pend_flags'[u]
    BY <1>1, Zenon DEF Fed, Feeding
  <2>1. u \in prev_pend /\ u \in Sock /\ "PENDING" \notin pend_flags[u]
    BY <1>0, <1>1, <1>11, Zenon DEF Fed, Feeding
  <2> QED
    BY <1>7, <2>1, Zenon
<1>17. Armed'
  <2> SUFFICES ASSUME NEW s1 \in Sock, NEW e1 \in Event
               PROVE  /\ <<s1, e1>> \in upcall' => Watched(s1, e1)'
                      /\ Watched(s1, e1)' => \/ <<s1, e1>> \in upcall'
                                             \/ "INHIBITED" \in pend_flags'[s1]
    BY <1>1, Zenon DEF Armed, Feeding, Arming
  <2>1. /\ <<s1, e1>> \in upcall => Watched(s1, e1)
        /\ Watched(s1, e1) => <<s1, e1>> \in upcall \/ "INHIBITED" \in pend_flags[s1]
    BY <1>0, <1>1, Zenon DEF Armed, Feeding, Arming
  <2>2. CASE s1 # s
    BY <1>4, <1>6, <1>7, <2>1, <2>2, Zenon
  <2>3. CASE s1 = s
    BY <1>4, <1>6, <1>7, <1>8, <2>1, <2>3, Zenon
  <2> QED
    BY <2>2, <2>3, Zenon
<1>18. ToArm'
  BY <1>1, Zenon DEF ToArm, Arming
<1>19. NotLost'
  <2> SUFFICES ASSUME NEW s1 \in Sock, NEW e1 \in Event, <<s1, e1>> \in ready, Watched(s1, e1)'
               PROVE  \/ "PENDING" \in pend_flags'[s1] /\ e1 \in pend_flags'[s1]
                      \/ "INHIBITED" \in pend_flags'[s1]
    BY <1>1, Zenon DEF NotLost, Feeding, Arming
  <2>1. \/ "PENDING" \in pend_flags[s1] /\ e1 \in pend_flags[s1]
        \/ "INHIBITED" \in pend_flags[s1]
    BY <1>0, <1>1, <1>4, Zenon DEF NotLost, Feeding, Arming
  <2> QED
    BY <1>4, <1>7, <2>1, Zenon
<1> QED
  BY <1>12, <1>13, <1>14, <1>15, <1>16, <1>17, <1>18, <1>19, Zenon DEF EvIInv

-----------------------------------------------------------------------------
\* Every step of the loop and of the stack's threads keeps the invariant.
LEMMA EvNextStep == EvIInv /\ [EvNext]_evVars => EvIInv'
<1> SUFFICES ASSUME EvIInv, [EvNext]_evVars PROVE EvIInv'
  OBVIOUS
<1>1. CASE Loop
  <2>1. CASE ArmSet \/ ArmCheck \/ ArmPost
    BY <2>1, ArmSetStep, ArmCheckStep, ArmPostStep, Zenon
  <2>2. ASSUME NEW s \in Sock, Reenable(s) \/ ClearUpcalls(s) PROVE EvIInv'
    BY <2>2, ReenableStep, ClearUpcallsStep, Zenon
  <2>3. CASE ReenableDone \/ Async \/ WalkDone
    BY <2>3, PassStep, Zenon
  <2>4. CASE Swap \/ Feed
    BY <2>4, SwapStep, FeedStep, Zenon
  <2>5. ASSUME NEW w \in Watcher, Callback(w) PROVE EvIInv'
    BY <2>5, CallbackStep
  <2>6. CASE InvokeDone
    BY <2>6, InvokeDoneStep
  <2> QED
    BY <1>1, <2>1, <2>2, <2>3, <2>4, <2>5, <2>6, Zenon DEF Loop
<1>2. CASE OtherEvents
  BY <1>2, PassStep, Zenon
<1>3. ASSUME NEW s \in Sock, NEW e \in Event, Upcall(s, e) PROVE EvIInv'
  BY <1>3, UpcallStep, Zenon
<1>4. ASSUME NEW i \in Interface, BatchStart(i) \/ BatchFinish(i) PROVE EvIInv'
  BY <1>4, BatchStep, Zenon
<1>5. ASSUME NEW w \in Watcher, ev_uinet_start(w) \/ ev_uinet_stop(w) PROVE EvIInv'
  BY <1>5, WatcherStartStep, WatcherStopStep
<1>6. CASE UNCHANGED evVars
  <2>0. EvTypeOK /\ Where /\ FlagsMatchLists /\ Inhibited /\ Fed
        /\ Armed /\ ToArm /\ NotLost /\ Notified
    BY Zenon DEF EvIInv
  <2>1. UNCHANGED <<ready, upcall, pend_flags, pend, prev_pend, async, in_batch, active, fed, pc,
                    walk, so, evs, acc, ret>>
    BY <1>6, Zenon DEF evVars, flagVars, armVars
  <2>2. \A s1, e1 : Watched(s1, e1)' <=> Watched(s1, e1)
    BY <2>1, SameWatched, Zenon
  <2>3. EvTypeOK'
    BY <2>0, <2>1, Zenon DEF EvTypeOK
  <2>4. Where' /\ FlagsMatchLists' /\ Inhibited' /\ Notified'
    BY <2>0, <2>1, Zenon DEF Where, FlagsMatchLists, Inhibited, Notified
  <2>5. Fed'
    BY <2>0, <2>1, Zenon DEF Fed, Feeding
  <2>6. Armed' /\ ToArm'
    BY <2>0, <2>1, <2>2, Zenon DEF Armed, ToArm, Feeding, Arming
  <2>7. NotLost'
    BY <2>0, <2>1, <2>2, Zenon DEF NotLost, Feeding, Arming
  <2> QED
    BY <2>3, <2>4, <2>5, <2>6, <2>7, Zenon DEF EvIInv
<1> QED
  BY <1>1, <1>2, <1>3, <1>4, <1>5, <1>6, Zenon DEF EvNext

\* What the invariant says of the loop when it waits.
LEMMA EvIInvSuffices == EvIInv => EvInv /\ NothingForgotten
<1> SUFFICES ASSUME EvIInv PROVE EvInv /\ NothingForgotten
  OBVIOUS
<1>0. EvTypeOK /\ Where /\ FlagsMatchLists /\ Inhibited /\ NotLost /\ Notified
  BY Zenon DEF EvIInv
<1>1. PrevPendEmpty
  BY <1>0, Zenon DEF Where, PrevPendEmpty
<1>2. NothingForgotten
  <2> SUFFICES ASSUME pc = "poll"
               PROVE  /\ \A s \in Sock, e \in Event :
                           <<s, e>> \in ready /\ Num(s, e) > 0 => s \in pend /\ e \in pend_flags[s]
                      /\ pend # {} => async \/ in_batch # {}
    BY Zenon DEF NothingForgotten
  <2>1. prev_pend = {}
    BY <1>0, Zenon DEF Where
  <2>2. \A s \in Sock : "INHIBITED" \notin pend_flags[s] /\ ("PENDING" \in pend_flags[s] => s \in pend)
    BY <1>0, <2>1, Zenon DEF FlagsMatchLists
  <2>3. \A s \in Sock, e \in Event :
          <<s, e>> \in ready /\ Watched(s, e) => s \in pend /\ e \in pend_flags[s]
    BY <1>0, <2>2, Zenon DEF NotLost, Feeding, Arming
  <2>4. \A s, e : Num(s, e) > 0 <=> Watched(s, e)
    BY <1>0, NumIs, Zenon DEF EvTypeOK
  <2>5. pend # {} => async \/ in_batch # {}
    BY <1>0 DEF Notified
  <2> QED
    BY <2>3, <2>4, <2>5, Zenon
<1> QED
  BY <1>0, <1>1, <1>2, Zenon DEF EvInv

\* For any watchers, sockets and interfaces, the flags of every socket agree
\* with the two lists, the assertion of uinet_process_pending_list never
\* fails, and an inhibited socket has no upcall.
THEOREM EvInvariant == EvSpec => []EvInv
<1>1. EvIInv => EvInv
  BY EvIInvSuffices, Zenon
<1> QED
  BY <1>1, EvInitHolds, EvNextStep, PTL DEF EvSpec

\* For any watchers, sockets and interfaces, however upcalls, batches and
\* callbacks interleave: when the loop waits, what is ready and watched is
\* pending and the loop will be told (uinet_reenable_upcalls, ev_uinet_start).
THEOREM NothingEverForgotten == EvSpec => []NothingForgotten
<1>1. EvIInv => NothingForgotten
  BY EvIInvSuffices
<1> QED
  BY <1>1, EvInitHolds, EvNextStep, PTL DEF EvSpec
=============================================================================
