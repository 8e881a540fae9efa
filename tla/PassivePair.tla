------------------------------ MODULE PassivePair ------------------------------
(***************************************************************************)
(* The two sockets of a passively reassembled connection: the server half  *)
(* S, which waits on the listening socket's completed queue, and the       *)
(* client half C, which uinet_sogetpassivepeer() hands out.  They are      *)
(* linked for life through so_passive_peer and are freed together.  The    *)
(* module follows their references (so_count, SS_NOFDREF, SS_PROTOREF,     *)
(* SQ_COMP), the locks they are changed under, the TCP state as far as it  *)
(* decides when TCP lets go of a socket, and the conversion of one half    *)
(* into an active connection by the first send on it.                      *)
(*                                                                         *)
(* Threads: applications, the receive thread "net" and the callout thread  *)
(* "clock".  A step is what a thread does between two lock waits.  Initial *)
(* state: syncache_expand() has created the pair and tcp_do_segment() has  *)
(* brought both halves to ESTABLISHED.                                     *)
(***************************************************************************)
EXTENDS Naturals, FiniteSets, Sequences

CONSTANT Apps            \* application threads

ASSUME AppsAssumption == {"net", "clock", "none"} \cap Apps = {}

VARIABLES
  so,        \* the two struct sockets
  tcb,       \* their inpcbs and tcpcbs
  lock,      \* owner of each lock: tcbinfo, the accept lock, inpcbs, sockets
  th,        \* what each thread is in the middle of
  open,      \* the sockets the application holds
  listening, \* is the listening socket open?
  panicked   \* in_passive_convert_to_active() followed a null tcpcb

vars == <<so, tcb, lock, th, open, listening, panicked>>

Sock == {"S", "C"}
Peer(x) == IF x = "S" THEN "C" ELSE "S"
Threads == Apps \cup {"net", "clock"}
INFO == <<"tcbinfo">>
ACCEPT == <<"accept">>
INP(x) == <<"inp", x>>
SOCK(x) == <<"sock", x>>
SockLocks == {SOCK(x) : x \in Sock}
InpLocks == {INP(x) : x \in Sock}
Locks == {INFO, ACCEPT} \cup InpLocks \cup SockLocks

TcpState == {"ESTABLISHED", "CLOSE_WAIT", "FIN_WAIT_1", "CLOSING", "LAST_ACK",
             "FIN_WAIT_2", "TIME_WAIT", "CLOSED"}

Idle == [pc |-> "idle", so |-> "S", via |-> "none", ret |-> "idle"]

Init ==
  /\ so = [x \in Sock |->
             [count |-> 0, state |-> {"NOFDREF"}, comp |-> x = "S",
              options |-> {"PASSIVE"}, conn |-> "connected",
              cantrcv |-> FALSE, mem |-> "live"]]
  /\ tcb = [x \in Sock |->
             [state |-> "ESTABLISHED", flags |-> {}, passive |-> TRUE,
              ppcb |-> "tp", inp |-> "attached"]]
  /\ lock = [l \in Locks |-> "none"]
  /\ th = [t \in Threads |-> Idle]
  /\ open = {}
  /\ listening = TRUE
  /\ panicked = FALSE

-----------------------------------------------------------------------------
(* Locks and references *)

\* The tcbinfo and inpcb locks are recursive (rwlocks are recursive mutexes).
FreeLock(l, t) == lock[l] \in {"none", t}

TakeAll(ls, t) == [l \in Locks |-> IF l \in ls THEN t ELSE lock[l]]
Release(lk, ls) == [l \in Locks |-> IF l \in ls THEN "none" ELSE lk[l]]

\* The pair in the order in which its locks are taken: the client half second.
\* SO_PASSIVECLNT is looked for in so_options.
in_passive_ordered_socks(x) ==
  IF "PASSIVECLNT" \in so[x].options THEN <<Peer(x), x>> ELSE <<x, Peer(x)>>

sohasrefs(s) ==
  \/ "NOFDREF" \notin s.state
  \/ s.count # 0
  \/ "PROTOREF" \in s.state
  \/ s.comp

\* Mutant: INP_SOCKREF survives the drop.
DroppedWithRef(c) ==
  [c EXCEPT !.flags = (@ \cup {"DROPPED"}) \ {"2MSL"}, !.state = "CLOSED"]

\* in_pcbdrop(), and the end of TCP's reference to the socket.
Dropped(c) == [c EXCEPT !.flags = (@ \cup {"DROPPED"}) \ {"SOCKREF", "2MSL"}, !.state = "CLOSED"]
Disconnected(s) == [s EXCEPT !.conn = "disconnected", !.cantrcv = TRUE]

Gone(x) == tcb[x].flags \cap {"TIMEWAIT", "DROPPED"} # {}

\* tcp_usrclosed(): the state after the user's close.  A passive half that has
\* seen the FIN does not wait for an acknowledgement; in FIN_WAIT_2 the 2MSL
\* timer is started.
tcp_usrclosed(c) ==
  CASE c.state = "ESTABLISHED" -> [c EXCEPT !.state = "FIN_WAIT_1"]
    [] c.state = "CLOSE_WAIT" /\ c.passive -> Dropped(c)
    [] c.state = "CLOSE_WAIT" /\ ~c.passive -> [c EXCEPT !.state = "LAST_ACK"]
    [] c.state = "FIN_WAIT_2" -> [c EXCEPT !.flags = @ \cup {"2MSL"}]
    [] OTHER -> c

\* ... and what it does to the socket.
Usrclosed(s, c) ==
  IF tcp_usrclosed(c).state \in {"CLOSED", "FIN_WAIT_2"} THEN Disconnected(s) ELSE s

soisdisconnecting(s) == [s EXCEPT !.conn = "disconnecting", !.cantrcv = TRUE]

-----------------------------------------------------------------------------
(* Letting go of a reference.  soclose(), soabort(), tcp_close() and         *)
(* tcp_twclose() all end the same way: accept lock, the two socket locks,    *)
(* give the reference up, sofree().                                          *)

GoTo(t, pc, x, via, ret) ==
  th' = [th EXCEPT ![t] = [pc |-> pc, so |-> x, via |-> via, ret |-> ret]]

\* Back to the caller.  tcp_usr_send() and uinet_soaccept() go on with the half
\* that is not the one given up.
Return(t) ==
  IF th[t].ret \in {"sendout", "closeS"} THEN GoTo(t, th[t].ret, Peer(th[t].so), "none", "idle")
  ELSE th' = [th EXCEPT ![t] = IF @.ret = "idle" THEN Idle ELSE [@ EXCEPT !.pc = th[t].ret, !.ret = "idle"]]

AcceptLock(t) ==
  /\ th[t].pc = "accept"
  /\ FreeLock(ACCEPT, t)
  /\ lock' = TakeAll({ACCEPT}, t)
  /\ th' = [th EXCEPT ![t].pc = "sock1"]
  /\ UNCHANGED <<so, tcb, open, listening, panicked>>

SockLock1(t) ==
  LET first == in_passive_ordered_socks(th[t].so)[1] IN
  /\ th[t].pc \in {"sock1", "convert1"}
  /\ FreeLock(SOCK(first), "none")
  /\ lock' = TakeAll({SOCK(first)}, t)
  /\ th' = [th EXCEPT ![t].pc = IF @ = "sock1" THEN "sock2" ELSE "convert2"]
  /\ UNCHANGED <<so, tcb, open, listening, panicked>>

\* What the caller gives up before it calls sofree().
Unreferenced(s, via) ==
  CASE via = "close" -> [s EXCEPT !.state = @ \cup {"NOFDREF"}, !.count = @ - 1]
    [] via = "proto" -> [s EXCEPT !.state = @ \ {"PROTOREF"}]
    [] via = "abort" -> s

\* Mutant: the other half's references are not looked at.
sofree_keeps_own(s, p) == sohasrefs(s)

\* sofree(): dispose of the pair only if neither half has a reference.
sofree_keeps(s, p) == sohasrefs(s) \/ sohasrefs(p)

SockLock2(t) ==
  LET x == th[t].so
      second == in_passive_ordered_socks(x)[2]
      s == Unreferenced(so[x], th[t].via)
      keep == (th[t].via = "close" /\ s.count # 0) \/ sofree_keeps(s, so[Peer(x)])
  IN
  /\ th[t].pc = "sock2"
  /\ FreeLock(SOCK(second), "none")
  /\ lock' = Release(lock, SockLocks \cup {ACCEPT})
  /\ IF keep
     THEN so' = [so EXCEPT ![x] = s] /\ Return(t)
     ELSE /\ so' = [y \in Sock |-> [(IF y = x THEN s ELSE so[y]) EXCEPT !.mem = "doomed"]]
          /\ th' = [th EXCEPT ![t].pc = "dispose1"]
  /\ UNCHANGED <<tcb, open, listening, panicked>>

\* tcp_detach(): a half in time wait leaves its inpcb behind; the case of a
\* connection that is not over ("persists") is the one whose comment asks
\* whether it still occurs.
tcp_detach(c) ==
  [c EXCEPT !.inp =
     CASE "TIMEWAIT" \in c.flags /\ "DROPPED" \notin c.flags -> "detached"
       [] "DROPPED" \in c.flags -> "freed"
       [] OTHER -> "persists"]

\* sofree_dispose() on the socket and then on its peer; the tcbinfo lock is
\* recursive, so a caller that holds it already goes ahead.
Dispose(t) ==
  LET x == IF th[t].pc = "dispose1" THEN th[t].so ELSE Peer(th[t].so) IN
  /\ th[t].pc \in {"dispose1", "dispose2"}
  /\ FreeLock(INFO, t) /\ FreeLock(INP(x), t)
  /\ tcb' = [tcb EXCEPT ![x] = tcp_detach(@)]
  /\ so' = [so EXCEPT ![x].mem = "free"]
  /\ IF th[t].pc = "dispose1"
     THEN th' = [th EXCEPT ![t].pc = "dispose2"]
     ELSE Return(t)
  /\ UNCHANGED <<lock, open, listening, panicked>>

-----------------------------------------------------------------------------
(* The application: uinet_soaccept, uinet_soclose, uinet_soshutdown, a send, *)
(* and the close of the listening socket.  One thread at a time works on a   *)
(* socket, and none after it is closed.                                      *)

Busy(x) ==
  \E t \in Apps : th[t].pc # "idle" /\ x = IF th[t].ret = "sendout" THEN Peer(th[t].so) ELSE th[t].so

\* uinet_soaccept() up to its ACCEPT_UNLOCK: a reference for each half.  The
\* client mark goes into so_state, a short, which has no such bit.
uinet_soaccept(t) ==
  /\ th[t].pc = "idle" /\ listening
  /\ so["S"].comp
  /\ \A l \in {ACCEPT} \cup SockLocks : FreeLock(l, t)
  /\ so' = [so EXCEPT !["S"].count = @ + 1, !["S"].comp = FALSE,
                      !["C"].count = IF "PASSIVE" \in so["S"].options THEN @ + 1 ELSE @]
  /\ GoTo(t, "soaccept", "S", "none", "idle")
  /\ UNCHANGED <<tcb, lock, open, listening, panicked>>

\* soaccept() and tcp_usr_accept(); after an error both halves are closed, the
\* client half first.
soaccept(t) ==
  /\ th[t].pc = "soaccept"
  /\ \A l \in {INFO, INP("S"), SOCK("S")} : FreeLock(l, t)
  /\ so' = [so EXCEPT !["S"].state = @ \ {"NOFDREF"}]
  /\ IF Gone("S") \/ so["S"].conn = "disconnected"
     THEN GoTo(t, "disconnect", "C", "close", "closeS") /\ UNCHANGED open
     ELSE open' = Sock /\ GoTo(t, "idle", "S", "none", "idle")
  /\ UNCHANGED <<tcb, lock, listening, panicked>>

SocloseBegin(t) ==
  /\ th[t].pc = "idle"
  /\ \E x \in open : /\ ~Busy(x)
                     /\ open' = open \ {x}
                     /\ GoTo(t, "disconnect", x, "close", "idle")
  /\ UNCHANGED <<so, tcb, lock, listening, panicked>>

SocloseAgain(t) ==
  /\ th[t].pc = "closeS"
  /\ GoTo(t, "disconnect", "S", "close", "idle")
  /\ UNCHANGED <<so, tcb, lock, open, listening, panicked>>

\* soclose(): sodisconnect(), that is tcp_disconnect(), if the socket is connected.
SocloseDisconnect(t) ==
  LET x == th[t].so IN
  /\ th[t].pc = "disconnect"
  /\ FreeLock(INFO, t) /\ FreeLock(INP(x), t)
  /\ FreeLock(SOCK(x), "none")
  /\ IF so[x].conn = "connected" /\ ~Gone(x)
     THEN /\ tcb' = [tcb EXCEPT ![x] = tcp_usrclosed(@)]
          /\ so' = [so EXCEPT ![x] = Usrclosed(soisdisconnecting(@), tcb[x])]
     ELSE UNCHANGED <<so, tcb>>
  /\ th' = [th EXCEPT ![t].pc = "pru_close"]
  /\ UNCHANGED <<lock, open, listening, panicked>>

\* Mutant: the reference is taken for a dropped connection, too.
ProtorefAlways(x, s, c) ==
  /\ so' = [so EXCEPT ![x] = [s EXCEPT !.state = @ \cup {"PROTOREF"}]]
  /\ tcb' = [tcb EXCEPT ![x] = [c EXCEPT !.flags = @ \cup {"SOCKREF"}]]

\* SS_PROTOREF and INP_SOCKREF: the socket outlives its user while the
\* connection does.
Protoref(x, s, c) ==
  IF "DROPPED" \in c.flags
  THEN so' = [so EXCEPT ![x] = s] /\ tcb' = [tcb EXCEPT ![x] = c]
  ELSE /\ so' = [so EXCEPT ![x] = [s EXCEPT !.state = @ \cup {"PROTOREF"}]]
       /\ tcb' = [tcb EXCEPT ![x] = [c EXCEPT !.flags = @ \cup {"SOCKREF"}]]

\* tcp_usr_close(), called by soclose(): disconnect, then leave the socket to TCP.
tcp_usr_close(t) ==
  LET x == th[t].so
      c == IF Gone(x) THEN tcb[x] ELSE tcp_usrclosed(tcb[x])
      s == IF Gone(x) THEN so[x] ELSE Usrclosed(soisdisconnecting(so[x]), tcb[x])
  IN
  /\ th[t].pc = "pru_close"
  /\ FreeLock(INFO, t) /\ FreeLock(INP(x), t)
  /\ FreeLock(SOCK(x), "none")
  /\ Protoref(x, s, c)
  /\ th' = [th EXCEPT ![t].pc = "accept"]
  /\ UNCHANGED <<lock, open, listening, panicked>>

\* soshutdown(): the receiving side through sorflush(), the sending side
\* through tcp_usr_shutdown().
soshutdown(t) ==
  /\ th[t].pc = "idle"
  /\ \E x \in open :
       /\ ~Busy(x) /\ FreeLock(SOCK(x), "none")
       /\ \/ so' = [so EXCEPT ![x].cantrcv = TRUE] /\ UNCHANGED tcb
          \/ /\ ~Gone(x)
             /\ FreeLock(INFO, t) /\ FreeLock(INP(x), t)
             /\ tcb' = [tcb EXCEPT ![x] = tcp_usrclosed(@)]
             /\ so' = [so EXCEPT ![x] = Usrclosed(@, tcb[x])]
  /\ UNCHANGED <<lock, th, open, listening, panicked>>

\* soclose() of the listening socket takes the pair off the completed queue
\* and aborts it: soabort().
ListenerClose(t) ==
  /\ th[t].pc = "idle" /\ listening
  /\ FreeLock(ACCEPT, "none")
  /\ listening' = FALSE
  /\ so' = [so EXCEPT !["S"].comp = FALSE]
  /\ IF so["S"].comp THEN GoTo(t, "abort1", "S", "abort", "idle") ELSE UNCHANGED th
  /\ UNCHANGED <<tcb, lock, open, panicked>>

\* tcp_usr_abort() for the socket and then for a peer without references.
Soabort(t) ==
  LET x == IF th[t].pc = "abort1" THEN th[t].so ELSE Peer(th[t].so)
      c == IF Gone(x) THEN tcb[x] ELSE Dropped(tcb[x])
  IN
  /\ th[t].pc \in {"abort1", "abort2"}
  /\ FreeLock(INFO, t) /\ FreeLock(INP(x), t)
  /\ FreeLock(SOCK(x), "none")
  /\ IF th[t].pc = "abort2" /\ sohasrefs(so[x])
     THEN UNCHANGED <<so, tcb>>
     ELSE Protoref(x, IF Gone(x) THEN so[x] ELSE Disconnected(so[x]), c)
  /\ th' = [th EXCEPT ![t].pc = IF @ = "abort1" THEN "abort2" ELSE "accept"]
  /\ UNCHANGED <<lock, open, listening, panicked>>

-----------------------------------------------------------------------------
(* tcp_usr_send() on a passive half: the half becomes an active connection.  *)

\* sosend() lets a socket through that is connected and not shut for sending;
\* tcp_usr_send() reads INP_PASSIVE before it holds any lock.
SendBegin(t) ==
  /\ th[t].pc = "idle"
  /\ \E x \in open : /\ ~Busy(x)
                     /\ tcb[x].state \in {"ESTABLISHED", "CLOSE_WAIT"}
                     /\ tcb[x].passive
                     /\ GoTo(t, "send", x, "none", "idle")
  /\ UNCHANGED <<so, tcb, lock, open, listening, panicked>>

\* The way out: both inpcb locks if the half is (still) passive, else its own.
SendOut(lk, x, passive) ==
  Release(lk, {INFO, INP(x)} \cup (IF passive THEN {INP(Peer(x))} ELSE {}))

SendLocked(t) ==
  LET x == th[t].so IN
  /\ th[t].pc = "send"
  /\ FreeLock(INFO, t) /\ \A y \in Sock : FreeLock(INP(y), t)
  /\ LET held == TakeAll({INFO} \cup InpLocks, t) IN
     IF Gone(x) \/ ~tcb[x].passive
     THEN /\ lock' = SendOut(held, x, tcb[x].passive)
          /\ th' = [th EXCEPT ![t] = Idle]
          /\ UNCHANGED tcb
     ELSE /\ lock' = held
          /\ tcb' = [y \in Sock |-> [tcb[y] EXCEPT !.passive = FALSE]]
          /\ th' = [th EXCEPT ![t].pc = "convert1"]
  /\ UNCHANGED <<so, open, listening, panicked>>

\* in_passive_convert_to_active() from the second socket lock on: clear
\* SO_PASSIVE, take the send state over from the peer's tcpcb, drop the peer.
Convert(t) ==
  LET x == th[t].so
      p == Peer(x)
      notref == "SOCKREF" \notin tcb[p].flags
  IN
  /\ th[t].pc = "convert2"
  /\ FreeLock(SOCK(in_passive_ordered_socks(x)[2]), "none")
  /\ IF tcb[p].ppcb = "null"
     THEN /\ panicked' = TRUE
          /\ so' = [y \in Sock |-> [so[y] EXCEPT !.options = @ \ {"PASSIVE", "PASSIVECLNT"}]]
          /\ lock' = Release(lock, SockLocks)
          /\ UNCHANGED <<tcb, th>>
     ELSE /\ tcb' = [tcb EXCEPT ![p] = Dropped(@)]
          /\ so' = [y \in Sock |->
               LET s == [so[y] EXCEPT !.options = @ \ {"PASSIVE", "PASSIVECLNT"}]
               IN IF y = p THEN Disconnected(s) ELSE s]
          /\ lock' = Release(lock, SockLocks \cup {INP(p)})
          /\ IF notref THEN GoTo(t, "sendout", x, "none", "idle")
             ELSE GoTo(t, "accept", p, "proto", "sendout")
          /\ UNCHANGED panicked
  /\ UNCHANGED <<open, listening>>

SendReturn(t) ==
  LET x == th[t].so IN
  /\ th[t].pc = "sendout"
  /\ lock' = SendOut(lock, x, tcb[x].passive)
  /\ th' = [th EXCEPT ![t] = Idle]
  /\ UNCHANGED <<so, tcb, open, listening, panicked>>

-----------------------------------------------------------------------------
(* The receive thread and the timers, with tcbinfo and the inpcb locked.  A  *)
(* segment finds an inpcb only while it is in the hash, that is not dropped. *)

InputReady(t, x) ==
  /\ th[t].pc = "idle" /\ ~panicked
  /\ tcb[x].inp = "attached" /\ "DROPPED" \notin tcb[x].flags
  /\ \A l \in {INFO, INP(x), SOCK(x)} : FreeLock(l, t)

\* tcp_close() and what follows it: without INP_SOCKREF the caller goes on
\* with the tcpcb; with it the socket reference is released, tcbinfo held, and
\* the caller gets NULL.
CloseAs(t, x, c, s, ret) ==
  /\ tcb' = [tcb EXCEPT ![x] = c]
  /\ so' = [so EXCEPT ![x] = s]
  /\ IF "SOCKREF" \in tcb[x].flags
     THEN lock' = TakeAll({INFO}, t) /\ GoTo(t, "accept", x, "proto", ret)
     ELSE UNCHANGED <<lock, th>>
  /\ UNCHANGED <<open, listening, panicked>>

tcp_close(t, x, ret) == CloseAs(t, x, Dropped(tcb[x]), Disconnected(so[x]), ret)

\* tcp_twstart(): a passive half goes through tcp_twclose() at once and is left
\* without a control block; without memory for a tcptw the half is closed.
tcp_twstart(t, x) ==
  \/ CloseAs(t, x,
       IF tcb[x].passive
       THEN [Dropped(tcb[x]) EXCEPT !.flags = @ \cup {"TIMEWAIT"}, !.ppcb = "null"]
       ELSE [tcb[x] EXCEPT !.flags = (@ \cup {"TIMEWAIT"}) \ {"SOCKREF", "2MSL"},
                           !.state = "TIME_WAIT", !.ppcb = "tw"],
       Disconnected(so[x]), "unlock")
  \/ tcp_close(t, x, "unlock")

\* A reset, or a SYN inside the window.
InputRst(t, x) ==
  /\ InputReady(t, x)
  /\ tcb[x].state # "TIME_WAIT"
  /\ tcp_close(t, x, "unlock")

InputFin(t, x) ==
  /\ InputReady(t, x)
  /\ \/ /\ tcb[x].state \in {"ESTABLISHED", "FIN_WAIT_1"}
        /\ tcb' = [tcb EXCEPT ![x].state =
                     IF @ = "ESTABLISHED" THEN "CLOSE_WAIT" ELSE "CLOSING"]
        /\ so' = [so EXCEPT ![x].cantrcv = TRUE]
        /\ UNCHANGED <<lock, th, open, listening, panicked>>
     \/ tcb[x].state = "FIN_WAIT_2" /\ tcp_twstart(t, x)

\* An acknowledgement that covers the FIN; of a passive half, which sends
\* nothing, any acknowledgement of new data counts as one.
InputAck(t, x) ==
  /\ InputReady(t, x)
  /\ \/ /\ tcb[x].state = "FIN_WAIT_1"
        /\ tcb' = [tcb EXCEPT ![x].state = "FIN_WAIT_2",
                              ![x].flags = IF so[x].cantrcv THEN @ \cup {"2MSL"} ELSE @]
        /\ so' = [so EXCEPT ![x] = IF @.cantrcv THEN Disconnected(@) ELSE @]
        /\ UNCHANGED <<lock, th, open, listening, panicked>>
     \/ tcb[x].state = "CLOSING" /\ tcp_twstart(t, x)
     \/ tcb[x].state = "LAST_ACK" /\ tcp_close(t, x, "unlock")

\* Data for a closed socket: tcp_close(), then dropwithreset.
InputLateData(t, x) ==
  /\ InputReady(t, x)
  /\ "NOFDREF" \in so[x].state
  /\ tcb[x].state \in {"FIN_WAIT_1", "CLOSING", "LAST_ACK", "FIN_WAIT_2"}
  /\ tcp_close(t, x, "dropwithreset")

\* dropwithreset with no tcpcb left reads so->so_options; then tcbinfo, which
\* it has released before, is free.
DropWithReset(t) ==
  /\ th[t].pc = "dropwithreset"
  /\ lock' = Release(lock, {INFO})
  /\ th' = [th EXCEPT ![t] = Idle]
  /\ UNCHANGED <<so, tcb, open, listening, panicked>>

Unlock(t) ==
  /\ th[t].pc = "unlock"
  /\ lock' = Release(lock, {INFO})
  /\ th' = [th EXCEPT ![t] = Idle]
  /\ UNCHANGED <<so, tcb, open, listening, panicked>>

\* tcp_timer_keep() drops an idle connection up to CLOSING, tcp_timer_2msl()
\* one in FIN_WAIT_2 for which it runs, tcp_timer_rexmt() an active one whose
\* data or FIN stays unacknowledged.
TimerDrop(t, x) ==
  /\ InputReady(t, x)
  /\ \/ tcb[x].state \in {"ESTABLISHED", "CLOSE_WAIT", "FIN_WAIT_1", "CLOSING"}
     \/ tcb[x].state = "FIN_WAIT_2" /\ "2MSL" \in tcb[x].flags
     \/ tcb[x].state = "LAST_ACK" /\ ~tcb[x].passive
  /\ tcp_close(t, x, "unlock")

\* tcp_tw_2msl_scan() ends the time wait of an active half: tcp_twclose().
TwClose(t, x) ==
  /\ th[t].pc = "idle" /\ ~panicked
  /\ tcb[x].state = "TIME_WAIT" /\ tcb[x].inp \in {"attached", "detached"}
  /\ \A l \in {INFO, INP(x)} : FreeLock(l, t)
  /\ IF tcb[x].inp = "detached"
     THEN /\ tcb' = [tcb EXCEPT ![x] = [Dropped(@) EXCEPT !.ppcb = "null", !.inp = "freed"]]
          /\ UNCHANGED <<so, lock, th, open, listening, panicked>>
     ELSE CloseAs(t, x, [Dropped(tcb[x]) EXCEPT !.ppcb = "null"], so[x], "unlock")

-----------------------------------------------------------------------------

\* The steps of a call that is under way.
Step(t) ==
  /\ ~panicked
  /\ \/ AcceptLock(t) \/ SockLock1(t) \/ SockLock2(t) \/ Dispose(t)
     \/ soaccept(t) \/ SocloseAgain(t) \/ SocloseDisconnect(t) \/ tcp_usr_close(t)
     \/ Soabort(t) \/ SendLocked(t) \/ Convert(t) \/ SendReturn(t)
     \/ DropWithReset(t) \/ Unlock(t)

\* What an application may call next.
Call(t) ==
  /\ ~panicked
  /\ \/ uinet_soaccept(t) \/ SocloseBegin(t) \/ soshutdown(t)
     \/ ListenerClose(t) \/ SendBegin(t)

Input(x) ==
  InputRst("net", x) \/ InputFin("net", x) \/ InputAck("net", x) \/ InputLateData("net", x)

Timers(x) == TimerDrop("clock", x) \/ TwClose("clock", x)

Next ==
  \/ \E t \in Threads : Step(t)
  \/ \E t \in Apps : Call(t)
  \/ \E x \in Sock : Input(x) \/ Timers(x)

\* Every thread is scheduled; an idle connection's timers fire.
Fairness ==
  /\ \A t \in Threads : WF_vars(Step(t))
  /\ \A x \in Sock : WF_vars(Timers(x))

Spec == Init /\ [][Next]_vars /\ Fairness

-----------------------------------------------------------------------------
(* Properties *)

Pc == {"idle", "accept", "sock1", "sock2", "dispose1", "dispose2", "soaccept", "disconnect",
       "pru_close", "closeS", "abort1", "abort2", "send", "convert1", "convert2", "sendout",
       "unlock", "dropwithreset"}

Socket == [count : 0 .. 1, state : SUBSET {"NOFDREF", "PROTOREF"}, comp : BOOLEAN,
           options : SUBSET {"PASSIVE", "PASSIVECLNT"},
           conn : {"connected", "disconnecting", "disconnected"},
           cantrcv : BOOLEAN, mem : {"live", "doomed", "free"}]

Tcb == [state : TcpState, flags : SUBSET {"TIMEWAIT", "DROPPED", "SOCKREF", "2MSL"},
        passive : BOOLEAN, ppcb : {"tp", "tw", "null"},
        inp : {"attached", "detached", "freed", "persists"}]

Via == {"none", "close", "proto", "abort"}
Ret == {"idle", "closeS", "sendout", "unlock", "dropwithreset"}

TypeOK ==
  /\ so \in [Sock -> Socket] /\ tcb \in [Sock -> Tcb]
  /\ th \in [Threads -> [pc : Pc, so : Sock, via : Via, ret : Ret]]
  /\ lock \in [Locks -> Threads \cup {"none"}]
  /\ open \subseteq Sock /\ listening \in BOOLEAN /\ panicked \in BOOLEAN

InTail(t, x) == th[t].pc \in {"accept", "sock1", "sock2"} /\ th[t].so = x

\* sofree() disposes of both halves or of none: outside its two disposal steps
\* the halves are both there or both gone.
FreedTogether ==
  (\A t \in Threads : th[t].pc \notin {"dispose1", "dispose2"})
    => /\ so["S"].mem = so["C"].mem
       /\ so["S"].mem # "doomed"

\* TCP's reference and the socket's agree, as the KASSERTs of tcp_close(),
\* tcp_twstart() and tcp_twclose() want: INP_SOCKREF only with SS_PROTOREF, and
\* SS_PROTOREF without it only in a thread that is about to clear it.
ReferencesAgree ==
  \A x \in Sock :
    "PROTOREF" \in so[x].state
      <=> \/ "SOCKREF" \in tcb[x].flags
          \/ \E t \in Threads : InTail(t, x) /\ th[t].via = "proto"

\* The connection of a socket that sofree() gives up is over, so tcp_detach()
\* never leaves a running connection without its socket.  (Its comment asks:
\* "Does the second case still occur?")
DisposedIsOver ==
  \A x \in Sock : so[x].mem # "live" => Gone(x) /\ tcb[x].inp # "persists"

\* The halves are passive together, and outside the conversion the inpcbs'
\* INP_PASSIVE and the sockets' SO_PASSIVE say the same.
PassiveTogether ==
  /\ tcb["S"].passive = tcb["C"].passive
  /\ (\A t \in Threads : th[t].pc \notin {"convert1", "convert2"})
       => \A x \in Sock : tcb[x].passive <=> "PASSIVE" \in so[x].options

InSend(t) == th[t].pc \in {"convert1", "convert2", "sendout"} \/ th[t].ret = "sendout"

LockLeaked == \E t \in Threads, x \in Sock : lock[INP(x)] = t /\ ~InSend(t)

\* A thread that waits for the accept lock or disposes of the pair holds no
\* socket lock, and one that has returned holds no lock at all, but for one
\* case: tcp_usr_send() waited for the locks of a passive pair while another
\* send converted it; it then gives back the inpcb lock of its own half only.
LocksReleased ==
  \A t \in Threads :
    /\ th[t].pc = "idle" => \A l \in Locks \ InpLocks : lock[l] # t
    /\ ~InSend(t) /\ (\E x \in Sock : lock[INP(x)] = t)
         => t \in Apps /\ ~tcb["S"].passive
    /\ th[t].pc \in {"accept", "dispose1", "dispose2"}
         => \A l \in {ACCEPT} \cup SockLocks : lock[l] # t

(***************************************************************************)
(* What the invariants above need to be inductive: which thread answers    *)
(* for which reference and which lock.                                     *)
(***************************************************************************)

\* t holds the so_count of half x, to give it up or to hand it to the
\* application.
Owns(t, x) ==
  \/ th[t].pc = "soaccept"
  \/ x = "S" /\ (th[t].pc = "closeS" \/ th[t].ret = "closeS")
  \/ /\ th[t].via = "close" /\ th[t].so = x
     /\ th[t].pc \in {"disconnect", "pru_close", "accept", "sock1", "sock2"}

\* t is about to give up TCP's reference to half x.
ProtoTail(t, x) == InTail(t, x) /\ th[t].via = "proto"

Aborting(t) == th[t].via = "abort" /\ th[t].pc \in {"abort1", "abort2", "accept", "sock1", "sock2"}

Converting(t) == th[t].pc \in {"convert1", "convert2"}

\* What a thread is in the middle of goes with where it is.
ThreadOK(t) ==
  /\ th[t].pc = "idle" => th[t] = Idle
  /\ th[t].pc \in {"accept", "sock1", "sock2"} => th[t].via \in {"close", "proto", "abort"}
  /\ th[t].pc \in {"disconnect", "pru_close"} => th[t].via = "close"
  /\ th[t].pc \in {"abort1", "abort2"} => th[t].via = "abort"
  /\ th[t].via = "abort" => th[t].so = "S"
  /\ th[t].pc = "closeS" => th[t].so = "S"
  /\ th[t].pc \in {"send", "convert1", "convert2", "sendout"} => th[t].so \in open
  /\ th[t].ret = "closeS" =>
       /\ th[t].so = "C" /\ th[t].via = "close"
       /\ th[t].pc \in {"disconnect", "pru_close", "accept", "sock1", "sock2"}
  /\ th[t].ret = "sendout" =>
       /\ Peer(th[t].so) \in open /\ th[t].via = "proto"
       /\ th[t].pc \in {"accept", "sock1", "sock2"}
  /\ th[t].ret \in {"unlock", "dropwithreset"} =>
       /\ th[t].via = "proto"
       /\ th[t].pc \in {"accept", "sock1", "sock2", "dispose1", "dispose2"}
  /\ \/ th[t].pc \in {"idle", "unlock", "dropwithreset"}
     \/ th[t].ret \in {"unlock", "dropwithreset"}
     \/ t \in Apps

\* A half is counted for exactly one holder: the application or a thread.
CountHeld ==
  \A x \in Sock :
    /\ so[x].count = IF x \in open \/ \E t \in Threads : Owns(t, x) THEN 1 ELSE 0
    /\ \A t \in Threads : Owns(t, x) =>
         x \notin open /\ \A u \in Threads : Owns(u, x) => u = t

\* TCP takes its reference once, when the user closes the half, and one
\* thread gives it up.
ProtoHeld ==
  \A x \in Sock :
    /\ \A t \in Threads : ProtoTail(t, x) =>
         /\ "SOCKREF" \notin tcb[x].flags /\ Gone(x)
         /\ \A u \in Threads : ProtoTail(u, x) => u = t
    /\ "SOCKREF" \in tcb[x].flags \/ (\E t \in Threads : ProtoTail(t, x)) =>
         x \notin open /\ \A t \in Threads : Owns(t, x) => InTail(t, x)

NoReference ==
  /\ open = {}
  /\ \A x \in Sock : "SOCKREF" \notin tcb[x].flags
  /\ \A t \in Threads, x \in Sock : ~Owns(t, x) /\ ~ProtoTail(t, x)

\* Before it is accepted, and while it is aborted, a pair has no reference.
FreshPair ==
  /\ so["S"].comp => \A t \in Threads : ~Aborting(t)
  /\ so["S"].comp \/ (\E t \in Threads : Aborting(t)) =>
       NoReference /\ \A x \in Sock : so[x].mem = "live"
  /\ \A t, u \in Threads : Aborting(t) /\ Aborting(u) => t = u

\* What keeps a connection that is not over.
NotOver ==
  \A x \in Sock :
    \/ so["S"].comp
    \/ \E t \in Threads : th[t].pc = "abort1" \/ (th[t].pc = "abort2" /\ x = "C")
    \/ x \in open
    \/ \E t \in Threads : Owns(t, x) /\ ~InTail(t, x)
    \/ "SOCKREF" \in tcb[x].flags
    \/ Gone(x)

\* A pair is disposed of by one thread, and has no reference then.
DeadPair ==
  /\ \A t \in Threads :
       /\ th[t].pc \in {"dispose1", "dispose2"} =>
            \A u \in Threads : th[u].pc \in {"dispose1", "dispose2"} => t = u
       /\ th[t].pc = "dispose1" => \A x \in Sock : so[x].mem = "doomed"
       /\ th[t].pc = "dispose2" => so[th[t].so].mem = "free" /\ so[Peer(th[t].so)].mem = "doomed"
  /\ (\E x \in Sock : so[x].mem # "live") =>
       /\ NoReference /\ ~so["S"].comp
       /\ \A t \in Threads : ~Aborting(t)
       /\ \A x \in Sock : so[x].mem # "live" /\ Gone(x)

\* The client half is never queued and never loses SS_NOFDREF; time wait is a
\* state of an active half, and a half's inpcb outlives its socket.
HalfOK ==
  /\ ~so["C"].comp /\ "NOFDREF" \in so["C"].state
  /\ \A x \in Sock :
       /\ tcb[x].state = "TIME_WAIT"
            <=> "TIMEWAIT" \in tcb[x].flags /\ "DROPPED" \notin tcb[x].flags
       /\ tcb[x].passive /\ "TIMEWAIT" \in tcb[x].flags => "DROPPED" \in tcb[x].flags
       /\ tcb[x].inp # "attached" => so[x].mem = "free"
       /\ tcb[x].inp # "persists"

\* A pair is converted once, and only after it was accepted.
OneConversion ==
  /\ \A t \in Threads : InSend(t) => ~tcb["S"].passive
  /\ \A t \in Threads : Converting(t) =>
       /\ ~panicked => \A x \in Sock : "PASSIVE" \in so[x].options
       /\ \A u \in Threads : Converting(u) => u = t
  /\ so["S"].comp \/ (\E t \in Threads : Aborting(t)) =>
       tcb["S"].passive /\ "PASSIVE" \in so["S"].options
  /\ \A x \in Sock : "PASSIVECLNT" \notin so[x].options

\* What a thread may hold where it is.
LocksOf(t) ==
  /\ lock[ACCEPT] = t => th[t].pc \in {"sock1", "sock2"}
  /\ \A x \in Sock : lock[SOCK(x)] = t => th[t].pc \in {"sock2", "convert2"} /\ x = th[t].so
  /\ lock[INFO] = t => \/ "unlock" \in {th[t].pc, th[t].ret}
                       \/ "dropwithreset" \in {th[t].pc, th[t].ret}
                       \/ InSend(t)
  /\ \A x \in Sock : lock[INP(x)] = t => InSend(t) \/ (t \in Apps /\ ~tcb["S"].passive)

LockOwners == \A t \in Threads : LocksOf(t)

RefInv ==
  /\ \A t \in Threads : ThreadOK(t)
  /\ CountHeld /\ ProtoHeld /\ FreshPair /\ NotOver /\ DeadPair
  /\ HalfOK /\ OneConversion /\ LockOwners

\* The state of the pair between any two steps: shapes, disposal of both halves
\* or none, agreement of the references and of the passive marks, locks given
\* back, and a holder for every reference and lock.
PairInv ==
  /\ TypeOK
  /\ FreedTogether
  /\ ReferencesAgree
  /\ DisposedIsOver
  /\ PassiveTogether
  /\ LocksReleased
  /\ RefInv

\* No thread is inside a call on a half that is being or has been freed, but
\* the one that frees it, and the application's own halves are alive, whatever
\* becomes of the other half and of the connection.
NoUseAfterFree ==
  /\ \A x \in open : so[x].mem = "live"
  /\ \A t \in Threads :
       th[t].pc \notin {"idle", "unlock", "dispose1", "dispose2", "dropwithreset"}
         => \A x \in Sock : so[x].mem = "live"

\* "Consistently order a coupled pair of passive-reassembly sockets": no two
\* threads hold one half's socket lock each and wait for the other's.
ConsistentlyOrdered ==
  \A t, u \in Threads :
    ~ /\ th[t].pc \in {"sock2", "convert2"} /\ th[u].pc \in {"sock2", "convert2"}
      /\ lock[SOCK("S")] = t /\ lock[SOCK("C")] = u

\* A pair that nobody has open or can still accept is reclaimed, sockets and
\* inpcbs, however its ends were closed, aborted, reset or left silent: no
\* order of close, abort, segments and timers leaves a reference behind.  Only
\* three things prevent it: a conversion that finds no control block, two
\* threads that wait for each other's socket lock, a lock that is not returned.
Reclaimed ==
  (/\ open = {} /\ ~so["S"].comp
   /\ \A t \in Apps : th[t].pc # "soaccept")
    ~> \/ panicked \/ ~ConsistentlyOrdered \/ LockLeaked
       \/ \A x \in Sock : so[x].mem = "free" /\ tcb[x].inp = "freed"

\* "If new data are received on a connection after the user processes are
\* gone, then RST the other end": only the connection of a half that the
\* application no longer holds is closed for late data.
OnlyWhenUsersGone ==
  [][\A x \in Sock : InputLateData("net", x) => x \notin open]_vars

\* "From this point on, we assume that no other references to this socket
\* exist anywhere else in the stack" (sofree_dispose): no thread is about to
\* read a socket that is freed.
NoReadAfterFree ==
  \A t \in Threads : th[t].pc = "dropwithreset" => so[th[t].so].mem = "live"

\* "Send an RST to the endpoint we will be impersonating": the conversion
\* finds the control block of the other half.
ConversionSafe == ~panicked

\* tcp_usr_send() returns with no lock held.
NoLockLeaked == ~LockLeaked
=============================================================================
