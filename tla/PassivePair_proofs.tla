------------------------- MODULE PassivePair_proofs -------------------------
(***************************************************************************)
(* For any number of application threads, the pair of sockets of a         *)
(* passively reassembled connection keeps PairInv, and no half is freed    *)
(* while a thread or the application uses it.                              *)
(***************************************************************************)
EXTENDS PassivePair_calls

-----------------------------------------------------------------------------
(***************************************************************************)
(* Who holds which lock: LockOwners is kept by every step that starts from *)
(* the invariant IInv.                                                     *)
(***************************************************************************)

\* A step that takes or releases locks of its own thread only.
LEMMA LockFrame ==
  ASSUME LockOwners, NEW t \in Threads, Moves(t),
         \A l \in Locks : lock'[l] \in {lock[l], t, "none"},
         tcb'["S"].passive => tcb["S"].passive,
         LocksOf(t)'
  PROVE  LockOwners'
<1> SUFFICES ASSUME NEW u \in Threads, u # t PROVE LocksOf(u)'
  BY DEF LockOwners
<1>1. th'[u] = th[u] /\ LocksOf(u) /\ u # "none"
  BY AppsAssumption DEF Moves, LockOwners, Threads
<1>2. \A l \in Locks : lock'[l] = u => lock[l] = u
  BY <1>1
<1>3. /\ ACCEPT \in Locks /\ INFO \in Locks
      /\ \A x \in Sock : SOCK(x) \in Locks /\ INP(x) \in Locks
  BY DEF Locks, SockLocks, InpLocks
<1> QED
  BY <1>1, <1>2, <1>3 DEF LocksOf, InSend

\* The locks are different ones.
LEMMA LockNames ==
  /\ INFO \in Locks /\ ACCEPT \in Locks /\ INFO # ACCEPT
  /\ \A x \in Sock : /\ INP(x) \in Locks /\ SOCK(x) \in Locks
                     /\ INP(x) # INFO /\ INP(x) # ACCEPT /\ SOCK(x) # INFO /\ SOCK(x) # ACCEPT
                     /\ \A y \in Sock : /\ INP(x) # SOCK(y)
                                        /\ INP(x) = INP(y) => x = y
                                        /\ SOCK(x) = SOCK(y) => x = y
<1>1. INFO[1] = "tcbinfo" /\ ACCEPT[1] = "accept"
  BY DEF INFO, ACCEPT
<1>2. \A x \in Sock : INP(x)[1] = "inp" /\ INP(x)[2] = x /\ SOCK(x)[1] = "sock" /\ SOCK(x)[2] = x
  BY DEF INP, SOCK
<1>3. INFO \in Locks /\ ACCEPT \in Locks /\ \A x \in Sock : INP(x) \in Locks /\ SOCK(x) \in Locks
  BY Zenon DEF Locks, SockLocks, InpLocks
<1>4. "tcbinfo" # "accept" /\ "tcbinfo" # "inp" /\ "tcbinfo" # "sock" /\ "accept" # "inp"
      /\ "accept" # "sock" /\ "inp" # "sock"
  OBVIOUS
<1>5. INFO # ACCEPT
  BY <1>1, <1>4, Zenon
<1>6. \A x \in Sock : INP(x) # INFO /\ INP(x) # ACCEPT /\ SOCK(x) # INFO /\ SOCK(x) # ACCEPT
  BY <1>1, <1>2, <1>4, Zenon
<1>7. \A x, y \in Sock : INP(x) # SOCK(y) /\ (INP(x) = INP(y) => x = y) /\ (SOCK(x) = SOCK(y) => x = y)
  BY <1>2, <1>4
<1> QED
  BY <1>3, <1>5, <1>6, <1>7, Zenon

\* What t has of tcbinfo.
InfoRole(t) ==
  "unlock" \in {th[t].pc, th[t].ret} \/ "dropwithreset" \in {th[t].pc, th[t].ret} \/ InSend(t)

\* A step that takes no lock, and leaves no socket lock behind.
LEMMA LocksKept ==
  ASSUME LockOwners, NEW t \in Threads, Moves(t), \A l \in Locks : lock'[l] \in {lock[l], "none"},
         th[t].pc \in {"sock1", "sock2"} => lock'[ACCEPT] = "none",
         th[t].pc \in {"sock2", "convert2"} => \A x \in Sock : lock'[SOCK(x)] = "none",
         InfoRole(t) => InfoRole(t)' \/ lock'[INFO] = "none",
         InSend(t) => InSend(t)' \/ (t \in Apps /\ ~tcb'["S"].passive),
         tcb'["S"].passive => tcb["S"].passive
  PROVE  LockOwners'
<1>1. LocksOf(t) /\ t # "none"
  BY AppsAssumption, Zenon DEF LockOwners, Threads
<1>2. \A l \in Locks : lock'[l] = t => lock[l] = t
  BY <1>1, Zenon
<1>3. lock'[ACCEPT] # t /\ \A x \in Sock : lock'[SOCK(x)] # t
  BY <1>1, <1>2, LockNames, Zenon DEF LocksOf
<1>4. lock'[INFO] = t => InfoRole(t)'
  BY <1>1, <1>2, LockNames, Zenon DEF LocksOf, InfoRole
<1>5. \A x \in Sock : lock'[INP(x)] = t => InSend(t)' \/ (t \in Apps /\ ~tcb'["S"].passive)
  BY <1>1, <1>2, LockNames, Zenon DEF LocksOf
<1>6. LocksOf(t)'
  BY <1>3, <1>4, <1>5, Zenon DEF LocksOf, InfoRole
<1> QED
  BY <1>6, LockFrame, Zenon

\* INP_PASSIVE, once cleared, stays cleared.
LEMMA OneTcb ==
  ASSUME TypeOK, NEW x \in Sock, NEW c, tcb' = [tcb EXCEPT ![x] = c], c.passive = tcb[x].passive
  PROVE  tcb'["S"].passive => tcb["S"].passive
<1>1. CASE x = "S"
  BY <1>1, Zenon DEF TypeOK
<1>2. CASE x # "S"
  BY <1>2, Halves, Zenon DEF TypeOK
<1> QED
  BY <1>1, <1>2, Zenon

\* tcp_usr_close does not make a half passive.
LEMMA ProtorefPassive ==
  ASSUME TypeOK, NEW x \in Sock, NEW s, NEW c \in Tcb, Protoref(x, s, c), c.passive = tcb[x].passive
  PROVE  tcb'["S"].passive => tcb["S"].passive
<1>1. PICK d : tcb' = [tcb EXCEPT ![x] = d] /\ d \in {c, [c EXCEPT !.flags = @ \cup {"SOCKREF"}]}
  BY DEF Protoref
<1>2. d.passive = c.passive
  BY <1>1, Zenon DEF Tcb
<1> QED
  BY <1>1, <1>2, OneTcb, Zenon

\* Neither does tcp_close or tcp_twstart.
LEMMA ClosePassive ==
  ASSUME IInv, NEW t \in Threads, NEW x \in Sock, NEW ret, tcp_close(t, x, ret) \/ tcp_twstart(t, x)
  PROVE  tcb'["S"].passive => tcb["S"].passive
<1>1. tcb[x] \in Tcb /\ TypeOK
  BY TcbFacts DEF IInv
<1> DEFINE d == Dropped(tcb[x])
<1>2. d \in Tcb /\ d.passive = tcb[x].passive
  BY <1>1, DroppedIs, Zenon
<1>3. PICK c : /\ tcb' = [tcb EXCEPT ![x] = c]
               /\ c \in {d, [d EXCEPT !.flags = @ \cup {"TIMEWAIT"}, !.ppcb = "null"],
                         [tcb[x] EXCEPT !.flags = (@ \cup {"TIMEWAIT"}) \ {"SOCKREF", "2MSL"},
                                        !.state = "TIME_WAIT", !.ppcb = "tw"]}
  <2>1. CASE tcb[x].passive
    BY <2>1, Zenon DEF tcp_close, tcp_twstart, CloseAs
  <2>2. CASE ~tcb[x].passive
    BY <2>2, Zenon DEF tcp_close, tcp_twstart, CloseAs
  <2> QED
    BY <2>1, <2>2, Zenon
<1> HIDE DEF d
<1>4. c.passive = tcb[x].passive
  BY <1>1, <1>2, <1>3, Zenon DEF Tcb
<1> QED
  BY <1>1, <1>3, <1>4, OneTcb, Zenon

\* A step from outside a call, and a step inside one that leaves the locks alone.
LEMMA QuietLocks ==
  ASSUME IInv, LockOwners, NEW t \in Threads, Moves(t), UNCHANGED lock,
         th[t].pc \in {"idle", "soaccept", "closeS", "disconnect", "pru_close", "abort1", "abort2",
                       "dispose1", "send"},
         th[t].ret \in {"unlock", "dropwithreset", "sendout"} => th'[t].ret = th[t].ret,
         tcb'["S"].passive => tcb["S"].passive
  PROVE  LockOwners'
<1>1. InSend(t) => InSend(t)'
  BY Zenon DEF InSend
<1>2. InfoRole(t) => InfoRole(t)'
  BY <1>1, Zenon DEF InfoRole
<1> QED
  BY <1>1, <1>2, LocksKept, Zenon

\* The accept lock is this thread's from here on.
LEMMA AcceptLockLocks ==
  ASSUME IInv, LockOwners, NEW t \in Threads, AcceptLock(t) PROVE LockOwners'
<1> USE DEF AcceptLock
<1>1. TypeOK /\ ThreadOK(t) /\ LocksOf(t) /\ t # "none"
  BY AppsAssumption, Zenon DEF IInv, LockOwners, Threads
<1>2. Moves(t) /\ th'[t].pc = "sock1" /\ th'[t].so = th[t].so /\ th'[t].ret = th[t].ret
  BY <1>1, Stepping, Zenon DEF Pc
<1>3. \A l \in Locks : /\ l = ACCEPT => lock'[l] = t
                       /\ l # ACCEPT => lock'[l] = lock[l]
  BY Zenon DEF TakeAll
<1>4. (InSend(t)' <=> InSend(t)) /\ (InfoRole(t) => InfoRole(t)')
  BY <1>2 DEF InSend, InfoRole
<1>5. LocksOf(t)'
  <2>1. \A x \in Sock : lock'[SOCK(x)] # t
    BY <1>1, <1>3, LockNames, Zenon DEF LocksOf
  <2>2. lock'[INFO] = t => InfoRole(t)'
    BY <1>1, <1>3, <1>4, LockNames, Zenon DEF LocksOf, InfoRole
  <2>3. \A x \in Sock : lock'[INP(x)] = t => InSend(t)' \/ (t \in Apps /\ ~tcb'["S"].passive)
    BY <1>1, <1>3, <1>4, LockNames, ZenonT(60) DEF LocksOf
  <2> QED
    BY <1>2, <2>1, <2>2, <2>3, Zenon DEF LocksOf, InfoRole
<1> QED
  BY <1>2, <1>3, <1>5, LockFrame, ZenonT(60)

\* ... and the first socket lock.
LEMMA SockLock1Locks ==
  ASSUME IInv, LockOwners, NEW t \in Threads, SockLock1(t) PROVE LockOwners'
<1> USE DEF SockLock1
<1>1. TypeOK /\ ThreadOK(t) /\ LocksOf(t) /\ t # "none"
  BY AppsAssumption, Zenon DEF IInv, LockOwners, Threads
<1>2. PICK x \in Sock : x = th[t].so
  BY <1>1, Zenon DEF TypeOK
<1>3. in_passive_ordered_socks(th[t].so)[1] = x
  BY <1>2, Zenon DEF IInv, OneConversion, in_passive_ordered_socks
<1>4. \A l \in Locks : /\ l = SOCK(x) => lock'[l] = t
                       /\ l # SOCK(x) => lock'[l] = lock[l]
  BY <1>3, Zenon DEF TakeAll
<1>5. /\ Moves(t) /\ th'[t].so = x /\ th'[t].ret = th[t].ret
      /\ \/ th[t].pc = "sock1" /\ th'[t].pc = "sock2"
         \/ th[t].pc = "convert1" /\ th'[t].pc = "convert2"
  <2>1. CASE th[t].pc = "sock1"
    <3>1. th' = [th EXCEPT ![t].pc = "sock2"]
      BY <2>1, Zenon
    <3> QED
      BY <1>1, <1>2, <2>1, <3>1, Stepping, Zenon DEF Pc
  <2>2. CASE th[t].pc = "convert1"
    <3>1. th' = [th EXCEPT ![t].pc = "convert2"]
      BY <2>2, Zenon
    <3> QED
      BY <1>1, <1>2, <2>2, <3>1, Stepping, ZenonT(60) DEF Pc
  <2> QED
    BY <2>1, <2>2, Zenon
<1>6. (InSend(t)' <=> InSend(t)) /\ (InfoRole(t) => InfoRole(t)')
  BY <1>5, Zenon DEF InSend, InfoRole
<1>7. LocksOf(t)'
  <2>1. \A y \in Sock : lock'[SOCK(y)] = t => y = x
    BY <1>1, <1>4, <1>5, LockNames, ZenonT(60) DEF LocksOf
  <2>2. lock'[INFO] = t => InfoRole(t)'
    BY <1>1, <1>4, <1>6, LockNames, Zenon DEF LocksOf, InfoRole
  <2>3. \A y \in Sock : lock'[INP(y)] = t => InSend(t)' \/ (t \in Apps /\ ~tcb'["S"].passive)
    BY <1>1, <1>4, <1>6, LockNames, ZenonT(60) DEF LocksOf
  <2>4. lock'[ACCEPT] = t => th'[t].pc \in {"sock1", "sock2"}
    BY <1>1, <1>4, <1>5, LockNames, Zenon DEF LocksOf
  <2> QED
    BY <1>5, <2>1, <2>2, <2>3, <2>4, ZenonT(60) DEF LocksOf, InfoRole
<1> QED
  BY <1>4, <1>5, <1>7, LockFrame, Zenon

\* A return keeps what the thread has of tcbinfo.
LEMMA ReturnRoles ==
  ASSUME IInv, NEW t \in Threads, Return(t), th[t].pc \in {"sock2", "dispose2"}
  PROVE  Moves(t) /\ (InfoRole(t) => InfoRole(t)') /\ (InSend(t) => InSend(t)')
<1>1. TypeOK /\ th[t].ret \in Ret
  BY Zenon DEF IInv, TypeOK
<1>2. Moves(t) /\ (th[t].ret \in {"sendout", "unlock", "dropwithreset"} => th'[t].pc = th[t].ret)
  BY <1>1, ReturnIs, Zenon
<1>3. InSend(t) => InSend(t)'
  BY <1>2, Zenon DEF InSend
<1> QED
  BY <1>2, <1>3, Zenon DEF InfoRole

\* ... and the second; all are released unless the pair is disposed of.
LEMMA SockLock2Locks ==
  ASSUME IInv, LockOwners, NEW t \in Threads, SockLock2(t) PROVE LockOwners'
<1>1. TypeOK /\ th[t].pc = "sock2" /\ tcb' = tcb /\ lock' = Release(lock, SockLocks \cup {ACCEPT})
  BY Zenon DEF IInv, SockLock2
<1>2. Return(t) \/ th' = [th EXCEPT ![t].pc = "dispose1"]
  BY DEF SockLock2
<1>3. Moves(t) /\ (InfoRole(t) => InfoRole(t)') /\ (InSend(t) => InSend(t)')
  <2>1. CASE Return(t)
    BY <1>1, <2>1, ReturnRoles, Zenon
  <2>2. CASE th' = [th EXCEPT ![t].pc = "dispose1"]
    <3>1. Moves(t) /\ th'[t].ret = th[t].ret
      BY <1>1, <2>2, Stepping, Zenon DEF Pc
    <3>2. InSend(t) => InSend(t)'
      BY <1>1, <3>1, Zenon DEF InSend
    <3> QED
      BY <1>1, <3>1, <3>2, Zenon DEF InfoRole
  <2> QED
    BY <1>2, <2>1, <2>2, Zenon
<1>4. /\ \A l \in Locks : lock'[l] \in {lock[l], "none"}
      /\ lock'[ACCEPT] = "none" /\ \A x \in Sock : lock'[SOCK(x)] = "none"
  <2>1. ACCEPT \in SockLocks \cup {ACCEPT} /\ \A x \in Sock : SOCK(x) \in SockLocks \cup {ACCEPT}
    BY DEF SockLocks
  <2> QED
    BY <1>1, <2>1, LockNames, Zenon DEF Release
<1> QED
  BY <1>1, <1>3, <1>4, LocksKept, Zenon

\* sofree_dispose releases what sofree took.
LEMMA DisposeLocks ==
  ASSUME IInv, LockOwners, NEW t \in Threads, Dispose(t) PROVE LockOwners'
<1>1. TypeOK /\ th[t].pc \in {"dispose1", "dispose2"} /\ UNCHANGED lock
  BY DEF IInv, Dispose
<1>2. PICK x \in Sock : tcb' = [tcb EXCEPT ![x] = tcp_detach(tcb[x])]
  <2>1. th[t].so \in Sock /\ Peer(th[t].so) \in Sock
    BY <1>1, Halves, Zenon DEF TypeOK
  <2> QED
    BY <2>1, Zenon DEF Dispose, TypeOK
<1>3. PICK c : c = tcp_detach(tcb[x])
  OBVIOUS
<1>4. c.passive = tcb[x].passive
  <2>1. PICK i : c = [tcb[x] EXCEPT !.inp = i]
    BY <1>3, Zenon DEF tcp_detach
  <2> QED
    BY <2>1, <1>1 DEF TypeOK, Tcb
<1>5. tcb'["S"].passive => tcb["S"].passive
  BY <1>1, <1>2, <1>3, <1>4, OneTcb, ZenonT(60)
<1>6. CASE th[t].pc = "dispose1"
  <2>1. th' = [th EXCEPT ![t].pc = "dispose2"]
    BY <1>6 DEF Dispose
  <2>2. Moves(t) /\ th'[t].ret = th[t].ret
    BY <1>1, <2>1, Stepping, Zenon DEF Pc
  <2> QED
    BY <1>1, <1>5, <1>6, <2>2, QuietLocks, ZenonT(60)
<1>7. CASE th[t].pc = "dispose2"
  <2>1. Return(t)
    BY <1>7, Zenon DEF Dispose
  <2>2. Moves(t) /\ (InfoRole(t) => InfoRole(t)') /\ (InSend(t) => InSend(t)')
    BY <1>7, <2>1, ReturnRoles, Zenon
  <2> QED
    BY <1>1, <1>5, <1>7, <2>2, LocksKept, ZenonT(60)
<1> QED
  BY <1>1, <1>6, <1>7, ZenonT(60)

\* The steps of soaccept(), soclose() and soabort() between their lock waits.
LEMMA CallLocks ==
  ASSUME IInv, LockOwners, NEW t \in Threads,
         soaccept(t) \/ SocloseAgain(t) \/ SocloseDisconnect(t) \/ tcp_usr_close(t) \/ Soabort(t)
  PROVE  LockOwners'
<1>1. TypeOK /\ ThreadOK(t) /\ UNCHANGED lock
  BY Zenon DEF IInv, soaccept, SocloseAgain, SocloseDisconnect, tcp_usr_close, Soabort
<1>2. CASE soaccept(t) \/ SocloseAgain(t)
  <2>1. tcb' = tcb /\ th[t].pc \in {"soaccept", "closeS"}
    BY <1>2, Zenon DEF soaccept, SocloseAgain
  <2>2. Moves(t)
    BY <1>1, <1>2, Zenon DEF soaccept, SocloseAgain, GoTo, Moves, TypeOK
  <2>3. th[t].ret \notin {"unlock", "dropwithreset", "sendout"}
    BY <1>1, <2>1, ZenonT(60) DEF ThreadOK
  <2> QED
    BY <1>1, <2>1, <2>2, <2>3, QuietLocks, ZenonT(60)
<1>3. ASSUME NEW x \in Sock
      PROVE  tcb[x] \in Tcb /\ tcp_usrclosed(tcb[x]) \in Tcb /\ tcp_usrclosed(tcb[x]).passive = tcb[x].passive
             /\ Dropped(tcb[x]) \in Tcb /\ Dropped(tcb[x]).passive = tcb[x].passive
  <2>1. so[x] \in Socket /\ tcb[x] \in Tcb /\ TcbOK(tcb[x])
    BY TcbFacts, Zenon
  <2> QED
    BY <2>1, UsrclosedIs, DroppedIs, ZenonT(60)
<1>4. CASE SocloseDisconnect(t)
  <2>1. PICK x \in Sock : x = th[t].so
    BY <1>1, Zenon DEF TypeOK
  <2>2. tcb' = tcb \/ tcb' = [tcb EXCEPT ![x] = tcp_usrclosed(tcb[x])]
    BY <1>4, <2>1, ZenonT(60) DEF SocloseDisconnect
  <2>3. tcb'["S"].passive => tcb["S"].passive
    BY <1>1, <1>3, <2>2, OneTcb, ZenonT(60)
  <2>4. Moves(t) /\ th'[t].ret = th[t].ret /\ th[t].pc = "disconnect"
    BY <1>1, <1>4, Stepping, ZenonT(60) DEF SocloseDisconnect, Pc
  <2> QED
    BY <1>1, <2>3, <2>4, QuietLocks, Zenon
<1>5. CASE tcp_usr_close(t)
  <2>1. PICK x \in Sock : x = th[t].so
    BY <1>1, Zenon DEF TypeOK
  <2>2. PICK s, c : Protoref(x, s, c) /\ c \in {tcb[x], tcp_usrclosed(tcb[x])}
    BY <1>5, <2>1, Zenon DEF tcp_usr_close
  <2>3. tcb'["S"].passive => tcb["S"].passive
    BY <1>1, <1>3, <2>2, ProtorefPassive, ZenonT(60)
  <2>4. Moves(t) /\ th'[t].ret = th[t].ret /\ th[t].pc = "pru_close"
    BY <1>1, <1>5, Stepping, ZenonT(60) DEF tcp_usr_close, Pc
  <2> QED
    BY <1>1, <2>3, <2>4, QuietLocks, ZenonT(60)
<1>6. CASE Soabort(t)
  <2>1. th[t].so \in Sock /\ Peer(th[t].so) \in Sock /\ th[t].pc \in {"abort1", "abort2"}
    BY <1>1, <1>6, Halves, Zenon DEF TypeOK, Soabort
  <2>2. PICK x \in Sock : x = IF th[t].pc = "abort1" THEN th[t].so ELSE Peer(th[t].so)
    BY <2>1, Zenon
  <2>3. tcb' = tcb \/ \E s, c : Protoref(x, s, c) /\ c \in {tcb[x], Dropped(tcb[x])}
    BY <1>6, <2>2, Zenon DEF Soabort
  <2>4. tcb'["S"].passive => tcb["S"].passive
    BY <1>1, <1>3, <2>3, ProtorefPassive, Zenon
  <2>5. PICK pc \in {"abort2", "accept"} : th' = [th EXCEPT ![t].pc = pc]
    BY <1>1, <1>6, Zenon DEF Soabort, TypeOK
  <2>6. Moves(t) /\ th'[t].ret = th[t].ret
    BY <1>1, <2>5, Stepping, Zenon DEF Pc
  <2> QED
    BY <1>1, <2>1, <2>4, <2>6, QuietLocks, ZenonT(60)
<1> QED
  BY <1>2, <1>4, <1>5, <1>6, Zenon

\* What an application begins.
LEMMA BeginLocks ==
  ASSUME IInv, LockOwners, NEW t \in Apps, Call(t) PROVE LockOwners'
<1>1. TypeOK /\ ThreadOK(t) /\ t \in Threads
  BY ZenonT(60) DEF IInv, Threads
<1>2. th[t].pc = "idle" /\ UNCHANGED lock /\ th[t].ret = "idle"
  BY <1>1 DEF Call, uinet_soaccept, SocloseBegin, soshutdown, ListenerClose, SendBegin, ThreadOK, Idle
<1>3. Moves(t)
  BY <1>1, Zenon DEF Call, uinet_soaccept, SocloseBegin, soshutdown, ListenerClose, SendBegin, GoTo, Moves, TypeOK
<1>4. tcb'["S"].passive => tcb["S"].passive
  <2>1. CASE tcb' = tcb
    BY <2>1, Zenon
  <2>2. CASE soshutdown(t)
    <3>1. PICK x \in open : tcb' = tcb \/ tcb' = [tcb EXCEPT ![x] = tcp_usrclosed(tcb[x])]
      BY <2>2, Zenon DEF soshutdown
    <3>2. x \in Sock
      BY <1>1, Zenon DEF TypeOK
    <3>3. so[x] \in Socket /\ tcb[x] \in Tcb /\ TcbOK(tcb[x])
      BY <3>2, TcbFacts, Zenon
    <3>4. tcp_usrclosed(tcb[x]).passive = tcb[x].passive
      BY <3>3, UsrclosedIs, Zenon
    <3> QED
      BY <1>1, <3>1, <3>2, <3>4, OneTcb, ZenonT(60)
  <2> QED
    BY <2>1, <2>2, Zenon DEF Call, uinet_soaccept, SocloseBegin, ListenerClose, SendBegin
<1> QED
  BY <1>1, <1>2, <1>3, <1>4, QuietLocks, ZenonT(60)

\* A call that ends releases what it took.
LEMMA ReturnLocks ==
  ASSUME IInv, LockOwners, NEW t \in Threads, DropWithReset(t) \/ Unlock(t) \/ SendReturn(t)
  PROVE  LockOwners'
<1>1. TypeOK /\ ThreadOK(t) /\ OneConversion
  BY Zenon DEF IInv
<1>2. /\ th[t].pc \in {"dropwithreset", "unlock", "sendout"} /\ th' = [th EXCEPT ![t] = Idle]
      /\ tcb' = tcb
  BY DEF DropWithReset, Unlock, SendReturn
<1>3. Moves(t)
  BY <1>1, <1>2, Idling, Zenon
<1>4. PICK L : lock' = Release(lock, L) /\ INFO \in L
  BY DEF DropWithReset, Unlock, SendReturn, SendOut
<1>5. (\A l \in Locks : lock'[l] \in {lock[l], "none"}) /\ lock'[INFO] = "none"
  BY <1>4, LockNames, Zenon DEF Release
<1>6. InSend(t) => t \in Apps /\ ~tcb'["S"].passive
  <2>1. InSend(t) => ~tcb["S"].passive
    BY <1>1, Zenon DEF OneConversion
  <2>2. InSend(t) => t \in Apps
    BY <1>1, <1>2, Zenon DEF ThreadOK, InSend
  <2> QED
    BY <1>2, <2>1, <2>2, Zenon
<1> QED
  BY <1>2, <1>3, <1>5, <1>6, LocksKept, Zenon

\* tcp_usr_send takes the inpcb locks, and keeps them for a conversion.
LEMMA SendLockedLocks ==
  ASSUME IInv, LockOwners, NEW t \in Threads, SendLocked(t) PROVE LockOwners'
<1>1. TypeOK /\ ThreadOK(t) /\ LocksOf(t) /\ t # "none" /\ PassiveTogether
  BY AppsAssumption, Zenon DEF IInv, LockOwners, Threads
<1>2. PICK x \in Sock : x = th[t].so
  BY <1>1, Zenon DEF TypeOK
<1>3. th[t].pc = "send" /\ t \in Apps
  BY <1>1, Zenon DEF SendLocked, ThreadOK
<1> DEFINE held == TakeAll({INFO} \cup InpLocks, t)
<1>4. \A l \in Locks : /\ l \in {INFO} \cup InpLocks => held[l] = t
                       /\ l \notin {INFO} \cup InpLocks => held[l] = lock[l]
  BY DEF TakeAll
<1>5. /\ ACCEPT \notin {INFO} \cup InpLocks
      /\ \A y \in Sock : SOCK(y) \notin {INFO} \cup InpLocks /\ INP(y) \in {INFO} \cup InpLocks
  BY LockNames DEF InpLocks
<1>6. held[ACCEPT] # t /\ \A y \in Sock : held[SOCK(y)] # t
  BY <1>1, <1>3, <1>4, <1>5, LockNames, Zenon DEF LocksOf
<1>7. CASE Gone(x) \/ ~tcb[x].passive
  <2>1. lock' = SendOut(held, x, tcb[x].passive) /\ th' = [th EXCEPT ![t] = Idle] /\ tcb' = tcb
    BY <1>2, <1>7, Zenon DEF SendLocked
  <2>2. Moves(t) /\ th'[t] = Idle
    BY <1>1, <2>1, Idling, Zenon
  <2> HIDE DEF held
  <2>3. PICK L : /\ L = {INFO, INP(x)} \cup (IF tcb[x].passive THEN {INP(Peer(x))} ELSE {})
                 /\ lock' = Release(held, L)
    BY <2>1, Zenon DEF SendOut
  <2>4. \A l \in Locks : lock'[l] = IF l \in L THEN "none" ELSE held[l]
    BY <2>3, Zenon DEF Release
  <2>5. \A l \in Locks : lock'[l] \in {lock[l], t, "none"}
    BY <1>4, <2>4, Zenon
  <2>6. INFO \in L /\ lock'[INFO] # t /\ lock'[ACCEPT] # t /\ \A y \in Sock : lock'[SOCK(y)] # t
    <3>1. INFO \in L
      BY <2>3, Zenon
    <3>2. ACCEPT \in Locks /\ INFO \in Locks /\ \A y \in Sock : SOCK(y) \in Locks
      BY LockNames, Zenon
    <3>3. lock'[INFO] = "none" /\ t # "none"
      BY <1>1, <2>4, <3>1, <3>2, ZenonT(60)
    <3>4. lock'[ACCEPT] \in {"none", held[ACCEPT]}
      BY <2>4, <3>2, ZenonT(60)
    <3>5. \A y \in Sock : lock'[SOCK(y)] \in {"none", held[SOCK(y)]}
      BY <2>4, <3>2, Zenon
    <3> QED
      BY <1>6, <3>1, <3>3, <3>4, <3>5, ZenonT(60)
  <2>7. \A y \in Sock : lock'[INP(y)] = t => ~tcb["S"].passive
    <3> SUFFICES ASSUME tcb["S"].passive PROVE \A y \in Sock : lock'[INP(y)] # t
      OBVIOUS
    <3>1. tcb[x].passive
      <4>1. tcb["S"].passive = tcb["C"].passive
        BY <1>1, Zenon DEF PassiveTogether
      <4> QED
        BY <4>1, Halves, Zenon
    <3>2. L = {INFO, INP(x)} \cup {INP(Peer(x))}
      BY <2>3, <3>1, Zenon
    <3>3. \A y \in Sock : INP(y) \in L
      BY <3>2, Halves, Zenon
    <3> QED
      BY <1>1, <2>4, <3>3, LockNames, ZenonT(60)
  <2>8. LocksOf(t)'
    BY <1>3, <2>1, <2>6, <2>7, ZenonT(60) DEF LocksOf
  <2> QED
    BY <2>1, <2>2, <2>5, <2>8, LockFrame, Zenon
<1>8. CASE ~(Gone(x) \/ ~tcb[x].passive)
  <2>1. /\ lock' = held /\ th' = [th EXCEPT ![t].pc = "convert1"]
        /\ tcb' = [y \in Sock |-> [tcb[y] EXCEPT !.passive = FALSE]]
    BY <1>2, <1>8, Zenon DEF SendLocked
  <2>2. Moves(t) /\ th'[t].pc = "convert1"
    BY <1>1, <2>1, Stepping, Zenon DEF Pc
  <2>3. InSend(t)'
    BY <2>2, Zenon DEF InSend
  <2>4. ~tcb'["S"].passive
    <3>1. tcb'["S"] = [tcb["S"] EXCEPT !.passive = FALSE] /\ tcb["S"] \in Tcb
      BY <1>1, <2>1, Halves, Zenon DEF TypeOK
    <3> QED
      BY <3>1, Zenon DEF Tcb
  <2>5. \A l \in Locks : lock'[l] \in {lock[l], t, "none"}
    BY <1>4, <2>1, ZenonT(60)
  <2>6. LocksOf(t)'
    BY <1>6, <2>1, <2>3, Zenon DEF LocksOf
  <2> QED
    BY <2>2, <2>4, <2>5, <2>6, LockFrame, ZenonT(60)
<1> QED
  BY <1>7, <1>8, Zenon

\* The conversion has the inpcb locks of both halves.
LEMMA ConvertLocks ==
  ASSUME IInv, LockOwners, NEW t \in Threads, Convert(t) PROVE LockOwners'
<1>1. TypeOK /\ th[t].pc = "convert2"
  BY DEF IInv, Convert
<1>2. PICK x \in Sock : x = th[t].so
  BY <1>1, Zenon DEF TypeOK
<1>3. PICK p \in Sock : p = Peer(x)
  BY Halves, Zenon
<1>4. PICK L : lock' = Release(lock, L) /\ SockLocks \subseteq L
  BY <1>2, <1>3 DEF Convert
<1>5. /\ \A l \in Locks : lock'[l] \in {lock[l], "none"}
      /\ \A y \in Sock : lock'[SOCK(y)] = "none"
  <2>1. \A y \in Sock : SOCK(y) \in L
    BY <1>4, Zenon DEF SockLocks
  <2> QED
    BY <1>4, <2>1, LockNames, ZenonT(60) DEF Release
<1>6. CASE tcb[p].ppcb = "null"
  <2>1. th' = th /\ tcb' = tcb
    BY <1>2, <1>3, <1>6, Zenon DEF Convert
  <2>2. Moves(t) /\ InSend(t)'
    BY <1>1, <2>1, ZenonT(60) DEF Moves, InSend
  <2> QED
    BY <1>1, <1>5, <2>1, <2>2, LocksKept, ZenonT(60) DEF InfoRole
<1>7. CASE tcb[p].ppcb # "null"
  <2>1. /\ tcb' = [tcb EXCEPT ![p] = Dropped(tcb[p])]
        /\ GoTo(t, "sendout", x, "none", "idle") \/ GoTo(t, "accept", p, "proto", "sendout")
    BY <1>2, <1>3, <1>7, ZenonT(60) DEF Convert
  <2>2. Moves(t) /\ (th'[t].pc = "sendout" \/ th'[t].ret = "sendout")
    BY <1>1, <2>1, Going, ZenonT(30) DEF Pc, Via, Ret
  <2>3. InSend(t)'
    BY <2>2 DEF InSend
  <2>4. Dropped(tcb[p]).passive = tcb[p].passive
    BY <1>1, DroppedIs DEF TypeOK
  <2>5. tcb'["S"].passive => tcb["S"].passive
    BY <1>1, <2>1, <2>4, OneTcb, Zenon
  <2> QED
    BY <1>1, <1>5, <2>2, <2>3, <2>5, LocksKept, ZenonT(60) DEF InfoRole
<1> QED
  BY <1>6, <1>7, Zenon

\* TCP gives up a half: tcbinfo is held until the caller returns.
LEMMA CloseLocks ==
  ASSUME IInv, LockOwners, NEW t \in Threads, th[t].pc = "idle", NEW x \in Sock, NEW c, NEW s,
         NEW ret \in {"unlock", "dropwithreset"}, CloseAs(t, x, c, s, ret),
         tcb'["S"].passive => tcb["S"].passive
  PROVE  LockOwners'
<1>1. TypeOK /\ ThreadOK(t) /\ LocksOf(t)
  BY DEF IInv, LockOwners
<1>2. CASE "SOCKREF" \notin tcb[x].flags
  <2>1. lock' = lock /\ th' = th
    BY <1>2, Zenon DEF CloseAs
  <2> QED
    BY <2>1, QuietLocks, Zenon DEF Moves
<1>3. CASE "SOCKREF" \in tcb[x].flags
  <2>1. lock' = TakeAll({INFO}, t) /\ GoTo(t, "accept", x, "proto", ret)
    BY <1>3, Zenon DEF CloseAs
  <2>2. Moves(t) /\ th'[t].ret = ret
    <3>1. "accept" \in Pc /\ "proto" \in Via /\ ret \in Ret
      BY Zenon DEF Pc, Via, Ret
    <3> QED
      BY <1>1, <2>1, <3>1, Going, ZenonT(60)
  <2>3. \A l \in Locks : lock'[l] \in {lock[l], t, "none"} /\ (l # INFO => lock'[l] = lock[l])
    BY <2>1, Zenon DEF TakeAll
  <2>4. ~InSend(t)
    BY <1>1, Zenon DEF ThreadOK, Idle, InSend
  <2>5. lock'[ACCEPT] # t /\ \A y \in Sock : lock'[SOCK(y)] # t
    BY <1>1, <2>3, LockNames, ZenonT(60) DEF LocksOf
  <2>6. \A y \in Sock : lock'[INP(y)] = t => t \in Apps /\ ~tcb'["S"].passive
    BY <1>1, <2>3, <2>4, LockNames, ZenonT(60) DEF LocksOf
  <2>7. LocksOf(t)'
    BY <2>2, <2>5, <2>6, ZenonT(60) DEF LocksOf
  <2> QED
    BY <2>2, <2>3, <2>7, LockFrame, Zenon
<1> QED
  BY <1>2, <1>3, Zenon

\* tcp_close and tcp_twstart keep the caller's locks.
LEMMA TcpCloseLocks ==
  ASSUME IInv, LockOwners, NEW t \in Threads, th[t].pc = "idle", NEW x \in Sock,
         NEW ret \in {"unlock", "dropwithreset"}, tcp_close(t, x, ret) \/ tcp_twstart(t, x)
  PROVE  LockOwners'
<1>1. tcb'["S"].passive => tcb["S"].passive
  BY ClosePassive, Zenon
<1>2. PICK c, s, r : CloseAs(t, x, c, s, r) /\ r \in {"unlock", "dropwithreset"}
  BY DEF tcp_close, tcp_twstart
<1> QED
  BY <1>1, <1>2, CloseLocks, ZenonT(60)

\* A segment or a timer takes the locks of its connection.
LEMMA InputLocks ==
  ASSUME IInv, LockOwners, NEW t \in Threads, NEW x \in Sock,
         InputRst(t, x) \/ InputFin(t, x) \/ InputAck(t, x) \/ InputLateData(t, x) \/ TimerDrop(t, x)
  PROVE  LockOwners'
<1>1. TypeOK /\ th[t].pc = "idle" /\ tcb[x] \in Tcb
  BY Zenon DEF IInv, TypeOK, InputRst, InputFin, InputAck, InputLateData, TimerDrop, InputReady
<1>2. CASE \E ret \in {"unlock", "dropwithreset"} : tcp_close(t, x, ret) \/ tcp_twstart(t, x)
  BY <1>1, <1>2, TcpCloseLocks, Zenon
<1>3. ASSUME NEW c, tcb' = [tcb EXCEPT ![x] = c], c.passive = tcb[x].passive, UNCHANGED <<lock, th>>
      PROVE  LockOwners'
  <2>1. tcb'["S"].passive => tcb["S"].passive
    BY <1>1, <1>3, OneTcb, Zenon
  <2> QED
    BY <1>1, <1>3, <2>1, QuietLocks, Zenon DEF Moves
<1>4. CASE /\ InputFin(t, x) /\ UNCHANGED <<lock, th>>
           /\ tcb' = [tcb EXCEPT ![x].state = IF @ = "ESTABLISHED" THEN "CLOSE_WAIT" ELSE "CLOSING"]
  <2>1. PICK st : tcb' = [tcb EXCEPT ![x].state = st]
    BY <1>4, Zenon
  <2>2. PICK c : c = [tcb[x] EXCEPT !.state = st]
    BY Zenon
  <2>3. c.passive = tcb[x].passive /\ tcb' = [tcb EXCEPT ![x] = c]
    BY <1>1, <2>1, <2>2, Zenon DEF Tcb
  <2> QED
    BY <1>3, <1>4, <2>3, Zenon
<1>5. CASE /\ InputAck(t, x) /\ UNCHANGED <<lock, th>>
           /\ tcb' = [tcb EXCEPT ![x].state = "FIN_WAIT_2",
                                 ![x].flags = IF so[x].cantrcv THEN @ \cup {"2MSL"} ELSE @]
  <2>1. PICK f : tcb' = [tcb EXCEPT ![x].state = "FIN_WAIT_2", ![x].flags = f]
    <3>1. CASE so[x].cantrcv
      BY <1>5, <3>1, Zenon
    <3>2. CASE ~so[x].cantrcv
      BY <1>5, <3>2, Zenon
    <3> QED
      BY <3>1, <3>2, Zenon
  <2>2. PICK c : c = [tcb[x] EXCEPT !.state = "FIN_WAIT_2", !.flags = f]
    OBVIOUS
  <2>3. c.passive = tcb[x].passive
    BY <1>1, <2>2, Zenon DEF Tcb
  <2>4. tcb' = [tcb EXCEPT ![x] = c]
    BY <1>1, <2>1, <2>2, Zenon DEF Tcb, TypeOK
  <2> QED
    BY <1>3, <1>5, <2>3, <2>4, ZenonT(60)
<1> QED
  <2>1. CASE InputRst(t, x) \/ InputLateData(t, x) \/ TimerDrop(t, x)
    BY <1>2, <2>1, ZenonT(60) DEF InputRst, InputLateData, TimerDrop
  <2>2. CASE InputFin(t, x)
    BY <1>2, <1>4, <2>2, ZenonT(60) DEF InputFin
  <2>3. CASE InputAck(t, x)
    BY <1>2, <1>5, <2>3, ZenonT(60) DEF InputAck
  <2> QED
    BY <2>1, <2>2, <2>3, ZenonT(60)

\* So does the scan of time-wait connections.
LEMMA TwCloseLocks ==
  ASSUME IInv, LockOwners, NEW t \in Threads, NEW x \in Sock, TwClose(t, x)
  PROVE  LockOwners'
<1>1. TypeOK /\ th[t].pc = "idle" /\ tcb[x] \in Tcb
  BY DEF IInv, TypeOK, TwClose
<1>2. PICK d \in Tcb : d = Dropped(tcb[x]) /\ d.passive = tcb[x].passive
  BY <1>1, DroppedIs, Zenon
<1>3. PICK c : /\ tcb' = [tcb EXCEPT ![x] = c]
               /\ c \in {[d EXCEPT !.ppcb = "null", !.inp = "freed"], [d EXCEPT !.ppcb = "null"]}
  BY <1>2, Zenon DEF TwClose, CloseAs
<1>4. c.passive = tcb[x].passive
  BY <1>2, <1>3, Zenon DEF Tcb
<1>5. tcb'["S"].passive => tcb["S"].passive
  BY <1>1, <1>3, <1>4, OneTcb, Zenon
<1>6. CASE tcb[x].inp = "detached"
  <2>1. UNCHANGED <<lock, th>>
    BY <1>6, Zenon DEF TwClose
  <2> QED
    BY <1>1, <1>5, <2>1, QuietLocks, Zenon DEF Moves
<1>7. CASE tcb[x].inp # "detached"
  <2>1. PICK e, s : CloseAs(t, x, e, s, "unlock")
    BY <1>7, ZenonT(60) DEF TwClose
  <2> QED
    BY <1>1, <1>5, <2>1, CloseLocks, Zenon
<1> QED
  BY <1>6, <1>7, Zenon

\* Every step keeps LockOwners.
LEMMA LockStep == IInv /\ LockOwners /\ [Next]_vars => LockOwners'
<1> SUFFICES ASSUME IInv, LockOwners, [Next]_vars PROVE LockOwners'
  OBVIOUS
<1>1. ASSUME NEW t \in Threads, Step(t) PROVE LockOwners'
  BY <1>1, AcceptLockLocks, SockLock1Locks, SockLock2Locks, DisposeLocks, CallLocks, SendLockedLocks,
     ConvertLocks, ReturnLocks, ZenonT(60) DEF Step
<1>2. ASSUME NEW t \in Apps, Call(t) PROVE LockOwners'
  BY <1>2, BeginLocks, Zenon
<1>3. ASSUME NEW x \in Sock, Input(x) \/ Timers(x) PROVE LockOwners'
  BY <1>3, InputLocks, TwCloseLocks, Zenon DEF Input, Timers, Threads
<1>4. CASE UNCHANGED vars
  BY <1>4, ZenonT(60) DEF vars, LockOwners, LocksOf, InSend
<1> QED
  BY <1>1, <1>2, <1>3, <1>4, Zenon DEF Next

-----------------------------------------------------------------------------
(***************************************************************************)
(* The invariant holds in the initial state and is kept by every step.     *)
(***************************************************************************)

\* An established pair on the listener's queue, all locks free.
LEMMA InitIInv == Init => IInv /\ LockOwners
<1> SUFFICES ASSUME Init PROVE IInv /\ LockOwners
  OBVIOUS
<1>1. TypeOK
  <2>1. Idle \in [pc : Pc, so : Sock, via : Via, ret : Ret]
    BY Zenon DEF Idle, Pc, Sock, Via, Ret
  <2>2. so \in [Sock -> Socket]
    BY DEF Init, Socket, Sock
  <2>3. tcb \in [Sock -> Tcb]
    BY Zenon DEF Init, Tcb, TcpState
  <2> QED
    BY <2>1, <2>2, <2>3, Zenon DEF Init, TypeOK
<1>2. \A t \in Threads : th[t] = Idle
  BY Zenon DEF Init
<1>3. \A t \in Threads : ThreadOK(t) /\ NoRole(t) /\ ~Converting(t) /\ ~InSend(t) /\ th[t].pc = "idle"
  BY <1>2 DEF Idle, ThreadOK, NoRole, Owns, ProtoTail, InTail, Aborting, Converting, InSend
<1>4. /\ \A x \in Sock : /\ so[x].count = 0 /\ so[x].mem = "live" /\ so[x].state = {"NOFDREF"}
                         /\ so[x].options = {"PASSIVE"} /\ tcb[x].flags = {} /\ tcb[x].passive = TRUE
                         /\ tcb[x].state = "ESTABLISHED" /\ tcb[x].inp = "attached"
      /\ so["S"].comp /\ ~so["C"].comp /\ open = {}
  BY Halves, Zenon DEF Init
<1>5. NoReference
  BY <1>3, <1>4, Zenon DEF NoReference, NoRole
<1>6. CountHeld
  BY <1>3, <1>4, Zenon DEF CountHeld, NoRole
<1>7. ReferencesAgree
  <2>1. \A x \in Sock : "PROTOREF" \notin so[x].state /\ tcb[x].flags = {}
    BY <1>4
  <2> QED
    BY <1>3, <2>1, Zenon DEF ReferencesAgree, NoRole, ProtoTail
<1>8. ProtoHeld
  BY <1>3, <1>4, Zenon DEF ProtoHeld, NoRole
<1>9. FreshPair
  BY <1>3, <1>4, <1>5, Zenon DEF FreshPair, NoRole
<1>10. NotOver
  BY <1>4, Zenon DEF NotOver
<1>11. DeadPair
  BY <1>3, <1>4, Zenon DEF DeadPair, NoRole
<1>12. FreedTogether
  BY <1>4, Halves, Zenon DEF FreedTogether
<1>13. HalfOK
  BY <1>4, Halves, ZenonT(60) DEF HalfOK
<1>14. OneConversion /\ PassiveTogether
  <2>1. \A x \in Sock : "PASSIVE" \in so[x].options /\ "PASSIVECLNT" \notin so[x].options
    BY <1>4
  <2>2. tcb["S"].passive = TRUE /\ tcb["C"].passive = TRUE /\ \A x \in Sock : tcb[x].passive
    BY <1>4, Halves, Zenon
  <2>3. OneConversion
    BY <1>3, <2>1, <2>2, Halves, Zenon DEF OneConversion
  <2> QED
    BY <2>1, <2>2, <2>3, Zenon DEF PassiveTogether
<1>15. LockOwners
  <2>1. /\ INFO \in Locks /\ ACCEPT \in Locks
        /\ \A x \in Sock : INP(x) \in Locks /\ SOCK(x) \in Locks
    BY DEF Locks, SockLocks, InpLocks
  <2>2. \A t \in Threads : t # "none"
    BY AppsAssumption, Zenon DEF Threads
  <2> QED
    BY <2>1, <2>2, Zenon DEF Init, LockOwners, LocksOf
<1> QED
  BY <1>1, <1>3, <1>6, <1>7, <1>8, <1>9, <1>10, <1>11, <1>12, <1>13, <1>14, <1>15, ZenonT(60) DEF IInv, Refs

\* Every step keeps IInv.
LEMMA IInvStep == IInv /\ [Next]_vars => IInv'
<1> SUFFICES ASSUME IInv, [Next]_vars PROVE IInv'
  BY Zenon
<1>1. ASSUME NEW t \in Threads, Step(t) PROVE IInv'
  BY <1>1, AcceptLockStep, SockLock1Step, SockLock2Step, DisposeStep, SoacceptStep, BeginStep,
     SocloseDisconnectStep, UsrCloseStep, SoabortStep, SendLockedStep, ConvertStep, ReturnStep, ZenonT(60) DEF Step
<1>2. ASSUME NEW t \in Apps, Call(t) PROVE IInv'
  BY <1>2, UinetSoacceptStep, SocloseBeginStep, SoshutdownStep, ListenerCloseStep, BeginStep, ZenonT(60) DEF Call, Threads
<1>3. ASSUME NEW x \in Sock, Input(x) \/ Timers(x) PROVE IInv'
  BY <1>3, InputStep, TwCloseStep, Zenon DEF Input, Timers, Threads
<1>4. CASE UNCHANGED vars
  <2>1. TypeOK'
    BY <1>4, ZenonT(60) DEF vars, IInv, TypeOK
  <2>2. \A u \in Threads : ThreadOK(u)'
    BY <1>4, ZenonT(60) DEF vars, IInv, ThreadOK
  <2>3. HalfOK'
    BY <1>4, Zenon DEF vars, IInv, HalfOK
  <2>4. OneConversion' /\ PassiveTogether'
    BY <1>4, Zenon DEF vars, IInv, OneConversion, PassiveTogether, Converting, Aborting, InSend
  <2>5. Refs'
    <3>1. "net" \in Threads
      BY DEF Threads
    <3>2. Moves("net") /\ SameRole("net") /\ UNCHANGED open
      BY <1>4, <3>1, StayStep, Zenon DEF vars
    <3>3. SameMarks
      BY <1>4, Zenon DEF vars, SameMarks, Gone
    <3> QED
      BY <3>1, <3>2, <3>3, SameRefs, Zenon DEF IInv
  <2> QED
    BY <2>1, <2>2, <2>3, <2>4, <2>5, ZenonT(60) DEF IInv
<1> QED
  BY <1>1, <1>2, <1>3, <1>4, Zenon DEF Next

-----------------------------------------------------------------------------
(***************************************************************************)
(* What follows from the invariant.                                        *)
(***************************************************************************)

\* A thread inside a call on a half has a reference to the pair or is aborting
\* it, or the application has the half open.
LEMMA InCall ==
  ASSUME IInv, NEW t \in Threads,
         th[t].pc \notin {"idle", "unlock", "dispose1", "dispose2", "dropwithreset"}
  PROVE  ~NoReference \/ Aborting(t)
<1>1. th[t].pc \in Pc /\ th[t].so \in Sock /\ ThreadOK(t)
  BY Zenon DEF IInv, TypeOK
<1>2. CASE th[t].pc \in {"soaccept", "closeS"}
  <2>1. Owns(t, "S") /\ "S" \in Sock
    BY <1>2, Halves, Zenon DEF Owns
  <2> QED
    BY <2>1, Zenon DEF NoReference
<1>3. CASE th[t].pc \in {"disconnect", "pru_close"}
  <2>1. Owns(t, th[t].so)
    BY <1>1, <1>3, Zenon DEF Owns, ThreadOK
  <2> QED
    BY <1>1, <2>1, Zenon DEF NoReference
<1>4. CASE th[t].pc \in {"accept", "sock1", "sock2"}
  <2>1. Owns(t, th[t].so) \/ ProtoTail(t, th[t].so) \/ Aborting(t)
    BY <1>1, <1>4, Zenon DEF Owns, ProtoTail, InTail, Aborting, ThreadOK
  <2> QED
    BY <1>1, <2>1, Zenon DEF NoReference
<1>5. CASE th[t].pc \in {"abort1", "abort2"}
  BY <1>1, <1>5, Zenon DEF Aborting, ThreadOK
<1>6. CASE th[t].pc \in {"send", "convert1", "convert2", "sendout"}
  BY <1>1, <1>6, Zenon DEF NoReference, ThreadOK
<1> QED
  BY <1>1, <1>2, <1>3, <1>4, <1>5, <1>6, ZenonT(60) DEF Pc

\* With a reference to it, or a thread in a call on it, a half is not freed.
LEMMA UseAfterFree == IInv => NoUseAfterFree
<1> SUFFICES ASSUME IInv PROVE NoUseAfterFree
  OBVIOUS
<1>1. ASSUME NEW x \in open PROVE so[x].mem = "live"
  <2>1. ~NoReference /\ Refs /\ x \in Sock
    BY DEF NoReference, IInv, TypeOK
  <2> QED
    BY <2>1, Referenced, Zenon
<1>2. ASSUME NEW t \in Threads,
             th[t].pc \notin {"idle", "unlock", "dispose1", "dispose2", "dropwithreset"}
      PROVE  \A x \in Sock : so[x].mem = "live"
  <2>1. CASE Aborting(t)
    BY <2>1, Unaccepted, Zenon
  <2>2. CASE ~NoReference
    BY <2>2, Referenced, Zenon DEF IInv
  <2> QED
    BY <1>2, <2>1, <2>2, InCall, Zenon
<1> QED
  BY <1>1, <1>2, Zenon DEF NoUseAfterFree

\* The two layers together give PairInv.
LEMMA PairInvFollows == IInv /\ LockOwners => PairInv
<1> SUFFICES ASSUME IInv, LockOwners PROVE PairInv
  OBVIOUS
<1>1. RefInv /\ TypeOK /\ FreedTogether /\ ReferencesAgree /\ PassiveTogether
  BY Zenon DEF IInv, Refs, RefInv
<1>2. DisposedIsOver
  BY Zenon DEF IInv, Refs, DeadPair, HalfOK, DisposedIsOver
<1>3. ASSUME NEW t \in Threads
      PROVE  /\ th[t].pc = "idle" => \A l \in Locks \ InpLocks : lock[l] # t
             /\ ~InSend(t) /\ (\E x \in Sock : lock[INP(x)] = t) => t \in Apps /\ ~tcb["S"].passive
             /\ th[t].pc \in {"accept", "dispose1", "dispose2"}
                  => \A l \in {ACCEPT} \cup SockLocks : lock[l] # t
  <2>1. LocksOf(t) /\ ThreadOK(t)
    BY Zenon DEF IInv, LockOwners
  <2>2. \A l \in Locks \ InpLocks : l = INFO \/ l = ACCEPT \/ \E x \in Sock : l = SOCK(x)
    BY DEF Locks, SockLocks
  <2>3. \A l \in {ACCEPT} \cup SockLocks : l = ACCEPT \/ \E x \in Sock : l = SOCK(x)
    BY Zenon DEF SockLocks
  <2>4. th[t].pc = "idle" =>
          lock[INFO] # t /\ lock[ACCEPT] # t /\ \A x \in Sock : lock[SOCK(x)] # t
    BY <2>1, Zenon DEF LocksOf, ThreadOK, Idle, InSend
  <2>5. th[t].pc \in {"accept", "dispose1", "dispose2"} =>
          lock[ACCEPT] # t /\ \A x \in Sock : lock[SOCK(x)] # t
    BY <2>1, Zenon DEF LocksOf
  <2>6. ~InSend(t) /\ (\E x \in Sock : lock[INP(x)] = t) => t \in Apps /\ ~tcb["S"].passive
    BY <2>1, Zenon DEF LocksOf
  <2> QED
    BY <2>2, <2>3, <2>4, <2>5, <2>6, ZenonT(60)
<1>4. LocksReleased
  BY <1>3, Zenon DEF LocksReleased
<1> QED
  BY <1>1, <1>2, <1>4, Zenon DEF PairInv

\* For any number of application threads, the pair is in order between any two
\* steps: sofree() disposes of both halves or of none and only of a connection
\* that is over, TCP's and the sockets' references agree, the passive marks
\* agree, every reference and every lock has its one holder.
THEOREM PairInvariant == Spec => []PairInv
<1>1. Init => IInv /\ LockOwners
  BY InitIInv, Zenon
<1>2. IInv /\ LockOwners /\ [Next]_vars => IInv' /\ LockOwners'
  BY IInvStep, LockStep, Zenon
<1>3. IInv /\ LockOwners => PairInv
  BY PairInvFollows, Zenon
<1> QED
  BY <1>1, <1>2, <1>3, PTL DEF Spec

\* For any number of application threads, sofree() never frees a half that a
\* thread is inside a call on or that the application has open: one half's
\* references keep both.
THEOREM HalvesOutliveUsers == Spec => []NoUseAfterFree
<1>1. Init => IInv
  BY InitIInv, Zenon
<1>2. IInv /\ [Next]_vars => IInv'
  BY IInvStep, Zenon
<1>3. IInv => NoUseAfterFree
  BY UseAfterFree
<1> QED
  BY <1>1, <1>2, <1>3, PTL DEF Spec
=============================================================================
