-------------------------- MODULE PassivePair_refs --------------------------
(***************************************************************************)
(* The invariant of a passive pair, and what its proof needs to know of    *)
(* the references: Refs says who holds which, and a step either leaves     *)
(* every reference with its holder (SameRefs) or moves one. sofree(),      *)
(* which keeps the pair or disposes of it, and the steps that move no      *)
(* reference are here; the calls that take, pass on or give up one are in  *)
(* PassivePair_calls.                                                      *)
(***************************************************************************)
EXTENDS PassivePair, TLAPS

\* Who holds which reference.
Refs ==
  /\ CountHeld /\ ReferencesAgree /\ ProtoHeld /\ FreshPair /\ NotOver /\ DeadPair /\ FreedTogether

\* The inductive invariant, without the locks.
IInv ==
  /\ TypeOK /\ (\A t \in Threads : ThreadOK(t)) /\ Refs
  /\ HalfOK /\ OneConversion /\ PassiveTogether

\* A pair has two halves, each the peer of the other.
LEMMA Halves == /\ Sock = {"S", "C"} /\ "S" # "C"
                /\ \A x \in Sock : Peer(x) \in Sock /\ Peer(x) # x /\ Peer(Peer(x)) = x
                /\ \A x, y \in Sock : y = x \/ y = Peer(x)
  BY DEF Sock, Peer

\* Only thread t moves.
Moves(t) == \A u \in Threads : u # t => th'[u] = th[u]

\* A step of one thread leaves the others in their roles.
LEMMA OtherRoles ==
  ASSUME NEW t \in Threads, Moves(t), NEW u \in Threads, u # t
  PROVE  /\ \A x \in Sock : /\ Owns(u, x)' <=> Owns(u, x)
                            /\ ProtoTail(u, x)' <=> ProtoTail(u, x)
                            /\ InTail(u, x)' <=> InTail(u, x)
         /\ Aborting(u)' <=> Aborting(u)
         /\ th'[u] = th[u]
  BY DEF Moves, Owns, ProtoTail, InTail, Aborting

\* The role of a thread: what it holds, and how far an abort or a disposal is.
SameRole(t) ==
  /\ \A x \in Sock : /\ Owns(t, x)' <=> Owns(t, x)
                     /\ ProtoTail(t, x)' <=> ProtoTail(t, x)
                     /\ Owns(t, x) => (InTail(t, x)' <=> InTail(t, x))
  /\ Aborting(t)' <=> Aborting(t)
  /\ th[t].pc \in {"abort1", "abort2", "dispose1", "dispose2"} => th'[t] = th[t]
  /\ th'[t].pc \in {"abort1", "abort2", "dispose1", "dispose2"} => th'[t] = th[t]

SameMarks ==
  /\ \A x \in Sock : /\ so'[x].count = so[x].count /\ so'[x].mem = so[x].mem
                     /\ "PROTOREF" \in so'[x].state <=> "PROTOREF" \in so[x].state
                     /\ "SOCKREF" \in tcb'[x].flags <=> "SOCKREF" \in tcb[x].flags
                     /\ Gone(x) => Gone(x)'
  /\ so'["S"].comp <=> so["S"].comp
  /\ open' = open

\* A step that leaves the marks and the roles as they are.
LEMMA SameRefs ==
  ASSUME NEW t \in Threads, Moves(t), SameRole(t), SameMarks, TypeOK, Refs
  PROVE  Refs'
<1> USE DEF SameMarks
<1>1. \A u \in Threads : SameRole(u)
  BY OtherRoles DEF SameRole
<1>2. /\ \A u \in Threads, x \in Sock :
           /\ Owns(u, x)' <=> Owns(u, x)
           /\ ProtoTail(u, x)' <=> ProtoTail(u, x)
           /\ Owns(u, x) => (InTail(u, x)' <=> InTail(u, x))
      /\ \A u \in Threads : Aborting(u)' <=> Aborting(u)
  BY <1>1 DEF SameRole
<1>3. \A u \in Threads, p \in {"abort1", "abort2", "dispose1", "dispose2"} :
        /\ th'[u].pc = p <=> th[u].pc = p
        /\ th[u].pc = p => th'[u].so = th[u].so
  BY <1>1 DEF SameRole
<1>4. CountHeld'
  BY <1>2, Zenon DEF Refs, CountHeld
<1>5. ReferencesAgree'
  BY <1>2, Zenon DEF Refs, ReferencesAgree, ProtoTail
<1>6. ProtoHeld'
  BY <1>2 DEF Refs, ProtoHeld
<1>7. NoReference => NoReference'
  BY <1>2 DEF NoReference
<1>8. FreshPair'
  BY <1>2, <1>7 DEF Refs, FreshPair
<1>9. NotOver'
  BY <1>2, <1>3, Zenon DEF Refs, NotOver
<1>10. DeadPair'
  <2>1. \A u \in Threads : th[u].so \in Sock /\ Peer(th[u].so) \in Sock
    BY Halves, Zenon DEF TypeOK
  <2>2. ASSUME NEW u \in Threads
        PROVE  /\ th'[u].pc = "dispose1" => \A x \in Sock : so'[x].mem = "doomed"
               /\ th'[u].pc = "dispose2" =>
                    so'[th'[u].so].mem = "free" /\ so'[Peer(th'[u].so)].mem = "doomed"
    BY <1>3, <2>1 DEF Refs, DeadPair
  <2>3. ASSUME NEW u \in Threads, NEW v \in Threads,
               th'[u].pc \in {"dispose1", "dispose2"}, th'[v].pc \in {"dispose1", "dispose2"}
        PROVE  u = v
    BY <1>3, <2>3, Zenon DEF Refs, DeadPair
  <2>4. (\E x \in Sock : so'[x].mem # "live") =>
          /\ NoReference' /\ ~so'["S"].comp
          /\ \A u \in Threads : ~Aborting(u)'
          /\ \A x \in Sock : so'[x].mem # "live" /\ Gone(x)'
    BY <1>2, <1>7 DEF Refs, DeadPair
  <2> QED
    BY <2>2, <2>3, <2>4 DEF DeadPair
<1>11. FreedTogether'
  BY <1>3, Halves, Zenon DEF Refs, FreedTogether
<1> QED
  BY <1>4, <1>5, <1>6, <1>8, <1>9, <1>10, <1>11, Zenon DEF Refs

-----------------------------------------------------------------------------
(***************************************************************************)
(* Frames for the other parts of the invariant.                            *)
(***************************************************************************)

\* ... and where they are.
LEMMA ThreadFrame ==
  ASSUME IInv, NEW t \in Threads, Moves(t), open \subseteq open', ThreadOK(t)'
  PROVE  \A u \in Threads : ThreadOK(u)'
<1> SUFFICES ASSUME NEW u \in Threads, u # t PROVE ThreadOK(u)'
  OBVIOUS
<1>1. th'[u] = th[u] /\ ThreadOK(u)
  BY DEF Moves, IInv
<1> QED
  BY <1>1 DEF ThreadOK

\* A step that converts nothing keeps what is known of conversions.
LEMMA PassiveFrame ==
  ASSUME IInv, NEW t \in Threads, Moves(t), UNCHANGED panicked,
         \A x \in Sock : /\ tcb'[x].passive = tcb[x].passive
                         /\ so'[x].options = so[x].options,
         so'["S"].comp => so["S"].comp,
         Aborting(t)' => Aborting(t) \/ so["S"].comp,
         Converting(t)' <=> Converting(t), InSend(t)' => InSend(t)
  PROVE  OneConversion' /\ PassiveTogether'
<1>1. /\ \A u \in Threads : /\ Converting(u)' <=> Converting(u)
                            /\ InSend(u)' => InSend(u)
      /\ (\E u \in Threads : Aborting(u)') => so["S"].comp \/ \E u \in Threads : Aborting(u)
  BY ZenonT(60) DEF Moves, Converting, InSend, Aborting
<1>2. OneConversion /\ PassiveTogether
  BY DEF IInv
<1>3. tcb'["S"].passive = tcb["S"].passive /\ tcb'["C"].passive = tcb["C"].passive
      /\ so'["S"].options = so["S"].options
  BY Halves
<1>4. OneConversion'
  BY <1>1, <1>2, <1>3, Zenon DEF OneConversion
<1>5. PassiveTogether'
  BY <1>1, <1>2, <1>3 DEF PassiveTogether, Converting
<1> QED
  BY <1>4, <1>5

\* A step that changes no control block keeps what is known of them.
LEMMA HalfFrame ==
  ASSUME IInv, tcb' = tcb,
         \A x \in Sock : so'[x].mem = so[x].mem,
         so'["C"].comp = so["C"].comp, "NOFDREF" \in so["C"].state => "NOFDREF" \in so'["C"].state
  PROVE  HalfOK'
  BY DEF IInv, HalfOK

\* The two ways to move a thread.
LEMMA Going ==
  ASSUME TypeOK, NEW t \in Threads, NEW pc \in Pc, NEW x \in Sock, NEW via \in Via, NEW ret \in Ret,
         GoTo(t, pc, x, via, ret)
  PROVE  /\ th' \in [Threads -> [pc : Pc, so : Sock, via : Via, ret : Ret]] /\ Moves(t)
         /\ th'[t].pc = pc /\ th'[t].so = x /\ th'[t].via = via /\ th'[t].ret = ret
  BY DEF TypeOK, GoTo, Moves

\* A thread goes on within its call.
LEMMA Stepping ==
  ASSUME TypeOK, NEW t \in Threads, NEW pc \in Pc, th' = [th EXCEPT ![t].pc = pc]
  PROVE  /\ th' \in [Threads -> [pc : Pc, so : Sock, via : Via, ret : Ret]] /\ Moves(t)
         /\ th'[t].pc = pc /\ th'[t].so = th[t].so /\ th'[t].via = th[t].via /\ th'[t].ret = th[t].ret
  BY DEF TypeOK, Moves

\* A thread leaves its call.
LEMMA Idling ==
  ASSUME TypeOK, NEW t \in Threads, th' = [th EXCEPT ![t] = Idle]
  PROVE  /\ th' \in [Threads -> [pc : Pc, so : Sock, via : Via, ret : Ret]] /\ Moves(t)
         /\ th'[t].pc = "idle" /\ th'[t].so = "S" /\ th'[t].via = "none" /\ th'[t].ret = "idle"
         /\ th'[t] = Idle
  BY Zenon DEF TypeOK, Moves, Idle, Pc, Via, Ret, Sock

\* A thread that has given up its reference goes on where ret says.
LEMMA ReturnIs ==
  ASSUME TypeOK, NEW t \in Threads, Return(t)
  PROVE  /\ th' \in [Threads -> [pc : Pc, so : Sock, via : Via, ret : Ret]] /\ Moves(t)
         /\ th'[t].ret = "idle"
         /\ th[t].ret \in {"sendout", "closeS"} =>
              th'[t].pc = th[t].ret /\ th'[t].so = Peer(th[t].so) /\ th'[t].via = "none"
         /\ th[t].ret = "idle" => th'[t] = Idle /\ th'[t].pc = "idle" /\ th'[t].via = "none"
         /\ th[t].ret \in {"unlock", "dropwithreset"} =>
              th'[t].pc = th[t].ret /\ th'[t].so = th[t].so /\ th'[t].via = th[t].via
<1>1. /\ th[t].ret \in Ret /\ Peer(th[t].so) \in Sock /\ "none" \in Via /\ "idle" \in Ret
      /\ {"sendout", "closeS", "unlock", "dropwithreset"} \subseteq Pc
  BY Halves DEF TypeOK, Pc, Via, Ret
<1>2. CASE th[t].ret \in {"sendout", "closeS"}
  <2>1. GoTo(t, th[t].ret, Peer(th[t].so), "none", "idle")
    BY <1>2 DEF Return
  <2> QED
    BY <1>1, <1>2, <2>1 DEF GoTo, TypeOK, Moves
<1>3. CASE th[t].ret = "idle"
  <2>1. th' = [th EXCEPT ![t] = Idle]
    BY <1>3, Zenon DEF Return
  <2> QED
    BY <1>3, <2>1, Idling, Zenon
<1>4. CASE th[t].ret \in {"unlock", "dropwithreset"}
  <2>1. th' = [th EXCEPT ![t] = [th[t] EXCEPT !.pc = th[t].ret, !.ret = "idle"]]
    BY <1>4, Zenon DEF Return
  <2> QED
    BY <1>1, <1>4, <2>1, Zenon DEF TypeOK, Moves
<1> QED
  BY <1>1, <1>2, <1>3, <1>4, Zenon DEF Ret

\* A step that moves no thread keeps every role.
LEMMA StayStep ==
  ASSUME IInv, NEW t \in Threads, UNCHANGED <<th, open>>
  PROVE  /\ th' \in [Threads -> [pc : Pc, so : Sock, via : Via, ret : Ret]]
         /\ Moves(t) /\ ThreadOK(t)' /\ SameRole(t)
         /\ Converting(t)' <=> Converting(t)
         /\ InSend(t)' => InSend(t)
  BY DEF IInv, TypeOK, Moves, ThreadOK, SameRole, Owns, ProtoTail, InTail, Aborting, Converting, InSend

\* Locks taken and released are locks.
LEMMA LockTypes ==
  ASSUME TypeOK, NEW t \in Threads
  PROVE  \A L : /\ TakeAll(L, t) \in [Locks -> Threads \cup {"none"}]
                /\ Release(lock, L) \in [Locks -> Threads \cup {"none"}]
                /\ \A M : Release(TakeAll(L, t), M) \in [Locks -> Threads \cup {"none"}]
  BY Zenon DEF TypeOK, TakeAll, Release

-----------------------------------------------------------------------------
(***************************************************************************)
(* Steps that leave every reference with its holder.                       *)
(***************************************************************************)

\* A step that leaves every reference with its holder.
LEMMA KeepStep ==
  ASSUME IInv, NEW t \in Threads, Moves(t), TypeOK', ThreadOK(t)', SameRole(t), SameMarks, HalfOK',
         UNCHANGED panicked,
         \A x \in Sock : /\ tcb'[x].passive = tcb[x].passive
                         /\ so'[x].options = so[x].options,
         Converting(t)' <=> Converting(t), InSend(t)' => InSend(t)
  PROVE  IInv'
<1>1. Refs'
  BY SameRefs DEF IInv
<1>2. \A u \in Threads : ThreadOK(u)'
  BY ThreadFrame, Zenon DEF SameMarks
<1>3. OneConversion' /\ PassiveTogether'
  BY PassiveFrame, Zenon DEF SameMarks, SameRole
<1> QED
  BY <1>1, <1>2, <1>3, Zenon DEF IInv

\* ... and change nothing but the locks and where a thread is.
LEMMA MoveStep ==
  ASSUME IInv, NEW t \in Threads, Moves(t),
         th' \in [Threads -> [pc : Pc, so : Sock, via : Via, ret : Ret]],
         lock' \in [Locks -> Threads \cup {"none"}],
         UNCHANGED <<so, tcb, open, listening, panicked>>,
         ThreadOK(t)', SameRole(t), Converting(t)' <=> Converting(t), InSend(t)' => InSend(t)
  PROVE  IInv'
<1>1. TypeOK'
  BY Zenon DEF IInv, TypeOK
<1>2. SameMarks
  BY DEF SameMarks, Gone
<1>3. HalfOK'
  BY HalfFrame
<1> QED
  BY <1>1, <1>2, <1>3, KeepStep, Zenon

(***************************************************************************)
(* ... or change one half: what a control block and a socket become.       *)
(***************************************************************************)

TcbOK(c) ==
  /\ c.state = "TIME_WAIT" <=> "TIMEWAIT" \in c.flags /\ "DROPPED" \notin c.flags
  /\ c.passive /\ "TIMEWAIT" \in c.flags => "DROPPED" \in c.flags
  /\ c.inp # "persists"

SameSocket(s, r) ==
  /\ s.count = r.count /\ s.mem = r.mem /\ s.comp = r.comp /\ s.options = r.options
  /\ "PROTOREF" \in s.state <=> "PROTOREF" \in r.state

OneHalf(x, s, c) == so' = [so EXCEPT ![x] = s] /\ tcb' = [tcb EXCEPT ![x] = c]

\* A control block after tcp_close cleared INP_SOCKREF.
LEMMA DroppedIs ==
  ASSUME NEW c \in Tcb
  PROVE  /\ Dropped(c) \in Tcb /\ Dropped(c).state = "CLOSED" /\ Dropped(c).passive = c.passive
         /\ Dropped(c).ppcb = c.ppcb /\ Dropped(c).inp = c.inp
         /\ "DROPPED" \in Dropped(c).flags /\ "SOCKREF" \notin Dropped(c).flags
         /\ "TIMEWAIT" \in Dropped(c).flags <=> "TIMEWAIT" \in c.flags
  BY Zenon DEF Dropped, Tcb, TcpState

\* A socket after soisdisconnected or soisdisconnecting.
LEMMA DisconnectedIs ==
  ASSUME NEW s \in Socket
  PROVE  /\ Disconnected(s) \in Socket /\ SameSocket(Disconnected(s), s)
         /\ Disconnected(s).state = s.state
         /\ soisdisconnecting(s) \in Socket /\ SameSocket(soisdisconnecting(s), s)
         /\ soisdisconnecting(s).state = s.state
  BY Zenon DEF Disconnected, soisdisconnecting, Socket, SameSocket

\* A control block after tcp_usrclosed.
LEMMA UsrclosedIs ==
  ASSUME NEW s \in Socket, NEW c \in Tcb, TcbOK(c)
  PROVE  /\ tcp_usrclosed(c) \in Tcb /\ TcbOK(tcp_usrclosed(c))
         /\ tcp_usrclosed(c).passive = c.passive /\ tcp_usrclosed(c).inp = c.inp
         /\ "SOCKREF" \in tcp_usrclosed(c).flags => "SOCKREF" \in c.flags
         /\ "TIMEWAIT" \in c.flags => "TIMEWAIT" \in tcp_usrclosed(c).flags
         /\ "DROPPED" \in c.flags => "DROPPED" \in tcp_usrclosed(c).flags
         /\ "SOCKREF" \in c.flags /\ "SOCKREF" \notin tcp_usrclosed(c).flags
              => "DROPPED" \in tcp_usrclosed(c).flags
         /\ Usrclosed(s, c) \in Socket /\ SameSocket(Usrclosed(s, c), s)
         /\ Usrclosed(s, c).state = s.state
<1>1. Usrclosed(s, c) \in Socket /\ SameSocket(Usrclosed(s, c), s) /\ Usrclosed(s, c).state = s.state
  BY DisconnectedIs DEF Usrclosed, SameSocket
<1> DEFINE d == tcp_usrclosed(c)
<1>2. CASE c.state = "ESTABLISHED"
  <2>1. d = [c EXCEPT !.state = "FIN_WAIT_1"]
    BY <1>2 DEF tcp_usrclosed
  <2>2. d \in Tcb /\ d.state = "FIN_WAIT_1" /\ d.flags = c.flags /\ d.passive = c.passive /\ d.inp = c.inp
    BY <2>1 DEF Tcb, TcpState
  <2> QED
    BY <1>1, <1>2, <2>2 DEF TcbOK
<1>3. CASE c.state = "CLOSE_WAIT" /\ c.passive
  <2>1. d = Dropped(c)
    BY <1>3, Zenon DEF tcp_usrclosed
  <2> QED
    BY <1>1, <1>3, <2>1, DroppedIs, Zenon DEF TcbOK
<1>4. CASE c.state = "CLOSE_WAIT" /\ ~c.passive
  <2>1. d = [c EXCEPT !.state = "LAST_ACK"]
    BY <1>4 DEF tcp_usrclosed
  <2>2. d \in Tcb /\ d.state = "LAST_ACK" /\ d.flags = c.flags /\ d.passive = c.passive /\ d.inp = c.inp
    BY <2>1, Zenon DEF Tcb, TcpState
  <2> QED
    BY <1>1, <1>4, <2>2 DEF TcbOK
<1>5. CASE c.state = "FIN_WAIT_2"
  <2>1. d = [c EXCEPT !.flags = @ \cup {"2MSL"}]
    BY <1>5 DEF tcp_usrclosed
  <2>2. d \in Tcb /\ d.state = c.state /\ d.flags = c.flags \cup {"2MSL"} /\ d.passive = c.passive /\ d.inp = c.inp
    BY <2>1 DEF Tcb, TcpState
  <2> QED
    BY <1>1, <1>5, <2>2 DEF TcbOK
<1>6. CASE c.state \notin {"ESTABLISHED", "CLOSE_WAIT", "FIN_WAIT_2"}
  <2>1. d = c
    BY <1>6 DEF tcp_usrclosed
  <2> QED
    BY <1>1, <2>1
<1> QED
  BY <1>2, <1>3, <1>4, <1>5, <1>6, Zenon

\* What OneHalf does.
LEMMA OneHalfIs ==
  ASSUME TypeOK, NEW x \in Sock, NEW s \in Socket, NEW c \in Tcb, OneHalf(x, s, c)
  PROVE  /\ so' \in [Sock -> Socket] /\ tcb' \in [Sock -> Tcb]
         /\ so'[x] = s /\ tcb'[x] = c
         /\ \A y \in Sock : y # x => so'[y] = so[y] /\ tcb'[y] = tcb[y]
  BY DEF TypeOK, OneHalf

\* One half changes; what it becomes is allowed.
LEMMA HalfStep ==
  ASSUME IInv, NEW x \in Sock, NEW s \in Socket, NEW c \in Tcb, OneHalf(x, s, c),
         TcbOK(c), c.inp # "attached" => s.mem = "free", s.mem = so[x].mem, s.comp => so[x].comp,
         x = "C" => "NOFDREF" \in s.state
  PROVE  HalfOK'
<1>1. /\ so'[x] = s /\ tcb'[x] = c
      /\ \A y \in Sock : y # x => so'[y] = so[y] /\ tcb'[y] = tcb[y]
  BY OneHalfIs DEF IInv
<1>2. HalfOK
  BY Zenon DEF IInv
<1>3. ~so'["C"].comp /\ "NOFDREF" \in so'["C"].state
  BY <1>1, <1>2, Halves, Zenon DEF HalfOK
<1>4. \A y \in Sock : TcbOK(tcb'[y]) /\ (tcb'[y].inp # "attached" => so'[y].mem = "free")
  BY <1>1, <1>2 DEF HalfOK, TcbOK
<1> QED
  BY <1>3, <1>4, Zenon DEF HalfOK, TcbOK

\* One half changes and every reference stays with its holder.
LEMMA QuietStep ==
  ASSUME IInv, NEW t \in Threads, Moves(t),
         th' \in [Threads -> [pc : Pc, so : Sock, via : Via, ret : Ret]],
         lock' \in [Locks -> Threads \cup {"none"}], listening' \in BOOLEAN,
         UNCHANGED <<open, panicked>>,
         NEW x \in Sock, NEW s \in Socket, NEW c \in Tcb, OneHalf(x, s, c),
         SameSocket(s, so[x]), x = "C" => "NOFDREF" \in s.state,
         TcbOK(c), c.inp # "attached" => s.mem = "free", c.passive = tcb[x].passive,
         "SOCKREF" \in c.flags <=> "SOCKREF" \in tcb[x].flags,
         Gone(x) => c.flags \cap {"TIMEWAIT", "DROPPED"} # {},
         ThreadOK(t)', SameRole(t), Converting(t)' <=> Converting(t), InSend(t)' => InSend(t)
  PROVE  IInv'
<1>1. /\ so' \in [Sock -> Socket] /\ tcb' \in [Sock -> Tcb]
      /\ so'[x] = s /\ tcb'[x] = c
      /\ \A y \in Sock : y # x => so'[y] = so[y] /\ tcb'[y] = tcb[y]
  BY OneHalfIs, Zenon DEF IInv
<1>2. TypeOK'
  BY <1>1, Zenon DEF IInv, TypeOK
<1>3. SameMarks
  BY <1>1, Halves DEF SameMarks, SameSocket, Gone
<1>4. HalfOK'
  BY HalfStep, Zenon DEF SameSocket
<1>5. \A y \in Sock : tcb'[y].passive = tcb[y].passive /\ so'[y].options = so[y].options
  BY <1>1 DEF SameSocket
<1> QED
  BY <1>2, <1>3, <1>4, <1>5, KeepStep, Zenon

\* A half that the application or a closing thread holds is not yet left to TCP.
LEMMA NotYetLeft ==
  ASSUME IInv, NEW x \in Sock, x \in open \/ \E t \in Threads : Owns(t, x) /\ ~InTail(t, x)
  PROVE  /\ "SOCKREF" \notin tcb[x].flags /\ "PROTOREF" \notin so[x].state
         /\ \A t \in Threads : ~ProtoTail(t, x)
<1>1. ProtoHeld /\ ReferencesAgree
  BY DEF IInv, Refs
<1>2. "SOCKREF" \notin tcb[x].flags /\ \A t \in Threads : ~ProtoTail(t, x)
  BY <1>1, Zenon DEF ProtoHeld
<1> QED
  BY <1>1, <1>2 DEF ReferencesAgree, ProtoTail

\* What the invariant says of one half.
LEMMA TcbFacts ==
  ASSUME IInv, NEW x \in Sock
  PROVE  /\ so[x] \in Socket /\ tcb[x] \in Tcb /\ TcbOK(tcb[x])
         /\ tcb[x].inp # "attached" => so[x].mem = "free"
         /\ x = "C" => "NOFDREF" \in so[x].state
  BY Zenon DEF IInv, TypeOK, HalfOK, TcbOK

\* Nothing in t's hands.
NoRole(t) ==
  /\ \A y \in Sock : ~Owns(t, y) /\ ~ProtoTail(t, y)
  /\ ~Aborting(t)
  /\ th[t].pc \notin {"abort1", "abort2", "dispose1", "dispose2"}

\* A pair with a reference is neither fresh nor disposed of.
LEMMA Referenced ==
  ASSUME Refs, ~NoReference
  PROVE  /\ ~so["S"].comp /\ \A t \in Threads : ~Aborting(t)
         /\ \A x \in Sock : so[x].mem = "live"
         /\ \A t \in Threads : th[t].pc \notin {"dispose1", "dispose2"}
<1>1. ~so["S"].comp /\ \A t \in Threads : ~Aborting(t)
  BY DEF Refs, FreshPair
<1>2. \A x \in Sock : so[x].mem = "live"
  BY DEF Refs, DeadPair
<1>3. \A t \in Threads : th[t].pc \notin {"dispose1", "dispose2"}
  <2> SUFFICES ASSUME NEW t \in Threads, th[t].pc \in {"dispose1", "dispose2"} PROVE FALSE
    BY Zenon
  <2>1. th[t].pc = "dispose1" => FALSE
    BY <1>2, Halves, Zenon DEF Refs, DeadPair
  <2>2. th[t].pc = "dispose2" => so[Peer(th[t].so)].mem = "doomed"
    BY DEF Refs, DeadPair
  <2>3. Peer(th[t].so) \in Sock
    BY DEF Peer, Sock
  <2> QED
    BY <1>2, <2>1, <2>2, <2>3, Zenon
<1> QED
  BY <1>1, <1>2, <1>3

\* While every half is live and no thread aborts or disposes, the last three
\* parts of Refs ask for little.
LEMMA LivePair ==
  ASSUME ~so'["S"].comp, \A u \in Threads : ~Aborting(u)', \A x \in Sock : so'[x].mem = "live",
         \A u \in Threads : th'[u].pc \notin {"dispose1", "dispose2"}
  PROVE  FreshPair' /\ DeadPair' /\ FreedTogether'
<1>1. FreshPair'
  BY DEF FreshPair
<1>2. DeadPair'
  BY DEF DeadPair
<1>3. FreedTogether'
  BY Halves, Zenon DEF FreedTogether
<1> QED
  BY <1>1, <1>2, <1>3, Zenon

\* An idle thread has nothing in hand.
LEMMA IdleRole ==
  ASSUME NEW t \in Threads, ThreadOK(t), th[t].pc = "idle"
  PROVE  NoRole(t) /\ ~Converting(t) /\ ~InSend(t) /\ th[t] = Idle
<1>1. th[t] = Idle
  BY DEF ThreadOK
<1> QED
  BY <1>1 DEF Idle, NoRole, Owns, ProtoTail, InTail, Aborting, Converting, InSend

\* A pair that is on the listener's queue, or being aborted, has no reference.
LEMMA Unaccepted ==
  ASSUME IInv, so["S"].comp \/ \E u \in Threads : Aborting(u)
  PROVE  /\ NoReference
         /\ \A x \in Sock : /\ so[x].mem = "live" /\ so[x].count = 0 /\ "PROTOREF" \notin so[x].state
                            /\ tcb[x].passive
         /\ \A u \in Threads : th[u].pc \notin {"dispose1", "dispose2"}
<1>1. NoReference /\ \A x \in Sock : so[x].mem = "live"
  BY DEF IInv, Refs, FreshPair
<1>2. \A x \in Sock : so[x].count = 0 /\ "PROTOREF" \notin so[x].state
  BY <1>1, Zenon DEF IInv, Refs, CountHeld, ReferencesAgree, ProtoTail, NoReference
<1>3. \A x \in Sock : tcb[x].passive
  BY Halves DEF IInv, OneConversion, PassiveTogether
<1>4. \A u \in Threads : th[u].so \in Sock /\ Peer(th[u].so) \in Sock
  BY Halves, Zenon DEF IInv, TypeOK
<1>5. \A u \in Threads : th[u].pc \notin {"dispose1", "dispose2"}
  BY <1>1, <1>4, Zenon DEF IInv, Refs, DeadPair
<1> QED
  BY <1>1, <1>2, <1>3, <1>5, Zenon

-----------------------------------------------------------------------------
(***************************************************************************)
(* The reference is given up: sofree() keeps the pair or disposes of it.   *)
(***************************************************************************)

\* A socket without the application's reference.
LEMMA UnclosedIs ==
  ASSUME NEW s \in Socket, s.count = 1, NEW r, r = Unreferenced(s, "close")
  PROVE  /\ r \in Socket /\ r.mem = s.mem /\ r.comp = s.comp /\ r.options = s.options
         /\ r.count = 0 /\ r.state = s.state \cup {"NOFDREF"}
<1>1. r = [s EXCEPT !.state = s.state \cup {"NOFDREF"}, !.count = s.count - 1]
  BY DEF Unreferenced
<1>2. r = [s EXCEPT !.state = s.state \cup {"NOFDREF"}, !.count = 0]
  BY <1>1
<1>3. 0 \in 0 .. 1 /\ s.state \cup {"NOFDREF"} \in SUBSET {"NOFDREF", "PROTOREF"}
  BY DEF Socket
<1>4. r \in Socket
  BY <1>2, <1>3, ZenonT(30) DEF Socket
<1> QED
  BY <1>2, <1>4, Zenon DEF Socket

\* A socket without TCP's reference.
LEMMA UnprotectedIs ==
  ASSUME NEW s \in Socket, NEW r, r = Unreferenced(s, "proto")
  PROVE  /\ r \in Socket /\ r.mem = s.mem /\ r.comp = s.comp /\ r.options = s.options
         /\ r.count = s.count /\ r.state = s.state \ {"PROTOREF"}
<1>1. r = [s EXCEPT !.state = s.state \ {"PROTOREF"}]
  BY DEF Unreferenced
<1> QED
  BY <1>1 DEF Socket

\* A socket that sofree_dispose has begun with.
LEMMA DoomedIs ==
  ASSUME NEW s \in Socket, NEW r, r = [s EXCEPT !.mem = "doomed"]
  PROVE  /\ r \in Socket /\ r.mem = "doomed" /\ r.comp = s.comp /\ r.options = s.options
         /\ r.count = s.count /\ r.state = s.state
  BY DEF Socket

\* A socket that sofree_dispose has freed.
LEMMA FreedIs ==
  ASSUME NEW s \in Socket, NEW r, r = [s EXCEPT !.mem = "free"]
  PROVE  /\ r \in Socket /\ r.mem = "free" /\ r.comp = s.comp /\ r.options = s.options
         /\ r.count = s.count /\ r.state = s.state
  BY DEF Socket

\* What thread t gives up, seen from the pair: s is half x without the
\* reference.
LEMMA GivesUp ==
  ASSUME IInv, NEW t \in Threads, th[t].pc = "sock2", NEW x \in Sock, x = th[t].so, NEW s,
         s = Unreferenced(so[x], th[t].via)
  PROVE  /\ s \in Socket /\ s.mem = "live" /\ s.comp = so[x].comp /\ s.options = so[x].options
         /\ "NOFDREF" \in so[x].state => "NOFDREF" \in s.state
         /\ s.count = (IF x \in open \/ \E u \in Threads \ {t} : Owns(u, x) THEN 1 ELSE 0)
         /\ "PROTOREF" \in s.state <=>
              "SOCKREF" \in tcb[x].flags \/ \E u \in Threads \ {t} : ProtoTail(u, x)
         /\ ~so["S"].comp /\ (\A u \in Threads : Aborting(u) => u = t)
         /\ \A y \in Sock : so[y].mem = "live"
         /\ \A u \in Threads : th[u].pc \notin {"abort1", "abort2", "dispose1", "dispose2"}
         /\ Owns(t, x) => x \notin open /\ \A u \in Threads : Owns(u, x) => u = t
<1>1. so[x] \in Socket /\ ThreadOK(t) /\ CountHeld /\ ReferencesAgree /\ ProtoHeld
  BY Zenon DEF IInv, TypeOK, Refs
<1>2. ("PROTOREF" \in so[x].state <=>
         "SOCKREF" \in tcb[x].flags \/ \E u \in Threads : ProtoTail(u, x))
  BY <1>1, Zenon DEF ReferencesAgree, ProtoTail
<1>3. Owns(t, x) => x \notin open /\ \A u \in Threads : Owns(u, x) => u = t
  BY <1>1, Zenon DEF CountHeld
<1>4. /\ ~so["S"].comp /\ (\A u \in Threads : Aborting(u) => u = t)
      /\ \A y \in Sock : so[y].mem = "live"
      /\ \A u \in Threads : th[u].pc \notin {"dispose1", "dispose2"}
  <2>1. CASE th[t].via = "abort"
    <3>1. Aborting(t)
      BY <2>1 DEF Aborting
    <3> QED
      BY <3>1, Unaccepted, Zenon DEF IInv, Refs, FreshPair
  <2>2. CASE th[t].via # "abort"
    <3>1. Owns(t, x) \/ ProtoTail(t, x)
      BY <1>1, <2>2, Zenon DEF ThreadOK, Owns, ProtoTail, InTail
    <3>2. ~NoReference
      BY <3>1 DEF NoReference
    <3> QED
      BY <3>2, Referenced, Zenon DEF IInv
  <2> QED
    BY <2>1, <2>2, Zenon
<1>5. \A u \in Threads : th[u].pc \notin {"abort1", "abort2"}
  <2>1. \A u \in Threads : th[u].pc \in {"abort1", "abort2"} => Aborting(u)
    BY Zenon DEF IInv, ThreadOK, Aborting
  <2> QED
    BY <1>4, <2>1, Zenon
<1>6. CASE th[t].via = "close"
  <2>1. Owns(t, x) /\ ~ProtoTail(t, x)
    BY <1>6 DEF Owns, ProtoTail
  <2>2. so[x].count = 1 /\ x \notin open /\ \A u \in Threads \ {t} : ~Owns(u, x)
    BY <1>1, <1>3, <2>1, Zenon DEF CountHeld
  <2>3. /\ s \in Socket /\ s.mem = so[x].mem /\ s.comp = so[x].comp /\ s.options = so[x].options
        /\ s.count = 0 /\ s.state = so[x].state \cup {"NOFDREF"}
    BY <1>1, <1>6, <2>2, UnclosedIs, ZenonT(60)
  <2> QED
    BY <1>2, <1>3, <1>4, <1>5, <2>1, <2>2, <2>3, Zenon
<1>7. CASE th[t].via = "proto"
  <2>1. ProtoTail(t, x) /\ ~Owns(t, x)
    BY <1>1, <1>7, Zenon DEF Owns, ProtoTail, InTail, ThreadOK
  <2>2. "SOCKREF" \notin tcb[x].flags /\ \A u \in Threads \ {t} : ~ProtoTail(u, x)
    BY <1>1, <2>1, Zenon DEF ProtoHeld
  <2>3. /\ s \in Socket /\ s.mem = so[x].mem /\ s.comp = so[x].comp /\ s.options = so[x].options
        /\ s.count = so[x].count /\ s.state = so[x].state \ {"PROTOREF"}
    BY <1>1, <1>7, UnprotectedIs, Zenon
  <2>4. so[x].count = IF x \in open \/ \E u \in Threads \ {t} : Owns(u, x) THEN 1 ELSE 0
    BY <1>1, <2>1, Zenon DEF CountHeld
  <2> QED
    BY <1>3, <1>4, <1>5, <2>1, <2>2, <2>3, <2>4, Zenon
<1>8. CASE th[t].via = "abort"
  <2>1. ~ProtoTail(t, x) /\ ~Owns(t, x)
    BY <1>1, <1>8, Zenon DEF Owns, ProtoTail, InTail, ThreadOK
  <2>2. s = so[x]
    BY <1>1, <1>8, Zenon DEF Unreferenced
  <2>3. so[x].count = IF x \in open \/ \E u \in Threads \ {t} : Owns(u, x) THEN 1 ELSE 0
    BY <1>1, <2>1, Zenon DEF CountHeld
  <2> QED
    BY <1>1, <1>2, <1>3, <1>4, <1>5, <2>1, <2>2, <2>3, Zenon
<1> QED
  BY <1>1, <1>6, <1>7, <1>8, Zenon DEF ThreadOK

\* What is left of the roles when t has given up its reference.
LEMMA RolesAfter ==
  ASSUME IInv, NEW t \in Threads, th[t].pc = "sock2", NEW x \in Sock, x = th[t].so, Moves(t),
         \A y \in Sock : ~InTail(t, y)' /\ (Owns(t, y)' <=> Owns(t, y) /\ y # x), ~Aborting(t)'
  PROVE  \A u \in Threads, y \in Sock :
           /\ Owns(u, y)' <=> Owns(u, y) /\ ~(u = t /\ y = x)
           /\ ProtoTail(u, y)' <=> ProtoTail(u, y) /\ u # t
           /\ u # t => (InTail(u, y)' <=> InTail(u, y)) /\ (Aborting(u)' <=> Aborting(u))
           /\ InTail(t, y) <=> y = x
  BY OtherRoles DEF ProtoTail, InTail

\* sofree finds a reference to either half: the pair stays.
LEMMA SockLock2Keep ==
  ASSUME IInv, NEW t \in Threads, th[t].pc = "sock2", NEW x \in Sock, x = th[t].so,
         NEW s, s = Unreferenced(so[x], th[t].via), so' = [so EXCEPT ![x] = s], Return(t),
         UNCHANGED <<tcb, open, listening, panicked>>, lock' \in [Locks -> Threads \cup {"none"}]
  PROVE  IInv'
<1>1. TypeOK /\ ThreadOK(t) /\ CountHeld /\ ReferencesAgree /\ ProtoHeld /\ NotOver
  BY Zenon DEF IInv, Refs
<1>2. /\ s \in Socket /\ s.mem = "live" /\ s.comp = so[x].comp /\ s.options = so[x].options
      /\ "NOFDREF" \in so[x].state => "NOFDREF" \in s.state
      /\ s.count = (IF x \in open \/ \E u \in Threads \ {t} : Owns(u, x) THEN 1 ELSE 0)
      /\ "PROTOREF" \in s.state <=>
           "SOCKREF" \in tcb[x].flags \/ \E u \in Threads \ {t} : ProtoTail(u, x)
      /\ ~so["S"].comp /\ (\A u \in Threads : Aborting(u) => u = t)
      /\ \A y \in Sock : so[y].mem = "live"
      /\ \A u \in Threads : th[u].pc \notin {"abort1", "abort2", "dispose1", "dispose2"}
      /\ Owns(t, x) => x \notin open /\ \A u \in Threads : Owns(u, x) => u = t
  BY GivesUp
<1>3. /\ th' \in [Threads -> [pc : Pc, so : Sock, via : Via, ret : Ret]] /\ Moves(t)
      /\ th'[t].ret = "idle"
      /\ th[t].ret \in {"sendout", "closeS"} =>
           th'[t].pc = th[t].ret /\ th'[t].so = Peer(th[t].so) /\ th'[t].via = "none"
      /\ th[t].ret = "idle" => th'[t] = Idle /\ th'[t].pc = "idle" /\ th'[t].via = "none"
      /\ th[t].ret \in {"unlock", "dropwithreset"} =>
           th'[t].pc = th[t].ret /\ th'[t].so = th[t].so /\ th'[t].via = th[t].via
  BY <1>1, ReturnIs, Zenon
<1>4. th[t].ret \in {"idle", "sendout", "closeS", "unlock", "dropwithreset"}
  BY <1>1 DEF TypeOK, Ret
<1>5. OneHalf(x, s, tcb[x])
  BY <1>1, Zenon DEF OneHalf, TypeOK
<1>6. so' \in [Sock -> Socket] /\ so'[x] = s /\ \A y \in Sock : y # x => so'[y] = so[y]
  BY <1>1, <1>2, Zenon DEF TypeOK
<1>7. TypeOK'
  BY <1>1, <1>3, <1>6, Zenon DEF TypeOK
<1>8. \A u \in Threads : ThreadOK(u)'
  <2>1. ThreadOK(t)'
    <3>1. CASE th[t].ret = "idle"
      BY <1>3, <3>1, Zenon DEF ThreadOK, Idle
    <3>2. CASE th[t].ret = "closeS"
      BY <1>1, <1>3, <3>2, Halves, Zenon DEF ThreadOK, Peer
    <3>3. CASE th[t].ret = "sendout"
      BY <1>1, <1>3, <3>3, Zenon DEF ThreadOK
    <3>4. CASE th[t].ret \in {"unlock", "dropwithreset"}
      BY <1>1, <1>3, <3>4, Zenon DEF ThreadOK
    <3> QED
      BY <1>4, <3>1, <3>2, <3>3, <3>4, Zenon
  <2> QED
    BY <1>3, <2>1, ThreadFrame, Zenon
<1>9. /\ th'[t].pc \in {"idle", "sendout", "closeS", "unlock", "dropwithreset"}
      /\ th'[t].pc = "closeS" <=> th[t].ret = "closeS"
      /\ th'[t].pc = "sendout" => th[t].ret = "sendout"
  BY <1>3, <1>4
<1>10. (\A y \in Sock : ~InTail(t, y)' /\ (Owns(t, y)' <=> Owns(t, y) /\ y # x)) /\ ~Aborting(t)'
  <2>1. th[t].ret = "closeS" => x = "C" /\ th[t].via = "close"
    BY <1>1, Zenon DEF ThreadOK
  <2>2. \A y \in Sock : Owns(t, y)' <=> y = "S" /\ th[t].ret = "closeS"
    BY <1>3, <1>9, Zenon DEF Owns
  <2>3. \A y \in Sock : Owns(t, y) <=> (y = "S" /\ th[t].ret = "closeS") \/ (y = x /\ th[t].via = "close")
    BY DEF Owns
  <2>4. (\A y \in Sock : ~InTail(t, y)') /\ ~Aborting(t)'
    BY <1>9, Zenon DEF InTail, Aborting
  <2> QED
    BY <2>1, <2>2, <2>3, <2>4, Halves, Zenon
<1>11. \A u \in Threads, y \in Sock :
         /\ Owns(u, y)' <=> Owns(u, y) /\ ~(u = t /\ y = x)
         /\ ProtoTail(u, y)' <=> ProtoTail(u, y) /\ u # t
         /\ u # t => (InTail(u, y)' <=> InTail(u, y)) /\ (Aborting(u)' <=> Aborting(u))
         /\ InTail(t, y) <=> y = x
  <2>1. Moves(t)
    BY <1>3, Zenon
  <2> QED
    BY <1>10, <2>1, RolesAfter, ZenonT(60)
<1>12. \A u \in Threads : ~Aborting(u)' /\ th'[u].pc \notin {"dispose1", "dispose2"}
  <2>1. th'[t].pc \notin {"dispose1", "dispose2"} /\ Moves(t)
    BY <1>3, <1>9, Zenon
  <2>2. \A u \in Threads : u # t => th'[u] = th[u]
    BY <2>1, Zenon DEF Moves
  <2>3. \A u \in Threads : u # t => ~Aborting(u)
    BY <1>2, Zenon
  <2>4. \A u \in Threads : u # t => ~Aborting(u)'
    BY <1>11, <2>3, Zenon
  <2>5. \A u \in Threads : u # t => th[u].pc \notin {"dispose1", "dispose2"}
    BY <1>2, Zenon
  <2> QED
    BY <1>10, <2>1, <2>2, <2>4, <2>5, Zenon
<1>13. CountHeld'
  <2>1. \A y \in Sock : so'[y].count = IF y \in open \/ \E u \in Threads : Owns(u, y)' THEN 1 ELSE 0
    <3>1. so'[x].count = IF x \in open \/ \E u \in Threads : Owns(u, x)' THEN 1 ELSE 0
      <4>1. (\E u \in Threads : Owns(u, x)') <=> \E u \in Threads \ {t} : Owns(u, x)
        BY <1>11, Zenon
      <4> QED
        BY <1>2, <1>6, <4>1, Zenon
    <3>2. \A y \in Sock : y # x => so'[y].count = IF y \in open \/ \E u \in Threads : Owns(u, y)' THEN 1 ELSE 0
      BY <1>1, <1>6, <1>11, ZenonT(60) DEF CountHeld
    <3> QED
      BY <3>1, <3>2, Zenon
  <2>2. \A y \in Sock : \A u \in Threads : Owns(u, y)' =>
          y \notin open /\ \A v \in Threads : Owns(v, y)' => v = u
    BY <1>1, <1>11, Zenon DEF CountHeld
  <2> QED
    BY <2>1, <2>2, Zenon DEF CountHeld
<1>14. ReferencesAgree'
  <2>1. \A y \in Sock : "PROTOREF" \in so[y].state <=>
          "SOCKREF" \in tcb[y].flags \/ \E u \in Threads : ProtoTail(u, y)
    BY <1>1, Zenon DEF ReferencesAgree, ProtoTail
  <2>2. \A y \in Sock : y # x => ~ProtoTail(t, y)
    BY Zenon DEF ProtoTail, InTail
  <2>3. \A y \in Sock : "PROTOREF" \in so'[y].state <=>
          "SOCKREF" \in tcb[y].flags \/ \E u \in Threads : ProtoTail(u, y)'
    <3>1. \A y \in Sock : (\E u \in Threads : ProtoTail(u, y)') <=> \E u \in Threads \ {t} : ProtoTail(u, y)
      BY <1>11, Zenon
    <3>2. "PROTOREF" \in so'[x].state <=>
            "SOCKREF" \in tcb[x].flags \/ \E u \in Threads : ProtoTail(u, x)'
      BY <1>2, <1>6, <3>1, Zenon
    <3>3. \A y \in Sock : y # x => ((\E u \in Threads : ProtoTail(u, y)) <=> \E u \in Threads : ProtoTail(u, y)')
      BY <2>2, <3>1, Zenon
    <3>4. \A y \in Sock : y # x => ("PROTOREF" \in so'[y].state <=>
            "SOCKREF" \in tcb[y].flags \/ \E u \in Threads : ProtoTail(u, y)')
      BY <1>6, <2>1, <3>3, Zenon
    <3> QED
      BY <3>2, <3>4, Zenon
  <2> QED
    BY <2>3, Zenon DEF ReferencesAgree, ProtoTail
<1>15. ProtoHeld'
  <2>1. \A y \in Sock : Gone(y)' <=> Gone(y)
    BY Zenon DEF Gone
  <2>2. \A y \in Sock : \A u \in Threads : ProtoTail(u, y)' =>
          /\ "SOCKREF" \notin tcb[y].flags /\ Gone(y)'
          /\ \A v \in Threads : ProtoTail(v, y)' => v = u
    BY <1>1, <1>11, <2>1, Zenon DEF ProtoHeld
  <2>3. \A y \in Sock : "SOCKREF" \in tcb[y].flags \/ (\E u \in Threads : ProtoTail(u, y)') =>
          y \notin open /\ \A u \in Threads : Owns(u, y)' => InTail(u, y)'
    BY <1>1, <1>11, ZenonT(60) DEF ProtoHeld
  <2> QED
    BY <2>2, <2>3, Zenon DEF ProtoHeld
<1>16. NotOver'
  <2>1. \A y \in Sock : \/ y \in open \/ \E u \in Threads : Owns(u, y) /\ ~InTail(u, y)
                        \/ "SOCKREF" \in tcb[y].flags \/ Gone(y)
    BY <1>1, <1>2, Zenon DEF NotOver
  <2> QED
    BY <1>10, <1>11, <2>1, Zenon DEF NotOver, Gone
<1>17. FreshPair' /\ DeadPair' /\ FreedTogether'
  <2>1. ~so'["S"].comp /\ \A y \in Sock : so'[y].mem = "live"
    <3>1. \A y \in Sock : so'[y].mem = "live" /\ so'[y].comp = so[y].comp
      BY <1>2, <1>6, Zenon
    <3> QED
      BY <1>2, <3>1, Halves, ZenonT(60)
  <2> QED
    BY ONLY <1>12, <2>1, LivePair, Zenon
<1>18. HalfOK'
  <2>1. \A y \in Sock : /\ so'[y].comp = so[y].comp /\ so'[y].mem = so[y].mem
                        /\ "NOFDREF" \in so[y].state => "NOFDREF" \in so'[y].state
    BY <1>2, <1>6, Zenon
  <2>2. "NOFDREF" \in so["C"].state
    BY Zenon DEF IInv, HalfOK
  <2>3. so'["C"].comp = so["C"].comp /\ "NOFDREF" \in so'["C"].state
    BY <2>1, <2>2, Halves, Zenon
  <2> QED
    BY <2>1, <2>3, HalfFrame, Zenon
<1>19. OneConversion' /\ PassiveTogether'
  <2>1. (Converting(t)' <=> Converting(t)) /\ (InSend(t)' => InSend(t))
    BY <1>3, <1>9, Zenon DEF Converting, InSend
  <2>2. (\A y \in Sock : so'[y].options = so[y].options) /\ (so'["S"].comp => so["S"].comp)
    BY <1>2, <1>6, Halves, Zenon
  <2> QED
    BY <1>3, <1>10, <2>1, <2>2, PassiveFrame, Zenon
<1> QED
  BY <1>7, <1>8, <1>13, <1>14, <1>15, <1>16, <1>17, <1>18, <1>19, Zenon DEF IInv, Refs

\* sofree finds none: this thread disposes of the pair.
LEMMA SockLock2Dispose ==
  ASSUME IInv, NEW t \in Threads, th[t].pc = "sock2", NEW x \in Sock, x = th[t].so,
         NEW p \in Sock, p = Peer(x),
         NEW s, s = Unreferenced(so[x], th[t].via), ~sohasrefs(s), ~sohasrefs(so[p]),
         so' = [y \in Sock |-> [(IF y = x THEN s ELSE so[y]) EXCEPT !.mem = "doomed"]],
         th' = [th EXCEPT ![t].pc = "dispose1"],
         UNCHANGED <<tcb, open, listening, panicked>>, lock' \in [Locks -> Threads \cup {"none"}]
  PROVE  IInv'
<1>1. TypeOK /\ ThreadOK(t) /\ CountHeld /\ ReferencesAgree /\ ProtoHeld /\ NotOver /\ so[p] \in Socket
  BY ZenonT(60) DEF IInv, Refs, TypeOK
<1>2. /\ s \in Socket /\ s.mem = "live" /\ s.comp = so[x].comp /\ s.options = so[x].options
      /\ "NOFDREF" \in so[x].state => "NOFDREF" \in s.state
      /\ s.count = (IF x \in open \/ \E u \in Threads \ {t} : Owns(u, x) THEN 1 ELSE 0)
      /\ "PROTOREF" \in s.state <=>
           "SOCKREF" \in tcb[x].flags \/ \E u \in Threads \ {t} : ProtoTail(u, x)
      /\ ~so["S"].comp /\ (\A u \in Threads : Aborting(u) => u = t)
      /\ \A y \in Sock : so[y].mem = "live"
      /\ \A u \in Threads : th[u].pc \notin {"abort1", "abort2", "dispose1", "dispose2"}
      /\ Owns(t, x) => x \notin open /\ \A u \in Threads : Owns(u, x) => u = t
  BY GivesUp
<1>3. s.count = 0 /\ "PROTOREF" \notin s.state /\ so[p].count = 0 /\ "PROTOREF" \notin so[p].state
  BY Zenon DEF sohasrefs
<1>4. \A y \in Sock : y = x \/ y = p
  BY Halves, Zenon
<1>5. p \notin open /\ \A u \in Threads : ~Owns(u, p)
  <2>1. 0 # 1
    OBVIOUS
  <2>2. so[p].count = IF p \in open \/ \E u \in Threads : Owns(u, p) THEN 1 ELSE 0
    BY <1>1, Zenon DEF CountHeld
  <2> QED
    BY <1>3, <2>1, <2>2, Zenon
<1>6. x \notin open /\ \A u \in Threads \ {t} : ~Owns(u, x)
  <2>1. 0 # 1
    OBVIOUS
  <2>2. s.count = IF x \in open \/ \E u \in Threads \ {t} : Owns(u, x) THEN 1 ELSE 0
    BY <1>2, Zenon
  <2> QED
    BY <1>3, <2>1, <2>2, Zenon
<1>7. \A y \in Sock : "SOCKREF" \notin tcb[y].flags /\ \A u \in Threads \ {t} : ~ProtoTail(u, y)
  BY <1>1, <1>2, <1>3, <1>4, ZenonT(60) DEF ReferencesAgree, ProtoTail
<1>8. open = {}
  BY <1>1, <1>4, <1>5, <1>6, Zenon DEF TypeOK
<1>9. /\ th' \in [Threads -> [pc : Pc, so : Sock, via : Via, ret : Ret]] /\ Moves(t)
      /\ th'[t].pc = "dispose1" /\ th'[t].so = th[t].so /\ th'[t].via = th[t].via /\ th'[t].ret = th[t].ret
  BY <1>1, Stepping, Zenon DEF Pc
<1>10. th[t].ret # "closeS" /\ th[t].ret # "sendout"
  <2>1. th[t].ret = "closeS" => Owns(t, "S") /\ x = "C"
    BY <1>1, Zenon DEF ThreadOK, Owns
  <2>2. th[t].ret = "sendout" => p \in open
    BY <1>1, Zenon DEF ThreadOK
  <2> QED
    BY <1>5, <2>1, <2>2, Halves, Zenon DEF Peer
<1>11. \A y \in Sock : /\ so'[y] \in Socket /\ so'[y].mem = "doomed" /\ so'[y].options = so[y].options
                       /\ so'[y].comp = so[y].comp
                       /\ so'[y].count = 0 /\ "PROTOREF" \notin so'[y].state
                       /\ "NOFDREF" \in so[y].state => "NOFDREF" \in so'[y].state
  <2>1. so'[x] = [s EXCEPT !.mem = "doomed"]
    BY Zenon
  <2>2. so'[p] = [so[p] EXCEPT !.mem = "doomed"]
    BY Halves, Zenon
  <2>3. /\ so'[x] \in Socket /\ so'[x].mem = "doomed" /\ so'[x].options = s.options
        /\ so'[x].comp = s.comp /\ so'[x].count = s.count /\ so'[x].state = s.state
    BY ONLY <1>2, <2>1, DoomedIs
  <2>4. /\ so'[p] \in Socket /\ so'[p].mem = "doomed" /\ so'[p].options = so[p].options
        /\ so'[p].comp = so[p].comp /\ so'[p].count = so[p].count /\ so'[p].state = so[p].state
    BY ONLY <1>1, <2>2, DoomedIs, Zenon
  <2> QED
    BY ONLY <1>2, <1>3, <1>4, <2>3, <2>4, ZenonT(60)
<1>12. TypeOK'
  <2>1. so' \in [Sock -> Socket]
    BY <1>11, Zenon
  <2> QED
    BY <1>1, <1>9, <2>1, Zenon DEF TypeOK
<1>13. \A u \in Threads : ThreadOK(u)'
  <2>1. ThreadOK(t)'
    BY <1>1, <1>9, <1>10, Zenon DEF ThreadOK
  <2> QED
    BY <1>9, <2>1, ThreadFrame, Zenon
<1>14. (\A y \in Sock : ~Owns(t, y)' /\ ~ProtoTail(t, y)' /\ ~InTail(t, y)') /\ ~Aborting(t)'
  BY <1>9, <1>10, Zenon DEF Owns, ProtoTail, InTail, Aborting
<1>15. \A u \in Threads : /\ \A y \in Sock : ~Owns(u, y)' /\ ~ProtoTail(u, y)'
                          /\ ~Aborting(u)'
                          /\ th'[u].pc \in {"dispose1", "dispose2"} => u = t
  <2>1. \A u \in Threads \ {t} : \A y \in Sock : ~Owns(u, y) /\ ~ProtoTail(u, y)
    BY <1>4, <1>5, <1>6, <1>7, Zenon
  <2>2. \A u \in Threads \ {t} : /\ \A y \in Sock : (Owns(u, y)' <=> Owns(u, y)) /\ (ProtoTail(u, y)' <=> ProtoTail(u, y))
                                /\ (Aborting(u)' <=> Aborting(u)) /\ th'[u] = th[u]
    BY <1>9, OtherRoles, Zenon
  <2>3. \A u \in Threads \ {t} : ~Aborting(u) /\ th[u].pc \notin {"dispose1", "dispose2"}
    BY <1>2, Zenon
  <2> QED
    BY <1>14, <2>1, <2>2, <2>3, Zenon
<1>16. \A y \in Sock : Gone(y)
  <2>1. \A y \in Sock : (\E u \in Threads : Owns(u, y) /\ ~InTail(u, y)) \/ Gone(y)
    BY <1>1, <1>2, <1>7, <1>8, ZenonT(60) DEF NotOver
  <2>2. InTail(t, x)
    BY DEF InTail
  <2> QED
    BY <1>4, <1>5, <1>6, <2>1, <2>2, Zenon
<1>17. Refs'
  <2>1. CountHeld'
    <3>1. \A y \in Sock : so'[y].count = IF y \in open' \/ \E u \in Threads : Owns(u, y)' THEN 1 ELSE 0
      BY <1>8, <1>11, <1>15, ZenonT(60)
    <3> QED
      BY <1>15, <3>1, Zenon DEF CountHeld
  <2>2. ReferencesAgree'
    BY <1>7, <1>11, <1>15, Zenon DEF ReferencesAgree, ProtoTail
  <2>3. ProtoHeld'
    BY <1>7, <1>15, Zenon DEF ProtoHeld
  <2>4. ~so'["S"].comp
    BY <1>2, <1>11, Halves, Zenon
  <2>5. FreshPair'
    BY <1>15, <2>4, Zenon DEF FreshPair
  <2>6. NotOver'
    BY <1>16, Zenon DEF NotOver, Gone
  <2>7. NoReference'
    BY <1>7, <1>8, <1>15, Zenon DEF NoReference
  <2>8. DeadPair'
    <3>1. \A u \in Threads : th'[u].pc # "dispose2"
      <4>1. "dispose1" # "dispose2"
        OBVIOUS
      <4> QED
        BY <1>9, <1>15, <4>1, Zenon
    <3>2. \A y \in Sock : Gone(y)'
      BY <1>16, Zenon DEF Gone
    <3>3. \A u \in Threads :
            /\ th'[u].pc \in {"dispose1", "dispose2"} =>
                 \A v \in Threads : th'[v].pc \in {"dispose1", "dispose2"} => u = v
            /\ th'[u].pc = "dispose1" => \A y \in Sock : so'[y].mem = "doomed"
      BY <1>11, <1>15, ZenonT(60)
    <3>4. \A y \in Sock : so'[y].mem # "live"
      BY <1>11, Zenon
    <3>5. \A u \in Threads : ~Aborting(u)'
      BY <1>15, Zenon
    <3> QED
      BY <2>4, <2>7, <3>1, <3>2, <3>3, <3>4, <3>5, Zenon DEF DeadPair
  <2>9. FreedTogether'
    BY <1>9 DEF FreedTogether
  <2> QED
    BY <2>1, <2>2, <2>3, <2>5, <2>6, <2>8, <2>9, Zenon DEF Refs
<1>18. HalfOK'
  <2>1. HalfOK
    BY Zenon DEF IInv
  <2>2. \A y \in Sock : tcb[y].inp = "attached"
    BY <1>2, <2>1, Zenon DEF HalfOK
  <2>3. ~so'["C"].comp /\ "NOFDREF" \in so'["C"].state
    BY <1>11, <2>1, Halves, Zenon DEF HalfOK
  <2> QED
    BY <2>1, <2>2, <2>3, Zenon DEF HalfOK
<1>19. OneConversion' /\ PassiveTogether'
  <2>1. (Converting(t)' <=> Converting(t)) /\ (InSend(t)' => InSend(t))
    BY <1>9, Zenon DEF Converting, InSend
  <2>2. (\A y \in Sock : so'[y].options = so[y].options) /\ (so'["S"].comp => so["S"].comp)
    BY <1>11, Halves, ZenonT(60)
  <2> QED
    BY <1>9, <1>14, <2>1, <2>2, PassiveFrame, Zenon
<1> QED
  BY <1>12, <1>13, <1>17, <1>18, <1>19, Zenon DEF IInv

\* sofree under both socket locks.
LEMMA SockLock2Step == ASSUME IInv, NEW t \in Threads, SockLock2(t) PROVE IInv'
<1>1. PICK x \in Sock, p \in Sock : x = th[t].so /\ p = Peer(x)
  BY Halves, Zenon DEF IInv, TypeOK
<1> DEFINE s == Unreferenced(so[x], th[t].via)
           keep == (th[t].via = "close" /\ s.count # 0) \/ sofree_keeps(s, so[p])
<1>2. th[t].pc = "sock2" /\ UNCHANGED <<tcb, open, listening, panicked>>
      /\ lock' = Release(lock, SockLocks \cup {ACCEPT})
  BY Zenon DEF SockLock2
<1>3. lock' \in [Locks -> Threads \cup {"none"}]
  BY <1>2, LockTypes, Zenon DEF IInv
<1>4. CASE keep
  <2>1. so' = [so EXCEPT ![x] = s] /\ Return(t)
    BY <1>1, <1>4 DEF SockLock2
  <2> HIDE DEF s, keep
  <2> QED
    BY <1>1, <1>2, <1>3, <2>1, SockLock2Keep, Zenon DEF s
<1>5. CASE ~keep
  <2>1. /\ so' = [y \in Sock |-> [(IF y = x THEN s ELSE so[y]) EXCEPT !.mem = "doomed"]]
        /\ th' = [th EXCEPT ![t].pc = "dispose1"]
    BY <1>1, <1>5, Zenon DEF SockLock2
  <2>2. ~sohasrefs(s) /\ ~sohasrefs(so[p])
    BY <1>5 DEF sofree_keeps
  <2> QED
    BY <1>1, <1>2, <1>3, <2>1, <2>2, SockLock2Dispose, Zenon
<1> QED
  BY <1>4, <1>5

\* A control block after tcp_detach.
LEMMA DetachedIs ==
  ASSUME NEW c \in Tcb, NEW d, d = tcp_detach(c), c.flags \cap {"TIMEWAIT", "DROPPED"} # {}
  PROVE  /\ d \in Tcb /\ d.inp \in {"detached", "freed"} /\ d.state = c.state /\ d.flags = c.flags
         /\ d.passive = c.passive
<1>1. PICK i \in {"detached", "freed"} : d = [c EXCEPT !.inp = i]
  <2>1. CASE "DROPPED" \in c.flags
    BY <2>1 DEF tcp_detach
  <2>2. CASE "DROPPED" \notin c.flags
    BY <2>2 DEF tcp_detach
  <2> QED
    BY <2>1, <2>2, Zenon
<1> QED
  BY <1>1 DEF Tcb

\* sofree_dispose frees one half, and then the other.
LEMMA DisposeStep == ASSUME IInv, NEW t \in Threads, Dispose(t) PROVE IInv'
<1>1. PICK h \in Sock, p \in Sock : h = th[t].so /\ p = Peer(h) /\ h # p /\ \A y \in Sock : y = h \/ y = p
  BY Halves DEF IInv, TypeOK
<1>2. PICK x \in Sock : /\ th[t].pc = "dispose1" => x = h
                        /\ th[t].pc = "dispose2" => x = p
                        /\ x = IF th[t].pc = "dispose1" THEN th[t].so ELSE Peer(th[t].so)
  BY <1>1, Zenon
<1>3. /\ TypeOK /\ ThreadOK(t) /\ th[t].pc \in {"dispose1", "dispose2"} /\ DeadPair /\ HalfOK
      /\ UNCHANGED <<lock, open, listening, panicked>>
  BY Zenon DEF IInv, Refs, Dispose
<1>4. /\ \A u \in Threads : th[u].pc \in {"dispose1", "dispose2"} => u = t
      /\ th[t].pc = "dispose1" => so[h].mem = "doomed" /\ so[p].mem = "doomed"
      /\ th[t].pc = "dispose2" => so[h].mem = "free" /\ so[p].mem = "doomed"
  BY <1>1, <1>3, Zenon DEF DeadPair
<1>5. /\ NoReference /\ ~so["S"].comp /\ (\A u \in Threads : ~Aborting(u))
      /\ \A y \in Sock : Gone(y)
  BY <1>1, <1>3, <1>4, Zenon DEF DeadPair
<1>6. so[x] \in Socket /\ tcb[x] \in Tcb
  BY <1>3, Zenon DEF TypeOK
<1> DEFINE s == [so[x] EXCEPT !.mem = "free"]
           c == tcp_detach(tcb[x])
<1>7. OneHalf(x, s, c)
  BY <1>2, <1>3 DEF Dispose, OneHalf
<1>8. /\ s \in Socket /\ s.mem = "free" /\ s.comp = so[x].comp /\ s.options = so[x].options
      /\ s.count = so[x].count /\ s.state = so[x].state
  BY <1>6, FreedIs, Zenon
<1>9. /\ c \in Tcb /\ c.inp \in {"detached", "freed"} /\ c.state = tcb[x].state /\ c.flags = tcb[x].flags
      /\ c.passive = tcb[x].passive
  BY <1>5, <1>6, DetachedIs, Zenon DEF Gone
<1> HIDE DEF s, c
<1>10. /\ so' \in [Sock -> Socket] /\ tcb' \in [Sock -> Tcb] /\ so'[x] = s /\ tcb'[x] = c
       /\ \A y \in Sock : y # x => so'[y] = so[y] /\ tcb'[y] = tcb[y]
  BY <1>3, <1>7, <1>8, <1>9, OneHalfIs, ZenonT(60)
<1>11. /\ th' \in [Threads -> [pc : Pc, so : Sock, via : Via, ret : Ret]] /\ Moves(t) /\ ThreadOK(t)'
       /\ th[t].pc = "dispose1" => th'[t].pc = "dispose2" /\ th'[t].so = th[t].so
       /\ th[t].pc = "dispose2" => th'[t].pc \in {"idle", "unlock", "dropwithreset"}
       /\ th'[t].ret # "closeS" /\ th'[t].ret # "sendout"
  <2>1. th[t].ret \in {"idle", "unlock", "dropwithreset"}
    BY <1>3, Zenon DEF ThreadOK, TypeOK, Ret
  <2>2. CASE th[t].pc = "dispose1"
    <3>1. th' = [th EXCEPT ![t].pc = "dispose2"]
      BY <2>2 DEF Dispose
    <3>2. /\ th' \in [Threads -> [pc : Pc, so : Sock, via : Via, ret : Ret]] /\ Moves(t)
          /\ th'[t].pc = "dispose2" /\ th'[t].so = th[t].so /\ th'[t].via = th[t].via
          /\ th'[t].ret = th[t].ret
      BY <1>3, <3>1, Stepping, Zenon DEF Pc
    <3>3. ThreadOK(t)'
      BY <1>3, <2>1, <2>2, <3>2, Zenon DEF ThreadOK
    <3> QED
      BY <2>1, <2>2, <3>2, <3>3, Zenon
  <2>3. CASE th[t].pc = "dispose2"
    <3>1. Return(t)
      BY <2>3, Zenon DEF Dispose
    <3>2. /\ th' \in [Threads -> [pc : Pc, so : Sock, via : Via, ret : Ret]] /\ Moves(t)
          /\ th'[t].ret = "idle"
          /\ th[t].ret = "idle" => th'[t] = Idle /\ th'[t].pc = "idle" /\ th'[t].via = "none"
          /\ th[t].ret \in {"unlock", "dropwithreset"} =>
               th'[t].pc = th[t].ret /\ th'[t].so = th[t].so /\ th'[t].via = th[t].via
      BY <1>3, <3>1, ReturnIs, Zenon
    <3>3. ThreadOK(t)'
      BY <1>3, <2>1, <2>3, <3>2, Zenon DEF ThreadOK, Idle
    <3> QED
      BY <2>1, <2>3, <3>2, <3>3, Zenon
  <2> QED
    BY <1>3, <2>2, <2>3, Zenon
<1>12. TypeOK'
  BY <1>3, <1>10, <1>11, Zenon DEF TypeOK
<1>13. \A u \in Threads : ThreadOK(u)'
  BY <1>3, <1>11, ThreadFrame, Zenon
<1>14. (\A y \in Sock : ~Owns(t, y)' /\ ~ProtoTail(t, y)') /\ ~Aborting(t)'
  <2>1. th'[t].pc \in {"dispose2", "idle", "unlock", "dropwithreset"}
    BY <1>3, <1>11, Zenon
  <2> QED
    BY <1>11, <2>1, Zenon DEF Owns, ProtoTail, InTail, Aborting
<1>15. \A u \in Threads : /\ \A y \in Sock : ~Owns(u, y)' /\ ~ProtoTail(u, y)'
                          /\ ~Aborting(u)'
                          /\ th'[u].pc \in {"dispose1", "dispose2"} => u = t
  BY <1>4, <1>5, <1>11, <1>14, OtherRoles, Zenon DEF NoReference
<1>16. \A y \in Sock : /\ so'[y].count = so[y].count /\ so'[y].state = so[y].state
                       /\ so'[y].comp = so[y].comp /\ so'[y].options = so[y].options
                       /\ tcb'[y].flags = tcb[y].flags /\ tcb'[y].passive = tcb[y].passive
                       /\ tcb'[y].state = tcb[y].state
  BY <1>8, <1>9, <1>10, Zenon
<1>17. ~so'["S"].comp /\ so'["C"].comp = so["C"].comp /\ so'["C"].state = so["C"].state
  BY <1>5, <1>16, Halves, Zenon
<1>18. /\ so'[h].mem = "free"
       /\ th[t].pc = "dispose1" => so'[p].mem = "doomed"
       /\ th[t].pc = "dispose2" => so'[p].mem = "free"
  BY <1>1, <1>2, <1>3, <1>4, <1>8, <1>10, Zenon
<1>19. Refs'
  <2>1. CountHeld'
    <3>1. \A y \in Sock : so[y].count = 0
      BY <1>5 DEF IInv, Refs, CountHeld, NoReference
    <3> QED
      <4>1. \A y \in Sock : so'[y].count = 0 /\ y \notin open' /\ \A u \in Threads : ~Owns(u, y)'
        BY <1>3, <1>5, <1>15, <1>16, <3>1, Zenon DEF NoReference
      <4> QED
        BY <4>1, Zenon DEF CountHeld
  <2>2. ReferencesAgree'
    <3>1. \A y \in Sock : "PROTOREF" \notin so[y].state
      BY <1>5, Zenon DEF IInv, Refs, ReferencesAgree, NoReference, ProtoTail
    <3> QED
      BY <1>5, <1>15, <1>16, <3>1, Zenon DEF ReferencesAgree, NoReference, ProtoTail
  <2>3. ProtoHeld'
    BY <1>5, <1>15, <1>16, Zenon DEF ProtoHeld, NoReference
  <2>4. FreshPair'
    BY <1>15, <1>17, Zenon DEF FreshPair
  <2>5. \A y \in Sock : Gone(y)'
    BY <1>5, <1>16, Zenon DEF Gone
  <2>6. NotOver'
    BY <2>5, Zenon DEF NotOver
  <2>7. NoReference'
    BY <1>3, <1>5, <1>15, <1>16, Zenon DEF NoReference
  <2>8. DeadPair'
    <3>1. \A y \in Sock : so'[y].mem # "live"
      BY <1>1, <1>3, <1>18, Zenon
    <3>2. \A u \in Threads : th'[u].pc = "dispose2" => u = t /\ th[t].pc = "dispose1" /\ th'[u].so = h
      BY <1>1, <1>3, <1>11, <1>15, Zenon
    <3>3. \A u \in Threads : th'[u].pc # "dispose1"
      BY <1>3, <1>11, <1>15, Zenon
    <3>4. \A u \in Threads : th'[u].pc = "dispose2" => so'[th'[u].so].mem = "free" /\ so'[Peer(th'[u].so)].mem = "doomed"
      BY <1>1, <1>18, <3>2, Zenon
    <3> QED
      BY <1>15, <1>17, <2>5, <2>7, <3>1, <3>3, <3>4, Zenon DEF DeadPair
  <2>9. FreedTogether'
    <3>1. CASE th[t].pc = "dispose1"
      BY <1>11, <3>1, Zenon DEF FreedTogether
    <3>2. CASE th[t].pc = "dispose2"
      <4>1. \A y \in Sock : y = h \/ y = p
        BY <1>1, Halves, Zenon
      <4>2. \A y \in Sock : so'[y].mem = "free"
        BY <1>18, <3>2, <4>1, Zenon
      <4> QED
        BY <4>2, Halves, Zenon DEF FreedTogether
    <3> QED
      BY <1>3, <3>1, <3>2, Zenon
  <2> QED
    BY <2>1, <2>2, <2>3, <2>4, <2>6, <2>8, <2>9, Zenon DEF Refs
<1>20. HalfOK'
  <2>1. \A y \in Sock : tcb'[y].inp # "attached" => so'[y].mem = "free"
    BY <1>3, <1>8, <1>10 DEF HalfOK
  <2>2. \A y \in Sock : tcb'[y].inp # "persists"
    BY <1>3, <1>9, <1>10, Zenon DEF HalfOK
  <2> QED
    <3>1. ~so'["C"].comp /\ "NOFDREF" \in so'["C"].state
      BY <1>3, <1>17, Zenon DEF HalfOK
    <3>2. \A y \in Sock :
            /\ tcb'[y].state = "TIME_WAIT"
                 <=> "TIMEWAIT" \in tcb'[y].flags /\ "DROPPED" \notin tcb'[y].flags
            /\ tcb'[y].passive /\ "TIMEWAIT" \in tcb'[y].flags => "DROPPED" \in tcb'[y].flags
      BY <1>3, <1>16, ZenonT(60) DEF HalfOK
    <3> QED
      BY <2>1, <2>2, <3>1, <3>2, Zenon DEF HalfOK
<1>21. OneConversion' /\ PassiveTogether'
  <2>1. ~Converting(t)' /\ ~Converting(t) /\ ~InSend(t)'
    BY <1>3, <1>11, Zenon DEF Converting, InSend
  <2> QED
    BY <1>3, <1>11, <1>14, <1>16, <1>17, <2>1, PassiveFrame, Zenon
<1> QED
  BY <1>12, <1>13, <1>19, <1>20, <1>21, Zenon DEF IInv


\* The accept lock is taken before the socket locks.
LEMMA AcceptLockStep == ASSUME IInv, NEW t \in Threads, AcceptLock(t) PROVE IInv'
<1> USE DEF AcceptLock
<1>1. TypeOK /\ ThreadOK(t)
  BY DEF IInv
<1>2. /\ th' \in [Threads -> [pc : Pc, so : Sock, via : Via, ret : Ret]] /\ Moves(t)
      /\ th'[t].pc = "sock1" /\ th'[t].so = th[t].so /\ th'[t].via = th[t].via
      /\ th'[t].ret = th[t].ret
  BY <1>1, Stepping, Zenon DEF Pc
<1>3. lock' \in [Locks -> Threads \cup {"none"}]
  BY <1>1, LockTypes, Zenon
<1>4. ThreadOK(t)'
  BY <1>1, <1>2, ZenonT(60) DEF ThreadOK
<1>5. SameRole(t) /\ (Converting(t)' <=> Converting(t)) /\ (InSend(t)' => InSend(t))
  BY <1>2, Zenon DEF SameRole, Owns, ProtoTail, InTail, Aborting, Converting, InSend
<1> QED
  BY <1>2, <1>3, <1>4, <1>5, MoveStep, Zenon

\* The first of the two socket locks is taken.
LEMMA SockLock1Step == ASSUME IInv, NEW t \in Threads, SockLock1(t) PROVE IInv'
<1> USE DEF SockLock1
<1>1. TypeOK /\ ThreadOK(t)
  BY Zenon DEF IInv
<1>2. /\ th' \in [Threads -> [pc : Pc, so : Sock, via : Via, ret : Ret]] /\ Moves(t)
      /\ \/ th[t].pc = "sock1" /\ th'[t].pc = "sock2"
         \/ th[t].pc = "convert1" /\ th'[t].pc = "convert2"
      /\ th'[t].so = th[t].so /\ th'[t].via = th[t].via /\ th'[t].ret = th[t].ret
  <2>1. CASE th[t].pc = "sock1"
    <3>1. th' = [th EXCEPT ![t].pc = "sock2"]
      BY <2>1
    <3> QED
      BY <1>1, <2>1, <3>1, Stepping, Zenon DEF Pc
  <2>2. CASE th[t].pc = "convert1"
    <3>1. th' = [th EXCEPT ![t].pc = "convert2"]
      BY <2>2
    <3> QED
      BY <1>1, <2>2, <3>1, Stepping, Zenon DEF Pc
  <2> QED
    BY <2>1, <2>2, Zenon
<1>3. lock' \in [Locks -> Threads \cup {"none"}]
  BY <1>1, LockTypes, Zenon
<1>4. ThreadOK(t)'
  BY <1>1, <1>2, ZenonT(60) DEF ThreadOK
<1>5. SameRole(t) /\ (Converting(t)' <=> Converting(t)) /\ (InSend(t)' => InSend(t))
  BY <1>2 DEF SameRole, Owns, ProtoTail, InTail, Aborting, Converting, InSend
<1> QED
  BY <1>2, <1>3, <1>4, <1>5, MoveStep, Zenon

\* The end of a call: nothing is left to give up.
LEMMA ReturnStep ==
  ASSUME IInv, NEW t \in Threads, DropWithReset(t) \/ Unlock(t) \/ SendReturn(t)
  PROVE  IInv'
<1>1. TypeOK /\ ThreadOK(t)
  BY Zenon DEF IInv
<1>2. /\ th[t].pc \in {"dropwithreset", "unlock", "sendout"} /\ th' = [th EXCEPT ![t] = Idle]
      /\ UNCHANGED <<so, tcb, open, listening, panicked>>
  BY DEF DropWithReset, Unlock, SendReturn
<1>3. /\ th' \in [Threads -> [pc : Pc, so : Sock, via : Via, ret : Ret]] /\ Moves(t)
      /\ th'[t].pc = "idle" /\ th'[t].so = "S" /\ th'[t].via = "none" /\ th'[t].ret = "idle"
      /\ th'[t] = Idle
  BY <1>1, <1>2, Idling, Zenon
<1>4. lock' \in [Locks -> Threads \cup {"none"}]
  BY <1>1, LockTypes DEF DropWithReset, Unlock, SendReturn, SendOut
<1>5. ThreadOK(t)'
  BY <1>3, Zenon DEF ThreadOK
<1>6. SameRole(t) /\ (Converting(t)' <=> Converting(t)) /\ (InSend(t)' => InSend(t))
  BY <1>1, <1>2, <1>3, Zenon DEF ThreadOK, SameRole, Owns, ProtoTail, InTail, Aborting, Converting, InSend
<1> QED
  BY <1>2, <1>3, <1>4, <1>5, <1>6, MoveStep, Zenon

\* The beginning of a send, and of the second close after a failed accept.
LEMMA BeginStep ==
  ASSUME IInv, NEW t \in Threads, (t \in Apps /\ SendBegin(t)) \/ SocloseAgain(t)
  PROVE  IInv'
<1>1. TypeOK /\ ThreadOK(t)
  BY Zenon DEF IInv
<1>2. PICK x \in Sock : \/ /\ th[t].pc = "idle" /\ t \in Apps /\ x \in open /\ GoTo(t, "send", x, "none", "idle")
                        \/ /\ th[t].pc = "closeS" /\ x = "S" /\ GoTo(t, "disconnect", x, "close", "idle")
  BY <1>1 DEF SendBegin, SocloseAgain, TypeOK, Sock
<1>3. UNCHANGED <<so, tcb, lock, open, listening, panicked>>
  BY Zenon DEF SendBegin, SocloseAgain
<1>4. /\ th' \in [Threads -> [pc : Pc, so : Sock, via : Via, ret : Ret]] /\ Moves(t)
      /\ th'[t].so = x /\ th'[t].ret = "idle"
      /\ \/ th'[t].pc = "send" /\ th'[t].via = "none"
         \/ th'[t].pc = "disconnect" /\ th'[t].via = "close"
      /\ th'[t].pc = "send" <=> th[t].pc = "idle"
  <2>1. "send" \in Pc /\ "disconnect" \in Pc /\ "none" \in Via /\ "close" \in Via /\ "idle" \in Ret
    BY Zenon DEF Pc, Via, Ret
  <2>2. CASE th[t].pc = "idle"
    <3>1. GoTo(t, "send", x, "none", "idle")
      BY <1>2, <2>2, Zenon
    <3> QED
      BY <1>1, <2>1, <2>2, <3>1, Going, ZenonT(60)
  <2>3. CASE th[t].pc = "closeS"
    <3>1. GoTo(t, "disconnect", x, "close", "idle")
      BY <1>2, <2>3
    <3> QED
      BY <1>1, <2>1, <2>3, <3>1, Going, ZenonT(60)
  <2> QED
    BY <1>2, <2>2, <2>3, Zenon
<1>5. ThreadOK(t)'
  BY <1>1, <1>2, <1>3, <1>4, Zenon DEF ThreadOK
<1>6. SameRole(t) /\ (Converting(t)' <=> Converting(t)) /\ (InSend(t)' => InSend(t))
  BY <1>1, <1>2, <1>4, Zenon DEF ThreadOK, Idle, SameRole, Owns, ProtoTail, InTail, Aborting, Converting, InSend
<1> QED
  BY <1>1, <1>3, <1>4, <1>5, <1>6, MoveStep, Zenon DEF TypeOK

\* soclose disconnects the half.
LEMMA SocloseDisconnectStep ==
  ASSUME IInv, NEW t \in Threads, SocloseDisconnect(t)
  PROVE  IInv'
<1> DEFINE x == th[t].so
<1>1. TypeOK /\ ThreadOK(t) /\ x \in Sock
  BY DEF IInv, TypeOK
<1>2. th[t].pc = "disconnect" /\ th' = [th EXCEPT ![t].pc = "pru_close"]
      /\ UNCHANGED <<lock, open, listening, panicked>>
  BY DEF SocloseDisconnect
<1>3. /\ th' \in [Threads -> [pc : Pc, so : Sock, via : Via, ret : Ret]] /\ Moves(t)
      /\ th'[t].pc = "pru_close" /\ th'[t].so = th[t].so /\ th'[t].via = th[t].via
      /\ th'[t].ret = th[t].ret
  BY <1>1, <1>2, Stepping, Zenon DEF Pc
<1>4. /\ lock' \in [Locks -> Threads \cup {"none"}] /\ listening' \in BOOLEAN
  BY <1>1, <1>2, Zenon DEF TypeOK
<1>5. ThreadOK(t)'
  BY <1>1, <1>2, <1>3, Zenon DEF ThreadOK
<1>6. SameRole(t) /\ (Converting(t)' <=> Converting(t)) /\ (InSend(t)' => InSend(t))
  BY <1>2, <1>3, Zenon DEF SameRole, Owns, ProtoTail, InTail, Aborting, Converting, InSend
<1>7. CASE so[x].conn = "connected" /\ ~Gone(x)
  <2> DEFINE s == Usrclosed(soisdisconnecting(so[x]), tcb[x])
             c == tcp_usrclosed(tcb[x])
  <2>1. OneHalf(x, s, c)
    BY <1>7 DEF SocloseDisconnect, OneHalf
  <2>2. "SOCKREF" \notin tcb[x].flags
    <3>1. Owns(t, x) /\ ~InTail(t, x)
      BY <1>1, <1>2, Zenon DEF ThreadOK, Owns, InTail
    <3> QED
      BY <1>1, <3>1, NotYetLeft, Zenon
  <2>3. /\ so[x] \in Socket /\ tcb[x] \in Tcb /\ TcbOK(tcb[x])
        /\ tcb[x].inp # "attached" => so[x].mem = "free"
        /\ x = "C" => "NOFDREF" \in so[x].state
    BY <1>1, TcbFacts
  <2>4. /\ soisdisconnecting(so[x]) \in Socket /\ SameSocket(soisdisconnecting(so[x]), so[x])
        /\ soisdisconnecting(so[x]).state = so[x].state
    BY <2>3, DisconnectedIs, Zenon
  <2>5. /\ c \in Tcb /\ TcbOK(c) /\ c.passive = tcb[x].passive /\ c.inp = tcb[x].inp
        /\ "SOCKREF" \notin c.flags
        /\ s \in Socket /\ SameSocket(s, so[x]) /\ s.state = so[x].state
    BY <2>2, <2>3, <2>4, UsrclosedIs, ZenonT(60) DEF SameSocket
  <2>6. (c.inp # "attached" => s.mem = "free") /\ (x = "C" => "NOFDREF" \in s.state)
    BY <2>3, <2>5, Zenon DEF SameSocket
  <2> QED
    BY <1>1, <1>2, <1>3, <1>4, <1>5, <1>6, <1>7, <2>1, <2>2, <2>5, <2>6, QuietStep, ZenonT(60)
<1>8. CASE ~(so[x].conn = "connected" /\ ~Gone(x))
  <2>1. UNCHANGED <<so, tcb>>
    BY <1>8, Zenon DEF SocloseDisconnect
  <2> QED
    BY <1>2, <1>3, <1>4, <1>5, <1>6, <2>1, MoveStep, Zenon
<1> QED
  BY <1>7, <1>8, Zenon

\* soshutdown ends the half's input or its output.
LEMMA SoshutdownStep ==
  ASSUME IInv, NEW t \in Threads, soshutdown(t)
  PROVE  IInv'
<1>1. PICK x \in Sock :
        /\ x \in open
        /\ \/ so' = [so EXCEPT ![x].cantrcv = TRUE] /\ UNCHANGED tcb
           \/ /\ tcb' = [tcb EXCEPT ![x] = tcp_usrclosed(@)]
              /\ so' = [so EXCEPT ![x] = Usrclosed(@, tcb[x])]
  BY DEF soshutdown, IInv, TypeOK
<1>2. UNCHANGED <<lock, th, open, listening, panicked>>
  BY DEF soshutdown
<1>3. TypeOK /\ lock' \in [Locks -> Threads \cup {"none"}] /\ listening' \in BOOLEAN
  BY <1>2 DEF IInv, TypeOK
<1>4. "SOCKREF" \notin tcb[x].flags
  BY <1>1, NotYetLeft, Zenon
<1>5. /\ so[x] \in Socket /\ tcb[x] \in Tcb /\ TcbOK(tcb[x])
      /\ tcb[x].inp # "attached" => so[x].mem = "free"
      /\ x = "C" => "NOFDREF" \in so[x].state
  BY TcbFacts
<1>6. PICK s \in Socket, c \in Tcb :
        /\ OneHalf(x, s, c) /\ TcbOK(c) /\ c.passive = tcb[x].passive /\ c.inp = tcb[x].inp
        /\ "SOCKREF" \notin c.flags /\ SameSocket(s, so[x]) /\ s.state = so[x].state
        /\ Gone(x) => c.flags \cap {"TIMEWAIT", "DROPPED"} # {}
  <2>1. CASE so' = [so EXCEPT ![x].cantrcv = TRUE] /\ UNCHANGED tcb
    <3> DEFINE s == [so[x] EXCEPT !.cantrcv = TRUE]
    <3>1. s \in Socket /\ SameSocket(s, so[x]) /\ s.state = so[x].state
      BY <1>5, Zenon DEF Socket, SameSocket
    <3>2. OneHalf(x, s, tcb[x])
      BY <1>3, <2>1, ZenonT(60) DEF OneHalf, TypeOK
    <3> QED
      BY <1>4, <1>5, <3>1, <3>2, Zenon DEF Gone
  <2>2. CASE /\ tcb' = [tcb EXCEPT ![x] = tcp_usrclosed(@)]
             /\ so' = [so EXCEPT ![x] = Usrclosed(@, tcb[x])]
    <3>1. OneHalf(x, Usrclosed(so[x], tcb[x]), tcp_usrclosed(tcb[x]))
      BY <2>2, Zenon DEF OneHalf
    <3>2. /\ tcp_usrclosed(tcb[x]) \in Tcb /\ TcbOK(tcp_usrclosed(tcb[x]))
          /\ tcp_usrclosed(tcb[x]).passive = tcb[x].passive /\ tcp_usrclosed(tcb[x]).inp = tcb[x].inp
          /\ "SOCKREF" \notin tcp_usrclosed(tcb[x]).flags
          /\ Gone(x) => tcp_usrclosed(tcb[x]).flags \cap {"TIMEWAIT", "DROPPED"} # {}
          /\ Usrclosed(so[x], tcb[x]) \in Socket /\ SameSocket(Usrclosed(so[x], tcb[x]), so[x])
          /\ Usrclosed(so[x], tcb[x]).state = so[x].state
      BY <1>4, <1>5, UsrclosedIs DEF Gone
    <3> QED
      BY <3>1, <3>2
  <2> QED
    BY <1>1, <2>1, <2>2, Zenon
<1>7. (c.inp # "attached" => s.mem = "free") /\ (x = "C" => "NOFDREF" \in s.state)
  BY <1>5, <1>6, Zenon DEF SameSocket
<1> QED
  BY <1>2, <1>3, <1>4, <1>6, <1>7, StayStep, QuietStep, Zenon

=============================================================================
