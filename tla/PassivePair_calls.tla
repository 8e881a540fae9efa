------------------------- MODULE PassivePair_calls --------------------------
(***************************************************************************)
(* The calls that move a reference of a passive pair: the abort, accept    *)
(* and close of the application, TCP's own close, and the conversion to an *)
(* active connection.                                                      *)
(***************************************************************************)
EXTENDS PassivePair_refs

-----------------------------------------------------------------------------
(***************************************************************************)
(* The abort of a pair that was never accepted.                            *)
(***************************************************************************)

\* An abort leaves the pair without references, and is the only one.
LEMMA AbortRefs ==
  ASSUME IInv, NEW t \in Threads, Moves(t), so["S"].comp \/ Aborting(t),
         \A u \in Threads : Aborting(u) => u = t,
         Aborting(t)', \A x \in Sock : ~Owns(t, x)' /\ ~ProtoTail(t, x)',
         th'[t].pc \notin {"dispose1", "dispose2"}, ~so'["S"].comp, open' = open,
         \A x \in Sock : /\ so'[x].count = so[x].count /\ so'[x].mem = so[x].mem
                         /\ "PROTOREF" \notin so'[x].state /\ "SOCKREF" \notin tcb'[x].flags,
         NotOver'
  PROVE  Refs'
<1>1. /\ NoReference
      /\ \A x \in Sock : /\ so[x].mem = "live" /\ so[x].count = 0 /\ "PROTOREF" \notin so[x].state
                         /\ tcb[x].passive
      /\ \A u \in Threads : th[u].pc \notin {"dispose1", "dispose2"}
  BY Unaccepted, Zenon
<1>2. \A u \in Threads : /\ \A x \in Sock : ~Owns(u, x)' /\ ~ProtoTail(u, x)'
                         /\ Aborting(u)' => u = t
                         /\ th'[u].pc \notin {"dispose1", "dispose2"}
  BY <1>1, OtherRoles DEF NoReference
<1>3. NoReference'
  BY <1>1, <1>2, Zenon DEF NoReference
<1>4. CountHeld'
  BY <1>1, <1>2, Zenon DEF CountHeld, NoReference
<1>5. ReferencesAgree'
  BY <1>2, Zenon DEF ReferencesAgree, ProtoTail
<1>6. ProtoHeld'
  BY <1>2 DEF ProtoHeld
<1>7. FreshPair'
  BY <1>1, <1>2, <1>3, Zenon DEF FreshPair
<1>8. DeadPair'
  BY <1>1, <1>2, Zenon DEF DeadPair
<1>9. FreedTogether'
  BY <1>1, Halves DEF FreedTogether
<1> QED
  BY <1>4, <1>5, <1>6, <1>7, <1>8, <1>9, Zenon DEF Refs

\* The listener is closed with the pair on its queue.
LEMMA ListenerCloseStep ==
  ASSUME IInv, NEW t \in Apps, ListenerClose(t)
  PROVE  IInv'
<1> DEFINE s == [so["S"] EXCEPT !.comp = FALSE]
<1>1. TypeOK /\ ThreadOK(t) /\ t \in Threads /\ th[t].pc = "idle" /\ "S" \in Sock
      /\ listening' \in BOOLEAN /\ UNCHANGED <<tcb, lock, open, panicked>>
  BY Zenon DEF IInv, ListenerClose, Threads, Sock
<1>2. /\ so["S"] \in Socket /\ tcb["S"] \in Tcb /\ TcbOK(tcb["S"])
      /\ tcb["S"].inp # "attached" => so["S"].mem = "free"
  BY <1>1, TcbFacts, Zenon
<1>3. /\ s \in Socket /\ s.comp = FALSE /\ s.count = so["S"].count /\ s.mem = so["S"].mem
      /\ s.options = so["S"].options /\ s.state = so["S"].state
  BY <1>2, Zenon DEF Socket
<1>4. OneHalf("S", s, tcb["S"])
  BY <1>1 DEF ListenerClose, OneHalf, TypeOK
<1>5. /\ so' \in [Sock -> Socket] /\ so'["S"] = s
      /\ \A y \in Sock : y # "S" => so'[y] = so[y]
  BY <1>1, <1>2, <1>3, <1>4, OneHalfIs, Zenon
<1> HIDE DEF s
<1>6. lock' \in [Locks -> Threads \cup {"none"}]
  BY <1>1, Zenon DEF TypeOK
<1>7. NoRole(t) /\ ~Converting(t) /\ ~InSend(t)
  BY <1>1, IdleRole, Zenon
<1>8. CASE ~so["S"].comp
  <2>1. UNCHANGED th
    BY <1>8 DEF ListenerClose
  <2>2. so["S"].comp = FALSE
    <3>1. so["S"].comp \in BOOLEAN
      BY <1>2 DEF Socket
    <3> QED
      BY <1>8, <3>1, Zenon
  <2>3. SameSocket(s, so["S"])
    BY <1>3, <2>2, Zenon DEF SameSocket
  <2> QED
    <3>1. /\ th' \in [Threads -> [pc : Pc, so : Sock, via : Via, ret : Ret]]
          /\ Moves(t) /\ ThreadOK(t)' /\ SameRole(t)
          /\ Converting(t)' <=> Converting(t)
          /\ InSend(t)' => InSend(t)
      BY <1>1, <2>1, StayStep, Zenon
    <3> QED
      BY <1>1, <1>2, <1>3, <1>4, <1>6, <2>3, <3>1, Halves, QuietStep DEF Gone
<1>9. CASE so["S"].comp
  <2>1. GoTo(t, "abort1", "S", "abort", "idle")
    BY <1>9, Zenon DEF ListenerClose
  <2>2. /\ th' \in [Threads -> [pc : Pc, so : Sock, via : Via, ret : Ret]] /\ Moves(t)
        /\ th'[t].pc = "abort1" /\ th'[t].so = "S" /\ th'[t].via = "abort" /\ th'[t].ret = "idle"
    BY <1>1, <2>1, Going, ZenonT(60) DEF Pc, Via, Ret
  <2>3. TypeOK'
    BY <1>1, <1>5, <1>6, <2>2 DEF TypeOK
  <2>4. \A u \in Threads : ThreadOK(u)'
    <3>1. ThreadOK(t)'
      BY <1>1, <2>2, Zenon DEF ThreadOK
    <3> QED
      BY <1>1, <2>2, <3>1, ThreadFrame, Zenon
  <2>5. Refs'
    <3>1. NoReference /\ (\A x \in Sock : "PROTOREF" \notin so[x].state) /\ \A u \in Threads : ~Aborting(u)
      BY <1>9, Unaccepted, Zenon DEF IInv, Refs, FreshPair
    <3>2. Aborting(t)' /\ \A x \in Sock : ~Owns(t, x)' /\ ~ProtoTail(t, x)'
      BY <2>2, Zenon DEF Aborting, Owns, ProtoTail, InTail
    <3>3. NotOver'
      BY <1>1, <2>2, Zenon DEF NotOver
    <3>4. /\ \A x \in Sock : /\ so'[x].count = so[x].count /\ so'[x].mem = so[x].mem
                             /\ "PROTOREF" \notin so'[x].state /\ "SOCKREF" \notin tcb'[x].flags
          /\ ~so'["S"].comp
      BY <1>1, <1>3, <1>5, <3>1, Zenon DEF NoReference
    <3> QED
      BY <1>1, <1>9, <2>2, <3>1, <3>2, <3>3, <3>4, AbortRefs, ZenonT(30)
  <2>6. HalfOK'
    BY <1>1, <1>3, <1>5, Halves, HalfFrame, Zenon
  <2>7. OneConversion' /\ PassiveTogether'
    <3>1. ~Converting(t)' /\ ~InSend(t)'
      BY <2>2, Zenon DEF Converting, InSend
    <3>2. \A x \in Sock : tcb'[x].passive = tcb[x].passive /\ so'[x].options = so[x].options
      BY <1>1, <1>3, <1>5, Zenon
    <3> QED
      BY <1>1, <1>7, <1>9, <2>2, <3>1, <3>2, PassiveFrame, Zenon
  <2> QED
    BY <2>3, <2>4, <2>5, <2>6, <2>7, Zenon DEF IInv
<1> QED
  BY <1>8, <1>9

\* soabort drops one half and goes on to give it up.
LEMMA SoabortStep ==
  ASSUME IInv, NEW t \in Threads, Soabort(t)
  PROVE  IInv'
<1>1. TypeOK /\ ThreadOK(t) /\ th[t].pc \in {"abort1", "abort2"} /\ UNCHANGED <<lock, open, listening, panicked>>
  BY Zenon DEF IInv, Soabort
<1>2. Aborting(t) /\ th[t].so = "S" /\ th[t].via = "abort" /\ ~Converting(t) /\ ~InSend(t)
  BY <1>1, Zenon DEF ThreadOK, Aborting, Converting, InSend
<1>3. /\ NoReference
      /\ \A y \in Sock : /\ so[y].mem = "live" /\ so[y].count = 0 /\ "PROTOREF" \notin so[y].state
                         /\ tcb[y].passive
      /\ \A u \in Threads : Aborting(u) => u = t
      /\ ~so["S"].comp
  BY <1>2, Unaccepted, Zenon DEF IInv, Refs, FreshPair
<1>4. PICK x \in Sock : /\ th[t].pc = "abort1" => x = "S"
                        /\ th[t].pc = "abort2" => x = "C"
                        /\ x = IF th[t].pc = "abort1" THEN th[t].so ELSE Peer(th[t].so)
  BY <1>1, <1>2 DEF Peer, Sock
<1>5. /\ so[x] \in Socket /\ tcb[x] \in Tcb /\ TcbOK(tcb[x])
      /\ tcb[x].inp # "attached" => so[x].mem = "free"
      /\ x = "C" => "NOFDREF" \in so[x].state
  BY TcbFacts, Zenon
<1>6. ~(th[t].pc = "abort2" /\ sohasrefs(so[x]))
  BY <1>3, <1>4, Zenon DEF sohasrefs, IInv, HalfOK
<1>7. PICK s \in Socket, c \in Tcb :
        /\ Protoref(x, s, c) /\ TcbOK(c) /\ c.passive = tcb[x].passive /\ c.inp = tcb[x].inp
        /\ "SOCKREF" \notin c.flags /\ "DROPPED" \in c.flags
        /\ SameSocket(s, so[x]) /\ s.state = so[x].state
  <2>1. CASE Gone(x)
    <3>1. Protoref(x, so[x], tcb[x])
      BY <1>4, <1>6, <2>1, Zenon DEF Soabort
    <3>2. "DROPPED" \in tcb[x].flags /\ "SOCKREF" \notin tcb[x].flags
      BY <1>3, <1>5, <2>1, Zenon DEF Gone, TcbOK, NoReference
    <3> QED
      BY <1>5, <3>1, <3>2, Zenon DEF SameSocket
  <2>2. CASE ~Gone(x)
    <3>1. Protoref(x, Disconnected(so[x]), Dropped(tcb[x]))
      BY <1>4, <1>6, <2>2, Zenon DEF Soabort
    <3>2. TcbOK(Dropped(tcb[x]))
      BY <1>5, DroppedIs, Zenon DEF TcbOK
    <3> QED
      BY <1>5, <3>1, <3>2, DroppedIs, DisconnectedIs, Zenon
  <2> QED
    BY <2>1, <2>2, Zenon
<1>8. OneHalf(x, s, c)
  BY <1>7 DEF Protoref, OneHalf
<1>9. /\ so' \in [Sock -> Socket] /\ tcb' \in [Sock -> Tcb] /\ so'[x] = s /\ tcb'[x] = c
      /\ \A y \in Sock : y # x => so'[y] = so[y] /\ tcb'[y] = tcb[y]
  BY <1>1, <1>8, OneHalfIs, ZenonT(60)
<1>10. /\ th' \in [Threads -> [pc : Pc, so : Sock, via : Via, ret : Ret]] /\ Moves(t)
       /\ th[t].pc = "abort1" => th'[t].pc = "abort2"
       /\ th[t].pc = "abort2" => th'[t].pc = "accept"
       /\ th'[t].so = th[t].so /\ th'[t].via = th[t].via /\ th'[t].ret = th[t].ret
  <2>1. CASE th[t].pc = "abort1"
    <3>1. th' = [th EXCEPT ![t].pc = "abort2"]
      BY <2>1, Zenon DEF Soabort
    <3> QED
      BY <1>1, <2>1, <3>1, Stepping, Zenon DEF Pc
  <2>2. CASE th[t].pc = "abort2"
    <3>1. th' = [th EXCEPT ![t].pc = "accept"]
      BY <2>2 DEF Soabort
    <3> QED
      BY <1>1, <2>2, <3>1, Stepping, Zenon DEF Pc
  <2> QED
    BY <1>1, <2>1, <2>2, Zenon
<1>11. TypeOK'
  BY <1>1, <1>9, <1>10, Zenon DEF TypeOK
<1>12. \A u \in Threads : ThreadOK(u)'
  <2>1. th'[t].pc \in {"abort2", "accept"} /\ th'[t].so = "S" /\ th'[t].via = "abort"
        /\ th'[t].ret = th[t].ret
    BY <1>1, <1>2, <1>10, Zenon
  <2>2. ThreadOK(t)'
    BY <1>1, <1>2, <2>1, Zenon DEF ThreadOK
  <2> QED
    BY <1>1, <1>10, <2>2, ThreadFrame, Zenon
<1>13. Aborting(t)' /\ ~Converting(t)' /\ ~InSend(t)' /\ \A y \in Sock : ~Owns(t, y)' /\ ~ProtoTail(t, y)'
  <2>1. th[t].ret # "closeS" /\ th[t].ret # "sendout"
    BY <1>1, <1>2, Zenon DEF ThreadOK
  <2>2. th'[t].pc \in {"abort2", "accept"} /\ th'[t].so = "S" /\ th'[t].via = "abort"
        /\ th'[t].ret = th[t].ret
    BY <1>1, <1>2, <1>10, Zenon
  <2> QED
    BY <2>1, <2>2, Zenon DEF Aborting, Converting, InSend, Owns, ProtoTail
<1>14. Refs'
  <2>1. /\ \A y \in Sock : /\ so'[y].count = so[y].count /\ so'[y].mem = so[y].mem
                           /\ "PROTOREF" \notin so'[y].state /\ "SOCKREF" \notin tcb'[y].flags
        /\ ~so'["S"].comp
    <3>1. /\ s.count = so[x].count /\ s.mem = so[x].mem /\ s.comp = so[x].comp
          /\ "PROTOREF" \notin s.state /\ "SOCKREF" \notin c.flags
      BY <1>3, <1>7 DEF SameSocket
    <3>2. \A y \in Sock : "SOCKREF" \notin tcb[y].flags
      BY <1>3, Zenon DEF NoReference
    <3>3. \A y \in Sock : /\ so'[y].count = so[y].count /\ so'[y].mem = so[y].mem
                          /\ so'[y].comp = so[y].comp
                          /\ "PROTOREF" \notin so'[y].state /\ "SOCKREF" \notin tcb'[y].flags
      BY <1>3, <1>9, <3>1, <3>2, Zenon
    <3> QED
      BY <1>3, <3>3, Halves, ZenonT(60)
  <2>2. NotOver'
    <3>1. Gone(x)'
      <4>1. "DROPPED" \in tcb'[x].flags
        BY <1>7, <1>9, Zenon
      <4> QED
        BY <4>1, Zenon DEF Gone
    <3>2. CASE th[t].pc = "abort1"
      <4>1. th'[t].pc = "abort2" /\ x = "S"
        BY <1>4, <1>10, <3>2, Zenon
      <4>2. \A y \in Sock : y = "C" \/ y = x
        BY <4>1, Halves, Zenon
      <4> QED
        BY <3>1, <4>1, <4>2, Zenon DEF NotOver
    <3>3. CASE th[t].pc = "abort2"
      <4>1. \A u \in Threads : th[u].pc # "abort1"
        BY <1>3, <3>3, Zenon DEF IInv, ThreadOK, Aborting
      <4>2. Gone("S")
        BY <1>3, <4>1, Halves, Zenon DEF IInv, Refs, NotOver, NoReference
      <4>3. Gone("S")'
        BY <1>4, <1>9, <3>3, <4>2, Halves, Zenon DEF Gone
      <4> QED
        <5>1. \A y \in Sock : Gone(y)'
          <6>1. Gone("C")'
            <7>1. x = "C"
              BY <1>4, <3>3, Zenon
            <7> QED
              BY <3>1, <7>1, Zenon
          <6>2. \A y \in Sock : y = "S" \/ y = "C"
            BY Halves, Zenon
          <6> QED
            BY <4>3, <6>1, <6>2, Zenon DEF Gone
        <5> QED
          BY <5>1, Zenon DEF NotOver
    <3> QED
      BY <1>1, <3>2, <3>3, Zenon
  <2>3. th'[t].pc \notin {"dispose1", "dispose2"}
    BY <1>1, <1>10
  <2>4. Moves(t) /\ open' = open /\ Aborting(t) /\ Aborting(t)'
        /\ \A y \in Sock : ~Owns(t, y)' /\ ~ProtoTail(t, y)'
    BY <1>1, <1>2, <1>10, <1>13, Zenon
  <2>5. \A u \in Threads : Aborting(u) => u = t
    BY <1>3, Zenon
  <2> QED
    BY <2>1, <2>2, <2>3, <2>4, <2>5, AbortRefs, Zenon
<1>15. HalfOK'
  BY <1>5, <1>7, <1>8, HalfStep, Zenon DEF SameSocket
<1>16. OneConversion' /\ PassiveTogether'
  <2>1. \A y \in Sock : tcb'[y].passive = tcb[y].passive /\ so'[y].options = so[y].options
    BY <1>7, <1>9, Zenon DEF SameSocket
  <2>2. so'["S"].comp => so["S"].comp
    BY <1>7, <1>9, Halves, Zenon DEF SameSocket
  <2> QED
    BY <1>1, <1>2, <1>10, <1>13, <2>1, <2>2, PassiveFrame, Zenon
<1> QED
  BY <1>11, <1>12, <1>14, <1>15, <1>16, Zenon DEF IInv

-----------------------------------------------------------------------------
(***************************************************************************)
(* Steps that take or pass on the application's reference.                 *)
(***************************************************************************)

\* uinet_soaccept takes the pair off the queue and a reference to each half.
LEMMA UinetSoacceptStep ==
  ASSUME IInv, NEW t \in Apps, uinet_soaccept(t)
  PROVE  IInv'
<1>1. TypeOK /\ ThreadOK(t) /\ t \in Threads /\ th[t].pc = "idle" /\ so["S"].comp
      /\ UNCHANGED <<tcb, lock, open, listening, panicked>> /\ GoTo(t, "soaccept", "S", "none", "idle")
  BY Zenon DEF IInv, uinet_soaccept, Threads
<1>2. NoRole(t) /\ ~Converting(t) /\ ~InSend(t)
  BY <1>1, IdleRole
<1>3. /\ th' \in [Threads -> [pc : Pc, so : Sock, via : Via, ret : Ret]] /\ Moves(t)
      /\ th'[t].pc = "soaccept" /\ th'[t].so = "S" /\ th'[t].via = "none" /\ th'[t].ret = "idle"
  BY <1>1, Going, ZenonT(60) DEF Pc, Sock, Via, Ret
<1>4. NoReference /\ (\A x \in Sock : so[x].mem = "live") /\ (\A u \in Threads : ~Aborting(u))
  BY <1>1 DEF IInv, Refs, FreshPair
<1>5. \A x \in Sock : so[x].count = 0
  BY <1>4 DEF IInv, Refs, CountHeld, NoReference
<1>6. "PASSIVE" \in so["S"].options
  BY <1>1 DEF IInv, OneConversion
<1>7. /\ so' \in [Sock -> Socket]
      /\ \A x \in Sock : /\ so'[x].count = 1 /\ so'[x].mem = so[x].mem /\ so'[x].state = so[x].state
                         /\ so'[x].options = so[x].options
      /\ ~so'["S"].comp /\ so'["C"].comp = so["C"].comp
  <2> DEFINE s == [so["S"] EXCEPT !.count = 1, !.comp = FALSE]
             c == [so["C"] EXCEPT !.count = 1]
  <2>1. so["S"] \in Socket /\ so["C"] \in Socket /\ so \in [Sock -> Socket]
    BY <1>1 DEF TypeOK, Sock
  <2>2. /\ s \in Socket /\ s.count = 1 /\ s.mem = so["S"].mem /\ s.state = so["S"].state
        /\ s.options = so["S"].options /\ s.comp = FALSE
    <3>1. FALSE \in BOOLEAN /\ 1 \in 0 .. 1
      OBVIOUS
    <3>2. s \in Socket
      BY <2>1, <3>1, Zenon DEF Socket
    <3> QED
      BY <2>1, <3>2 DEF Socket
  <2>3. /\ c \in Socket /\ c.count = 1 /\ c.mem = so["C"].mem /\ c.state = so["C"].state
        /\ c.options = so["C"].options /\ c.comp = so["C"].comp
    BY <2>1 DEF Socket
  <2>4. so' = [[so EXCEPT !["S"] = s] EXCEPT !["C"] = c]
    <3>1. so["S"].count + 1 = 1 /\ so["C"].count + 1 = 1
      BY <1>5, Halves
    <3>2. so' = [so EXCEPT !["S"].count = so["S"].count + 1, !["S"].comp = FALSE, !["C"].count = so["C"].count + 1]
      BY <1>6 DEF uinet_soaccept
    <3>3. so' = [so EXCEPT !["S"].count = 1, !["S"].comp = FALSE, !["C"].count = 1]
      BY <3>1, <3>2, Zenon
    <3> QED
      BY <2>1, <3>3, Halves, Zenon
  <2> HIDE DEF s, c
  <2> QED
    BY <2>1, <2>2, <2>3, <2>4, Halves, ZenonT(60)
<1>8. TypeOK'
  BY <1>1, <1>3, <1>7, Zenon DEF TypeOK
<1>9. \A u \in Threads : ThreadOK(u)'
  <2>1. ThreadOK(t)'
    BY <1>3 DEF ThreadOK
  <2> QED
    BY <1>1, <1>3, <2>1, ThreadFrame, Zenon
<1>10. Refs'
  <2>1. \A u \in Threads, x \in Sock :
          /\ Owns(u, x)' <=> u = t
          /\ ~ProtoTail(u, x)'
    <3>1. \A x \in Sock : Owns(t, x)' /\ ~ProtoTail(t, x)'
      BY <1>3 DEF Owns, ProtoTail, InTail
    <3> QED
      BY <1>1, <1>3, <1>4, <3>1, OtherRoles, ZenonT(60) DEF NoReference
  <2>2. \A x \in Sock : ~InTail(t, x)'
    BY <1>3, Zenon DEF InTail
  <2>3. \A u \in Threads : ~Aborting(u)' /\ th'[u].pc \notin {"dispose1", "dispose2"}
    <3>1. \A u \in Threads : th[u].pc \notin {"dispose1", "dispose2"}
      <4>1. \A u \in Threads : th[u].so \in Sock /\ Peer(th[u].so) \in Sock
        BY <1>1, Halves, Zenon DEF TypeOK
      <4> QED
        BY <1>4, <4>1, Zenon DEF IInv, Refs, DeadPair
    <3>2. ~Aborting(t)'
      BY <1>3 DEF Aborting
    <3> QED
      BY <1>1, <1>3, <1>4, <3>1, <3>2, OtherRoles, Zenon
  <2>4. CountHeld'
    BY <1>1, <1>4, <1>7, <2>1, Zenon DEF CountHeld, NoReference
  <2>5. ReferencesAgree'
    <3>1. \A x \in Sock : "PROTOREF" \notin so[x].state
      BY <1>4, Zenon DEF IInv, Refs, ReferencesAgree, NoReference, ProtoTail
    <3> QED
      BY <1>1, <1>4, <1>7, <2>1, <3>1, Zenon DEF ReferencesAgree, NoReference, ProtoTail
  <2>6. ProtoHeld'
    BY <1>1, <1>4, <2>1, Zenon DEF ProtoHeld, NoReference
  <2>7. NotOver'
    BY <1>1, <2>1, <2>2, Zenon DEF NotOver
  <2>8. FreshPair' /\ DeadPair' /\ FreedTogether'
    BY <1>4, <1>7, <2>3, LivePair, Zenon
  <2> QED
    BY <2>4, <2>5, <2>6, <2>7, <2>8, Zenon DEF Refs
<1>11. HalfOK'
  BY <1>1, <1>7, HalfFrame, Halves, Zenon
<1>12. OneConversion' /\ PassiveTogether'
  <2>1. ~Aborting(t)' /\ ~Converting(t)' /\ ~InSend(t)'
    BY <1>3 DEF Aborting, Converting, InSend
  <2> QED
    BY <1>1, <1>2, <1>3, <1>7, <2>1, PassiveFrame, ZenonT(60)
<1> QED
  BY <1>8, <1>9, <1>10, <1>11, <1>12, Zenon DEF IInv

\* A reference that passes between the application and a thread: the pair is
\* live, and nothing but the holder changes.
LEMMA PassOn ==
  ASSUME IInv, NEW t \in Threads, Moves(t), ~NoReference,
         \A x \in Sock : /\ so'[x].count = so[x].count /\ so'[x].mem = so[x].mem
                         /\ "PROTOREF" \in so'[x].state <=> "PROTOREF" \in so[x].state,
         so'["S"].comp <=> so["S"].comp, tcb' = tcb,
         \A x \in Sock : /\ ~InTail(t, x) /\ ~InTail(t, x)'
                         /\ x \in open \/ Owns(t, x) <=> x \in open' \/ Owns(t, x)'
                         /\ x \in open' => ~Owns(t, x)' /\ \A u \in Threads \ {t} : ~Owns(u, x),
         ~Aborting(t)', th'[t].pc \notin {"dispose1", "dispose2"}
  PROVE  Refs'
<1>1. /\ ~so["S"].comp /\ (\A u \in Threads : ~Aborting(u))
      /\ \A x \in Sock : so[x].mem = "live"
      /\ \A u \in Threads : th[u].pc \notin {"dispose1", "dispose2"}
  BY Referenced, Zenon DEF IInv
<1>2. \A u \in Threads : ~Aborting(u)' /\ th'[u].pc \notin {"dispose1", "dispose2"}
  BY <1>1, OtherRoles, Zenon
<1>3. \A u \in Threads, x \in Sock :
        /\ ProtoTail(u, x)' <=> ProtoTail(u, x)
        /\ InTail(u, x)' <=> InTail(u, x)
        /\ u # t => (Owns(u, x)' <=> Owns(u, x))
  BY OtherRoles, Zenon DEF ProtoTail
<1>4. CountHeld
  BY Zenon DEF IInv, Refs
<1>5. CountHeld'
  <2> SUFFICES ASSUME NEW x \in Sock
               PROVE  /\ so'[x].count = IF x \in open' \/ \E u \in Threads : Owns(u, x)' THEN 1 ELSE 0
                      /\ \A u \in Threads : Owns(u, x)' =>
                           x \notin open' /\ \A v \in Threads : Owns(v, x)' => v = u
    BY Zenon DEF CountHeld
  <2>1. (x \in open' \/ \E u \in Threads : Owns(u, x)') <=> (x \in open \/ \E u \in Threads : Owns(u, x))
    BY <1>3, Zenon
  <2>2. ASSUME NEW u \in Threads, Owns(u, x)' PROVE x \notin open' /\ \A v \in Threads : Owns(v, x)' => v = u
    <3>1. x \notin open'
      BY <1>3, <2>2, ZenonT(60)
    <3>2. Owns(t, x)' => \A v \in Threads \ {t} : ~Owns(v, x)
      BY <1>4 DEF CountHeld
    <3> QED
      BY <1>3, <1>4, <2>2, <3>1, <3>2, ZenonT(60) DEF CountHeld
  <2> QED
    BY <1>4, <2>1, <2>2, Zenon DEF CountHeld
<1>6. ReferencesAgree'
  BY <1>3, Zenon DEF IInv, Refs, ReferencesAgree, ProtoTail
<1>7. ProtoHeld'
  BY <1>3, ZenonT(60) DEF IInv, Refs, ProtoHeld, Gone
<1>8. NotOver'
  <2>1. \A x \in Sock : \/ x \in open \/ \E u \in Threads : Owns(u, x) /\ ~InTail(u, x)
                        \/ "SOCKREF" \in tcb[x].flags \/ Gone(x)
                        \/ \E u \in Threads : th[u].pc = "abort1" \/ (th[u].pc = "abort2" /\ x = "C")
    BY <1>1, Zenon DEF IInv, Refs, NotOver
  <2>2. \A u \in Threads : th[u].pc \notin {"abort1", "abort2"}
    BY <1>1, Zenon DEF IInv, ThreadOK, Aborting
  <2> QED
    BY <1>3, <2>1, <2>2 DEF NotOver, Gone
<1>9. FreshPair' /\ DeadPair' /\ FreedTogether'
  BY <1>1, <1>2, LivePair, Zenon
<1> QED
  BY <1>5, <1>6, <1>7, <1>8, <1>9, ZenonT(60) DEF Refs

\* soaccept hands the halves over, or closes them after an error.
LEMMA SoacceptStep ==
  ASSUME IInv, NEW t \in Threads, soaccept(t)
  PROVE  IInv'
<1> DEFINE s == [so["S"] EXCEPT !.state = @ \ {"NOFDREF"}]
<1>1. TypeOK /\ ThreadOK(t) /\ th[t].pc = "soaccept" /\ UNCHANGED <<tcb, lock, listening, panicked>>
      /\ "S" \in Sock
  BY DEF IInv, soaccept, Sock
<1>2. OneHalf("S", s, tcb["S"])
  BY <1>1 DEF soaccept, OneHalf, TypeOK
<1>3. s \in Socket /\ SameSocket(s, so["S"])
  <2>1. so["S"] \in Socket
    BY <1>1 DEF TypeOK
  <2> QED
    BY <2>1, Zenon DEF Socket, SameSocket
<1>4. /\ tcb["S"] \in Tcb /\ TcbOK(tcb["S"]) /\ (tcb["S"].inp # "attached" => s.mem = "free")
      /\ lock' \in [Locks -> Threads \cup {"none"}] /\ listening' \in BOOLEAN
  BY <1>1, <1>3, TcbFacts, Zenon DEF SameSocket, TypeOK
<1> HIDE DEF s
<1>5. \A x \in Sock : Owns(t, x) /\ ~InTail(t, x) /\ ~ProtoTail(t, x)
  BY <1>1, Zenon DEF Owns, InTail, ProtoTail
<1>6. CASE Gone("S") \/ so["S"].conn = "disconnected"
  <2>1. GoTo(t, "disconnect", "C", "close", "closeS") /\ UNCHANGED open
    BY <1>6 DEF soaccept
  <2>2. /\ th' \in [Threads -> [pc : Pc, so : Sock, via : Via, ret : Ret]] /\ Moves(t)
        /\ th'[t].pc = "disconnect" /\ th'[t].so = "C" /\ th'[t].via = "close" /\ th'[t].ret = "closeS"
    BY <1>1, <2>1, Going, ZenonT(60) DEF Pc, Sock, Via, Ret
  <2>3. ThreadOK(t)'
    BY <1>1, <2>2, Zenon DEF ThreadOK
  <2>4. SameRole(t) /\ (Converting(t)' <=> Converting(t)) /\ (InSend(t)' => InSend(t))
    BY <1>1, <1>5, <2>2, Halves, Zenon DEF SameRole, Owns, ProtoTail, InTail, Aborting, Converting, InSend
  <2> QED
    BY <1>1, <1>2, <1>3, <1>4, <2>1, <2>2, <2>3, <2>4, Halves, QuietStep, ZenonT(60) DEF Gone
<1>7. CASE ~(Gone("S") \/ so["S"].conn = "disconnected")
  <2>1. GoTo(t, "idle", "S", "none", "idle") /\ open' = Sock
    BY <1>7 DEF soaccept
  <2>2. /\ th' \in [Threads -> [pc : Pc, so : Sock, via : Via, ret : Ret]] /\ Moves(t)
        /\ th'[t].pc = "idle" /\ th'[t].so = "S" /\ th'[t].via = "none" /\ th'[t].ret = "idle"
    BY <1>1, <2>1, Going, ZenonT(60) DEF Pc, Sock, Via, Ret
  <2>3. th'[t] = Idle
    BY <1>1, <2>1 DEF GoTo, Idle, TypeOK
  <2>4. /\ so' \in [Sock -> Socket] /\ so'["S"] = s
        /\ \A y \in Sock : y # "S" => so'[y] = so[y]
    BY <1>1, <1>2, <1>3, <1>4, OneHalfIs, ZenonT(60)
  <2>5. TypeOK'
    BY <1>1, <2>1, <2>2, <2>4, Zenon DEF TypeOK
  <2>6. \A u \in Threads : ThreadOK(u)'
    <3>1. ThreadOK(t)'
      BY <2>2, <2>3, Zenon DEF ThreadOK
    <3> QED
      BY <1>1, <2>1, <2>2, <3>1, ThreadFrame, Zenon DEF TypeOK
  <2>7. Refs'
    <3>1. ~NoReference
      BY <1>1, <1>5, Zenon DEF NoReference
    <3>2. (\A x \in Sock : ~Owns(t, x)' /\ ~InTail(t, x)') /\ ~Aborting(t)'
      BY <2>2, Zenon DEF Owns, InTail, Aborting
    <3>3. \A x \in Sock : \A u \in Threads \ {t} : ~Owns(u, x)
      BY <1>5, Zenon DEF IInv, Refs, CountHeld
    <3>4. /\ \A x \in Sock : /\ so'[x].count = so[x].count /\ so'[x].mem = so[x].mem
                             /\ "PROTOREF" \in so'[x].state <=> "PROTOREF" \in so[x].state
          /\ so'["S"].comp <=> so["S"].comp
      BY <1>3, <2>4, Zenon DEF SameSocket
    <3>5. \A x \in Sock : /\ ~InTail(t, x) /\ ~InTail(t, x)'
                          /\ x \in open \/ Owns(t, x) <=> x \in open' \/ Owns(t, x)'
                          /\ x \in open' => ~Owns(t, x)' /\ \A u \in Threads \ {t} : ~Owns(u, x)
      BY <1>5, <2>1, <3>2, <3>3, Zenon
    <3> QED
      BY <1>1, <2>2, <3>1, <3>2, <3>4, <3>5, PassOn, Zenon
  <2>8. HalfOK'
    BY <1>1, <1>3, <2>4, Halves, HalfFrame, Zenon DEF SameSocket
  <2>9. OneConversion' /\ PassiveTogether'
    <3>1. ~Aborting(t)' /\ ~Converting(t)' /\ ~InSend(t)' /\ ~Converting(t)
      BY <1>1, <2>2, Zenon DEF Aborting, Converting, InSend
    <3>2. (\A x \in Sock : so'[x].options = so[x].options) /\ (so'["S"].comp => so["S"].comp)
      BY <1>3, <2>4 DEF SameSocket
    <3> QED
      BY <1>1, <2>2, <3>1, <3>2, PassiveFrame, Zenon
  <2> QED
    BY <2>5, <2>6, <2>7, <2>8, <2>9, Zenon DEF IInv
<1> QED
  BY <1>6, <1>7, Zenon

\* soclose takes the application's reference for the closing thread.
LEMMA SocloseBeginStep ==
  ASSUME IInv, NEW t \in Apps, SocloseBegin(t)
  PROVE  IInv'
<1>1. TypeOK /\ ThreadOK(t) /\ t \in Threads /\ th[t].pc = "idle"
      /\ UNCHANGED <<so, tcb, lock, listening, panicked>>
  BY DEF IInv, SocloseBegin, Threads
<1>2. PICK x \in Sock : x \in open /\ ~Busy(x) /\ open' = open \ {x} /\ GoTo(t, "disconnect", x, "close", "idle")
  BY <1>1 DEF SocloseBegin, TypeOK
<1>3. /\ th' \in [Threads -> [pc : Pc, so : Sock, via : Via, ret : Ret]] /\ Moves(t)
      /\ th'[t].pc = "disconnect" /\ th'[t].so = x /\ th'[t].via = "close" /\ th'[t].ret = "idle"
  BY <1>1, <1>2, Going, ZenonT(60) DEF Pc, Via, Ret
<1>4. NoRole(t) /\ ~Converting(t) /\ ~InSend(t)
  BY <1>1, IdleRole, Zenon
<1>5. TypeOK'
  BY <1>1, <1>2, <1>3, Zenon DEF TypeOK
<1>6. \A u \in Threads : ThreadOK(u)'
  <2> SUFFICES ASSUME NEW u \in Threads PROVE ThreadOK(u)'
    OBVIOUS
  <2>1. CASE u = t
    BY <1>3, <2>1, Zenon DEF ThreadOK
  <2>2. CASE u # t
    <3>1. th'[u] = th[u] /\ ThreadOK(u)
      BY <1>3, <2>2, Zenon DEF Moves, IInv
    <3>2. th[u].pc \in {"send", "convert1", "convert2", "sendout"} => th[u].so # x
      BY <1>2, <3>1, Zenon DEF ThreadOK, Busy
    <3>3. th[u].ret = "sendout" => Peer(th[u].so) # x
      BY <1>2, <3>1, Zenon DEF ThreadOK, Busy
    <3> QED
      BY <1>2, <3>1, <3>2, <3>3, ZenonT(60) DEF ThreadOK
  <2> QED
    BY <2>1, <2>2, Zenon
<1>7. Refs'
  <2>1. ~NoReference
    BY <1>2, Zenon DEF NoReference
  <2>2. (\A y \in Sock : (Owns(t, y)' <=> y = x) /\ ~InTail(t, y)') /\ ~Aborting(t)'
    BY <1>3, Zenon DEF Owns, InTail, Aborting
  <2>3. \A y \in open : \A u \in Threads : ~Owns(u, y)
    BY <1>1 DEF IInv, Refs, CountHeld, TypeOK
  <2>4. \A y \in Sock : ~InTail(t, y)
    BY <1>1, Zenon DEF InTail
  <2>5. \A y \in Sock : /\ ~InTail(t, y) /\ ~InTail(t, y)'
                        /\ y \in open \/ Owns(t, y) <=> y \in open' \/ Owns(t, y)'
                        /\ y \in open' => ~Owns(t, y)' /\ \A u \in Threads \ {t} : ~Owns(u, y)
    BY <1>2, <1>4, <2>2, <2>3, <2>4, Zenon DEF NoRole
  <2> QED
    BY <1>1, <1>3, <2>1, <2>2, <2>5, PassOn, Zenon
<1>8. HalfOK'
  BY <1>1, HalfFrame, Zenon
<1>9. OneConversion' /\ PassiveTogether'
  <2>1. ~Aborting(t)' /\ ~Converting(t)' /\ ~InSend(t)'
    BY <1>3, Zenon DEF Aborting, Converting, InSend
  <2> QED
    BY <1>1, <1>3, <1>4, <2>1, PassiveFrame, Zenon
<1> QED
  BY <1>5, <1>6, <1>7, <1>8, <1>9, Zenon DEF IInv

\* What tcp_usr_close makes of a half: TCP keeps a reference unless it is
\* dropped.
LEMMA ProtorefIs ==
  ASSUME NEW x \in Sock, NEW s \in Socket, NEW c \in Tcb, TcbOK(c), Protoref(x, s, c),
         "SOCKREF" \notin c.flags, "PROTOREF" \notin s.state
  PROVE  \E r \in Socket, d \in Tcb :
           /\ OneHalf(x, r, d) /\ TcbOK(d) /\ d.passive = c.passive /\ d.inp = c.inp
           /\ r.count = s.count /\ r.mem = s.mem /\ r.comp = s.comp /\ r.options = s.options
           /\ "NOFDREF" \in s.state => "NOFDREF" \in r.state
           /\ "SOCKREF" \in d.flags <=> "DROPPED" \notin c.flags
           /\ "PROTOREF" \in r.state <=> "DROPPED" \notin c.flags
           /\ \A f \in {"TIMEWAIT", "DROPPED"} : f \in d.flags <=> f \in c.flags
<1>1. CASE "DROPPED" \in c.flags
  BY <1>1, Zenon DEF Protoref, OneHalf
<1>2. CASE "DROPPED" \notin c.flags
  <2> DEFINE r == [s EXCEPT !.state = @ \cup {"PROTOREF"}]
             d == [c EXCEPT !.flags = @ \cup {"SOCKREF"}]
  <2>1. OneHalf(x, r, d)
    BY <1>2 DEF Protoref, OneHalf
  <2>2. /\ r \in Socket /\ r.count = s.count /\ r.mem = s.mem /\ r.comp = s.comp
        /\ r.options = s.options /\ r.state = s.state \cup {"PROTOREF"}
    BY DEF Socket
  <2>3. /\ d \in Tcb /\ d.passive = c.passive /\ d.inp = c.inp /\ d.state = c.state
        /\ d.flags = c.flags \cup {"SOCKREF"}
    BY DEF Tcb
  <2>4. TcbOK(d)
    BY <2>3 DEF TcbOK
  <2> HIDE DEF r, d
  <2> QED
    BY <1>2, <2>1, <2>2, <2>3, <2>4, Zenon
<1> QED
  BY <1>1, <1>2, Zenon

\* The user's reference stays with t until it is given up; TCP has its own
\* from now on, or the connection is over.
LEMMA LeaveToTcp ==
  ASSUME IInv, NEW t \in Threads, NEW x \in Sock, Moves(t), Owns(t, x), ~InTail(t, x), InTail(t, x)',
         \A y \in Sock : /\ Owns(t, y)' <=> Owns(t, y)
                         /\ y # x => ~InTail(t, y) /\ ~InTail(t, y)'
                         /\ ~ProtoTail(t, y) /\ ~ProtoTail(t, y)',
         ~Aborting(t)', th'[t].pc = "accept",
         \A y \in Sock : so'[y].count = so[y].count /\ so'[y].mem = so[y].mem,
         \A y \in Sock : y # x => /\ "PROTOREF" \in so'[y].state <=> "PROTOREF" \in so[y].state
                                  /\ tcb'[y] = tcb[y],
         "PROTOREF" \in so'[x].state <=> "SOCKREF" \in tcb'[x].flags,
         "SOCKREF" \in tcb'[x].flags \/ Gone(x)',
         so'["S"].comp <=> so["S"].comp, open' = open
  PROVE  Refs'
<1>1. ~NoReference
  BY DEF NoReference
<1>2. /\ ~so["S"].comp /\ (\A u \in Threads : ~Aborting(u))
      /\ \A y \in Sock : so[y].mem = "live"
      /\ \A u \in Threads : th[u].pc \notin {"dispose1", "dispose2"}
  BY <1>1, Referenced, Zenon DEF IInv
<1>3. \A u \in Threads, y \in Sock :
        /\ Owns(u, y)' <=> Owns(u, y)
        /\ ProtoTail(u, y)' <=> ProtoTail(u, y)
        /\ u # t \/ y # x => (InTail(u, y)' <=> InTail(u, y))
  BY OtherRoles, ZenonT(60)
<1>4. \A u \in Threads : ~Aborting(u)' /\ th'[u].pc \notin {"dispose1", "dispose2"}
  BY <1>2, OtherRoles, Zenon
<1>5. "SOCKREF" \notin tcb[x].flags /\ \A u \in Threads : ~ProtoTail(u, x)
  BY NotYetLeft, Zenon
<1>6. CountHeld /\ x \notin open /\ \A u \in Threads : Owns(u, x) => u = t
  BY Zenon DEF IInv, Refs, CountHeld
<1>7. CountHeld'
  BY <1>3, <1>6, ZenonT(60) DEF CountHeld
<1>8. ReferencesAgree'
  <2>1. \A y \in Sock : "PROTOREF" \in so[y].state <=>
          "SOCKREF" \in tcb[y].flags \/ \E u \in Threads : ProtoTail(u, y)
    BY Zenon DEF IInv, Refs, ReferencesAgree, ProtoTail
  <2>2. \A y \in Sock : "PROTOREF" \in so'[y].state <=>
          "SOCKREF" \in tcb'[y].flags \/ \E u \in Threads : ProtoTail(u, y)'
    BY <1>3, <1>5, <2>1, Zenon
  <2> QED
    BY <2>2 DEF ReferencesAgree, ProtoTail
<1>9. ProtoHeld'
  <2>1. ProtoHeld
    BY Zenon DEF IInv, Refs
  <2> SUFFICES ASSUME NEW y \in Sock
      PROVE  /\ \A u \in Threads : ProtoTail(u, y)' =>
                  /\ "SOCKREF" \notin tcb'[y].flags /\ Gone(y)'
                  /\ \A w \in Threads : ProtoTail(w, y)' => w = u
             /\ "SOCKREF" \in tcb'[y].flags \/ (\E u \in Threads : ProtoTail(u, y)') =>
                  y \notin open' /\ \A u \in Threads : Owns(u, y)' => InTail(u, y)'
    BY Zenon DEF ProtoHeld
  <2>2. CASE y = x
    BY <1>3, <1>5, <1>6, <2>2, Zenon
  <2>3. CASE y # x
    <3>1. tcb'[y] = tcb[y] /\ (Gone(y)' <=> Gone(y))
      BY <2>3 DEF Gone
    <3> QED
      BY <1>3, <2>1, <2>3, <3>1, ZenonT(60) DEF ProtoHeld
  <2> QED
    BY <2>2, <2>3, Zenon
<1>10. NotOver'
  <2>1. \A y \in Sock : \/ y \in open \/ \E u \in Threads : Owns(u, y) /\ ~InTail(u, y)
                        \/ "SOCKREF" \in tcb[y].flags \/ Gone(y)
                        \/ \E u \in Threads : th[u].pc = "abort1" \/ (th[u].pc = "abort2" /\ y = "C")
    BY <1>2, Zenon DEF IInv, Refs, NotOver
  <2>2. \A u \in Threads : th[u].pc \notin {"abort1", "abort2"}
    BY <1>2, Zenon DEF IInv, ThreadOK, Aborting
  <2> QED
    BY <1>3, <2>1, <2>2, ZenonT(60) DEF NotOver, Gone
<1>11. FreshPair' /\ DeadPair' /\ FreedTogether'
  BY <1>2, <1>4, LivePair, Zenon
<1> QED
  BY <1>7, <1>8, <1>9, <1>10, <1>11, ZenonT(60) DEF Refs

\* tcp_usr_close leaves the half to TCP if the connection is not over.
LEMMA UsrCloseStep ==
  ASSUME IInv, NEW t \in Threads, tcp_usr_close(t)
  PROVE  IInv'
<1>1. PICK x \in Sock : x = th[t].so
  BY Zenon DEF IInv, TypeOK
<1>2. TypeOK /\ ThreadOK(t) /\ th[t].pc = "pru_close" /\ th' = [th EXCEPT ![t].pc = "accept"]
      /\ UNCHANGED <<lock, open, listening, panicked>>
  BY DEF IInv, tcp_usr_close
<1>3. /\ th' \in [Threads -> [pc : Pc, so : Sock, via : Via, ret : Ret]] /\ Moves(t)
      /\ th'[t].pc = "accept" /\ th'[t].so = th[t].so /\ th'[t].via = th[t].via
      /\ th'[t].ret = th[t].ret /\ th[t].via = "close"
  BY <1>2, Stepping, Zenon DEF Pc, ThreadOK
<1>4. /\ Owns(t, x) /\ InTail(t, x)' /\ ~Aborting(t)'
      /\ \A y \in Sock : /\ Owns(t, y)' <=> Owns(t, y)
                         /\ ~InTail(t, y) /\ (InTail(t, y)' <=> y = x)
                         /\ ~ProtoTail(t, y) /\ ~ProtoTail(t, y)'
  BY <1>1, <1>2, <1>3, Zenon DEF Owns, InTail, ProtoTail, Aborting
<1>5. "SOCKREF" \notin tcb[x].flags /\ "PROTOREF" \notin so[x].state
  BY <1>4, NotYetLeft, Zenon
<1>6. /\ so[x] \in Socket /\ tcb[x] \in Tcb /\ TcbOK(tcb[x])
      /\ tcb[x].inp # "attached" => so[x].mem = "free"
      /\ x = "C" => "NOFDREF" \in so[x].state
  BY TcbFacts
<1>7. PICK s \in Socket, c \in Tcb :
        /\ Protoref(x, s, c) /\ TcbOK(c) /\ c.passive = tcb[x].passive /\ c.inp = tcb[x].inp
        /\ "SOCKREF" \notin c.flags /\ SameSocket(s, so[x]) /\ s.state = so[x].state
  <2>1. CASE Gone(x)
    <3>1. Protoref(x, so[x], tcb[x])
      BY <1>1, <2>1, Zenon DEF tcp_usr_close
    <3> QED
      BY <1>5, <1>6, <3>1, Zenon DEF SameSocket
  <2>2. CASE ~Gone(x)
    <3> DEFINE q == soisdisconnecting(so[x])
    <3>1. Protoref(x, Usrclosed(q, tcb[x]), tcp_usrclosed(tcb[x]))
      BY <1>1, <2>2, Zenon DEF tcp_usr_close
    <3>2. q \in Socket /\ SameSocket(q, so[x]) /\ q.state = so[x].state
      BY <1>6, DisconnectedIs, Zenon
    <3> HIDE DEF q
    <3> QED
      <4>1. /\ tcp_usrclosed(tcb[x]) \in Tcb /\ TcbOK(tcp_usrclosed(tcb[x]))
            /\ tcp_usrclosed(tcb[x]).passive = tcb[x].passive /\ tcp_usrclosed(tcb[x]).inp = tcb[x].inp
            /\ "SOCKREF" \in tcp_usrclosed(tcb[x]).flags => "SOCKREF" \in tcb[x].flags
            /\ Usrclosed(q, tcb[x]) \in Socket /\ SameSocket(Usrclosed(q, tcb[x]), q)
            /\ Usrclosed(q, tcb[x]).state = q.state
        BY <1>5, <1>6, <3>2, UsrclosedIs, Zenon
      <4>2. SameSocket(Usrclosed(q, tcb[x]), so[x])
        BY <3>2, <4>1, Zenon DEF SameSocket
      <4> QED
        BY <1>5, <1>6, <3>1, <3>2, <4>1, <4>2, ZenonT(60)
  <2> QED
    BY <2>1, <2>2, Zenon
<1>8. PICK r \in Socket, d \in Tcb :
        /\ OneHalf(x, r, d) /\ TcbOK(d) /\ d.passive = c.passive /\ d.inp = c.inp
        /\ r.count = s.count /\ r.mem = s.mem /\ r.comp = s.comp /\ r.options = s.options
        /\ "NOFDREF" \in s.state => "NOFDREF" \in r.state
        /\ "SOCKREF" \in d.flags <=> "DROPPED" \notin c.flags
        /\ "PROTOREF" \in r.state <=> "DROPPED" \notin c.flags
        /\ \A f \in {"TIMEWAIT", "DROPPED"} : f \in d.flags <=> f \in c.flags
  BY <1>5, <1>7, ProtorefIs DEF SameSocket
<1>9. /\ so' \in [Sock -> Socket] /\ tcb' \in [Sock -> Tcb] /\ so'[x] = r /\ tcb'[x] = d
      /\ \A y \in Sock : y # x => so'[y] = so[y] /\ tcb'[y] = tcb[y]
  BY <1>2, <1>8, OneHalfIs
<1>10. TypeOK'
  BY <1>2, <1>3, <1>9, Zenon DEF TypeOK
<1>11. \A u \in Threads : ThreadOK(u)'
  <2>1. ThreadOK(t)'
    BY <1>2, <1>3, Zenon DEF ThreadOK
  <2> QED
    BY <1>2, <1>3, <2>1, ThreadFrame, ZenonT(60)
<1>12. Refs'
  <2>1. /\ \A y \in Sock : so'[y].count = so[y].count /\ so'[y].mem = so[y].mem
        /\ \A y \in Sock : y # x => /\ "PROTOREF" \in so'[y].state <=> "PROTOREF" \in so[y].state
                                    /\ tcb'[y] = tcb[y]
        /\ "PROTOREF" \in so'[x].state <=> "SOCKREF" \in tcb'[x].flags
        /\ so'["S"].comp <=> so["S"].comp
    <3>1. \A y \in Sock : so'[y].count = so[y].count /\ so'[y].mem = so[y].mem /\ so'[y].comp = so[y].comp
      BY <1>7, <1>8, <1>9, Zenon DEF SameSocket
    <3>2. "PROTOREF" \in so'[x].state <=> "SOCKREF" \in tcb'[x].flags
      BY <1>8, <1>9, Zenon
    <3>3. so'["S"].comp <=> so["S"].comp
      BY <3>1, Halves, Zenon
    <3> QED
      BY <1>9, <3>1, <3>2, <3>3, Zenon
  <2>2. "SOCKREF" \in tcb'[x].flags \/ Gone(x)'
    BY <1>8, <1>9, ZenonT(60) DEF Gone
  <2> QED
    BY <1>2, <1>3, <1>4, <2>1, <2>2, LeaveToTcp, ZenonT(60)
<1>13. HalfOK'
  BY <1>6, <1>7, <1>8, HalfStep, ZenonT(60) DEF SameSocket
<1>14. OneConversion' /\ PassiveTogether'
  <2>1. \A y \in Sock : tcb'[y].passive = tcb[y].passive /\ so'[y].options = so[y].options
    BY <1>7, <1>8, <1>9, ZenonT(60) DEF SameSocket
  <2>2. so'["S"].comp => so["S"].comp
    BY <1>7, <1>8, <1>9, Halves, Zenon DEF SameSocket
  <2>3. (Converting(t)' <=> Converting(t)) /\ (InSend(t)' => InSend(t))
    BY <1>2, <1>3, Zenon DEF Converting, InSend
  <2> QED
    BY <1>2, <1>3, <1>4, <2>1, <2>2, <2>3, PassiveFrame, ZenonT(60)
<1> QED
  BY <1>10, <1>11, <1>12, <1>13, <1>14, Zenon DEF IInv
-----------------------------------------------------------------------------
(***************************************************************************)
(* TCP lets go of half x: INP_SOCKREF is cleared, and thread t is on its   *)
(* way to clear SS_PROTOREF.                                               *)
(***************************************************************************)

\* The references after TCP let go of one.
LEMMA LetGo ==
  ASSUME TypeOK, Refs, NEW t \in Threads, NEW x \in Sock, Moves(t), NoRole(t),
         \A y \in Sock : ~Owns(t, y)' /\ (ProtoTail(t, y)' <=> y = x),
         ~Aborting(t)', th'[t].pc = "accept",
         "SOCKREF" \in tcb[x].flags, "SOCKREF" \notin tcb'[x].flags, Gone(x)',
         \A y \in Sock : /\ so'[y].count = so[y].count /\ so'[y].mem = so[y].mem
                         /\ "PROTOREF" \in so'[y].state <=> "PROTOREF" \in so[y].state
                         /\ Gone(y) => Gone(y)',
         \A y \in Sock : y # x => ("SOCKREF" \in tcb'[y].flags <=> "SOCKREF" \in tcb[y].flags),
         so'["S"].comp <=> so["S"].comp, open' = open
  PROVE  Refs'
<1>1. ~NoReference
  BY DEF NoReference
<1>2. /\ ~so["S"].comp /\ (\A u \in Threads : ~Aborting(u))
      /\ \A y \in Sock : so[y].mem = "live"
      /\ \A u \in Threads : th[u].pc \notin {"dispose1", "dispose2"}
  BY <1>1, Referenced, Zenon
<1>3. \A u \in Threads, y \in Sock :
        /\ Owns(u, y)' <=> Owns(u, y)
        /\ ProtoTail(u, y)' <=> (ProtoTail(u, y) \/ (u = t /\ y = x))
        /\ Owns(u, y) => (InTail(u, y)' <=> InTail(u, y))
  BY OtherRoles, ZenonT(60) DEF NoRole
<1>4. /\ \A u \in Threads : ~Aborting(u)' /\ th'[u].pc \notin {"dispose1", "dispose2"}
      /\ \A u \in Threads, p \in {"abort1", "abort2"} : th[u].pc = p => th'[u].pc = p
  BY <1>2, OtherRoles, Zenon DEF NoRole
<1>5. \A u \in Threads : ~ProtoTail(u, x)
  BY Zenon DEF Refs, ProtoHeld
<1>6. CountHeld'
  BY <1>3, ZenonT(60) DEF Refs, CountHeld
<1>7. ReferencesAgree'
  <2>1. \A y \in Sock : "PROTOREF" \in so[y].state <=>
          "SOCKREF" \in tcb[y].flags \/ \E u \in Threads : ProtoTail(u, y)
    BY Zenon DEF Refs, ReferencesAgree, ProtoTail
  <2>2. \A y \in Sock : "PROTOREF" \in so'[y].state <=>
          "SOCKREF" \in tcb'[y].flags \/ \E u \in Threads : ProtoTail(u, y)'
    BY <1>3, <2>1, ZenonT(60)
  <2> QED
    BY <2>2, Zenon DEF ReferencesAgree, ProtoTail
<1>8. ProtoHeld'
  BY <1>3, <1>5 DEF Refs, ProtoHeld
<1>9. NotOver'
  BY <1>3, <1>4, ZenonT(60) DEF Refs, NotOver
<1>10. FreshPair' /\ DeadPair' /\ FreedTogether'
  BY <1>2, <1>4, LivePair, Zenon
<1> QED
  BY <1>6, <1>7, <1>8, <1>9, <1>10, ZenonT(60) DEF Refs

\* tcp_close of half x, whatever became of its control block.
LEMMA CloseStep ==
  ASSUME IInv, NEW t \in Threads, th[t].pc = "idle", NEW x \in Sock,
         NEW c \in Tcb, NEW s \in Socket, NEW ret \in {"unlock", "dropwithreset"},
         CloseAs(t, x, c, s, ret),
         TcbOK(c), c.inp = tcb[x].inp, c.passive = tcb[x].passive, "SOCKREF" \notin c.flags,
         c.flags \cap {"TIMEWAIT", "DROPPED"} # {},
         SameSocket(s, so[x]), s.state = so[x].state
  PROVE  IInv'
<1>1. TypeOK /\ ThreadOK(t) /\ HalfOK
  BY Zenon DEF IInv
<1>2. OneHalf(x, s, c) /\ UNCHANGED <<open, listening, panicked>>
  BY Zenon DEF CloseAs, OneHalf
<1>3. /\ c.inp # "attached" => s.mem = "free"
      /\ x = "C" => "NOFDREF" \in s.state
  BY TcbFacts, Zenon DEF SameSocket
<1>4. NoRole(t) /\ ~Converting(t) /\ ~InSend(t)
  BY <1>1, IdleRole, Zenon
<1>5. CASE "SOCKREF" \notin tcb[x].flags
  <2>1. UNCHANGED <<lock, th>>
    BY <1>5, Zenon DEF CloseAs
  <2>2. lock' \in [Locks -> Threads \cup {"none"}] /\ listening' \in BOOLEAN
    BY <1>1, <1>2, <2>1, Zenon DEF TypeOK
  <2> QED
    BY <1>2, <1>3, <1>5, <2>1, <2>2, StayStep, QuietStep, ZenonT(60)
<1>6. CASE "SOCKREF" \in tcb[x].flags
  <2>1. lock' = TakeAll({INFO}, t) /\ GoTo(t, "accept", x, "proto", ret)
    BY <1>6, Zenon DEF CloseAs
  <2>2. /\ th' \in [Threads -> [pc : Pc, so : Sock, via : Via, ret : Ret]] /\ Moves(t)
        /\ th'[t].pc = "accept" /\ th'[t].so = x /\ th'[t].via = "proto" /\ th'[t].ret = ret
    <3>1. "accept" \in Pc /\ "proto" \in Via /\ ret \in Ret
      BY DEF Pc, Via, Ret
    <3>2. t \in Threads /\ x \in Sock
      BY Zenon
    <3> QED
      BY ONLY <1>1, <2>1, <3>1, <3>2, Going, Zenon
  <2>3. lock' \in [Locks -> Threads \cup {"none"}]
    BY <1>1, <2>1, LockTypes, Zenon
  <2>4. /\ so' \in [Sock -> Socket] /\ tcb' \in [Sock -> Tcb]
        /\ so'[x] = s /\ tcb'[x] = c
        /\ \A y \in Sock : y # x => so'[y] = so[y] /\ tcb'[y] = tcb[y]
    BY <1>1, <1>2, OneHalfIs, Zenon
  <2>5. TypeOK'
    BY <1>1, <1>2, <2>2, <2>3, <2>4, ZenonT(60) DEF TypeOK
  <2>6. \A u \in Threads : ThreadOK(u)'
    <3>1. ThreadOK(t)'
      BY <2>2, Zenon DEF ThreadOK
    <3> QED
      BY <1>2, <2>2, <3>1, ThreadFrame, Zenon
  <2>7. Refs'
    <3>1. (\A y \in Sock : ~Owns(t, y)' /\ (ProtoTail(t, y)' <=> y = x)) /\ ~Aborting(t)'
      BY <2>2, Zenon DEF Owns, ProtoTail, InTail, Aborting
    <3>2. /\ Gone(x)' /\ "SOCKREF" \notin tcb'[x].flags
          /\ \A y \in Sock : /\ so'[y].count = so[y].count /\ so'[y].mem = so[y].mem
                             /\ "PROTOREF" \in so'[y].state <=> "PROTOREF" \in so[y].state
                             /\ Gone(y) => Gone(y)'
          /\ \A y \in Sock : y # x => ("SOCKREF" \in tcb'[y].flags <=> "SOCKREF" \in tcb[y].flags)
          /\ so'["S"].comp <=> so["S"].comp
      <4>1. Gone(x)' /\ "SOCKREF" \notin tcb'[x].flags
        BY <2>4, Zenon DEF Gone
      <4>2. \A y \in Sock : y # x => Gone(y)' <=> Gone(y)
        BY <2>4, Zenon DEF Gone
      <4>3. \A y \in Sock : /\ so'[y].count = so[y].count /\ so'[y].mem = so[y].mem
                            /\ so'[y].comp = so[y].comp
                            /\ "PROTOREF" \in so'[y].state <=> "PROTOREF" \in so[y].state
        BY <2>4, Zenon DEF SameSocket
      <4>4. \A y \in Sock : y # x => ("SOCKREF" \in tcb'[y].flags <=> "SOCKREF" \in tcb[y].flags)
        BY <2>4, Zenon
      <4>5. so'["S"].comp <=> so["S"].comp
        BY <4>3, Halves, Zenon
      <4> QED
        BY <4>1, <4>2, <4>3, <4>4, <4>5, Zenon
    <3> QED
      BY <1>1, <1>2, <1>4, <1>6, <2>2, <3>1, <3>2, LetGo, ZenonT(60) DEF IInv
  <2>8. HalfOK'
    BY <1>2, <1>3, HalfStep, Zenon DEF SameSocket
  <2>9. OneConversion' /\ PassiveTogether'
    <3>1. \A y \in Sock : tcb'[y].passive = tcb[y].passive /\ so'[y].options = so[y].options
      BY <2>4, Zenon DEF SameSocket
    <3>2. so'["S"].comp => so["S"].comp
      BY <2>4, Halves, Zenon DEF SameSocket
    <3>3. ~Aborting(t)' /\ ~Converting(t)' /\ ~InSend(t)'
      BY <2>2, Zenon DEF Aborting, Converting, InSend
    <3> QED
      BY <1>2, <1>4, <2>2, <3>1, <3>2, <3>3, PassiveFrame, ZenonT(60)
  <2> QED
    BY <2>5, <2>6, <2>7, <2>8, <2>9, Zenon DEF IInv
<1> QED
  BY <1>5, <1>6, Zenon

\* tcp_close by a segment or a timer.
LEMMA TcpCloseStep ==
  ASSUME IInv, NEW t \in Threads, th[t].pc = "idle", NEW x \in Sock,
         NEW ret \in {"unlock", "dropwithreset"}, tcp_close(t, x, ret)
  PROVE  IInv'
<1>1. so[x] \in Socket /\ tcb[x] \in Tcb /\ TcbOK(tcb[x])
  BY TcbFacts, Zenon
<1>2. TcbOK(Dropped(tcb[x])) /\ Dropped(tcb[x]).flags \cap {"TIMEWAIT", "DROPPED"} # {}
  BY <1>1, DroppedIs, Zenon DEF TcbOK
<1> QED
  BY <1>1, <1>2, DroppedIs, DisconnectedIs, CloseStep, Zenon DEF tcp_close

\* tcp_twstart, which keeps or gives up TCP's reference.
LEMMA TwstartStep ==
  ASSUME IInv, NEW t \in Threads, th[t].pc = "idle", NEW x \in Sock,
         "DROPPED" \notin tcb[x].flags, tcp_twstart(t, x)
  PROVE  IInv'
<1>1. so[x] \in Socket /\ tcb[x] \in Tcb /\ TcbOK(tcb[x])
  BY TcbFacts, Zenon
<1>2. CASE tcp_close(t, x, "unlock")
  BY <1>2, TcpCloseStep, Zenon
<1>3. CASE ~tcp_close(t, x, "unlock")
  <2>1. CASE tcb[x].passive
    <3> DEFINE d == Dropped(tcb[x])
               c == [d EXCEPT !.flags = @ \cup {"TIMEWAIT"}, !.ppcb = "null"]
    <3>1. CloseAs(t, x, c, Disconnected(so[x]), "unlock")
      BY <1>3, <2>1, Zenon DEF tcp_twstart
    <3>2. /\ d \in Tcb /\ d.state = "CLOSED" /\ d.passive = tcb[x].passive /\ d.inp = tcb[x].inp
          /\ "DROPPED" \in d.flags /\ "SOCKREF" \notin d.flags
      BY <1>1, DroppedIs, Zenon
    <3>3. /\ c \in Tcb /\ c.state = "CLOSED" /\ c.passive = tcb[x].passive /\ c.inp = tcb[x].inp
          /\ "DROPPED" \in c.flags /\ "SOCKREF" \notin c.flags
      BY <3>2, Zenon DEF Tcb
    <3>4. TcbOK(c) /\ c.flags \cap {"TIMEWAIT", "DROPPED"} # {}
      BY <1>1, <3>3, Zenon DEF TcbOK
    <3> HIDE DEF c, d
    <3> QED
      BY <1>1, <3>1, <3>3, <3>4, DisconnectedIs, CloseStep, Zenon
  <2>2. CASE ~tcb[x].passive
    <3> DEFINE c == [tcb[x] EXCEPT !.flags = (@ \cup {"TIMEWAIT"}) \ {"SOCKREF", "2MSL"},
                                   !.state = "TIME_WAIT", !.ppcb = "tw"]
    <3>1. CloseAs(t, x, c, Disconnected(so[x]), "unlock")
      BY <1>3, <2>2, Zenon DEF tcp_twstart
    <3>2. /\ c \in Tcb /\ c.state = "TIME_WAIT" /\ c.passive = tcb[x].passive /\ c.inp = tcb[x].inp
          /\ "TIMEWAIT" \in c.flags /\ "SOCKREF" \notin c.flags
          /\ "DROPPED" \in c.flags <=> "DROPPED" \in tcb[x].flags
      BY <1>1, Zenon DEF Tcb, TcpState
    <3>3. TcbOK(c) /\ c.flags \cap {"TIMEWAIT", "DROPPED"} # {}
      BY <1>1, <2>2, <3>2, Zenon DEF TcbOK
    <3> HIDE DEF c
    <3> QED
      BY <1>1, <3>1, <3>2, <3>3, DisconnectedIs, CloseStep, Zenon
  <2> QED
    BY <2>1, <2>2, Zenon
<1> QED
  BY <1>2, <1>3, Zenon

\* A segment that moves a half on without closing it.
LEMMA MovedOn ==
  ASSUME IInv, NEW t \in Threads, NEW x \in Sock, NEW s \in Socket, NEW c \in Tcb, OneHalf(x, s, c),
         SameSocket(s, so[x]), s.state = so[x].state,
         c.state # "TIME_WAIT", tcb[x].state # "TIME_WAIT",
         c.passive = tcb[x].passive, c.inp = tcb[x].inp,
         c.flags \in {tcb[x].flags, tcb[x].flags \cup {"2MSL"}},
         UNCHANGED <<lock, th, open, listening, panicked>>
  PROVE  IInv'
<1>1. /\ so[x] \in Socket /\ tcb[x] \in Tcb /\ TcbOK(tcb[x])
      /\ tcb[x].inp # "attached" => so[x].mem = "free"
      /\ x = "C" => "NOFDREF" \in so[x].state
  BY TcbFacts, Zenon
<1>2. \A f \in {"TIMEWAIT", "DROPPED", "SOCKREF"} : f \in c.flags <=> f \in tcb[x].flags
  BY Zenon
<1>3. /\ TcbOK(c) /\ (c.inp # "attached" => s.mem = "free") /\ (x = "C" => "NOFDREF" \in s.state)
      /\ "SOCKREF" \in c.flags <=> "SOCKREF" \in tcb[x].flags
      /\ Gone(x) => c.flags \cap {"TIMEWAIT", "DROPPED"} # {}
  BY <1>1, <1>2, Zenon DEF TcbOK, SameSocket, Gone
<1>4. lock' \in [Locks -> Threads \cup {"none"}] /\ listening' \in BOOLEAN
  BY DEF IInv, TypeOK
<1> QED
  BY <1>3, <1>4, StayStep, QuietStep, Zenon

\* Segments, and timers that drop the connection.
LEMMA InputStep ==
  ASSUME IInv, NEW t \in Threads, NEW x \in Sock,
         InputRst(t, x) \/ InputFin(t, x) \/ InputAck(t, x) \/ InputLateData(t, x) \/ TimerDrop(t, x)
  PROVE  IInv'
<1>1. InputReady(t, x)
  BY Zenon DEF InputRst, InputFin, InputAck, InputLateData, TimerDrop
<1>2. th[t].pc = "idle" /\ "DROPPED" \notin tcb[x].flags
  BY <1>1, Zenon DEF InputReady
<1>3. so[x] \in Socket /\ tcb[x] \in Tcb /\ so \in [Sock -> Socket] /\ tcb \in [Sock -> Tcb]
  BY DEF IInv, TypeOK
<1>4. CASE InputRst(t, x)
  BY <1>2, <1>4, TcpCloseStep, Zenon DEF InputRst
<1>5. CASE InputFin(t, x)
  <2>1. CASE tcb[x].state = "FIN_WAIT_2" /\ tcp_twstart(t, x)
    BY <1>2, <2>1, TwstartStep, Zenon
  <2>2. CASE ~(tcb[x].state = "FIN_WAIT_2" /\ tcp_twstart(t, x))
    <3> DEFINE q == IF tcb[x].state = "ESTABLISHED" THEN "CLOSE_WAIT" ELSE "CLOSING"
               c == [tcb[x] EXCEPT !.state = q]
               s == [so[x] EXCEPT !.cantrcv = TRUE]
    <3>1. /\ tcb[x].state \in {"ESTABLISHED", "FIN_WAIT_1"}
          /\ tcb' = [tcb EXCEPT ![x].state = IF @ = "ESTABLISHED" THEN "CLOSE_WAIT" ELSE "CLOSING"]
          /\ so' = [so EXCEPT ![x].cantrcv = TRUE]
          /\ UNCHANGED <<lock, th, open, listening, panicked>>
      BY <1>5, <2>2, Zenon DEF InputFin
    <3>2. q \in TcpState /\ q # "TIME_WAIT"
      BY DEF TcpState
    <3>3. tcb' = [tcb EXCEPT ![x] = c]
      <4> HIDE DEF q
      <4>1. tcb' = [tcb EXCEPT ![x].state = q]
        BY <3>1 DEF q
      <4> QED
        BY <1>3, <4>1, Zenon
    <3>4. OneHalf(x, s, c)
      BY <1>3, <3>1, <3>3, Zenon DEF OneHalf
    <3> HIDE DEF q
    <3>5. /\ c \in Tcb /\ c.state = q /\ c.passive = tcb[x].passive /\ c.inp = tcb[x].inp
          /\ c.flags = tcb[x].flags
      BY <1>3, <3>2, Zenon DEF Tcb
    <3>6. s \in Socket /\ SameSocket(s, so[x]) /\ s.state = so[x].state
      BY <1>3, Zenon DEF Socket, SameSocket
    <3> HIDE DEF c, s
    <3> QED
      BY <3>1, <3>2, <3>4, <3>5, <3>6, MovedOn, Zenon
  <2> QED
    BY <2>1, <2>2, Zenon
<1>6. CASE InputAck(t, x)
  <2>1. CASE tcb[x].state = "CLOSING" /\ tcp_twstart(t, x)
    BY <1>2, <2>1, TwstartStep, Zenon
  <2>2. CASE tcb[x].state = "LAST_ACK" /\ tcp_close(t, x, "unlock")
    BY <1>2, <2>2, TcpCloseStep, Zenon
  <2>3. CASE /\ tcb[x].state = "FIN_WAIT_1"
             /\ tcb' = [tcb EXCEPT ![x].state = "FIN_WAIT_2",
                                   ![x].flags = IF so[x].cantrcv THEN @ \cup {"2MSL"} ELSE @]
             /\ so' = [so EXCEPT ![x] = IF @.cantrcv THEN Disconnected(@) ELSE @]
             /\ UNCHANGED <<lock, th, open, listening, panicked>>
    <3> DEFINE f == IF so[x].cantrcv THEN tcb[x].flags \cup {"2MSL"} ELSE tcb[x].flags
               c == [tcb[x] EXCEPT !.state = "FIN_WAIT_2", !.flags = f]
               s == IF so[x].cantrcv THEN Disconnected(so[x]) ELSE so[x]
    <3>1. f \in {tcb[x].flags, tcb[x].flags \cup {"2MSL"}}
      OBVIOUS
    <3>2. OneHalf(x, s, c)
      <4>1. CASE so[x].cantrcv
        BY <1>3, <2>3, <4>1, Zenon DEF OneHalf
      <4>2. CASE ~so[x].cantrcv
        BY <1>3, <2>3, <4>2, Zenon DEF OneHalf
      <4> QED
        BY <4>1, <4>2, Zenon
    <3>3. s \in Socket /\ SameSocket(s, so[x]) /\ s.state = so[x].state
      BY <1>3, DisconnectedIs, Zenon DEF SameSocket
    <3> HIDE DEF f, s
    <3>4. /\ c \in Tcb /\ c.state = "FIN_WAIT_2" /\ c.passive = tcb[x].passive /\ c.inp = tcb[x].inp
          /\ c.flags = f
      BY <1>3, <3>1, Zenon DEF Tcb, TcpState
    <3> HIDE DEF c
    <3> QED
      BY <2>3, <3>1, <3>2, <3>3, <3>4, MovedOn, Zenon
  <2> QED
    BY <1>6, <2>1, <2>2, <2>3, Zenon DEF InputAck
<1>7. CASE InputLateData(t, x)
  BY <1>2, <1>7, TcpCloseStep, Zenon DEF InputLateData
<1>8. CASE TimerDrop(t, x)
  BY <1>2, <1>8, TcpCloseStep, Zenon DEF TimerDrop
<1> QED
  BY <1>4, <1>5, <1>6, <1>7, <1>8, ZenonT(60)

\* tcp_twclose at the end of time-wait.
LEMMA TwCloseStep ==
  ASSUME IInv, NEW t \in Threads, NEW x \in Sock, TwClose(t, x)
  PROVE  IInv'
<1>1. /\ so[x] \in Socket /\ tcb[x] \in Tcb /\ TcbOK(tcb[x])
      /\ tcb[x].inp # "attached" => so[x].mem = "free"
      /\ x = "C" => "NOFDREF" \in so[x].state
  BY TcbFacts, Zenon
<1> DEFINE d == Dropped(tcb[x])
<1>2. /\ d \in Tcb /\ d.state = "CLOSED" /\ d.passive = tcb[x].passive /\ d.inp = tcb[x].inp
      /\ "DROPPED" \in d.flags /\ "SOCKREF" \notin d.flags
  BY <1>1, DroppedIs, Zenon
<1>3. CASE tcb[x].inp = "detached"
  <2> DEFINE c == [d EXCEPT !.ppcb = "null", !.inp = "freed"]
  <2>1. so' = so /\ tcb' = [tcb EXCEPT ![x] = c] /\ UNCHANGED <<so, lock, th, open, listening, panicked>>
    BY <1>3 DEF TwClose
  <2>2. /\ c \in Tcb /\ c.state = "CLOSED" /\ c.passive = tcb[x].passive /\ c.inp = "freed"
        /\ "DROPPED" \in c.flags /\ "SOCKREF" \notin c.flags
    BY <1>2, Zenon DEF Tcb
  <2> HIDE DEF c, d
  <2>3. OneHalf(x, so[x], c)
    BY <2>1, Zenon DEF OneHalf, IInv, TypeOK
  <2>4. "SOCKREF" \notin tcb[x].flags
    BY <1>1, <1>3, Zenon DEF IInv, Refs, DeadPair, NoReference
  <2>5. TcbOK(c) /\ c.flags \cap {"TIMEWAIT", "DROPPED"} # {} /\ SameSocket(so[x], so[x])
    BY <2>2 DEF TcbOK, SameSocket
  <2>6. lock' \in [Locks -> Threads \cup {"none"}] /\ listening' \in BOOLEAN
    BY <2>1, Zenon DEF IInv, TypeOK
  <2> QED
    BY <1>1, <1>3, <2>1, <2>2, <2>3, <2>4, <2>5, <2>6, StayStep, QuietStep, ZenonT(60)
<1>4. CASE tcb[x].inp # "detached"
  <2> DEFINE c == [d EXCEPT !.ppcb = "null"]
  <2>1. CloseAs(t, x, c, so[x], "unlock") /\ th[t].pc = "idle"
    BY <1>4, Zenon DEF TwClose
  <2>2. /\ c \in Tcb /\ c.state = "CLOSED" /\ c.passive = tcb[x].passive /\ c.inp = tcb[x].inp
        /\ "DROPPED" \in c.flags /\ "SOCKREF" \notin c.flags
    BY <1>2, Zenon DEF Tcb
  <2>3. TcbOK(c) /\ c.flags \cap {"TIMEWAIT", "DROPPED"} # {} /\ SameSocket(so[x], so[x])
    BY <1>1, <2>2, Zenon DEF TcbOK, SameSocket
  <2> HIDE DEF c, d
  <2> QED
    BY <1>1, <2>1, <2>2, <2>3, CloseStep, Zenon
<1> QED
  BY <1>3, <1>4, Zenon

-----------------------------------------------------------------------------
(***************************************************************************)
(* The conversion to an active connection.                                 *)
(***************************************************************************)

\* A half after the conversion.
LEMMA ActiveIs ==
  ASSUME NEW c \in Tcb, NEW s \in Socket
  PROVE  /\ [c EXCEPT !.passive = FALSE] \in Tcb
         /\ [c EXCEPT !.passive = FALSE].passive = FALSE
         /\ [c EXCEPT !.passive = FALSE].state = c.state
         /\ [c EXCEPT !.passive = FALSE].flags = c.flags
         /\ [c EXCEPT !.passive = FALSE].inp = c.inp
         /\ [s EXCEPT !.options = @ \ {"PASSIVE", "PASSIVECLNT"}] \in Socket
         /\ [s EXCEPT !.options = @ \ {"PASSIVE", "PASSIVECLNT"}].options
              = s.options \ {"PASSIVE", "PASSIVECLNT"}
         /\ [s EXCEPT !.options = @ \ {"PASSIVE", "PASSIVECLNT"}].count = s.count
         /\ [s EXCEPT !.options = @ \ {"PASSIVE", "PASSIVECLNT"}].mem = s.mem
         /\ [s EXCEPT !.options = @ \ {"PASSIVE", "PASSIVECLNT"}].comp = s.comp
         /\ [s EXCEPT !.options = @ \ {"PASSIVE", "PASSIVECLNT"}].state = s.state
  BY Zenon DEF Tcb, Socket

\* A control block that is no longer passive.
LEMMA PassiveOff ==
  ASSUME NEW c \in Tcb, NEW r, r = [c EXCEPT !.passive = FALSE]
  PROVE  r \in Tcb /\ r.passive = FALSE /\ r.state = c.state /\ r.flags = c.flags /\ r.inp = c.inp
  BY Zenon DEF Tcb

\* tcp_usr_send decides whether to convert the pair.
LEMMA SendLockedStep ==
  ASSUME IInv, NEW t \in Threads, SendLocked(t)
  PROVE  IInv'
<1> DEFINE x == th[t].so
<1>1. TypeOK /\ ThreadOK(t) /\ x \in Sock /\ th[t].pc = "send" /\ UNCHANGED <<so, open, listening, panicked>>
  BY DEF IInv, TypeOK, SendLocked
<1>2. CASE Gone(x) \/ ~tcb[x].passive
  <2>1. /\ lock' = SendOut(TakeAll({INFO} \cup InpLocks, t), x, tcb[x].passive)
        /\ th' = [th EXCEPT ![t] = Idle] /\ UNCHANGED tcb
    BY <1>2 DEF SendLocked
  <2>2. /\ th' \in [Threads -> [pc : Pc, so : Sock, via : Via, ret : Ret]] /\ Moves(t)
        /\ th'[t].pc = "idle" /\ th'[t].so = "S" /\ th'[t].via = "none" /\ th'[t].ret = "idle"
        /\ th'[t] = Idle
    BY <1>1, <2>1, Idling, Zenon
  <2>3. lock' \in [Locks -> Threads \cup {"none"}]
    BY <1>1, <2>1, LockTypes, Zenon DEF SendOut
  <2>4. ThreadOK(t)'
    BY <2>2, Zenon DEF ThreadOK
  <2>5. SameRole(t) /\ (Converting(t)' <=> Converting(t)) /\ (InSend(t)' => InSend(t))
    BY <1>1, <2>2, Zenon DEF ThreadOK, SameRole, Owns, ProtoTail, InTail, Aborting, Converting, InSend
  <2> QED
    BY <1>1, <2>1, <2>2, <2>3, <2>4, <2>5, MoveStep, ZenonT(60)
<1>3. CASE ~(Gone(x) \/ ~tcb[x].passive)
  <2>1. /\ lock' = TakeAll({INFO} \cup InpLocks, t)
        /\ tcb' = [y \in Sock |-> [tcb[y] EXCEPT !.passive = FALSE]]
        /\ th' = [th EXCEPT ![t].pc = "convert1"]
    BY <1>3, Zenon DEF SendLocked
  <2>2. /\ th' \in [Threads -> [pc : Pc, so : Sock, via : Via, ret : Ret]] /\ Moves(t)
        /\ th'[t].pc = "convert1" /\ th'[t].so = x /\ th'[t].via = th[t].via /\ th'[t].ret = th[t].ret
    BY <1>1, <2>1, Stepping, Zenon DEF Pc
  <2>3. lock' \in [Locks -> Threads \cup {"none"}]
    BY <1>1, <2>1, LockTypes, Zenon
  <2>4. \A y \in Sock : /\ tcb[y] \in Tcb /\ tcb'[y] \in Tcb /\ tcb'[y].passive = FALSE
                        /\ tcb'[y].state = tcb[y].state /\ tcb'[y].flags = tcb[y].flags
                        /\ tcb'[y].inp = tcb[y].inp
    <3> SUFFICES ASSUME NEW y \in Sock
                 PROVE  /\ tcb[y] \in Tcb /\ tcb'[y] \in Tcb /\ tcb'[y].passive = FALSE
                        /\ tcb'[y].state = tcb[y].state /\ tcb'[y].flags = tcb[y].flags
                        /\ tcb'[y].inp = tcb[y].inp
      BY Zenon
    <3>1. tcb[y] \in Tcb /\ so[y] \in Socket
      BY <1>1, Zenon DEF TypeOK
    <3>2. tcb'[y] = [tcb[y] EXCEPT !.passive = FALSE]
      BY <2>1, Zenon
    <3> QED
      BY <3>1, <3>2, PassiveOff, Zenon
  <2>5. TypeOK'
    <3>1. tcb' \in [Sock -> Tcb]
      BY <2>1, <2>4, Zenon
    <3> QED
      BY <1>1, <2>2, <2>3, <3>1, Zenon DEF TypeOK
  <2>6. \A u \in Threads : ThreadOK(u)'
    <3>1. ThreadOK(t)'
      BY <1>1, <2>2, Zenon DEF ThreadOK
    <3> QED
      BY <1>1, <2>2, <3>1, ThreadFrame, Zenon
  <2>7. Refs'
    <3>1. SameRole(t)
      BY <1>1, <2>2, Zenon DEF ThreadOK, SameRole, Owns, ProtoTail, InTail, Aborting
    <3>2. SameMarks
      BY <1>1, <2>4, Zenon DEF SameMarks, Gone
    <3> QED
      BY <1>1, <2>2, <3>1, <3>2, SameRefs, Zenon DEF IInv
  <2>8. HalfOK'
    <3>1. HalfOK
      BY Zenon DEF IInv
    <3> QED
      BY <1>1, <2>4, <3>1 DEF HalfOK
  <2>9. tcb["S"].passive /\ \A u \in Threads : ~InSend(u) /\ ~Converting(u)
    <3>1. tcb["S"].passive
      BY <1>1, <1>3, Halves, Zenon DEF IInv, PassiveTogether
    <3> QED
      BY <3>1, Zenon DEF IInv, OneConversion, InSend, Converting
  <2>10. ~so["S"].comp /\ \A u \in Threads : ~Aborting(u)
    <3>1. x \in open
      BY <1>1, Zenon DEF ThreadOK
    <3> QED
      BY <3>1, Referenced, Zenon DEF IInv, NoReference
  <2>11. /\ \A u \in Threads : Converting(u)' => u = t
         /\ \A u \in Threads : ~Aborting(u)'
    <3>1. \A u \in Threads : u # t => th'[u] = th[u]
      BY <2>2, Zenon DEF Moves
    <3>2. ~Aborting(t)'
      BY <2>2, Zenon DEF Aborting
    <3> QED
      BY <2>9, <2>10, <3>1, <3>2, Zenon DEF Converting, Aborting
  <2>12. OneConversion'
    <3>1. \A y \in Sock : "PASSIVE" \in so[y].options /\ "PASSIVECLNT" \notin so[y].options
      BY <2>9, Halves, Zenon DEF IInv, PassiveTogether, OneConversion, Converting
    <3> QED
      BY <1>1, <2>4, <2>10, <2>11, <3>1, Halves, ZenonT(60) DEF OneConversion
  <2>13. PassiveTogether'
    BY <2>2, <2>4, Halves, Zenon DEF PassiveTogether
  <2> QED
    BY <2>5, <2>6, <2>7, <2>8, <2>12, <2>13, Zenon DEF IInv
<1> QED
  BY <1>2, <1>3, Zenon

\* in_passive_convert_to_active drops the peer and makes the half active.
LEMMA ConvertStep ==
  ASSUME IInv, NEW t \in Threads, Convert(t)
  PROVE  IInv'
<1>0. PICK x \in Sock, p \in Sock : x = th[t].so /\ p = Peer(x)
  BY Halves, Zenon DEF IInv, TypeOK
<1>1. TypeOK /\ ThreadOK(t) /\ x \in Sock /\ p \in Sock /\ x # p /\ th[t].pc = "convert2"
      /\ UNCHANGED <<open, listening>>
  BY <1>0, Halves, Zenon DEF IInv, TypeOK, Convert
<1>2. x \in open /\ NoRole(t) /\ InSend(t) /\ Converting(t) /\ ~Aborting(t)
  BY <1>0, <1>1, Zenon DEF ThreadOK, NoRole, Owns, ProtoTail, InTail, Aborting, Converting, InSend
<1>3. ~so["S"].comp /\ \A u \in Threads : ~Aborting(u)
  BY <1>2, Referenced, Zenon DEF IInv, NoReference
<1>4. \A y \in Sock : tcb[y].passive = FALSE
  <2>1. \A y \in Sock : ~tcb[y].passive
    BY <1>2, Halves, Zenon DEF IInv, OneConversion, PassiveTogether
  <2>2. \A y \in Sock : tcb[y].passive \in BOOLEAN
    BY <1>1, Zenon DEF TypeOK, Tcb
  <2> QED
    BY <2>1, <2>2, Zenon
<1>5. \A u \in Threads : Converting(u) => u = t
  BY <1>2, Zenon DEF IInv, OneConversion
<1>6. \A y \in Sock : /\ so[y] \in Socket /\ so'[y] \in Socket /\ tcb[y] \in Tcb
                      /\ so'[y].options = so[y].options \ {"PASSIVE", "PASSIVECLNT"}
                      /\ so'[y].count = so[y].count /\ so'[y].mem = so[y].mem
                      /\ so'[y].comp = so[y].comp /\ so'[y].state = so[y].state
  <2> SUFFICES ASSUME NEW y \in Sock
               PROVE  /\ so[y] \in Socket /\ so'[y] \in Socket /\ tcb[y] \in Tcb
                      /\ so'[y].options = so[y].options \ {"PASSIVE", "PASSIVECLNT"}
                      /\ so'[y].count = so[y].count /\ so'[y].mem = so[y].mem
                      /\ so'[y].comp = so[y].comp /\ so'[y].state = so[y].state
    OBVIOUS
  <2> DEFINE r == [so[y] EXCEPT !.options = @ \ {"PASSIVE", "PASSIVECLNT"}]
  <2>1. so[y] \in Socket /\ tcb[y] \in Tcb
    BY <1>1, Zenon DEF TypeOK
  <2>2. so'[y] \in {r, Disconnected(r)}
    BY DEF Convert
  <2>3. /\ r \in Socket /\ r.options = so[y].options \ {"PASSIVE", "PASSIVECLNT"}
        /\ r.count = so[y].count /\ r.mem = so[y].mem /\ r.comp = so[y].comp /\ r.state = so[y].state
    BY <2>1, ActiveIs, Zenon
  <2> HIDE DEF r
  <2> QED
    BY <2>1, <2>2, <2>3, DisconnectedIs, ZenonT(60) DEF SameSocket
<1>7. so' \in [Sock -> Socket]
  BY <1>6, Zenon DEF Convert
<1>8. CASE tcb[p].ppcb = "null"
  <2>1. panicked' = TRUE /\ lock' = Release(lock, SockLocks) /\ UNCHANGED <<tcb, th>>
    BY <1>0, <1>8, Zenon DEF Convert
  <2>2. TypeOK'
    <3>1. lock' \in [Locks -> Threads \cup {"none"}]
      BY <1>1, <2>1, LockTypes, Zenon
    <3> QED
      BY <1>1, <1>7, <2>1, <3>1, Zenon DEF TypeOK
  <2>3. Moves(t) /\ ThreadOK(t)' /\ SameRole(t)
    BY <1>1, <2>1, StayStep, Zenon
  <2>4. \A u \in Threads : ThreadOK(u)'
    BY <1>1, <2>3, ThreadFrame, Zenon
  <2>5. SameMarks
    BY <1>1, <1>6, <2>1, Halves, ZenonT(60) DEF SameMarks, Gone
  <2>6. Refs'
    BY <2>3, <2>5, SameRefs, Zenon DEF IInv
  <2>7. HalfOK'
    BY <1>6, <2>1, HalfFrame, Halves, Zenon
  <2>8. OneConversion'
    <3>1. \A u \in Threads : ~Aborting(u)' /\ (Converting(u)' <=> Converting(u))
      BY <1>3, <2>1, Zenon DEF Aborting, Converting
    <3> QED
      <4>1. /\ ~so'["S"].comp /\ ~tcb'["S"].passive /\ panicked' = TRUE
            /\ \A y \in Sock : "PASSIVECLNT" \notin so'[y].options
        <5>1. \A y \in Sock : "PASSIVECLNT" \notin so'[y].options
          BY <1>6, Zenon
        <5> QED
          BY <1>3, <1>4, <1>6, <2>1, <5>1, Halves, Zenon
      <4>2. \A u, v \in Threads : Converting(u)' /\ Converting(v)' => u = v
        BY <1>5, <3>1, Zenon
      <4> QED
        BY <3>1, <4>1, <4>2, Zenon DEF OneConversion
  <2>9. PassiveTogether'
    BY <1>1, <1>4, <2>1, Halves, ZenonT(60) DEF PassiveTogether
  <2> QED
    BY <2>2, <2>4, <2>6, <2>7, <2>8, <2>9, Zenon DEF IInv
<1>9. CASE tcb[p].ppcb # "null"
  <2>1. /\ tcb' = [tcb EXCEPT ![p] = Dropped(@)] /\ UNCHANGED panicked
        /\ lock' = Release(lock, SockLocks \cup {INP(p)})
    BY <1>0, <1>9, Zenon DEF Convert
  <2>2. /\ "SOCKREF" \notin tcb[p].flags => GoTo(t, "sendout", x, "none", "idle")
        /\ "SOCKREF" \in tcb[p].flags => GoTo(t, "accept", p, "proto", "sendout")
    BY <1>0, <1>9, Zenon DEF Convert
  <2>3. /\ tcb' \in [Sock -> Tcb] /\ tcb'[x] = tcb[x] /\ tcb'[p] = Dropped(tcb[p])
        /\ tcb'[p].passive = tcb[p].passive /\ tcb'[p].inp = tcb[p].inp
        /\ tcb'[p].state = "CLOSED" /\ "DROPPED" \in tcb'[p].flags /\ "SOCKREF" \notin tcb'[p].flags
    BY <1>1, <1>6, <2>1, DroppedIs, Zenon DEF TypeOK
  <2>4. /\ th' \in [Threads -> [pc : Pc, so : Sock, via : Via, ret : Ret]] /\ Moves(t)
        /\ "SOCKREF" \notin tcb[p].flags =>
             th'[t].pc = "sendout" /\ th'[t].so = x /\ th'[t].via = "none" /\ th'[t].ret = "idle"
        /\ "SOCKREF" \in tcb[p].flags =>
             th'[t].pc = "accept" /\ th'[t].so = p /\ th'[t].via = "proto" /\ th'[t].ret = "sendout"
    <3>1. {"sendout", "accept"} \subseteq Pc /\ {"none", "proto"} \subseteq Via /\ {"idle", "sendout"} \subseteq Ret
      BY Zenon DEF Pc, Via, Ret
    <3>2. CASE "SOCKREF" \in tcb[p].flags
      BY <1>1, <2>2, <3>1, <3>2, Going, Zenon
    <3>3. CASE "SOCKREF" \notin tcb[p].flags
      BY <1>1, <2>2, <3>1, <3>3, Going, ZenonT(60)
    <3> QED
      BY <3>2, <3>3, Zenon
  <2>5. TypeOK'
    <3>1. lock' \in [Locks -> Threads \cup {"none"}]
      BY <1>1, <2>1, LockTypes, Zenon
    <3> QED
      <4>1. so' \in [Sock -> Socket] /\ tcb' \in [Sock -> Tcb]
        BY <1>7, <2>3, Zenon
      <4>2. th' \in [Threads -> [pc : Pc, so : Sock, via : Via, ret : Ret]]
        BY <2>4, Zenon
      <4>3. open' = open /\ listening' = listening /\ panicked' = panicked
        BY <1>1, <2>1, Zenon
      <4> QED
        BY <1>1, <3>1, <4>1, <4>2, <4>3, Zenon DEF TypeOK
  <2>6. \A u \in Threads : ThreadOK(u)'
    <3>1. x \in open' /\ t \in Apps
      BY <1>1, <1>2, Zenon DEF ThreadOK
    <3>2. ThreadOK(t)'
      <4>1. CASE "SOCKREF" \notin tcb[p].flags
        <5>1. th'[t].pc = "sendout" /\ th'[t].so = x /\ th'[t].via = "none" /\ th'[t].ret = "idle"
          BY <2>4, <4>1, Zenon
        <5> QED
          BY <3>1, <5>1, Zenon DEF ThreadOK
      <4>2. CASE "SOCKREF" \in tcb[p].flags
        <5>1. th'[t].pc = "accept" /\ th'[t].so = p /\ th'[t].via = "proto" /\ th'[t].ret = "sendout"
          BY <2>4, <4>2, Zenon
        <5>2. Peer(p) = x
          BY <1>0, Halves, Zenon
        <5> QED
          BY <3>1, <5>1, <5>2, Zenon DEF ThreadOK
      <4> QED
        BY <4>1, <4>2, Zenon
    <3> QED
      BY <1>1, <2>4, <3>2, ThreadFrame, Zenon
  <2>7. Refs'
    <3>1. \A y \in Sock : y # p => y = x
      BY <1>0, Halves, Zenon
    <3>2. /\ \A y \in Sock : Gone(y) => Gone(y)'
          /\ Gone(p)' /\ (so'["S"].comp <=> so["S"].comp)
          /\ \A y \in Sock : y # p => ("SOCKREF" \in tcb'[y].flags <=> "SOCKREF" \in tcb[y].flags)
      <4>1. Gone(p)' /\ (Gone(x) => Gone(x)')
        BY <2>3, Zenon DEF Gone
      <4>2. so'["S"].comp <=> so["S"].comp
        BY <1>6, Halves, Zenon
      <4> QED
        BY <2>3, <3>1, <4>1, <4>2, Zenon
    <3>3. CASE "SOCKREF" \in tcb[p].flags
      <4>1. (\A y \in Sock : ~Owns(t, y)' /\ (ProtoTail(t, y)' <=> y = p)) /\ ~Aborting(t)'
        BY <2>4, <3>3, Zenon DEF Owns, ProtoTail, InTail, Aborting
      <4> QED
        BY <1>1, <1>2, <1>6, <2>3, <2>4, <3>2, <3>3, <4>1, LetGo, ZenonT(60) DEF IInv
    <3>4. CASE "SOCKREF" \notin tcb[p].flags
      <4>1. SameRole(t)
        <5>1. th'[t].pc = "sendout" /\ th'[t].so = x /\ th'[t].via = "none" /\ th'[t].ret = "idle"
          BY <2>4, <3>4
        <5> QED
          BY <1>2, <5>1, Zenon DEF NoRole, SameRole, Owns, ProtoTail, InTail, Aborting
      <4>2. SameMarks
        BY <1>1, <1>6, <2>3, <3>2, <3>4, Zenon DEF SameMarks
      <4> QED
        BY <2>4, <4>1, <4>2, SameRefs, Zenon DEF IInv
    <3> QED
      BY <3>3, <3>4, Zenon
  <2>8. HalfOK'
    <3>1. HalfOK
      BY Zenon DEF IInv
    <3> QED
      <4>1. ~so'["C"].comp /\ "NOFDREF" \in so'["C"].state
        BY <1>6, <3>1, Halves, Zenon DEF HalfOK
      <4>2. /\ tcb'[p].state # "TIME_WAIT" /\ "DROPPED" \in tcb'[p].flags
            /\ tcb'[p].inp = tcb[p].inp /\ so'[p].mem = so[p].mem /\ so'[x].mem = so[x].mem
        BY <1>6, <2>3, Zenon
      <4>3. \A y \in Sock : y = x \/ y = p
        BY <1>0, Halves, Zenon
      <4> QED
        <5>1. /\ tcb'[x].state = "TIME_WAIT"
                   <=> "TIMEWAIT" \in tcb'[x].flags /\ "DROPPED" \notin tcb'[x].flags
              /\ tcb'[x].passive /\ "TIMEWAIT" \in tcb'[x].flags => "DROPPED" \in tcb'[x].flags
              /\ tcb'[x].inp # "attached" => so'[x].mem = "free"
              /\ tcb'[x].inp # "persists"
          BY <2>3, <3>1, <4>2, Zenon DEF HalfOK
        <5>2. /\ tcb'[p].state = "TIME_WAIT"
                   <=> "TIMEWAIT" \in tcb'[p].flags /\ "DROPPED" \notin tcb'[p].flags
              /\ tcb'[p].passive /\ "TIMEWAIT" \in tcb'[p].flags => "DROPPED" \in tcb'[p].flags
              /\ tcb'[p].inp # "attached" => so'[p].mem = "free"
              /\ tcb'[p].inp # "persists"
          BY <3>1, <4>2, Zenon DEF HalfOK
        <5> QED
          BY <4>1, <4>3, <5>1, <5>2, Zenon DEF HalfOK
  <2>9. \A u \in Threads : ~Aborting(u)' /\ ~Converting(u)'
    <3>1. ~Aborting(t)' /\ ~Converting(t)'
      BY <2>4, Zenon DEF Aborting, Converting
    <3> QED
      BY <1>3, <1>5, <2>4, <3>1, Zenon DEF Moves, Aborting, Converting
  <2>10. \A y \in Sock : tcb'[y].passive = FALSE
    <3>1. \A y \in Sock : y = x \/ y = p
      BY <1>0, Halves, Zenon
    <3> QED
      BY <1>4, <2>3, <3>1, ZenonT(60)
  <2>11. OneConversion'
    BY <1>3, <1>6, <2>9, <2>10, Halves, ZenonT(60) DEF OneConversion
  <2>12. PassiveTogether'
    <3>1. \A y \in Sock : "PASSIVE" \notin so'[y].options
      BY <1>6
    <3> QED
      BY <2>10, <3>1, Halves, Zenon DEF PassiveTogether
  <2> QED
    BY <2>5, <2>6, <2>7, <2>8, <2>11, <2>12, ZenonT(60) DEF IInv
<1> QED
  BY <1>8, <1>9
=============================================================================
