-------------------------- MODULE SwiEvent_proofs ---------------------------
(***************************************************************************)
(* The software interrupt thread and its handlers, for any number of       *)
(* handlers of any priorities: a handler is not freed while the thread may *)
(* reach it on its list, and the thread does not sleep on a handler that   *)
(* was scheduled.  The inductive invariant SwiIInv holds for either value  *)
(* of StartLate.                                                           *)
(***************************************************************************)
EXTENDS SwiEvent, TLAPS

\* h is on the list.
Listed(h) == \E i \in 1 .. Len(ie_handlers) : ie_handlers[i] = h

\* a comes before b on the list.
Before(a, b) ==
  \E i, j \in 1 .. Len(ie_handlers) : i < j /\ ie_handlers[i] = a /\ ie_handlers[j] = b

\* The walk under way has still to come to h.
Ahead(h) ==
  \/ tpc = "visit" /\ h = ih
  \/ tpc \in {"visit", "exec"} /\ ihn # NULL /\ (h = ihn \/ Before(ihn, h))

\* One adder at a time makes the thread, and there is none before.
Adders ==
  /\ adding <=> \E h \in Handler : apc[h] \in {"create", "created"}
  /\ \A g, h \in Handler :
       apc[g] \in {"create", "created"} /\ apc[h] \in {"create", "created"} => g = h
  /\ ie_thread => ~adding
  /\ created \in {0, 1}
  /\ created = 0 <=> ~ie_thread /\ \A h \in Handler : apc[h] # "created"
  /\ \A h \in Handler : apc[h] \in {"ready", "rmwait", "gone"} => ie_thread

\* What the list and the flags say of a handler goes with where its client is.
Clients ==
  \A h \in Handler :
    /\ Listed(h) <=> apc[h] \notin {"none", "gone"} /\ (apc[h] = "rmwait" => h \in dead)
    /\ h \in freed => apc[h] = "gone"
    /\ h \in dead => apc[h] = "rmwait"
    /\ h \in need => apc[h] \in {"ready", "rmwait", "gone"}

\* The walk is on the list, and goes forward.
Walking ==
  tpc \in {"visit", "exec"} => ih # NULL /\ Listed(ih) /\ (ihn # NULL => Before(ih, ihn))

\* A thread that waits has TDI_IWAIT set, and it_need only if it will be woken.
Waiting ==
  tpc = "wait" => iwait /\ (it_need => \E h \in Handler : spc[h] = "needed")

\* A handler that was asked for is run by this walk, or there will be another.
Asked ==
  ie = "event" \/ tpc \in {"unborn", "start"} =>
    \A h \in need : \/ spc[h] = "flagged" \/ apc[h] \in {"rmwait", "gone"}
                    \/ it_need \/ Ahead(h)

SwiIInv == SwiTypeOK /\ Adders /\ Clients /\ Walking /\ Waiting /\ Asked

\* It gives what is claimed.
LEMMA SwiIInvSuffices == SwiIInv => SwiInv /\ FreedUnreachable
<1> SUFFICES ASSUME SwiIInv PROVE SwiInv /\ FreedUnreachable
  OBVIOUS
<1>1. OneIthread
  BY DEF SwiIInv, Adders, OneIthread
<1>2. NotAsleepWithWork
  BY DEF SwiIInv, Waiting, Asked, Ahead, NotAsleepWithWork
<1>3. FreedUnreachable
  <2> SUFFICES ASSUME NEW h \in freed PROVE /\ ~Listed(h)
                                            /\ tpc \in {"visit", "exec"} => ih # h /\ ihn # h
    BY DEF FreedUnreachable, Listed, SwiIInv, SwiTypeOK
  <2>1. h \in Handler /\ apc[h] = "gone"
    BY DEF SwiIInv, SwiTypeOK, Clients
  <2>2. ~Listed(h)
    BY <2>1 DEF SwiIInv, Clients
  <2>3. h # NULL
    BY <2>1, PriAssumption
  <2>4. \A x, y : Before(x, y) => Listed(y)
    BY DEF Before, Listed
  <2> QED
    BY <2>2, <2>3, <2>4 DEF SwiIInv, Walking
<1> QED
  BY <1>1, <1>2, <1>3 DEF SwiIInv, SwiInv

-----------------------------------------------------------------------------
\* r is p with q behind it.
IsConcat(p, q, r) ==
  /\ Len(r) = Len(p) + Len(q)
  /\ \A i \in 1 .. Len(p) : r[i] = p[i]
  /\ \A i \in 1 .. Len(q) : r[Len(p) + i] = q[i]

\* r is s, of length n, with h put into place at.
IsInserted(s, n, h, at, r) ==
  /\ Len(r) = n + 1
  /\ \A i \in 1 .. n + 1 : r[i] = IF i < at THEN s[i] ELSE IF i = at THEN h ELSE s[i - 1]

\* r is s, of length n, without what is in place at.
IsUnlinked(s, n, at, r) ==
  /\ Len(r) = n - 1
  /\ \A i \in 1 .. n - 1 : r[i] = IF i < at THEN s[i] ELSE s[i + 1]

\* A sequence and one behind it.
LEMMA ConcatIs ==
  ASSUME NEW S, NEW p \in Seq(S), NEW q \in Seq(S)
  PROVE  p \o q \in Seq(S) /\ IsConcat(p, q, p \o q)
  BY DEF IsConcat

\* A sequence with h put into place at.
LEMMA InsertedIs ==
  ASSUME NEW S, NEW s \in Seq(S), NEW n \in Nat, n = Len(s), NEW h \in S, NEW at \in 1 .. n + 1,
         NEW r, r = SubSeq(s, 1, at - 1) \o <<h>> \o SubSeq(s, at, n)
  PROVE  r \in Seq(S) /\ IsInserted(s, n, h, at, r)
<1> DEFINE p == SubSeq(s, 1, at - 1)
           q == SubSeq(s, at, n)
           o == <<h>>
           u == p \o o
<1>b. s \in Seq(S) /\ n = Len(s) /\ n \in Nat /\ at \in 1 .. n + 1 /\ h \in S
  OBVIOUS
<1>1. p \in Seq(S) /\ Len(p) = at - 1 /\ \A i \in 1 .. at - 1 : p[i] = s[i]
  BY ONLY <1>b
<1>2. q \in Seq(S) /\ Len(q) = n - at + 1 /\ \A i \in 1 .. n - at + 1 : q[i] = s[at + i - 1]
  <2>1. Len(q) = n - at + 1 /\ q \in Seq(S)
    BY ONLY <1>b
  <2>2. ASSUME NEW i \in 1 .. n - at + 1 PROVE q[i] = s[at + i - 1]
    BY ONLY <1>b, <2>2
  <2> QED
    BY ONLY <2>1, <2>2, Zenon
<1>3. o \in Seq(S) /\ Len(o) = 1 /\ o[1] = h
  BY ONLY <1>b
<1>a. r = u \o q
  BY Zenon
<1> HIDE DEF p, q, o
<1>4. u \in Seq(S) /\ IsConcat(p, o, u)
  BY ONLY <1>1, <1>3, ConcatIs, Zenon
<1> HIDE DEF u
<1>5. r \in Seq(S) /\ IsConcat(u, q, r)
  BY ONLY <1>2, <1>4, <1>a, ConcatIs, Zenon
<1>6. Len(u) = at /\ (\A i \in 1 .. at - 1 : u[i] = s[i]) /\ u[at] = h
  BY ONLY <1>1, <1>3, <1>4, <1>b DEF IsConcat
<1>7. Len(r) = n + 1
  BY ONLY <1>2, <1>5, <1>6, <1>b DEF IsConcat
<1>8. ASSUME NEW i \in 1 .. n + 1
      PROVE  r[i] = IF i < at THEN s[i] ELSE IF i = at THEN h ELSE s[i - 1]
  <2>1. CASE i <= at
    BY ONLY <1>5, <1>6, <1>8, <1>b, <2>1 DEF IsConcat
  <2>2. CASE i > at
    <3>1. i - at \in 1 .. Len(q) /\ i - at \in 1 .. n - at + 1
          /\ Len(u) + (i - at) = i /\ at + (i - at) - 1 = i - 1
      BY ONLY <1>2, <1>6, <1>8, <1>b, <2>2
    <3>2. r[Len(u) + (i - at)] = q[i - at] /\ q[i - at] = s[at + (i - at) - 1]
      BY ONLY <1>2, <1>5, <3>1, Zenon DEF IsConcat
    <3> QED
      BY ONLY <1>8, <1>b, <2>2, <3>1, <3>2
  <2> QED
    BY ONLY <1>8, <1>b, <2>1, <2>2
<1> QED
  BY ONLY <1>5, <1>7, <1>8, Zenon DEF IsInserted

\* A sequence without what is in place at.
LEMMA UnlinkedIs ==
  ASSUME NEW S, NEW s \in Seq(S), NEW n \in Nat, n = Len(s), NEW at \in 1 .. n,
         NEW r, r = SubSeq(s, 1, at - 1) \o SubSeq(s, at + 1, n)
  PROVE  r \in Seq(S) /\ IsUnlinked(s, n, at, r)
<1> DEFINE p == SubSeq(s, 1, at - 1)
           q == SubSeq(s, at + 1, n)
<1>b. s \in Seq(S) /\ n = Len(s) /\ n \in Nat /\ at \in 1 .. n
  OBVIOUS
<1>1. p \in Seq(S) /\ Len(p) = at - 1 /\ \A i \in 1 .. at - 1 : p[i] = s[i]
  BY ONLY <1>b
<1>2. q \in Seq(S) /\ Len(q) = n - at /\ \A i \in 1 .. n - at : q[i] = s[at + i]
  <2>1. Len(q) = n - at /\ q \in Seq(S)
    BY ONLY <1>b
  <2>2. ASSUME NEW i \in 1 .. n - at PROVE q[i] = s[at + i]
    BY ONLY <1>b, <2>2
  <2> QED
    BY ONLY <2>1, <2>2, Zenon
<1>3. r = p \o q
  BY Zenon
<1> HIDE DEF p, q
<1>4. r \in Seq(S) /\ IsConcat(p, q, r)
  BY ONLY <1>1, <1>2, <1>3, ConcatIs, Zenon
<1>5. Len(r) = n - 1
  BY ONLY <1>1, <1>2, <1>4, <1>b DEF IsConcat
<1>6. ASSUME NEW i \in 1 .. n - 1 PROVE r[i] = IF i < at THEN s[i] ELSE s[i + 1]
  <2>1. CASE i < at
    BY ONLY <1>1, <1>4, <1>6, <1>b, <2>1 DEF IsConcat
  <2>2. CASE i >= at
    <3>1. i - at + 1 \in 1 .. Len(q) /\ i - at + 1 \in 1 .. n - at
          /\ Len(p) + (i - at + 1) = i /\ at + (i - at + 1) = i + 1
      BY ONLY <1>1, <1>2, <1>6, <1>b, <2>2
    <3>2. r[Len(p) + (i - at + 1)] = q[i - at + 1] /\ q[i - at + 1] = s[at + (i - at + 1)]
      BY ONLY <1>2, <1>4, <3>1, Zenon DEF IsConcat
    <3> QED
      BY ONLY <1>6, <1>b, <2>2, <3>1, <3>2
  <2> QED
    BY ONLY <1>6, <1>b, <2>1, <2>2
<1> QED
  BY ONLY <1>4, <1>5, <1>6, Zenon DEF IsUnlinked

\* The list without handler h in it, and then with it.
LEMMA InsertIs ==
  ASSUME NEW h \in Handler, ie_handlers \in Seq(Handler), ~Listed(h),
         \A i, j \in 1 .. Len(ie_handlers) : ie_handlers[i] = ie_handlers[j] => i = j,
         Insert(h)
  PROVE  /\ ie_handlers' \in Seq(Handler)
         /\ \A i, j \in 1 .. Len(ie_handlers') : ie_handlers'[i] = ie_handlers'[j] => i = j
         /\ \A x : Listed(x)' <=> Listed(x) \/ x = h
         /\ \A x, y : Before(x, y) => Before(x, y)'
<1> DEFINE s == ie_handlers
           r == ie_handlers'
           n == Len(ie_handlers)
<1>1. s \in Seq(Handler) /\ n \in Nat /\ n = Len(s) /\ h \in Handler
  OBVIOUS
<1>2. PICK at \in 1 .. n + 1 : r = SubSeq(s, 1, at - 1) \o <<h>> \o SubSeq(s, at, n)
  BY Zenon DEF Insert
<1>3. \A i \in 1 .. n : s[i] # h
  BY DEF Listed
<1>4. \A i, j \in 1 .. n : s[i] = s[j] => i = j
  OBVIOUS
<1> HIDE DEF s, r, n
<1>5. r \in Seq(Handler) /\ IsInserted(s, n, h, at, r)
  BY ONLY <1>1, <1>2, InsertedIs, ZenonT(60)
<1>6. n \in Nat /\ at \in 1 .. n + 1
  BY ONLY <1>1, <1>2
<1>7. /\ \A i \in 1 .. n : i < at => i \in 1 .. n + 1 /\ r[i] = s[i]
      /\ \A i \in 1 .. n : i >= at => i + 1 \in 1 .. n + 1 /\ r[i + 1] = s[i]
      /\ at \in 1 .. n + 1 /\ r[at] = h
      /\ \A i \in 1 .. n + 1 : i < at => i \in 1 .. n /\ r[i] = s[i]
      /\ \A i \in 1 .. n + 1 : i > at => i - 1 \in 1 .. n /\ r[i] = s[i - 1]
  BY ONLY <1>5, <1>6 DEF IsInserted
<1>8. \A i, j \in 1 .. n + 1 : r[i] = r[j] => i = j
  BY ONLY <1>3, <1>4, <1>6, <1>7
<1>9. \A x : (\E i \in 1 .. n + 1 : r[i] = x) <=> (\E i \in 1 .. n : s[i] = x) \/ x = h
  BY ONLY <1>6, <1>7
<1>10. \A i, j \in 1 .. n : i < j => \E a, b \in 1 .. n + 1 : a < b /\ r[a] = s[i] /\ r[b] = s[j]
  <2> SUFFICES ASSUME NEW i \in 1 .. n, NEW j \in 1 .. n, i < j
               PROVE  \E a, b \in 1 .. n + 1 : a < b /\ r[a] = s[i] /\ r[b] = s[j]
    OBVIOUS
  <2>0. i \in 1 .. n /\ j \in 1 .. n /\ i < j
    OBVIOUS
  <2>1. CASE j < at
    BY ONLY <1>6, <1>7, <2>0, <2>1
  <2>2. CASE i < at /\ j >= at
    <3>1. i < j + 1
      BY ONLY <1>6, <2>0
    <3> QED
      BY ONLY <1>7, <2>0, <2>2, <3>1, Zenon
  <2>3. CASE i >= at
    <3>1. i + 1 < j + 1 /\ j >= at
      BY ONLY <1>6, <2>0, <2>3
    <3> QED
      BY ONLY <1>7, <2>0, <2>3, <3>1, Zenon
  <2> QED
    BY ONLY <1>6, <2>0, <2>1, <2>2, <2>3
<1>11. Len(ie_handlers') = n + 1 /\ r = ie_handlers' /\ s = ie_handlers /\ n = Len(ie_handlers)
  BY <1>5 DEF s, r, n, IsInserted
<1>12. \A x : Listed(x)' <=> Listed(x) \/ x = h
  BY ONLY <1>9, <1>11, Zenon DEF Listed
<1>13. ASSUME NEW x, NEW y, Before(x, y) PROVE Before(x, y)'
  <2>1. PICK i \in 1 .. n, j \in 1 .. n : i < j /\ s[i] = x /\ s[j] = y
    BY ONLY <1>11, <1>13, Zenon DEF Before
  <2>2. PICK a \in 1 .. n + 1, b \in 1 .. n + 1 : a < b /\ r[a] = x /\ r[b] = y
    BY ONLY <1>10, <2>1
  <2> QED
    BY ONLY <1>11, <2>2, Zenon DEF Before
<1> QED
  BY ONLY <1>5, <1>8, <1>11, <1>12, <1>13, Zenon

\* ... and with h taken out.
LEMMA UnlinkIs ==
  ASSUME NEW h \in Handler, ie_handlers \in Seq(Handler), Listed(h),
         \A i, j \in 1 .. Len(ie_handlers) : ie_handlers[i] = ie_handlers[j] => i = j,
         Unlink(h)
  PROVE  /\ ie_handlers' \in Seq(Handler)
         /\ \A i, j \in 1 .. Len(ie_handlers') : ie_handlers'[i] = ie_handlers'[j] => i = j
         /\ \A x : Listed(x)' <=> Listed(x) /\ x # h
         /\ \A x, y : Before(x, y) /\ x # h /\ y # h => Before(x, y)'
<1> DEFINE s == ie_handlers
           r == ie_handlers'
           n == Len(ie_handlers)
           at == Place(h)
<1>1. s \in Seq(Handler) /\ n \in Nat /\ n = Len(s)
  OBVIOUS
<1>2. at \in 1 .. n /\ s[at] = h
  BY DEF Listed, Place
<1>3. r = SubSeq(s, 1, at - 1) \o SubSeq(s, at + 1, n)
  BY DEF Unlink
<1>4. \A i, j \in 1 .. n : s[i] = s[j] => i = j
  OBVIOUS
<1> HIDE DEF s, r, n, at
<1>5. r \in Seq(Handler) /\ IsUnlinked(s, n, at, r)
  BY ONLY <1>1, <1>2, <1>3, UnlinkedIs, Zenon
<1>6. n \in Nat /\ at \in 1 .. n
  BY ONLY <1>1, <1>2
<1>7. /\ \A i \in 1 .. n : i < at => i \in 1 .. n - 1 /\ r[i] = s[i]
      /\ \A i \in 1 .. n : i > at => i - 1 \in 1 .. n - 1 /\ r[i - 1] = s[i]
      /\ \A i \in 1 .. n - 1 : i < at => i \in 1 .. n /\ r[i] = s[i] /\ i # at
      /\ \A i \in 1 .. n - 1 : i >= at => i + 1 \in 1 .. n /\ r[i] = s[i + 1] /\ i + 1 # at
  BY ONLY <1>5, <1>6 DEF IsUnlinked
<1>8. \A i, j \in 1 .. n - 1 : r[i] = r[j] => i = j
  BY ONLY <1>4, <1>6, <1>7
<1>9. \A x : (\E i \in 1 .. n - 1 : r[i] = x) <=> (\E i \in 1 .. n : s[i] = x) /\ x # h
  BY ONLY <1>2, <1>4, <1>6, <1>7
<1>10. \A i, j \in 1 .. n : i < j /\ s[i] # h /\ s[j] # h =>
         \E a, b \in 1 .. n - 1 : a < b /\ r[a] = s[i] /\ r[b] = s[j]
  <2> SUFFICES ASSUME NEW i \in 1 .. n, NEW j \in 1 .. n, i < j, s[i] # h, s[j] # h
               PROVE  \E a, b \in 1 .. n - 1 : a < b /\ r[a] = s[i] /\ r[b] = s[j]
    OBVIOUS
  <2>0. i \in 1 .. n /\ j \in 1 .. n /\ i < j /\ i # at /\ j # at
    BY <1>2
  <2>1. CASE j < at
    BY ONLY <1>6, <1>7, <2>0, <2>1
  <2>2. CASE i < at /\ j > at
    <3>1. i < j - 1
      BY ONLY <1>6, <2>0, <2>2
    <3> QED
      BY ONLY <1>7, <2>0, <2>2, <3>1, Zenon
  <2>3. CASE i > at
    <3>1. i - 1 < j - 1 /\ j > at
      BY ONLY <1>6, <2>0, <2>3
    <3> QED
      BY ONLY <1>7, <2>0, <2>3, <3>1, Zenon
  <2> QED
    BY ONLY <1>6, <2>0, <2>1, <2>2, <2>3
<1>11. Len(ie_handlers') = n - 1 /\ r = ie_handlers' /\ s = ie_handlers /\ n = Len(ie_handlers)
  BY <1>5 DEF s, r, n, IsUnlinked
<1>12. \A x : Listed(x)' <=> Listed(x) /\ x # h
  BY ONLY <1>9, <1>11, Zenon DEF Listed
<1>13. ASSUME NEW x, NEW y, Before(x, y), x # h, y # h PROVE Before(x, y)'
  <2>1. PICK i \in 1 .. n, j \in 1 .. n : i < j /\ s[i] = x /\ s[j] = y
    BY ONLY <1>11, <1>13, Zenon DEF Before
  <2>2. PICK a \in 1 .. n - 1, b \in 1 .. n - 1 : a < b /\ r[a] = x /\ r[b] = y
    BY ONLY <1>10, <1>13, <2>1, Zenon
  <2> QED
    BY ONLY <1>11, <2>2, Zenon DEF Before
<1> QED
  BY ONLY <1>5, <1>8, <1>11, <1>12, <1>13, Zenon

\* The order of the list, and the one next to h in it.
LEMMA ListFacts ==
  ASSUME SwiTypeOK
  PROVE  /\ \A a, b : Before(a, b) => a # b /\ Listed(a) /\ Listed(b)
         /\ \A a, b, c : Before(a, b) /\ Before(b, c) => Before(a, c)
         /\ \A h : Listed(h) => h \in Handler /\ h # NULL
         /\ \A h : Listed(h) /\ NextOf(h) # NULL => Before(h, NextOf(h))
         /\ \A h, x : Before(h, x) => NextOf(h) # NULL /\ (x = NextOf(h) \/ Before(NextOf(h), x))
<1> DEFINE s == ie_handlers
           n == Len(ie_handlers)
<1>1. n \in Nat /\ DOMAIN s = 1 .. n /\ \A i \in 1 .. n : s[i] \in Handler
  BY DEF SwiTypeOK
<1>2. \A i, j \in 1 .. n : s[i] = s[j] => i = j
  BY <1>1 DEF SwiTypeOK
<1>3. \A h : Listed(h) <=> \E i \in 1 .. n : s[i] = h
  BY DEF Listed
<1>4. \A a, b : Before(a, b) <=> \E i, j \in 1 .. n : i < j /\ s[i] = a /\ s[j] = b
  BY DEF Before
<1>5. \A h : Place(h) = CHOOSE i \in 1 .. n : s[i] = h
  BY <1>1 DEF Place
<1>6. \A h : NextOf(h) = IF Place(h) = n THEN NULL ELSE s[Place(h) + 1]
  BY DEF NextOf
<1>7. NULL \notin Handler
  BY PriAssumption
<1> HIDE DEF s, n
<1>8. \A i \in 1 .. n : Place(s[i]) = i
  BY ONLY <1>2, <1>5
<1>9. \A a, b : Before(a, b) => a # b /\ Listed(a) /\ Listed(b)
  BY ONLY <1>1, <1>2, <1>3, <1>4
<1>10. \A a, b, c : Before(a, b) /\ Before(b, c) => Before(a, c)
  BY ONLY <1>1, <1>2, <1>4
<1>11. \A h : Listed(h) => h \in Handler /\ h # NULL
  BY ONLY <1>1, <1>3, <1>7
<1>12. ASSUME NEW h, Listed(h), NextOf(h) # NULL PROVE Before(h, NextOf(h))
  <2>1. PICK i \in 1 .. n : s[i] = h
    BY ONLY <1>3, <1>12
  <2>2. Place(h) = i
    BY ONLY <1>8, <2>1
  <2>3. i # n /\ NextOf(h) = s[i + 1]
    BY ONLY <1>6, <1>12, <2>2
  <2>4. i + 1 \in 1 .. n /\ i < i + 1
    BY ONLY <1>1, <2>1, <2>3
  <2> QED
    BY ONLY <1>4, <2>1, <2>3, <2>4
<1>13. ASSUME NEW h, NEW x, Before(h, x)
       PROVE  NextOf(h) # NULL /\ (x = NextOf(h) \/ Before(NextOf(h), x))
  <2>1. PICK i \in 1 .. n, j \in 1 .. n : i < j /\ s[i] = h /\ s[j] = x
    BY ONLY <1>4, <1>13
  <2>2. Place(h) = i
    BY ONLY <1>8, <2>1
  <2>3. i # n /\ i + 1 \in 1 .. n /\ (i + 1 = j \/ i + 1 < j)
    BY ONLY <1>1, <2>1
  <2>4. NextOf(h) = s[i + 1]
    BY ONLY <1>6, <2>2, <2>3
  <2>5. s[i + 1] # NULL
    BY ONLY <1>1, <1>7, <2>3
  <2> QED
    BY ONLY <1>4, <2>1, <2>3, <2>4, <2>5
<1> QED
  BY ONLY <1>9, <1>10, <1>11, <1>12, <1>13, Zenon

\* The walk goes on to x.
LEMMA WalkStep ==
  ASSUME SwiTypeOK, NEW x, x = NULL \/ Listed(x), Walk(x), ie_handlers' = ie_handlers
  PROVE  /\ ih' \in Handler \cup {NULL} /\ ihn' \in Handler \cup {NULL}
         /\ tpc' \in {"loop", "visit"}
         /\ Walking'
         /\ \A h : x # NULL /\ (h = x \/ Before(x, h)) => Ahead(h)'
<1>1. \A h : Listed(h)' <=> Listed(h)
  BY DEF Listed
<1>2. \A a, b : Before(a, b)' <=> Before(a, b)
  BY DEF Before
<1>3. CASE x = NULL
  BY <1>3 DEF Walk, Walking
<1>4. CASE x # NULL /\ Listed(x)
  <2>1. ih' = x /\ ihn' = NextOf(x) /\ tpc' = "visit"
    BY <1>4 DEF Walk
  <2>2. x \in Handler /\ (NextOf(x) # NULL => Before(x, NextOf(x)) /\ NextOf(x) \in Handler)
    BY <1>4, ListFacts, Zenon
  <2>3. ihn' \in Handler \cup {NULL}
    BY <2>1, <2>2
  <2>4. Walking'
    BY <1>1, <1>2, <1>4, <2>1, <2>2, Zenon DEF Walking
  <2>5. ASSUME NEW h, h = x \/ Before(x, h) PROVE Ahead(h)'
    <3>1. CASE h = x
      BY <2>1, <3>1 DEF Ahead
    <3>2. CASE Before(x, h)
      <4>1. NextOf(x) # NULL /\ (h = NextOf(x) \/ Before(NextOf(x), h))
        BY <3>2, ListFacts, Zenon
      <4>2. ihn' # NULL /\ (h = ihn' \/ Before(ihn, h)')
        BY <2>1, <4>1 DEF Before
      <4> QED
        BY <2>1, <4>2 DEF Ahead
    <3> QED
      BY <2>5, <3>1, <3>2
  <2> QED
    BY <2>1, <2>2, <2>3, <2>4, <2>5
<1> QED
  BY <1>3, <1>4

\* The list is not changed.
LEMMA SameList ==
  ASSUME ie_handlers' = ie_handlers
  PROVE  /\ \A h : Listed(h)' <=> Listed(h)
         /\ \A a, b : Before(a, b)' <=> Before(a, b)
<1>1. \A h : Listed(h)' <=> Listed(h)
  BY DEF Listed
<1>2. \A a, b : Before(a, b)' <=> Before(a, b)
  BY DEF Before
<1> QED
  BY <1>1, <1>2, Zenon

\* ... and the thread stays where it is in its walk.
LEMMA SameWalk ==
  ASSUME SwiIInv, UNCHANGED <<ie_handlers, tpc, localVars>>
  PROVE  Walking' /\ \A h : Ahead(h)' <=> Ahead(h)
<1>1. \A h : Ahead(h)' <=> Ahead(h)
  BY SameList, Zenon DEF Ahead, localVars
<1>2. Walking'
  BY SameList, Zenon DEF Walking, localVars, SwiIInv
<1> QED
  BY <1>1, <1>2, Zenon

\* An adder finds the thread, waits for it, or sets out to create it.
LEMMA NeedStep ==
  ASSUME SwiIInv, NEW h \in Handler, apc[h] \in {"none", "woken"}, NeedThread(h), UNCHANGED <<ie_thread, created>>
  PROVE  /\ adding' \in BOOLEAN /\ Adders'
         /\ apc' \in [Handler -> {"none", "create", "created", "msleep", "woken", "ready", "rmwait", "gone"}]
         /\ apc'[h] \in {"ready", "msleep", "create"}
         /\ \A g \in Handler : g # h => apc'[g] = apc[g]
<1>1. PICK to \in {"ready", "msleep", "create"} :
        /\ apc' = [apc EXCEPT ![h] = to]
        /\ to = "ready" => ie_thread
        /\ to = "create" => ~ie_thread /\ ~adding
        /\ adding' = (adding \/ to = "create")
  BY Zenon DEF NeedThread, SwiIInv, SwiTypeOK
<1>2. apc' \in [Handler -> {"none", "create", "created", "msleep", "woken", "ready", "rmwait", "gone"}]
  BY <1>1 DEF SwiIInv, SwiTypeOK
<1>3. apc'[h] = to /\ \A g \in Handler : g # h => apc'[g] = apc[g]
  BY <1>1 DEF SwiIInv, SwiTypeOK
<1>4. adding' \in BOOLEAN
  BY <1>1
<1>5. Adders'
  <2>1. adding' <=> \E g \in Handler : apc'[g] \in {"create", "created"}
    BY <1>1, <1>3, Zenon DEF SwiIInv, Adders
  <2>2. \A f, g \in Handler :
          apc'[f] \in {"create", "created"} /\ apc'[g] \in {"create", "created"} => f = g
    BY <1>1, <1>3 DEF SwiIInv, Adders
  <2>3. ie_thread' => ~adding'
    BY <1>1, Zenon DEF SwiIInv, Adders
  <2>4. created' = 0 <=> ~ie_thread' /\ \A g \in Handler : apc'[g] # "created"
    BY <1>1, <1>3 DEF SwiIInv, Adders
  <2>5. \A g \in Handler : apc'[g] \in {"ready", "rmwait", "gone"} => ie_thread'
    BY <1>1, <1>3 DEF SwiIInv, Adders
  <2> QED
    BY <2>1, <2>2, <2>3, <2>4, <2>5 DEF SwiIInv, Adders
<1> QED
  BY <1>1, <1>2, <1>3, <1>4, <1>5

\* A new handler is put on the list.
LEMMA AddInsertStep == ASSUME SwiIInv, NEW h \in Handler, AddInsert(h) PROVE SwiIInv'
<1>0. /\ apc[h] = "none" /\ Insert(h) /\ NeedThread(h)
      /\ UNCHANGED <<ie_thread, flagVars, it_event, it_need, iwait, created, spc, tpc, localVars>>
  BY DEF AddInsert
<1>1. UNCHANGED <<ie_thread, need, dead, freed, it_event, it_need, iwait, created, spc, tpc, ie, ih, ihn>>
  BY <1>0 DEF flagVars, localVars
<1>2. ~Listed(h)
  BY <1>0 DEF SwiIInv, Clients
<1>3. /\ ie_handlers' \in Seq(Handler)
      /\ \A i, j \in 1 .. Len(ie_handlers') : ie_handlers'[i] = ie_handlers'[j] => i = j
      /\ \A x : Listed(x)' <=> Listed(x) \/ x = h
      /\ \A x, y : Before(x, y) => Before(x, y)'
  <2>1. ie_handlers \in Seq(Handler) /\ \A i, j \in 1 .. Len(ie_handlers) : ie_handlers[i] = ie_handlers[j] => i = j
    BY DEF SwiIInv, SwiTypeOK
  <2> QED
    BY <1>0, <1>2, <2>1, InsertIs
<1>4. /\ adding' \in BOOLEAN /\ Adders'
      /\ apc' \in [Handler -> {"none", "create", "created", "msleep", "woken", "ready", "rmwait", "gone"}]
      /\ apc'[h] \in {"ready", "msleep", "create"}
      /\ \A g \in Handler : g # h => apc'[g] = apc[g]
  BY <1>0, <1>1, NeedStep
<1>5. SwiTypeOK'
  BY <1>1, <1>3, <1>4 DEF SwiIInv, SwiTypeOK
<1>6. Clients'
  BY <1>0, <1>1, <1>3, <1>4 DEF SwiIInv, Clients
<1>7. Walking'
  BY <1>1, <1>3, Zenon DEF SwiIInv, Walking
<1>8. Waiting'
  BY <1>1, Zenon DEF SwiIInv, Waiting
<1>9. Asked'
  <2>1. \A x : Ahead(x) => Ahead(x)'
    BY <1>1, <1>3, Zenon DEF Ahead
  <2>2. \A x \in need : x \in Handler /\ x # h
    BY <1>0 DEF SwiIInv, SwiTypeOK, Clients
  <2> QED
    BY <1>1, <1>4, <2>1, <2>2, Zenon DEF SwiIInv, Asked
<1> QED
  BY <1>4, <1>5, <1>6, <1>7, <1>8, <1>9 DEF SwiIInv

\* The other steps of swi_add.
LEMMA AddStep ==
  ASSUME SwiIInv, NEW h \in Handler,
         AddWoken(h) \/ AddSpurious(h) \/ ithread_create(h) \/ AddFinish(h)
  PROVE  SwiIInv'
<1>1. UNCHANGED <<ie_handlers, need, dead, freed, it_need, iwait, spc, ie, ih, ihn>>
  BY DEF AddWoken, AddSpurious, ithread_create, AddFinish, eventVars, flagVars, localVars
<1>2. /\ apc' \in [Handler -> {"none", "create", "created", "msleep", "woken", "ready", "rmwait", "gone"}]
      /\ \A g \in Handler : apc'[g] = apc[g]
           \/ {apc[g], apc'[g]} \subseteq {"create", "created", "msleep", "woken", "ready"}
      /\ \A g \in Handler : apc[g] = "ready" => apc'[g] = "ready"
  <2>1. CASE AddWoken(h)
    BY <2>1, NeedStep DEF AddWoken, SwiIInv, SwiTypeOK
  <2>2. CASE AddSpurious(h)
    BY <2>2 DEF AddSpurious, SwiIInv, SwiTypeOK
  <2>3. CASE ithread_create(h)
    BY <2>3 DEF ithread_create, SwiIInv, SwiTypeOK
  <2>4. CASE AddFinish(h)
    BY <2>4 DEF AddFinish, SwiIInv, SwiTypeOK
  <2> QED
    BY <2>1, <2>2, <2>3, <2>4
<1>3. /\ Adders' /\ ie_thread' \in BOOLEAN /\ adding' \in BOOLEAN
      /\ it_event' \in {NULL, "placeholder", "event"}
  <2>1. CASE AddWoken(h)
    BY <2>1, NeedStep DEF AddWoken, SwiIInv, SwiTypeOK
  <2>2. CASE AddSpurious(h)
    BY <2>2 DEF AddSpurious, SwiIInv, SwiTypeOK, Adders, eventVars
  <2>3. CASE ithread_create(h)
    <3>1. apc[h] = "create" /\ apc' = [apc EXCEPT ![h] = "created"] /\ created' = created + 1
          /\ UNCHANGED <<ie_thread, adding>> /\ it_event' = "placeholder"
      BY <2>3 DEF ithread_create, eventVars
    <3>2. apc'[h] = "created" /\ \A g \in Handler : g # h => apc'[g] = apc[g]
      BY <3>1 DEF SwiIInv, SwiTypeOK
    <3>3. adding /\ ~ie_thread /\ \A g \in Handler : g # h => apc[g] \notin {"create", "created"}
      BY <3>1 DEF SwiIInv, Adders
    <3>4. created = 0
      BY <3>1, <3>3 DEF SwiIInv, Adders
    <3> QED
      BY <3>1, <3>2, <3>3, <3>4 DEF SwiIInv, SwiTypeOK, Adders
  <2>4. CASE AddFinish(h)
    <3>1. /\ apc[h] = "created" /\ ~adding' /\ ie_thread' /\ adding' = FALSE /\ ie_thread' = TRUE
          /\ it_event' = "event" /\ created' = created
          /\ apc' = [g \in Handler |-> IF g = h THEN "ready"
                                       ELSE IF apc[g] = "msleep" THEN "woken" ELSE apc[g]]
      BY <2>4 DEF AddFinish
    <3>2. \A g \in Handler : g # h => apc[g] \notin {"create", "created"}
      BY <3>1 DEF SwiIInv, Adders
    <3>3. \A g \in Handler : apc'[g] \notin {"create", "created"}
      BY <3>1, <3>2
    <3>4. created = 1
      BY <3>1 DEF SwiIInv, Adders
    <3> QED
      BY <3>1, <3>3, <3>4, Zenon DEF SwiIInv, Adders
  <2> QED
    BY <2>1, <2>2, <2>3, <2>4
<1>4. created' \in Nat
  BY <1>3 DEF Adders
<1>5. tpc' = tpc \/ (tpc' = "start" /\ need = {})
  <2>1. CASE ithread_create(h)
    <3>1. ~ie_thread
      BY <2>1 DEF SwiIInv, Adders, ithread_create
    <3>2. need = {}
      BY <3>1 DEF SwiIInv, SwiTypeOK, Adders, Clients
    <3> QED
      BY <2>1, <3>2 DEF ithread_create
  <2> QED
    BY <2>1 DEF AddWoken, AddSpurious, AddFinish
<1>6. SwiTypeOK'
  BY <1>1, <1>2, <1>3, <1>4, <1>5 DEF SwiIInv, SwiTypeOK
<1>7. (\A x : Listed(x)' <=> Listed(x)) /\ \A x, y : Before(x, y)' <=> Before(x, y)
  BY <1>1, SameList, Zenon
<1>8. Clients'
  <2> SUFFICES ASSUME NEW g \in Handler
               PROVE  /\ Listed(g)' <=> apc'[g] \notin {"none", "gone"} /\ (apc'[g] = "rmwait" => g \in dead')
                      /\ g \in freed' => apc'[g] = "gone"
                      /\ g \in dead' => apc'[g] = "rmwait"
                      /\ g \in need' => apc'[g] \in {"ready", "rmwait", "gone"}
    BY DEF Clients
  <2>1. CASE apc'[g] = apc[g]
    BY <1>1, <1>7, <2>1 DEF SwiIInv, Clients
  <2>2. CASE {apc[g], apc'[g]} \subseteq {"create", "created", "msleep", "woken", "ready"}
    BY <1>1, <1>2, <1>7, <2>2 DEF SwiIInv, Clients
  <2> QED
    BY <1>2, <2>1, <2>2
<1>9. Walking'
  BY <1>1, <1>5, <1>7 DEF SwiIInv, Walking
<1>10. Waiting'
  BY <1>1, <1>5 DEF SwiIInv, Waiting
<1>11. Asked'
  <2>1. CASE need = {}
    BY <1>1, <2>1 DEF Asked
  <2>2. CASE tpc' = tpc
    <3>1. \A x : Ahead(x)' <=> Ahead(x)
      BY <1>1, <1>7, <2>2, Zenon DEF Ahead
    <3>2. \A x \in need : x \in Handler /\ (apc[x] \in {"rmwait", "gone"} => apc'[x] \in {"rmwait", "gone"})
      BY <1>2 DEF SwiIInv, SwiTypeOK
    <3> QED
      BY <1>1, <2>2, <3>1, <3>2, Zenon DEF SwiIInv, Asked
  <2> QED
    BY <1>5, <2>1, <2>2
<1> QED
  BY <1>3, <1>6, <1>8, <1>9, <1>10, <1>11 DEF SwiIInv

\* swi_sched flags the handler and the thread, and wakes it.
LEMMA SchedStep ==
  ASSUME SwiIInv, NEW h \in Handler, swi_sched(h) \/ SchedNeed(h) \/ SchedWake(h)
  PROVE  SwiIInv'
<1>1. UNCHANGED <<ie_handlers, ie_thread, adding, dead, freed, it_event, created, apc, ie, ih, ihn>>
  BY DEF swi_sched, SchedNeed, SchedWake, eventVars, flagVars, localVars
<1>2. /\ spc' \in [Handler -> {"idle", "flagged", "needed"}]
      /\ \A g \in Handler : g # h => spc'[g] = spc[g]
      /\ swi_sched(h) => spc'[h] = "flagged" /\ apc[h] = "ready"
      /\ SchedNeed(h) => spc'[h] = "needed" /\ it_need'
      /\ SchedWake(h) => spc[h] = "needed" /\ spc'[h] = "idle"
  BY Zenon DEF swi_sched, SchedNeed, SchedWake, SwiIInv, SwiTypeOK
<1>3. /\ need' = need \/ (swi_sched(h) /\ need' = need \cup {h})
      /\ it_need' = it_need \/ (SchedNeed(h) /\ it_need' = TRUE)
      /\ iwait' \in BOOLEAN /\ (iwait' = iwait \/ SchedWake(h))
      /\ tpc' = tpc \/ (tpc = "wait" /\ tpc' = "loop")
      /\ SchedWake(h) => tpc' # "wait"
  BY Zenon DEF swi_sched, SchedNeed, SchedWake, SwiIInv, SwiTypeOK, Waiting, flagVars
<1>4. SwiTypeOK'
  <2>1. need' \subseteq Handler /\ it_need' \in BOOLEAN
    BY <1>3, Zenon DEF SwiIInv, SwiTypeOK
  <2> QED
    BY <1>1, <1>2, <1>3, <2>1 DEF SwiIInv, SwiTypeOK
<1>5. Adders'
  BY <1>1 DEF SwiIInv, Adders
<1>6. (\A x : Listed(x)' <=> Listed(x)) /\ \A x, y : Before(x, y)' <=> Before(x, y)
  BY <1>1, SameList, Zenon
<1>7. Clients'
  BY <1>1, <1>2, <1>3, <1>6, Zenon DEF SwiIInv, Clients
<1>8. Walking'
  BY <1>1, <1>3, <1>6 DEF SwiIInv, Walking
<1>9. Waiting'
  <2> SUFFICES ASSUME tpc' = "wait" PROVE iwait' /\ (it_need' => \E g \in Handler : spc'[g] = "needed")
    BY DEF Waiting
  <2>1. tpc = "wait" /\ ~SchedWake(h) /\ iwait
    BY <1>3 DEF SwiIInv, Waiting
  <2>2. swi_sched(h) => spc[h] # "needed"
    BY DEF swi_sched
  <2>3. CASE SchedNeed(h)
    BY <1>2, <1>3, <2>1, <2>3, Zenon
  <2>4. CASE swi_sched(h) /\ ~SchedNeed(h)
    <3> SUFFICES ASSUME it_need' PROVE \E g \in Handler : spc'[g] = "needed"
      BY <1>3, <2>1, Zenon
    <3>1. PICK g \in Handler : spc[g] = "needed"
      BY <1>3, <2>1, <2>4, Zenon DEF SwiIInv, Waiting
    <3>2. spc'[g] = "needed"
      BY <1>2, <2>2, <2>4, <3>1
    <3> QED
      BY <3>2
  <2> QED
    BY <2>1, <2>3, <2>4
<1>10. Asked'
  <2>1. \A x : Ahead(x) => Ahead(x)'
    <3>1. Ahead(h) => tpc' = tpc
      BY <1>3 DEF Ahead
    <3> QED
      BY <1>1, <1>3, <1>6 DEF Ahead
  <2> SUFFICES ASSUME ie = "event" \/ tpc \in {"unborn", "start"}, NEW x \in need'
               PROVE  \/ spc'[x] = "flagged" \/ apc[x] \in {"rmwait", "gone"}
                      \/ it_need' \/ Ahead(x)'
    BY <1>1, <1>3 DEF Asked
  <2>2. CASE swi_sched(h) /\ x = h
    BY <1>2, <2>2
  <2>3. CASE SchedNeed(h)
    BY <1>2, <2>3
  <2>4. CASE x \in need /\ ~SchedNeed(h) /\ ~(swi_sched(h) /\ x = h)
    <3>1. x \in Handler
      BY <2>4 DEF SwiIInv, SwiTypeOK
    <3>2. spc[x] = "flagged" => spc'[x] = "flagged"
      BY <1>2, <2>4, <3>1
    <3> QED
      BY <1>3, <2>1, <2>4, <3>2 DEF SwiIInv, Asked
  <2> QED
    BY <1>3, <2>2, <2>3, <2>4
<1> QED
  BY <1>4, <1>5, <1>7, <1>8, <1>9, <1>10 DEF SwiIInv

\* swi_remove marks a handler while the thread runs, and frees it unmarked.
LEMMA RemoveStep ==
  ASSUME SwiIInv, NEW h \in Handler, RemoveHandler(h) \/ RemoveFree(h)
  PROVE  SwiIInv'
<1>1. UNCHANGED <<ie_handlers, ie_thread, adding, need, it_event, iwait, created, spc, tpc, ie, ih, ihn>>
  BY DEF RemoveHandler, RemoveFree, eventVars, localVars
<1>2. /\ apc' \in [Handler -> {"none", "create", "created", "msleep", "woken", "ready", "rmwait", "gone"}]
      /\ \A g \in Handler : g # h => apc'[g] = apc[g]
      /\ RemoveHandler(h) => apc[h] = "ready" /\ apc'[h] = "rmwait" /\ ~iwait
                             /\ dead' = dead \cup {h} /\ freed' = freed /\ it_need' = TRUE
      /\ RemoveFree(h) => apc[h] = "rmwait" /\ apc'[h] = "gone" /\ h \notin dead
                          /\ dead' = dead /\ freed' = freed \cup {h} /\ it_need' = it_need
  BY DEF RemoveHandler, RemoveFree, SwiIInv, SwiTypeOK
<1>3. SwiTypeOK'
  <2>1. dead' \subseteq Handler /\ freed' \subseteq Handler /\ it_need' \in BOOLEAN
    BY <1>2, Zenon DEF SwiIInv, SwiTypeOK
  <2> QED
    BY <1>1, <1>2, <2>1 DEF SwiIInv, SwiTypeOK
<1>4. Adders'
  BY <1>1, <1>2 DEF SwiIInv, Adders
<1>5. (\A x : Listed(x)' <=> Listed(x)) /\ \A x, y : Before(x, y)' <=> Before(x, y)
  BY <1>1, SameList, Zenon
<1>6. Clients'
  <2> SUFFICES ASSUME NEW g \in Handler
               PROVE  /\ Listed(g)' <=> apc'[g] \notin {"none", "gone"} /\ (apc'[g] = "rmwait" => g \in dead')
                      /\ g \in freed' => apc'[g] = "gone"
                      /\ g \in dead' => apc'[g] = "rmwait"
                      /\ g \in need' => apc'[g] \in {"ready", "rmwait", "gone"}
    BY DEF Clients
  <2>1. CASE g # h
    BY <1>1, <1>2, <1>5, <2>1 DEF SwiIInv, Clients
  <2>2. CASE g = h
    BY <1>1, <1>2, <1>5, <2>2 DEF SwiIInv, Clients
  <2> QED
    BY <2>1, <2>2
<1>7. Walking' /\ \A x : Ahead(x)' <=> Ahead(x)
  BY <1>1, SameWalk DEF localVars
<1>8. Waiting'
  BY <1>1, <1>2 DEF SwiIInv, Waiting
<1>9. Asked'
  <2>1. \A x \in need : x \in Handler /\ (apc[x] \in {"rmwait", "gone"} => apc'[x] \in {"rmwait", "gone"})
    BY <1>2 DEF SwiIInv, SwiTypeOK
  <2>2. it_need => it_need'
    BY <1>2, Zenon
  <2> QED
    BY <1>1, <1>7, <2>1, <2>2, Zenon DEF SwiIInv, Asked
<1> QED
  BY <1>3, <1>4, <1>6, <1>7, <1>8, <1>9 DEF SwiIInv

\* What a step of the thread that only moves it leaves alone.
LEMMA ThreadFrame ==
  ASSUME SwiIInv, UNCHANGED <<ie_handlers, ie_thread, adding, dead, freed, it_event, created, apc, spc>>,
         need' \subseteq need
  PROVE  Adders' /\ Clients'
<1>1. (\A x : Listed(x)' <=> Listed(x)) /\ \A x, y : Before(x, y)' <=> Before(x, y)
  BY SameList
<1>2. Adders'
  BY DEF SwiIInv, Adders
<1>3. Clients'
  BY <1>1 DEF SwiIInv, Clients
<1> QED
  BY <1>2, <1>3

\* A pass begins: whatever was asked for so far is ahead.
LEMMA PassStep == ASSUME SwiIInv, Pass PROVE SwiIInv'
<1> DEFINE x == IF ie = "event" /\ ie_handlers # <<>> THEN Head(ie_handlers) ELSE NULL
<1>1. tpc = "loop" /\ it_need' = FALSE /\ Walk(x)
  BY DEF Pass
<1>2. UNCHANGED <<ie_handlers, ie_thread, adding, need, dead, freed, it_event, iwait,
                     created, apc, spc, ie>>
  BY DEF Pass, eventVars, flagVars, clientVars
<1>3. ie_handlers # <<>> =>
        /\ Listed(Head(ie_handlers))
        /\ \A h : Listed(h) => h = Head(ie_handlers) \/ Before(Head(ie_handlers), h)
  <2> SUFFICES ASSUME ie_handlers # <<>>
               PROVE  /\ Listed(Head(ie_handlers))
                      /\ \A h : Listed(h) => h = Head(ie_handlers) \/ Before(Head(ie_handlers), h)
    OBVIOUS
  <2>1. Len(ie_handlers) \in Nat /\ 1 \in 1 .. Len(ie_handlers) /\ Head(ie_handlers) = ie_handlers[1]
    BY DEF SwiIInv, SwiTypeOK
  <2> QED
    BY <2>1 DEF Listed, Before
<1>4. ie_handlers = <<>> => \A h : ~Listed(h)
  BY DEF Listed
<1>5. x = NULL \/ Listed(x)
  BY <1>3
<1>6. /\ ih' \in Handler \cup {NULL} /\ ihn' \in Handler \cup {NULL}
      /\ tpc' \in {"loop", "visit"} /\ Walking'
      /\ \A h : x # NULL /\ (h = x \/ Before(x, h)) => Ahead(h)'
  BY <1>1, <1>2, <1>5, WalkStep DEF SwiIInv
<1>7. SwiTypeOK'
  BY <1>1, <1>2, <1>6, Zenon DEF SwiIInv, SwiTypeOK
<1>8. Waiting'
  BY <1>6 DEF Waiting
<1>9. Asked'
  <2> SUFFICES ASSUME ie = "event", NEW h \in need, h \in Handler, apc[h] \notin {"rmwait", "gone"}
               PROVE  Ahead(h)'
    BY <1>2, <1>6 DEF SwiIInv, SwiTypeOK, Asked
  <2>1. Listed(h)
    BY DEF SwiIInv, Clients
  <2>2. ie_handlers # <<>> /\ x = Head(ie_handlers) /\ Listed(x) /\ (h = x \/ Before(x, h))
    BY <1>3, <1>4, <2>1
  <2>3. x # NULL
    BY <2>2, ListFacts DEF SwiIInv
  <2> QED
    BY <1>6, <2>2, <2>3
<1> QED
  BY <1>2, <1>6, <1>7, <1>8, <1>9, ThreadFrame DEF SwiIInv

\* A handler that is not dead has been looked at or run: the walk goes on.
LEMMA VisitStep == ASSUME SwiIInv, VisitIdle \/ ExecDone PROVE SwiIInv'
<1>1. /\ tpc \in {"visit", "exec"} /\ Walk(ihn) /\ (tpc = "visit" => ih \notin need)
      /\ UNCHANGED <<ie_handlers, ie_thread, adding, need, dead, freed, it_event, it_need, iwait,
                     created, apc, spc, ie>>
  BY DEF VisitIdle, ExecDone, eventVars, flagVars, clientVars
<1>2. ihn = NULL \/ Listed(ihn)
  BY <1>1, ListFacts DEF SwiIInv, Walking
<1>3. /\ ih' \in Handler \cup {NULL} /\ ihn' \in Handler \cup {NULL}
      /\ tpc' \in {"loop", "visit"} /\ Walking'
      /\ \A h : ihn # NULL /\ (h = ihn \/ Before(ihn, h)) => Ahead(h)'
  BY <1>1, <1>2, WalkStep DEF SwiIInv
<1>4. SwiTypeOK'
  BY <1>1, <1>3 DEF SwiIInv, SwiTypeOK
<1>5. Waiting'
  BY <1>3, Zenon DEF Waiting
<1>6. Asked'
  <2>1. \A h \in need : Ahead(h) => Ahead(h)'
    BY <1>1, <1>3 DEF Ahead
  <2> QED
    BY <1>1, <1>3, <2>1 DEF SwiIInv, Asked
<1> QED
  BY <1>1, <1>3, <1>4, <1>5, <1>6, ThreadFrame DEF SwiIInv

\* A handler is about to be run; it is not asked for any more.
LEMMA VisitExecStep == ASSUME SwiIInv, VisitExec PROVE SwiIInv'
<1>1. /\ tpc = "visit" /\ tpc' = "exec" /\ need' = need \ {ih}
      /\ UNCHANGED <<ie_handlers, ie_thread, adding, dead, freed, it_event, it_need, iwait,
                     created, apc, spc, ie, ih, ihn>>
  BY DEF VisitExec, eventVars, clientVars, localVars
<1>2. (\A x : Listed(x)' <=> Listed(x)) /\ \A x, y : Before(x, y)' <=> Before(x, y)
  BY <1>1, SameList, Zenon
<1>3. SwiTypeOK'
  BY <1>1 DEF SwiIInv, SwiTypeOK
<1>4. Walking'
  BY <1>1, <1>2 DEF SwiIInv, Walking
<1>5. Waiting'
  BY <1>1 DEF Waiting
<1>6. Asked'
  <2>1. \A h \in need' : h \in need /\ (Ahead(h) => Ahead(h)')
    BY <1>1, <1>2 DEF Ahead
  <2> QED
    BY <1>1, <2>1 DEF SwiIInv, Asked
<1> QED
  BY <1>1, <1>3, <1>4, <1>5, <1>6, ThreadFrame DEF SwiIInv

\* A dead handler is taken off the list.
LEMMA VisitDeadStep == ASSUME SwiIInv, VisitDead PROVE SwiIInv'
<1>1. /\ tpc = "visit" /\ ih \in dead /\ Unlink(ih) /\ dead' = dead \ {ih}
      /\ ih' = ihn /\ ihn' = (IF ihn = NULL THEN NULL ELSE NextOf(ihn))
      /\ tpc' = (IF ihn = NULL THEN "loop" ELSE "visit")
      /\ UNCHANGED <<ie_thread, adding, need, freed, it_event, it_need, iwait,
                     created, apc, spc, ie>>
  BY DEF VisitDead, clientVars
<1>2. ih \in Handler /\ Listed(ih) /\ apc[ih] = "rmwait" /\ (ihn # NULL => Before(ih, ihn))
  BY <1>1 DEF SwiIInv, SwiTypeOK, Clients, Walking
<1>3. /\ ie_handlers' \in Seq(Handler)
      /\ \A i, j \in 1 .. Len(ie_handlers') : ie_handlers'[i] = ie_handlers'[j] => i = j
      /\ \A x : Listed(x)' <=> Listed(x) /\ x # ih
      /\ \A x, y : Before(x, y) /\ x # ih /\ y # ih => Before(x, y)'
  <2>1. ie_handlers \in Seq(Handler) /\ \A i, j \in 1 .. Len(ie_handlers) : ie_handlers[i] = ie_handlers[j] => i = j
    BY DEF SwiIInv, SwiTypeOK
  <2> QED
    BY <1>1, <1>2, <2>1, UnlinkIs
<1>4. ASSUME ihn # NULL, NextOf(ihn) # NULL
      PROVE  Before(ihn, NextOf(ihn)) /\ NextOf(ihn) \in Handler /\ NextOf(ihn) # ih /\ ihn # ih
  <2>1. Listed(ihn) /\ Before(ihn, NextOf(ihn)) /\ Before(ih, ihn)
    BY <1>2, <1>4, ListFacts DEF SwiIInv
  <2>2. Before(ih, NextOf(ihn))
    BY <2>1, ListFacts, Zenon DEF SwiIInv
  <2> QED
    BY <2>1, <2>2, ListFacts, Zenon DEF SwiIInv
<1>5. ihn # NULL => Listed(ihn) /\ ihn # ih /\ ihn \in Handler
  BY <1>2, ListFacts DEF SwiIInv
<1>6. ih' \in Handler \cup {NULL} /\ ihn' \in Handler \cup {NULL} /\ tpc' \in {"loop", "visit"}
  BY <1>1, <1>4, <1>5
<1>7. SwiTypeOK'
  <2>1. SwiTypeOK
    BY Zenon DEF SwiIInv
  <2> QED
    BY ONLY <1>1, <1>3, <1>6, <2>1 DEF SwiTypeOK
<1>8. Adders'
  BY <1>1 DEF SwiIInv, Adders
<1>9. Clients'
  BY <1>1, <1>2, <1>3 DEF SwiIInv, Clients
<1>10. Walking'
  <2>1. ihn # NULL /\ ihn' # NULL => Before(ih, ihn)'
    <3> SUFFICES ASSUME ihn # NULL, ihn' # NULL PROVE Before(ih, ihn)'
      OBVIOUS
    <3>1. ihn' = NextOf(ihn) /\ ih' = ihn /\ Before(ihn, NextOf(ihn)) /\ NextOf(ihn) # ih /\ ihn # ih
      BY <1>1, <1>4, Zenon
    <3>2. \E i, j \in 1 .. Len(ie_handlers') : i < j /\ ie_handlers'[i] = ihn /\ ie_handlers'[j] = NextOf(ihn)
      BY <1>3, <3>1, Zenon DEF Before
    <3> QED
      BY <3>1, <3>2 DEF Before
  <2>2. ihn # NULL => Listed(ih)'
    <3> SUFFICES ASSUME ihn # NULL PROVE Listed(ih)'
      OBVIOUS
    <3>1. \E i \in 1 .. Len(ie_handlers') : ie_handlers'[i] = ihn
      BY <1>3, <1>5 DEF Listed
    <3> QED
      BY <1>1, <3>1 DEF Listed
  <2> QED
    BY <1>1, <2>1, <2>2, Zenon DEF Walking
<1>11. Waiting'
  BY <1>6 DEF Waiting
<1>12. Asked'
  <2> SUFFICES ASSUME NEW h \in need, Ahead(h), apc[h] \notin {"rmwait", "gone"} PROVE Ahead(h)'
    BY <1>1, <1>6 DEF SwiIInv, Asked
  <2>1. h # ih /\ ihn # NULL /\ (h = ihn \/ Before(ihn, h))
    BY <1>1, <1>2, Zenon DEF Ahead
  <2>2. CASE h = ihn
    BY <1>1, <2>1, <2>2 DEF Ahead
  <2>3. CASE Before(ihn, h)
    <3>1. NextOf(ihn) # NULL /\ (h = NextOf(ihn) \/ Before(NextOf(ihn), h))
      BY <2>3, ListFacts, Zenon DEF SwiIInv
    <3>2. ihn' = NextOf(ihn) /\ tpc' = "visit" /\ ihn' # NULL /\ NextOf(ihn) # ih
      BY <1>1, <1>4, <2>1, <3>1
    <3>3. h = ihn' \/ Before(ihn, h)'
      <4>1. CASE h = NextOf(ihn)
        BY <3>2, <4>1
      <4>2. CASE Before(NextOf(ihn), h)
        <5>1. \E i, j \in 1 .. Len(ie_handlers') : i < j /\ ie_handlers'[i] = NextOf(ihn) /\ ie_handlers'[j] = h
          BY <1>3, <2>1, <3>2, <4>2 DEF Before
        <5> QED
          BY <3>2, <5>1, Zenon DEF Before
      <4> QED
        BY <3>1, <4>1, <4>2
    <3> QED
      BY <3>2, <3>3, Zenon DEF Ahead
  <2> QED
    BY <2>1, <2>2, <2>3, Zenon
<1> QED
  BY <1>7, <1>8, <1>9, <1>10, <1>11, <1>12 DEF SwiIInv

\* The thread starts, goes to wait, or wakes up.
LEMMA IdleStep ==
  ASSUME SwiIInv, ThreadStart \/ LoopEnds \/ Suspend \/ SpuriousWake
  PROVE  SwiIInv'
<1>1. UNCHANGED <<ie_handlers, ie_thread, adding, need, dead, freed, it_event, it_need, created, apc, spc, ih, ihn>>
  BY Zenon DEF ThreadStart, LoopEnds, Suspend, SpuriousWake, eventVars, flagVars, clientVars, localVars
<1>2. /\ tpc \in {"start", "loop", "suspend", "wait"} /\ tpc' \in {"loop", "suspend", "wait"}
      /\ iwait' \in BOOLEAN /\ ie' \in {NULL, "placeholder", "event"}
      /\ tpc' = "wait" => iwait' /\ ~it_need
      /\ tpc = "start" \/ ie' = ie
  BY Zenon DEF ThreadStart, LoopEnds, Suspend, SpuriousWake, SwiIInv, SwiTypeOK, localVars
<1>3. SwiTypeOK'
  BY <1>1, <1>2 DEF SwiIInv, SwiTypeOK
<1>4. Walking'
  BY <1>2 DEF Walking
<1>5. Waiting'
  BY <1>1, <1>2 DEF Waiting
<1>6. Asked'
  BY <1>1, <1>2 DEF SwiIInv, Asked, Ahead
<1> QED
  BY <1>1, <1>3, <1>4, <1>5, <1>6, ThreadFrame, Zenon DEF SwiIInv

\* No handler, no thread.
LEMMA SwiInitHolds == SwiInit => SwiIInv
<1> SUFFICES ASSUME SwiInit PROVE SwiIInv
  OBVIOUS
<1>0. ie_handlers = <<>> /\ <<>> \in Seq(Handler) /\ Len(ie_handlers) = 0 /\ DOMAIN ie_handlers = {}
  BY DEF SwiInit
<1>1. SwiTypeOK
  <2>1. apc \in [Handler -> {"none", "create", "created", "msleep", "woken", "ready", "rmwait", "gone"}]
        /\ spc \in [Handler -> {"idle", "flagged", "needed"}]
    BY DEF SwiInit
  <2>2. need \subseteq Handler /\ dead \subseteq Handler /\ freed \subseteq Handler /\ created \in Nat
    BY DEF SwiInit
  <2> QED
    BY <1>0, <2>1, <2>2, Zenon DEF SwiInit, SwiTypeOK
<1>2. Adders /\ Walking /\ Waiting /\ Asked
  BY DEF SwiInit, Adders, Walking, Waiting, Asked
<1>3. Clients
  <2>1. \A h : ~Listed(h)
    BY <1>0 DEF Listed
  <2>2. apc = [h \in Handler |-> "none"] /\ freed = {} /\ dead = {} /\ need = {}
    BY DEF SwiInit
  <2> QED
    BY <2>1, <2>2, Zenon DEF Clients
<1> QED
  BY <1>1, <1>2, <1>3 DEF SwiIInv

\* Every step keeps the invariant.
LEMMA SwiNextStep == SwiIInv /\ [SwiNext]_swiVars => SwiIInv'
<1> SUFFICES ASSUME SwiIInv, [SwiNext]_swiVars PROVE SwiIInv'
  OBVIOUS
<1>1. CASE UNCHANGED swiVars
  <2>1. UNCHANGED <<ie_handlers, ie_thread, adding, need, dead, freed, it_event, it_need, iwait,
                    created, apc, spc, tpc, ie, ih, ihn>>
    BY <1>1 DEF swiVars, eventVars, flagVars, clientVars, localVars
  <2>2. Adders' /\ Clients' /\ Walking' /\ \A h : Ahead(h)' <=> Ahead(h)
    BY <2>1, ThreadFrame, SameWalk, Zenon DEF localVars
  <2>3. SwiTypeOK'
    <3>1. SwiTypeOK
      BY Zenon DEF SwiIInv
    <3>2. ie_handlers' \in Seq(Handler)
          /\ \A i, j \in DOMAIN ie_handlers' : ie_handlers'[i] = ie_handlers'[j] => i = j
      BY ONLY <2>1, <3>1, Zenon DEF SwiTypeOK
    <3> QED
      BY ONLY <2>1, <3>1, <3>2 DEF SwiTypeOK
  <2>4. Waiting' /\ Asked'
    BY <2>1, <2>2 DEF SwiIInv, Waiting, Asked
  <2> QED
    BY <2>2, <2>3, <2>4 DEF SwiIInv
<1>2. ASSUME NEW h \in Handler, swi_add(h) \/ AddSpurious(h) PROVE SwiIInv'
  BY <1>2, AddInsertStep, AddStep DEF swi_add
<1>3. ASSUME NEW h \in Handler, swi_sched(h) \/ intr_event_schedule_thread(h) PROVE SwiIInv'
  BY <1>3, SchedStep DEF intr_event_schedule_thread
<1>4. ASSUME NEW h \in Handler, RemoveHandler(h) \/ RemoveFree(h) PROVE SwiIInv'
  BY <1>4, RemoveStep
<1>5. CASE ithread_loop \/ SpuriousWake
  BY <1>5, PassStep, VisitStep, VisitExecStep, VisitDeadStep, IdleStep DEF ithread_loop
<1> QED
  BY <1>1, <1>2, <1>3, <1>4, <1>5 DEF SwiNext

\* For any handlers and priorities, however additions, requests and removals
\* race: one thread is made for the event (intr_event_add_handler), and it does
\* not wait while a handler is asked for that no swi_sched is about to wake it
\* for (swi_sched, ithread_loop).
THEOREM SwiInvariant == SwiSpec => []SwiInv
<1>1. SwiIInv => SwiInv
  BY SwiIInvSuffices
<1> QED
  BY <1>1, SwiInitHolds, SwiNextStep, PTL DEF SwiSpec

\* For any handlers and priorities: a handler that intr_event_remove_handler
\* has freed is neither on the list nor in a local variable of the walk that
\* ithread_loop makes over it without the lock.
THEOREM FreedNeverReached == SwiSpec => []FreedUnreachable
<1>1. SwiIInv => FreedUnreachable
  BY SwiIInvSuffices
<1> QED
  BY <1>1, SwiInitHolds, SwiNextStep, PTL DEF SwiSpec
=============================================================================
