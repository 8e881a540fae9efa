--------------------------- MODULE Threads_proofs ---------------------------
(***************************************************************************)
(* Threads that sleep until another wakes them.  For any number of         *)
(* threads, channels and entries, a sleep entry is not freed under a       *)
(* thread that uses it, and is freed with the last.  For any number of     *)
(* senders, packets and slots, the netmap transmit thread counts what is   *)
(* queued, does not sleep on it, fills only slots it was given, and keeps  *)
(* the packets in order.  The two models share no state; they are in one   *)
(* module because both rest on counting threads.                           *)
(***************************************************************************)
EXTENDS NetmapTx, SleepQueue, FiniteSetTheorems, TLAPS

-----------------------------------------------------------------------------
(***************************************************************************)
(* SleepQueue: the table of entries.  SleepIInv holds whatever flags       *)
(* callers pass; that the interlock comes back with _sleep is a second     *)
(* layer.                                                                  *)
(***************************************************************************)

\* The threads in _sleep with entry e.
Users(e) == {t \in Thread : Sleeping(t) /\ se[t] = e}

\* A thread that has begun a sleep, or is about to, has a channel, and the
\* table has at most one entry for it, which it shares with no other.
Table ==
  /\ \A t \in Thread : Sleeping(t) \/ pc[t] \in {"test", "relock"} => chan[t] \in Chan
  /\ \A c \in Chan : se_active[c] # NULL => /\ se_active[c] \in Allocated
                                            /\ \A d \in Chan : se_active[d] = se_active[c] => d = c

\* The inductive invariant of the table, with or without PDROP.
SleepIInv == SleepTypeOK /\ WaitersExact /\ EntryIsMine /\ Table

\* Threads can be counted.
LEMMA UsersFinite ==
  ASSUME NEW S \in SUBSET Thread
  PROVE  IsFiniteSet(S) /\ Cardinality(S) \in Nat /\ Cardinality(S) <= Cardinality(Thread)
         /\ Cardinality(Thread) \in Nat /\ (Cardinality(S) = 0 <=> S = {})
  BY ThreadAssumption, FS_Subset, FS_CardinalityType, FS_EmptySet

\* A step that leaves the table alone and neither puts a thread to sleep nor
\* ends its sleep.
LEMMA SameSleepers ==
  ASSUME SleepIInv, SleepTypeOK', UNCHANGED <<se_active, waiters, se>>,
         \A u \in Thread :
           /\ Sleeping(u)' <=> Sleeping(u)
           /\ Sleeping(u) => chan'[u] = chan[u]
           /\ pc'[u] \in {"test", "relock"} =>
                chan'[u] \in Chan \/ (pc[u] \in {"test", "relock"} /\ chan'[u] = chan[u])
  PROVE  SleepIInv'
<1>1. \A e : Users(e)' = Users(e)
  BY DEF Users
<1>2. WaitersExact'
  BY <1>1 DEF SleepIInv, WaitersExact, Users, Allocated
<1>3. EntryIsMine'
  BY DEF SleepIInv, EntryIsMine, Allocated
<1>4. Table'
  BY DEF SleepIInv, Table, Allocated
<1> QED
  BY <1>2, <1>3, <1>4 DEF SleepIInv

\* The steps of _sleep and its callers outside of the table.
LEMMA QuietStep ==
  ASSUME SleepIInv, NEW t \in Thread,
         \/ Take(t) \/ CvWait(t) \/ CvReturn(t) \/ CvTimeout(t) \/ CvSpurious(t) \/ Relock(t)
         \/ TsleepReturn(t) \/ TsleepDone(t)
         \/ \E c \in Chan : Enter(t, c) \/ Tsleep(t, c)
  PROVE  SleepIInv'
<1> USE ThreadAssumption DEF argVars
<1>1. SleepTypeOK
  BY Zenon DEF SleepIInv
<1>2. CASE Take(t)
  <2>1. chan[t] \in Chan
    BY <1>2 DEF SleepIInv, Table, Take
  <2>2. SleepTypeOK'
    BY <1>1, <1>2, <2>1 DEF SleepTypeOK, Take, Allocated
  <2> QED
    BY <1>1, <1>2, <2>2, SameSleepers DEF SleepTypeOK, Take, Sleeping
<1>3. CASE CvWait(t)
  <2>1. SleepTypeOK'
    BY <1>1, <1>3, Zenon DEF SleepTypeOK, CvWait, Allocated
  <2> QED
    BY <1>1, <1>3, <2>1, SameSleepers, Zenon DEF SleepTypeOK, CvWait, Sleeping
<1>4. CASE CvReturn(t)
  <2>1. SleepTypeOK'
    BY <1>1, <1>4, Zenon DEF SleepTypeOK, CvReturn, Allocated
  <2> QED
    BY <1>1, <1>4, <2>1, SameSleepers, ZenonT(60) DEF SleepTypeOK, CvReturn, Sleeping
<1>5. CASE CvTimeout(t)
  <2>1. SleepTypeOK'
    BY <1>1, <1>5, Zenon DEF SleepTypeOK, CvTimeout, Allocated
  <2> QED
    BY <1>1, <1>5, <2>1, SameSleepers DEF SleepTypeOK, CvTimeout, Sleeping
<1>6. CASE CvSpurious(t)
  <2>1. SleepTypeOK'
    BY <1>1, <1>6, ZenonT(60) DEF SleepTypeOK, CvSpurious, Allocated
  <2> QED
    BY <1>1, <1>6, <2>1, SameSleepers DEF SleepTypeOK, CvSpurious, Sleeping
<1>7. CASE Relock(t)
  <2>1. SleepTypeOK'
    BY <1>1, <1>7, Zenon DEF SleepTypeOK, Relock, Allocated
  <2> QED
    BY <1>1, <1>7, <2>1, SameSleepers DEF SleepTypeOK, Relock, Sleeping
<1>8. CASE TsleepReturn(t)
  <2>1. SleepTypeOK'
    BY <1>1, <1>8, ZenonT(60) DEF SleepTypeOK, TsleepReturn, Allocated
  <2> QED
    BY <1>1, <1>8, <2>1, SameSleepers DEF SleepTypeOK, TsleepReturn, Sleeping
<1>9. CASE TsleepDone(t)
  <2>1. SleepTypeOK'
    BY <1>1, <1>9, ZenonT(60) DEF SleepTypeOK, TsleepDone, Allocated
  <2> QED
    BY <1>1, <1>9, <2>1, SameSleepers DEF SleepTypeOK, TsleepDone, Sleeping
<1>10. ASSUME NEW c \in Chan, Enter(t, c) PROVE SleepIInv'
  <2>1. SleepTypeOK'
    BY <1>1, <1>10, ZenonT(60) DEF SleepTypeOK, Enter, Allocated
  <2> QED
    BY <1>1, <1>10, <2>1, SameSleepers DEF SleepTypeOK, Enter, Sleeping
<1>11. ASSUME NEW c \in Chan, Tsleep(t, c) PROVE SleepIInv'
  <2>1. SleepTypeOK'
    BY <1>1, <1>11 DEF SleepTypeOK, Tsleep, Allocated
  <2> QED
    BY <1>1, <1>11, <2>1, SameSleepers DEF SleepTypeOK, Tsleep, Sleeping
<1> QED
  BY <1>2, <1>3, <1>4, <1>5, <1>6, <1>7, <1>8, <1>9, <1>10, <1>11, Zenon

\* Items are put and threads woken: they stay within _sleep.
LEMMA WakeStep ==
  ASSUME SleepIInv, NEW c \in Chan, Put(c) \/ Wakeup(c)
  PROVE  SleepIInv'
<1> USE ThreadAssumption DEF argVars
<1>1. SleepTypeOK
  BY Zenon DEF SleepIInv
<1>2. CASE Put(c)
  <2>1. SleepTypeOK'
    BY <1>1, <1>2 DEF SleepTypeOK, Put, Allocated
  <2> QED
    BY <1>1, <1>2, <2>1, SameSleepers, Zenon DEF SleepTypeOK, Put, Sleeping
<1>3. CASE Wakeup(c)
  <2>1. PICK W \in SUBSET WaitingOn(c) : Wake(W)
    BY <1>3, Zenon DEF Wakeup, wakeup, wakeup_one
  <2>2. /\ pc' \in [Thread -> {"out", "test", "enqueued", "wait", "woken", "return",
                               "relock", "tsleep", "tslept"}]
        /\ \A u \in Thread : pc'[u] = pc[u] \/ (pc[u] = "wait" /\ pc'[u] = "woken")
    BY <1>1, <2>1 DEF Wake, WaitingOn, SleepTypeOK
  <2>3. awakened' \in [Thread -> BOOLEAN]
    BY <1>1, <2>1, Zenon DEF Wake, SleepTypeOK
  <2>4. owed' \in [Chan -> 0 .. MaxItems]
    BY <1>1, <1>3 DEF Wakeup, SleepTypeOK
  <2>5. SleepTypeOK'
    BY <1>1, <1>3, <2>2, <2>3, <2>4 DEF SleepTypeOK, Wakeup, Allocated
  <2> QED
    BY <1>1, <1>3, <2>2, <2>5, SameSleepers DEF SleepTypeOK, Wakeup, Sleeping
<1> QED
  BY <1>2, <1>3

\* A thread is counted as a user of its channel's entry, which is there
\* already or is allocated.
LEMMA SleepStep ==
  ASSUME SleepIInv, NEW t \in Thread, Sleep(t)
  PROVE  SleepIInv'
<1> USE ThreadAssumption
<1>1. SleepTypeOK /\ WaitersExact /\ EntryIsMine /\ Table /\ pc[t] = "test"
  BY DEF SleepIInv, Sleep
<1>2. PICK c \in Chan : c = chan[t]
  BY <1>1, Zenon DEF Table
<1>3. /\ pc' = [pc EXCEPT ![t] = "enqueued"] /\ ~Sleeping(t) /\ Sleeping(t)'
      /\ \A u \in Thread : u # t => (Sleeping(u)' <=> Sleeping(u)) /\ pc'[u] = pc[u]
      /\ chan' = chan
  BY <1>1 DEF Sleep, Sleeping, SleepTypeOK
<1>4. PICK e \in Entry :
        /\ se' = [se EXCEPT ![t] = e] /\ se_active' = [se_active EXCEPT ![c] = e]
        /\ Allocated' = Allocated \cup {e} /\ (se_active[c] # NULL => e \in Allocated)
        /\ se_active[c] \in {NULL, e} /\ (se_active[c] = NULL => e \notin Allocated)
        /\ waiters' = [x \in Allocated \cup {e} |->
                         IF x = e THEN IF e \in Allocated THEN waiters[e] + 1 ELSE 1 ELSE waiters[x]]
  <2>1. CASE se_active[c] # NULL
    <3>1. se_active[c] \in Allocated
      BY <1>1, <2>1 DEF Table
    <3>2. waiters' = [waiters EXCEPT ![se_active[c]] = @ + 1] /\ se' = [se EXCEPT ![t] = se_active[c]]
          /\ se_active' = se_active
      BY <1>2, <2>1 DEF Sleep
    <3>3. Allocated' = Allocated /\ Allocated \cup {se_active[c]} = Allocated
      BY <3>1, <3>2 DEF Allocated
    <3>4. waiters' = [x \in Allocated |-> IF x = se_active[c] THEN waiters[x] + 1 ELSE waiters[x]]
      BY <1>1, <3>1, <3>2, Zenon DEF SleepTypeOK, Allocated
    <3>5. se_active' = [se_active EXCEPT ![c] = se_active[c]] /\ se_active[c] \in Entry
      BY <1>1, <3>1, <3>2 DEF SleepTypeOK
    <3> QED
      BY <2>1, <3>1, <3>2, <3>3, <3>4, <3>5, Zenon
  <2>2. CASE se_active[c] = NULL
    <3>1. PICK e \in Entry \ Allocated :
            /\ waiters' = [x \in Allocated \cup {e} |-> IF x = e THEN 1 ELSE waiters[x]]
            /\ se_active' = [se_active EXCEPT ![c] = e] /\ se' = [se EXCEPT ![t] = e]
      BY <1>2, <2>2, Zenon DEF Sleep
    <3> QED
      BY <2>2, <3>1, Zenon DEF Allocated
  <2> QED
    BY <2>1, <2>2, Zenon
<1>5. /\ se' \in [Thread -> Entry \cup {NULL}] /\ se'[t] = e
      /\ \A u \in Thread : u # t => se'[u] = se[u]
      /\ se_active' \in [Chan -> Entry \cup {NULL}] /\ se_active'[c] = e
      /\ \A d \in Chan : d # c => se_active'[d] = se_active[d]
  BY <1>1, <1>4, ZenonT(60) DEF SleepTypeOK
<1>6. Users(e)' = Users(e) \cup {t} /\ t \notin Users(e)
      /\ \A x \in Entry : x # e => Users(x)' = Users(x)
  BY <1>3, <1>5 DEF Users
<1>7. Cardinality(Users(e)') = Cardinality(Users(e)) + 1 /\ Cardinality(Users(e)) \in Nat
  <2>1. Users(e) \in SUBSET Thread
    BY DEF Users
  <2> QED
    BY <1>6, <2>1, UsersFinite, FS_AddElement
<1>8. e \notin Allocated => Users(e) = {}
  BY <1>1 DEF EntryIsMine, Users
<1>9. WaitersExact'
  <2>1. \A x \in Allocated : waiters[x] = Cardinality(Users(x))
    BY <1>1 DEF WaitersExact, Users
  <2>2. waiters'[e] = Cardinality(Users(e)')
    <3>1. CASE e \in Allocated
      BY <1>4, <1>7, <2>1, <3>1
    <3>2. CASE e \notin Allocated
      <4>1. Cardinality(Users(e)) = 0
        BY <1>8, <3>2, FS_EmptySet
      <4>2. waiters'[e] = 1
        BY <1>4, <3>2, Zenon
      <4> QED
        BY <1>7, <4>1, <4>2
    <3> QED
      BY <3>1, <3>2
  <2>3. \A x \in Allocated' : x # e => waiters'[x] = Cardinality(Users(x)')
    BY <1>1, <1>4, <1>6, <2>1 DEF SleepTypeOK
  <2>4. \A x \in Allocated' : waiters'[x] = Cardinality(Users(x)')
    BY <2>2, <2>3
  <2> QED
    BY <2>4 DEF WaitersExact, Users
<1>10. EntryIsMine'
  <2> SUFFICES ASSUME NEW u \in Thread, Sleeping(u)'
               PROVE  se'[u] \in Allocated' /\ se_active'[chan'[u]] = se'[u]
    BY Zenon DEF EntryIsMine
  <2>1. CASE u = t
    BY <1>2, <1>3, <1>4, <1>5, <2>1, Zenon
  <2>2. CASE u # t
    <3>1. chan[u] \in Chan /\ se[u] \in Allocated /\ se_active[chan[u]] = se[u] /\ se[u] # NULL
      BY <1>1, <1>3, <2>2 DEF EntryIsMine, Table, SleepTypeOK
    <3> QED
      BY <1>3, <1>4, <1>5, <2>2, <3>1, Zenon
  <2> QED
    BY <2>1, <2>2
<1>11. Table'
  <2>1. \A u \in Thread : Sleeping(u)' \/ pc'[u] \in {"test", "relock"} => chan'[u] \in Chan
    BY <1>1, <1>2, <1>3, Zenon DEF Table
  <2>2. \A d \in Chan : d # c => se_active[d] # e
    BY <1>1, <1>4, ZenonT(60) DEF Table
  <2>3. \A d \in Chan : se_active'[d] # NULL =>
          /\ se_active'[d] \in Allocated' /\ \A f \in Chan : se_active'[f] = se_active'[d] => f = d
    BY <1>1, <1>4, <1>5, <2>2 DEF Table
  <2> QED
    BY <2>1, <2>3, Zenon DEF Table
<1>12. SleepTypeOK'
  <2>1. waiters' \in [Allocated' -> 1 .. Cardinality(Thread)] /\ Allocated' \subseteq Entry
    <3>1. \A x \in Allocated' : waiters'[x] = Cardinality(Users(x)') /\ Users(x)' \in SUBSET Thread
      BY <1>9 DEF WaitersExact, Users
    <3>2. \A x \in Allocated' : waiters'[x] >= 1
      BY <1>1, <1>4 DEF SleepTypeOK
    <3>3. \A x \in Allocated' : waiters'[x] \in 1 .. Cardinality(Thread)
      BY <3>1, <3>2, UsersFinite
    <3> QED
      BY <1>1, <1>4, <3>3, Zenon DEF SleepTypeOK
  <2>2. /\ lock' = lock /\ items' = items /\ owed' = owed /\ rv' = [rv EXCEPT ![t] = "0"]
        /\ awakened' = [awakened EXCEPT ![t] = FALSE] /\ \E b \in BOOLEAN : timo' = [timo EXCEPT ![t] = b]
        /\ \E p \in Priorities : prio' = [prio EXCEPT ![t] = p]
    BY Zenon DEF Sleep
  <2> QED
    BY <1>1, <1>3, <1>5, <2>1, <2>2 DEF SleepTypeOK
<1> QED
  BY <1>9, <1>10, <1>11, <1>12, Zenon DEF SleepIInv

\* The last user frees the entry and takes it out of the table.
LEMMA SeFreeStep ==
  ASSUME SleepIInv, NEW t \in Thread, SeFree(t)
  PROVE  SleepIInv'
<1> USE ThreadAssumption
<1>1. SleepTypeOK /\ WaitersExact /\ EntryIsMine /\ Table /\ pc[t] = "return"
  BY DEF SleepIInv, SeFree
<1>2. PICK c \in Chan, e \in Entry :
        c = chan[t] /\ e = se[t] /\ e \in Allocated /\ se_active[c] = e /\ e # NULL
  BY <1>1 DEF Table, EntryIsMine, Sleeping, SleepTypeOK
<1>3. /\ pc' \in [Thread -> {"out", "test", "enqueued", "wait", "woken", "return",
                             "relock", "tsleep", "tslept"}]
      /\ pc'[t] \in {"test", "relock"} /\ Sleeping(t) /\ ~Sleeping(t)'
      /\ \A u \in Thread : u # t => (Sleeping(u)' <=> Sleeping(u)) /\ pc'[u] = pc[u]
      /\ chan' = chan
  BY <1>1 DEF SeFree, Sleeping, SleepTypeOK
<1>4. /\ se' \in [Thread -> Entry \cup {NULL}] /\ se'[t] = NULL
      /\ \A u \in Thread : u # t => se'[u] = se[u]
  BY <1>1, Zenon DEF SeFree, SleepTypeOK
<1>5. t \in Users(e) /\ Users(e)' = Users(e) \ {t} /\ \A x \in Entry : x # e => Users(x)' = Users(x)
  BY <1>2, <1>3, <1>4 DEF Users
<1>6. \A x \in Allocated : waiters[x] = Cardinality(Users(x)) /\ waiters[x] \in 1 .. Cardinality(Thread)
  BY <1>1, Zenon DEF WaitersExact, Users, SleepTypeOK
<1>7. Cardinality(Users(e)') = waiters[e] - 1 /\ (waiters[e] = 1 => Users(e)' = {})
  <2>1. Users(e) \in SUBSET Thread /\ Users(e)' \in SUBSET Thread
    BY DEF Users
  <2>2. IsFiniteSet(Users(e)) /\ IsFiniteSet(Users(e)') /\ Cardinality(Users(e)) \in Nat
    BY <2>1, UsersFinite
  <2>3. Cardinality(Users(e)') = Cardinality(Users(e)) - 1
    BY <1>5, <2>2, FS_RemoveElement, ZenonT(60)
  <2> QED
    BY <1>2, <1>6, <2>2, <2>3, FS_EmptySet
<1>8. /\ \A x \in Allocated' : x \in Allocated /\ waiters'[x] = IF x = e THEN waiters[x] - 1 ELSE waiters[x]
      /\ \A x \in Allocated : x \in Allocated' <=> x # e \/ waiters[e] # 1
      /\ waiters' \in [Allocated' -> 1 .. Cardinality(Thread)]
      /\ se_active' = IF waiters[e] = 1 THEN [se_active EXCEPT ![c] = NULL] ELSE se_active
  <2>1. waiters[e] \in 1 .. Cardinality(Thread) /\ Cardinality(Thread) \in Nat
    BY <1>2, <1>6, ThreadAssumption, FS_CardinalityType, Zenon
  <2>2. CASE waiters[e] > 1
    <3>1. waiters' = [waiters EXCEPT ![e] = @ - 1] /\ se_active' = se_active
      BY <1>2, <2>1, <2>2 DEF SeFree
    <3>2. Allocated' = Allocated
      BY <3>1, Zenon DEF Allocated
    <3>3. \A x \in Allocated : waiters'[x] = IF x = e THEN waiters[x] - 1 ELSE waiters[x]
      BY <1>1, <3>1 DEF SleepTypeOK
    <3>4. waiters' \in [Allocated -> 1 .. Cardinality(Thread)]
      <4>1. waiters[e] - 1 \in 1 .. Cardinality(Thread)
        BY <2>1, <2>2
      <4> QED
        BY <1>1, <3>1, <4>1, Zenon DEF SleepTypeOK
    <3> QED
      BY <2>1, <2>2, <3>1, <3>2, <3>3, <3>4
  <2>3. CASE waiters[e] = 1
    <3>1. waiters' = [x \in Allocated \ {e} |-> waiters[x]] /\ se_active' = [se_active EXCEPT ![c] = NULL]
      BY <1>2, <2>1, <2>3 DEF SeFree
    <3>2. Allocated' = Allocated \ {e}
      BY <3>1 DEF Allocated
    <3> QED
      BY <1>6, <2>3, <3>1, <3>2, ZenonT(60)
  <2> QED
    BY <2>1, <2>2, <2>3
<1>9. /\ se_active' \in [Chan -> Entry \cup {NULL}]
      /\ \A d \in Chan : se_active'[d] = IF d = c /\ waiters[e] = 1 THEN NULL ELSE se_active[d]
  BY <1>1, <1>8, Zenon DEF SleepTypeOK
<1>10. WaitersExact'
  <2>1. \A x \in Allocated' : waiters'[x] = Cardinality(Users(x)')
    BY <1>1, <1>5, <1>6, <1>7, <1>8, Zenon DEF SleepTypeOK
  <2> QED
    BY <2>1 DEF WaitersExact, Users
<1>11. EntryIsMine'
  <2> SUFFICES ASSUME NEW u \in Thread, Sleeping(u)'
               PROVE  se'[u] \in Allocated' /\ se_active'[chan'[u]] = se'[u]
    BY DEF EntryIsMine
  <2>1. u # t /\ se'[u] = se[u] /\ Sleeping(u)
    BY <1>3, <1>4, Zenon
  <2>2. chan[u] \in Chan /\ se[u] \in Allocated /\ se_active[chan[u]] = se[u]
    BY <1>1, <2>1, Zenon DEF EntryIsMine, Table
  <2>3. waiters[e] = 1 => se[u] # e
    BY <1>7, <2>1, Zenon DEF Users
  <2> QED
    BY <1>2, <1>3, <1>8, <1>9, <2>1, <2>2, <2>3, Zenon
<1>12. Table'
  <2>1. \A u \in Thread : Sleeping(u)' \/ pc'[u] \in {"test", "relock"} => chan'[u] \in Chan
    BY <1>1, <1>2, <1>3, Zenon DEF Table
  <2>2. \A d \in Chan : se_active[d] = e => d = c
    BY <1>1, <1>2, ZenonT(60) DEF Table
  <2>3. \A d \in Chan : se_active'[d] # NULL =>
          /\ se_active'[d] \in Allocated' /\ \A f \in Chan : se_active'[f] = se_active'[d] => f = d
    BY <1>1, <1>8, <1>9, <2>2 DEF Table
  <2> QED
    BY <2>1, <2>3 DEF Table
<1>13. SleepTypeOK'
  <2>1. lock' = lock /\ items' = items /\ owed' = owed /\ rv' = rv /\ prio' = prio
        /\ awakened' = awakened /\ timo' = [timo EXCEPT ![t] = FALSE]
    BY Zenon DEF SeFree
  <2>2. Allocated' \subseteq Entry
    BY <1>1, <1>8 DEF SleepTypeOK
  <2> QED
    BY <1>1, <1>3, <1>4, <1>8, <1>9, <2>1, <2>2, Zenon DEF SleepTypeOK
<1> QED
  BY <1>10, <1>11, <1>12, <1>13, ZenonT(60) DEF SleepIInv

\* synch_setup: the table is empty and nobody sleeps.
LEMMA SleepInitIInv == SleepInit => SleepIInv
<1> SUFFICES ASSUME SleepInit PROVE SleepIInv
  OBVIOUS
<1> USE ThreadAssumption
<1>1. Allocated = {} /\ \A t \in Thread : pc[t] = "out"
  BY DEF SleepInit, Allocated
<1>2. SleepTypeOK
  BY <1>1 DEF SleepInit, SleepTypeOK
<1>3. WaitersExact /\ EntryIsMine /\ Table
  BY <1>1 DEF SleepInit, WaitersExact, EntryIsMine, Table, Sleeping
<1> QED
  BY <1>2, <1>3 DEF SleepIInv

\* Every step keeps the invariant, that of a caller with PDROP included.
LEMMA SleepIInvStep == SleepIInv /\ [SleepNext \/ \E t \in Thread : Relock(t)]_sleepVars => SleepIInv'
<1> SUFFICES ASSUME SleepIInv, [SleepNext \/ \E t \in Thread : Relock(t)]_sleepVars PROVE SleepIInv'
  BY Zenon
<1>1. CASE UNCHANGED sleepVars
  <2>1. SleepTypeOK'
    BY <1>1 DEF SleepIInv, sleepVars, argVars, SleepTypeOK, Allocated
  <2> QED
    BY <1>1, <2>1, SameSleepers, Zenon DEF sleepVars, argVars, Sleeping
<1>2. ASSUME NEW t \in Thread, Run(t) \/ CvTimeout(t) \/ CvSpurious(t) \/ Relock(t)
               \/ \E c \in Chan : Enter(t, c) \/ Tsleep(t, c)
      PROVE  SleepIInv'
  BY <1>2, QuietStep, SleepStep, SeFreeStep DEF Run
<1>3. ASSUME NEW c \in Chan, Put(c) \/ Wakeup(c) PROVE SleepIInv'
  BY <1>3, WakeStep
<1> QED
  BY <1>1, <1>2, <1>3 DEF SleepNext

\* A thread in _sleep finds its channel's entry allocated and in the table
\* until it leaves it (se_free), for any threads, channels and flags of the
\* callers, those included that pass PDROP.
THEOREM EntriesNeverFreedUnderUser == (SleepSpec => []EntryIsMine) /\ (PdropSpec => []EntryIsMine)
<1>1. SleepIInv => EntryIsMine
  BY DEF SleepIInv
<1>2. SleepIInv /\ [SleepNext]_sleepVars => SleepIInv'
  BY SleepIInvStep
<1>3. SleepSpec => []EntryIsMine
  BY SleepInitIInv, <1>1, <1>2, PTL DEF SleepSpec
<1>4. PdropSpec => []EntryIsMine
  BY SleepInitIInv, SleepIInvStep, <1>1, PTL DEF PdropSpec
<1> QED
  BY <1>3, <1>4

\* Without PDROP the interlock has one owner, who tests its condition or is
\* in one of the parts of _sleep around the wait.
LEMMA InterlockStep ==
  ASSUME "PDROP" \notin Priorities, SleepIInv, InterlockHeld, [SleepNext]_sleepVars
  PROVE  InterlockHeld'
<1> USE ThreadAssumption DEF argVars
<1>1. /\ pc \in [Thread -> {"out", "test", "enqueued", "wait", "woken", "return",
                            "relock", "tsleep", "tslept"}]
      /\ \A t \in Thread : prio[t] # "PDROP"
  BY DEF SleepIInv, SleepTypeOK
<1> DEFINE Holds(t) == pc[t] \in {"test", "enqueued", "return"}
<1>2. CASE UNCHANGED <<pc, lock>>
  BY <1>2, Zenon DEF InterlockHeld
<1>3. ASSUME NEW t \in Thread, lock = t \/ lock = NULL, lock' = NULL \/ lock' = t,
             \A u \in Thread : u # t => pc'[u] = pc[u], Holds(t)' <=> lock' = t
      PROVE  InterlockHeld'
  BY <1>3 DEF InterlockHeld
<1>4. ASSUME NEW t \in Thread, Run(t) PROVE InterlockHeld'
  <2>1. CASE Take(t) \/ CvWait(t)
    BY <1>1, <1>3, <2>1, Zenon DEF Take, CvWait, InterlockHeld
  <2>2. CASE CvReturn(t)
    BY <1>1, <1>3, <2>2 DEF CvReturn
  <2>3. CASE Sleep(t)
    <3>1. lock = t /\ lock' = lock /\ pc' = [pc EXCEPT ![t] = "enqueued"]
      BY <2>3, Zenon DEF Sleep, InterlockHeld
    <3> QED
      BY <1>1, <1>3, <3>1, Zenon
  <2>4. CASE SeFree(t)
    <3>1. lock = t /\ lock' = lock /\ pc' = [pc EXCEPT ![t] = "test"]
      BY <1>1, <2>4, Zenon DEF SeFree, InterlockHeld
    <3> QED
      BY <1>1, <1>3, <3>1, Zenon
  <2>5. CASE TsleepReturn(t) \/ TsleepDone(t)
    BY <1>1, <2>5 DEF TsleepReturn, TsleepDone, InterlockHeld
  <2> QED
    BY <1>4, <2>1, <2>2, <2>3, <2>4, <2>5, Zenon DEF Run
<1>5. ASSUME NEW t \in Thread, CvTimeout(t) \/ CvSpurious(t) PROVE InterlockHeld'
  BY <1>1, <1>5 DEF CvTimeout, CvSpurious, InterlockHeld
<1>6. ASSUME NEW t \in Thread, NEW c \in Chan, Enter(t, c) PROVE InterlockHeld'
  BY <1>1, <1>3, <1>6, Zenon DEF Enter
<1>7. ASSUME NEW t \in Thread, NEW c \in Chan, Tsleep(t, c) PROVE InterlockHeld'
  BY <1>1, <1>7, Zenon DEF Tsleep, InterlockHeld
<1>8. ASSUME NEW c \in Chan, Wakeup(c) PROVE InterlockHeld'
  <2>1. PICK W \in SUBSET WaitingOn(c) : Wake(W)
    BY <1>8, Zenon DEF Wakeup, wakeup, wakeup_one
  <2>2. \A u \in Thread : pc'[u] = pc[u] \/ (pc[u] = "wait" /\ pc'[u] = "woken")
    BY <1>1, <2>1 DEF Wake, WaitingOn
  <2> QED
    BY <1>8, <2>2, Zenon DEF Wakeup, InterlockHeld
<1>9. ASSUME NEW c \in Chan, Put(c) PROVE InterlockHeld'
  BY <1>2, <1>9 DEF Put
<1>10. CASE UNCHANGED sleepVars
  BY <1>2, <1>10 DEF sleepVars
<1> QED
  BY <1>4, <1>5, <1>6, <1>7, <1>8, <1>9, <1>10, Zenon DEF SleepNext

\* An entry's count is that of the threads in _sleep on it, so that the last
\* to leave, and no one else, frees it, and _sleep returns with the interlock
\* it released.  For callers that do not pass PDROP, which _sleep ignores.
THEOREM SleepInvariant == ASSUME "PDROP" \notin Priorities PROVE SleepSpec => []SleepInv
<1> DEFINE Inv == SleepIInv /\ InterlockHeld
<1>1. SleepInit => Inv
  BY SleepInitIInv, ThreadAssumption DEF SleepInit, InterlockHeld
<1>2. Inv /\ [SleepNext]_sleepVars => Inv'
  BY SleepIInvStep, InterlockStep
<1>3. Inv => SleepInv
  BY Zenon DEF SleepIInv, SleepInv
<1> QED
  BY <1>1, <1>2, <1>3, PTL DEF SleepSpec

-----------------------------------------------------------------------------
(***************************************************************************)
(* NetmapTx: IInv is the inductive invariant.  Count and Phase relate the  *)
(* count to where the thread and the senders are, Space the thread's idea  *)
(* of the ring to the ring, and the Order parts say that packets rise from *)
(* the wire over the ring and the hand to the queue.                       *)
(***************************************************************************)

\* One packet, or none, is between the queue and the ring.
Hand == IF m = None THEN 0 ELSE 1

\* The slots filled since the last sync, and what is in them.
Filled == (cur - txcur) % NSlots
InSlot(i) == slot[(txcur + i) % NSlots]

\* Every variable has its type; a queue or a ring is never beyond its size.
Types ==
  /\ if_snd \in Seq(1 .. MaxPkts) /\ Len(if_snd) <= QLen /\ queued \in 0 .. MaxPkts
  /\ spc \in [Sender -> {"idle", "queued"}]
  /\ tx_pkts_to_send \in Int /\ opackets \subseteq 1 .. MaxPkts
  /\ tpc \in {"top", "wait", "woken", "dequeue", "room", "fill", "sync", "ack", "stopped"}
  /\ m \in 1 .. MaxPkts \cup {None} /\ done \in BOOLEAN
  /\ cur \in 0 .. NSlots - 1 /\ txcur \in 0 .. NSlots - 1
  /\ avail \in 0 .. NSlots - 1 /\ space \in 0 .. NSlots - 1 /\ pkts_sent \in Nat
  /\ slot \in [0 .. NSlots - 1 -> 1 .. MaxPkts \cup {None}]
  /\ wire \in Seq(1 .. MaxPkts)
  /\ stop_req \in BOOLEAN /\ due \in BOOLEAN

\* tx_pkts_to_send, with what senders have queued and not yet counted, is
\* what is queued, in hand or in slots not handed over.
Count ==
  /\ tx_pkts_to_send + Cardinality(Pending) = Len(if_snd) + Hand + pkts_sent
  /\ Len(if_snd) + Hand + pkts_sent <= queued

\* What the thread has in hand at each point of its loop.
Phase ==
  /\ tpc \in {"top", "wait", "woken", "dequeue"} => m = None /\ ~done
  /\ tpc \in {"wait", "woken", "dequeue"} => pkts_sent = 0
  /\ tpc = "wait" => tx_pkts_to_send = 0
  /\ tpc \in {"room", "fill"} => m # None /\ ~done
  /\ tpc = "fill" => avail > 0
  /\ tpc = "sync" => m = None \/ done
  /\ tpc \notin {"room", "fill", "sync"} \/ pkts_sent = 0 => cur = txcur

\* Slots filled and free ones together are no more than the kernel gave.
Space ==
  /\ avail <= space /\ Filled <= space
  /\ tpc = "fill" => avail + Filled <= space

\* Numbers, those of packets in the order of queueing, go up along s.
Rising(s) == \A i, j \in 1 .. Len(s) : i < j => s[i] < s[j]

\* All of q was queued before p.
AllBelow(q, p) == \A i \in 1 .. Len(q) : q[i] < p

\* r is q with p behind it.
Added(q, p, r) == \A i \in 1 .. Len(r) : \/ i \in 1 .. Len(q) /\ r[i] = q[i]
                                         \/ i = Len(q) + 1 /\ r[i] = p

\* r is q with b behind it.
Joined(q, b, r) ==
  \A i \in 1 .. Len(r) : \/ i \in 1 .. Len(q) /\ r[i] = q[i]
                         \/ i - Len(q) \in 1 .. Len(b) /\ r[i] = b[i - Len(q)]

\* All of q was queued before all of b.
Ahead(q, b) == \A j \in 1 .. Len(b) : AllBelow(q, b[j])

\* Packet p was queued before the one in hand and those in the queue.
Precedes(p) ==
  p <= queued /\ (m # None => p < m) /\ \A j \in 1 .. Len(if_snd) : p < if_snd[j]

\* The queue is in order, behind the packet in hand.
QueueOrder ==
  /\ Rising(if_snd) /\ \A i \in 1 .. Len(if_snd) : if_snd[i] <= queued
  /\ m # None => m <= queued /\ \A j \in 1 .. Len(if_snd) : m < if_snd[j]

\* What was sent is in order, before everything else.
WireOrder == Rising(wire) /\ \A i \in 1 .. Len(wire) : Precedes(wire[i])

\* The filled slots hold packets in order, between what was sent and the rest.
SlotOrder ==
  \A i \in 0 .. Filled - 1 :
    /\ InSlot(i) # None /\ Precedes(InSlot(i))
    /\ \A j \in 1 .. Len(wire) : wire[j] < InSlot(i)
    /\ \A j \in 0 .. Filled - 1 : i < j => InSlot(i) < InSlot(j)

\* The inductive invariant of the transmit thread.
IInv == Types /\ Count /\ Phase /\ Space /\ QueueOrder /\ WireOrder /\ SlotOrder

-----------------------------------------------------------------------------
\* Arithmetic of the ring, whose slots are 0 .. NSlots - 1 (NETMAP_RING_NEXT).
LEMMA Small == ASSUME NEW x \in 0 .. NSlots - 1 PROVE x % NSlots = x
  BY RingAssumption

\* An index past the end of the ring wraps once.
LEMMA Once == ASSUME NEW x \in NSlots .. 2 * NSlots - 1 PROVE x % NSlots = x - NSlots
  BY RingAssumption

\* An index before the start of the ring wraps once.
LEMMA Below == ASSUME NEW x \in -NSlots .. -1 PROVE x % NSlots = x + NSlots
  BY RingAssumption

\* cur is where the next packet goes: behind the filled slots, none of which
\* it overwrites.
LEMMA BatchEnds ==
  ASSUME cur \in 0 .. NSlots - 1, txcur \in 0 .. NSlots - 1
  PROVE  /\ Filled \in 0 .. NSlots - 1 /\ (Filled = 0 <=> cur = txcur)
         /\ (txcur + Filled) % NSlots = cur
         /\ \A i \in 0 .. Filled - 1 : (txcur + i) % NSlots \in (0 .. NSlots - 1) \ {cur}
         /\ \A i \in 0 .. NSlots - 1 : (txcur + i) % NSlots \in 0 .. NSlots - 1
<1> USE RingAssumption
<1>1. Filled = IF cur >= txcur THEN cur - txcur ELSE cur - txcur + NSlots
  <2>1. CASE cur >= txcur
    BY <2>1, Small DEF Filled
  <2>2. CASE cur < txcur
    BY <2>2, Below DEF Filled
  <2> QED
    BY <2>1, <2>2
<1>2. \A i \in 0 .. NSlots - 1 :
        (txcur + i) % NSlots = IF txcur + i < NSlots THEN txcur + i ELSE txcur + i - NSlots
  <2> SUFFICES ASSUME NEW i \in 0 .. NSlots - 1
      PROVE (txcur + i) % NSlots = IF txcur + i < NSlots THEN txcur + i ELSE txcur + i - NSlots
    OBVIOUS
  <2>1. CASE txcur + i < NSlots
    BY <2>1, Small
  <2>2. CASE txcur + i >= NSlots
    BY <2>2, Once
  <2> QED
    BY <2>1, <2>2
<1>3. Filled \in 0 .. NSlots - 1 /\ (Filled = 0 <=> cur = txcur)
  BY <1>1
<1>4. (txcur + Filled) % NSlots = cur
  BY <1>1, <1>2, <1>3
<1>5. \A i \in 0 .. Filled - 1 : (txcur + i) % NSlots \in (0 .. NSlots - 1) \ {cur}
  BY <1>1, <1>2, <1>3
<1> QED
  BY <1>2, <1>3, <1>4, <1>5

\* One more slot is filled.
LEMMA BatchGrows ==
  ASSUME cur \in 0 .. NSlots - 1, txcur \in 0 .. NSlots - 1, Filled + 1 < NSlots,
         cur' = (cur + 1) % NSlots, txcur' = txcur
  PROVE  cur' \in 0 .. NSlots - 1 /\ Filled' = Filled + 1
<1> USE RingAssumption
<1>1. Filled = IF cur >= txcur THEN cur - txcur ELSE cur - txcur + NSlots
  <2>1. CASE cur >= txcur
    BY <2>1, Small DEF Filled
  <2>2. CASE cur < txcur
    BY <2>2, Below DEF Filled
  <2> QED
    BY <2>1, <2>2
<1>2. cur' = IF cur + 1 < NSlots THEN cur + 1 ELSE 0
  <2>1. CASE cur + 1 < NSlots
    BY <2>1, Small
  <2>2. CASE cur + 1 = NSlots
    BY <2>2, Once
  <2> QED
    BY <2>1, <2>2
<1>3. Filled' = (cur' - txcur) % NSlots
  BY DEF Filled
<1>4. CASE cur' >= txcur
  BY <1>1, <1>2, <1>3, <1>4, Small
<1>5. CASE cur' < txcur
  BY <1>1, <1>2, <1>3, <1>5, Below
<1> QED
  BY <1>2, <1>4, <1>5

\* Senders can be counted.
LEMMA PendingFinite ==
  ASSUME NEW S \in SUBSET Sender
  PROVE  IsFiniteSet(S) /\ Cardinality(S) \in Nat /\ Cardinality(S) <= Cardinality(Sender)
         /\ Cardinality(Sender) \in Nat
  BY SenderAssumption, FS_Subset, FS_CardinalityType

\* A sequence and one more element.
LEMMA AppendIs ==
  ASSUME NEW S, NEW q \in Seq(S), NEW p \in S
  PROVE  /\ Append(q, p) \in Seq(S) /\ Len(q) \in Nat /\ Len(Append(q, p)) = Len(q) + 1
         /\ \A i \in 1 .. Len(q) : Append(q, p)[i] = q[i]
         /\ Append(q, p)[Len(q) + 1] = p
  OBVIOUS

\* A function on 1 .. n is a sequence.
LEMMA FunctionIs ==
  ASSUME NEW S, NEW n \in Nat, NEW f \in [1 .. n -> S]
  PROVE  f \in Seq(S) /\ Len(f) = n
<1>1. f \in Seq(S)
  OBVIOUS
<1>2. DOMAIN f = 1 .. n /\ DOMAIN f = 1 .. Len(f) /\ Len(f) \in Nat
  BY <1>1
<1> QED
  BY <1>1, <1>2

\* The elements of a sequence.
LEMMA ElementIs ==
  ASSUME NEW S, NEW q \in Seq(S)
  PROVE  Len(q) \in Nat /\ \A i \in 1 .. Len(q) : q[i] \in S
  OBVIOUS

\* A sequence without its head.
LEMMA TailIs ==
  ASSUME NEW S, NEW q \in Seq(S), q # <<>>
  PROVE  /\ Head(q) \in S /\ Tail(q) \in Seq(S) /\ Len(Tail(q)) = Len(q) - 1
         /\ \A j \in 1 .. Len(Tail(q)) : Tail(q)[j] = q[j + 1]
  OBVIOUS

\* The rest of a queue in order is in order, behind its head.
LEMMA TailRises ==
  ASSUME NEW q \in Seq(1 .. MaxPkts), q # <<>>, Rising(q)
  PROVE  /\ q[1] \in 1 .. MaxPkts /\ Tail(q) \in Seq(1 .. MaxPkts)
         /\ Len(q) \in Nat /\ Len(q) > 0 /\ Len(Tail(q)) = Len(q) - 1
         /\ Rising(Tail(q)) /\ \A j \in 1 .. Len(Tail(q)) : q[1] < Tail(q)[j]
         /\ \A j \in 1 .. Len(Tail(q)) : j + 1 \in 1 .. Len(q) /\ Tail(q)[j] = q[j + 1]
<1> DEFINE r == Tail(q)
<1>1. /\ q[1] \in 1 .. MaxPkts /\ r \in Seq(1 .. MaxPkts)
      /\ Len(q) \in Nat /\ Len(q) > 0 /\ Len(r) = Len(q) - 1
      /\ \A j \in 1 .. Len(r) : r[j] = q[j + 1]
  <2>1. Head(q) \in 1 .. MaxPkts /\ r \in Seq(1 .. MaxPkts) /\ Len(r) = Len(q) - 1
        /\ \A j \in 1 .. Len(r) : r[j] = q[j + 1]
    BY TailIs, Zenon
  <2>2. Head(q) = q[1] /\ Len(q) \in Nat /\ Len(q) > 0
    OBVIOUS
  <2> QED
    BY <2>1, <2>2
<1> HIDE DEF r
<1>2. \A j \in 1 .. Len(r) : j + 1 \in 1 .. Len(q) /\ r[j] = q[j + 1] /\ j + 1 > 1
  BY <1>1
<1>3. \A i, j \in 1 .. Len(q) : i < j => q[i] < q[j]
  BY DEF Rising
<1>4. \A j \in 1 .. Len(r) : q[1] < r[j]
  BY <1>1, <1>2, <1>3
<1>5. Rising(r)
  <2> SUFFICES ASSUME NEW i \in 1 .. Len(r), NEW j \in 1 .. Len(r), i < j PROVE r[i] < r[j]
    BY DEF Rising
  <2>1. i + 1 < j + 1
    BY <1>1
  <2> QED
    BY <1>2, <1>3, <2>1
<1> QED
  BY <1>1, <1>2, <1>4, <1>5 DEF r

\* What a dequeue does to the packets' order, and to their number.
LEMMA DequeuedIs ==
  ASSUME Types, QueueOrder, Dequeued, queued' = queued
  PROVE  /\ m' \in 1 .. MaxPkts \cup {None} /\ if_snd' \in Seq(1 .. MaxPkts) /\ Len(if_snd') <= QLen
         /\ QueueOrder' /\ Len(if_snd') + Hand' = Len(if_snd)
         /\ \A p \in 1 .. MaxPkts : p = m \/ Precedes(p) => Precedes(p)'
<1> USE QAssumption, SenderAssumption
<1>1. if_snd \in Seq(1 .. MaxPkts) /\ Len(if_snd) \in Nat /\ Len(if_snd) <= QLen
      /\ m \in 1 .. MaxPkts \cup {None} /\ queued \in Nat
  BY DEF Types
<1>2. CASE if_snd = <<>>
  <2>1. m' = None /\ if_snd' = <<>> /\ Len(if_snd') = 0 /\ Len(if_snd) = 0
    BY <1>2 DEF Dequeued
  <2>2. 1 .. Len(if_snd') = {} /\ Len(if_snd') \in Nat
    BY <2>1
  <2>3. if_snd' \in Seq(1 .. MaxPkts) /\ Len(if_snd') <= QLen /\ Hand' = 0
    BY <1>1, <1>2, <2>1 DEF Hand
  <2>4. QueueOrder' /\ \A p \in 1 .. MaxPkts : p <= queued => Precedes(p)'
    BY <2>1, <2>2 DEF QueueOrder, Rising, Precedes
  <2>5. m # None => m \in 1 .. MaxPkts /\ m <= queued
    BY <1>1 DEF QueueOrder
  <2>6. \A p \in 1 .. MaxPkts : p = m \/ Precedes(p) => Precedes(p)'
    BY <1>1, <2>4, <2>5, SenderAssumption DEF Precedes
  <2>7. Len(if_snd') + Hand' = Len(if_snd)
    BY <2>1, <2>3
  <2> QED
    BY <2>1, <2>3, <2>4, <2>6, <2>7
<1>3. CASE if_snd # <<>>
  <2>1. m' = if_snd[1] /\ if_snd' = Tail(if_snd)
    BY <1>1, <1>3 DEF Dequeued
  <2>2. /\ if_snd[1] \in 1 .. MaxPkts /\ if_snd' \in Seq(1 .. MaxPkts) /\ Len(if_snd) > 0
        /\ Len(if_snd') = Len(if_snd) - 1 /\ Rising(if_snd')
        /\ \A j \in 1 .. Len(if_snd') : if_snd[1] < if_snd'[j]
        /\ \A j \in 1 .. Len(if_snd') : j + 1 \in 1 .. Len(if_snd) /\ if_snd'[j] = if_snd[j + 1]
    BY <1>1, <1>3, <2>1, TailRises, Zenon DEF QueueOrder
  <2>3. m' # None /\ m' \in 1 .. MaxPkts /\ Hand' = 1 /\ 1 \in 1 .. Len(if_snd)
    BY <1>1, <2>1, <2>2 DEF Hand
  <2>4. QueueOrder'
    <3>1. \A i \in 1 .. Len(if_snd) : if_snd[i] <= queued
      BY DEF QueueOrder
    <3>2. \A i \in 1 .. Len(if_snd') : if_snd'[i] <= queued'
      BY <2>2, <3>1, Zenon
    <3>3. m' <= queued'
      BY <2>1, <2>3, <3>1
    <3>4. Rising(if_snd)'
      BY <2>2 DEF Rising
    <3> QED
      BY <2>1, <2>2, <3>2, <3>3, <3>4 DEF QueueOrder
  <2>5. \A p \in 1 .. MaxPkts : p <= queued /\ (\A j \in 1 .. Len(if_snd) : p < if_snd[j]) => Precedes(p)'
    <3> SUFFICES ASSUME NEW p \in 1 .. MaxPkts, p <= queued, \A j \in 1 .. Len(if_snd) : p < if_snd[j]
                 PROVE  Precedes(p)'
      OBVIOUS
    <3>1. p < m'
      BY <2>1, <2>3
    <3>2. \A j \in 1 .. Len(if_snd') : p < if_snd'[j]
      BY <2>2, Zenon
    <3> QED
      BY <3>1, <3>2 DEF Precedes
  <2>6. \A p \in 1 .. MaxPkts : p = m \/ Precedes(p) => Precedes(p)'
    <3>1. m # None => m <= queued /\ \A j \in 1 .. Len(if_snd) : m < if_snd[j]
      BY DEF QueueOrder
    <3>2. \A p \in 1 .. MaxPkts : p # None
      OBVIOUS
    <3> QED
      BY <2>5, <3>1, <3>2, Zenon DEF Precedes
  <2> QED
    <3>1. Len(if_snd') <= QLen /\ Len(if_snd') + Hand' = Len(if_snd)
      BY <1>1, <2>2, <2>3
    <3> QED
      BY <2>2, <2>3, <2>4, <2>6, <3>1, Zenon
<1> QED
  BY <1>2, <1>3

-----------------------------------------------------------------------------
\* What was sent and what is in the slots stays in order while both stay as
\* they are and no packet gets behind one it preceded.
LEMMA OrderKept ==
  ASSUME Types, WireOrder, SlotOrder, wire' = wire, slot' = slot, cur' = cur, txcur' = txcur,
         \A p \in 1 .. MaxPkts : Precedes(p) => Precedes(p)'
  PROVE  WireOrder' /\ SlotOrder'
<1> USE RingAssumption
<1>1. Filled' = Filled /\ Filled \in 0 .. NSlots - 1
      /\ \A i \in 0 .. NSlots - 1 : (txcur + i) % NSlots \in 0 .. NSlots - 1
  BY BatchEnds DEF Types, Filled
<1>2. \A i \in 0 .. NSlots - 1 : InSlot(i)' = InSlot(i) /\ InSlot(i) \in 1 .. MaxPkts \cup {None}
  BY <1>1 DEF InSlot, Types
<1>3. \A i \in 1 .. Len(wire) : wire[i] \in 1 .. MaxPkts
  <2>1. wire \in Seq(1 .. MaxPkts)
    BY DEF Types
  <2> QED
    BY <2>1, ElementIs, Zenon
<1>4. WireOrder'
  <2>1. \A i \in 1 .. Len(wire') : Precedes(wire[i])'
    <3> SUFFICES ASSUME NEW i \in 1 .. Len(wire), NEW p \in 1 .. MaxPkts, wire[i] = p
                 PROVE  Precedes(p)'
      BY <1>3
    <3> QED
      BY DEF WireOrder
  <2> QED
    BY <2>1 DEF WireOrder, Rising
<1>5. SlotOrder'
  <2> SUFFICES ASSUME NEW i \in 0 .. Filled - 1
               PROVE  /\ InSlot(i)' # None /\ Precedes(InSlot(i))'
                      /\ \A j \in 1 .. Len(wire') : wire'[j] < InSlot(i)'
                      /\ \A j \in 0 .. Filled' - 1 : i < j => InSlot(i)' < InSlot(j)'
    BY <1>1 DEF SlotOrder
  <2>1. /\ InSlot(i) # None /\ Precedes(InSlot(i))
        /\ \A j \in 1 .. Len(wire) : wire[j] < InSlot(i)
        /\ \A j \in 0 .. Filled - 1 : i < j => InSlot(i) < InSlot(j)
    BY DEF SlotOrder
  <2>2. i \in 0 .. NSlots - 1 /\ \A j \in 0 .. Filled - 1 : j \in 0 .. NSlots - 1
    BY <1>1
  <2>3. PICK p \in 1 .. MaxPkts : InSlot(i) = p
    BY <1>2, <2>1, <2>2, Zenon
  <2>4. Precedes(p)' /\ InSlot(i)' = p
    BY <1>2, <2>1, <2>2, <2>3, Zenon
  <2>5. Precedes(InSlot(i))'
    BY <2>4, Zenon
  <2> QED
    BY <1>1, <1>2, <2>1, <2>2, <2>5, Zenon
<1> QED
  BY <1>4, <1>5

\* Packets stay ahead of each other while the queue and the packet in hand
\* stay as they are.
LEMMA QueueKept ==
  ASSUME QueueOrder, if_snd' = if_snd, queued' = queued, m' = m
  PROVE  QueueOrder' /\ Hand' = Hand /\ \A p \in 1 .. MaxPkts : Precedes(p) => Precedes(p)'
  BY DEF QueueOrder, Rising, Precedes, Hand

\* Nothing is queued, in hand or in a slot at first.
LEMMA InitHolds == Init => IInv
<1> SUFFICES ASSUME Init PROVE IInv
  OBVIOUS
<1> USE QAssumption, RingAssumption, SenderAssumption
<1>1. Types
  BY DEF Init, Types
<1>2. Pending = {} /\ Cardinality(Pending) = 0
  <2>1. Pending = {}
    BY DEF Init, Pending
  <2> QED
    BY <2>1, FS_EmptySet, Zenon
<1>3. if_snd = <<>> /\ wire = <<>> /\ Len(if_snd) = 0 /\ Len(wire) = 0
      /\ 1 .. Len(if_snd) = {} /\ 1 .. Len(wire) = {}
  BY DEF Init
<1>4. Filled = 0
  BY BatchEnds DEF Init
<1>5. Count
  BY <1>2, <1>3 DEF Init, Count, Hand
<1>6. Phase /\ Space
  BY <1>4 DEF Init, Phase, Space
<1>7. QueueOrder /\ WireOrder
  BY <1>3 DEF Init, QueueOrder, WireOrder, Rising
<1>8. SlotOrder
  BY <1>4 DEF SlotOrder
<1> QED
  BY <1>1, <1>5, <1>6, <1>7, <1>8, Zenon DEF IInv

\* A packet queued comes last.
LEMMA AppendRises ==
  ASSUME NEW q \in Seq(1 .. MaxPkts), NEW p \in 1 .. MaxPkts, NEW r, r = Append(q, p),
         Rising(q), AllBelow(q, p)
  PROVE  r \in Seq(1 .. MaxPkts) /\ Len(r) = Len(q) + 1 /\ Added(q, p, r) /\ Rising(r)
<1>1. r \in Seq(1 .. MaxPkts) /\ Len(q) \in Nat /\ Len(r) = Len(q) + 1
      /\ (\A i \in 1 .. Len(q) : r[i] = q[i]) /\ r[Len(q) + 1] = p
  BY AppendIs
<1>2. \A i \in 1 .. Len(r) : i \in 1 .. Len(q) \/ i = Len(q) + 1
  BY <1>1
<1>3. \A i \in 1 .. Len(r) : \/ i \in 1 .. Len(q) /\ r[i] = q[i]
                             \/ i = Len(q) + 1 /\ r[i] = p
  BY <1>1, <1>2, Zenon
<1>4. Rising(r)
  <2> SUFFICES ASSUME NEW i \in 1 .. Len(r), NEW j \in 1 .. Len(r), i < j PROVE r[i] < r[j]
    BY Zenon DEF Rising
  <2>1. i \in 1 .. Len(q) /\ r[i] = q[i]
    BY <1>1, <1>3
  <2>2. CASE j \in 1 .. Len(q)
    BY <1>1, <2>1, <2>2, Zenon DEF Rising
  <2>3. CASE j = Len(q) + 1
    BY <1>1, <2>1, <2>3, Zenon DEF AllBelow
  <2> QED
    BY <1>2, <2>2, <2>3, Zenon
<1> QED
  BY <1>1, <1>3, <1>4, Zenon DEF Added

\* IFQ_ENQUEUE: the new packet comes last, and is not counted yet.
LEMMA EnqueueStep ==
  ASSUME IInv, NEW s \in Sender, Enqueue(s)
  PROVE  IInv'
<1> USE QAssumption, RingAssumption, SenderAssumption
<1>0. Types /\ Count /\ Phase /\ Space /\ QueueOrder /\ WireOrder /\ SlotOrder
  BY DEF IInv
<1>1. /\ queued \in 0 .. MaxPkts /\ queued < MaxPkts /\ queued' = queued + 1
      /\ queued' \in 1 .. MaxPkts /\ if_snd' = Append(if_snd, queued')
      /\ if_snd \in Seq(1 .. MaxPkts) /\ Len(if_snd) \in Nat /\ Len(if_snd) < QLen
      /\ \A i \in 1 .. Len(if_snd) : if_snd[i] \in 1 .. MaxPkts
  <2>1. queued < MaxPkts /\ queued' = queued + 1 /\ if_snd' = Append(if_snd, queued') /\ Len(if_snd) < QLen
    BY Zenon DEF Enqueue
  <2>2. if_snd \in Seq(1 .. MaxPkts) /\ queued \in 0 .. MaxPkts
    BY <1>0, Zenon DEF Types
  <2>3. Len(if_snd) \in Nat /\ \A i \in 1 .. Len(if_snd) : if_snd[i] \in 1 .. MaxPkts
    BY <2>2
  <2>4. queued' \in 1 .. MaxPkts
    BY <2>1, <2>2
  <2> QED
    BY <2>1, <2>2, <2>3, <2>4, Zenon
<1>2. UNCHANGED <<tx_pkts_to_send, opackets, tpc, m, cur, avail, pkts_sent, done, slot, txcur,
                  space, wire, stop_req, due>>
  BY DEF Enqueue, locals, ringVars, stopVars
<1>3. \A i \in 1 .. Len(if_snd) : if_snd[i] < queued'
  BY <1>0, <1>1 DEF QueueOrder
<1>4. /\ if_snd' \in Seq(1 .. MaxPkts) /\ Len(if_snd') = Len(if_snd) + 1
      /\ Added(if_snd, queued', if_snd') /\ Rising(if_snd')
  <2>1. Rising(if_snd)
    BY <1>0 DEF QueueOrder
  <2>2. queued' \in 1 .. MaxPkts /\ if_snd \in Seq(1 .. MaxPkts) /\ if_snd' = Append(if_snd, queued')
    BY <1>1
  <2>3. AllBelow(if_snd, queued')
    BY <1>3 DEF AllBelow
  <2> QED
    BY <2>1, <2>2, <2>3, AppendRises, Zenon
<1>5. Cardinality(Pending') = Cardinality(Pending) + 1 /\ Cardinality(Pending) \in Nat
  <2>1. Pending' = Pending \cup {s} /\ s \notin Pending /\ Pending \in SUBSET Sender
    BY <1>0 DEF Enqueue, Pending, Types
  <2>2. IsFiniteSet(Pending) /\ Cardinality(Pending) \in Nat
    BY <2>1, PendingFinite
  <2> QED
    BY <2>1, <2>2, FS_AddElement, Zenon
<1>6. Types'
  <2>1. spc' \in [Sender -> {"idle", "queued"}]
    BY <1>0 DEF Enqueue, Types
  <2> QED
    BY <1>0, <1>1, <1>2, <1>4, <2>1 DEF Types
<1>7. Count'
  <2>1. Hand' = Hand /\ Hand \in 0 .. 1 /\ pkts_sent \in Nat /\ tx_pkts_to_send \in Int
    BY <1>0, <1>2 DEF Hand, Types
  <2>2. /\ tx_pkts_to_send + Cardinality(Pending) = Len(if_snd) + Hand + pkts_sent
        /\ Len(if_snd) + Hand + pkts_sent <= queued
    BY <1>0 DEF Count
  <2>3. tx_pkts_to_send' = tx_pkts_to_send /\ pkts_sent' = pkts_sent /\ Len(if_snd) \in Nat
        /\ Len(if_snd') = Len(if_snd) + 1 /\ queued \in Nat /\ queued' = queued + 1
    BY <1>1, <1>2, <1>4
  <2> QED
    BY <1>5, <2>1, <2>2, <2>3 DEF Count
<1>8. Phase' /\ Space'
  BY <1>0, <1>2, Zenon DEF Phase, Space, Filled
<1>9. QueueOrder'
  <2>1. Rising(if_snd)'
    BY <1>4 DEF Rising
  <2>2. \A i \in 1 .. Len(if_snd') : if_snd'[i] <= queued'
    BY <1>1, <1>3, <1>4 DEF Added
  <2>3. m' # None => m' \in 1 .. MaxPkts /\ m' <= queued /\ \A j \in 1 .. Len(if_snd) : m' < if_snd[j]
    BY <1>0, <1>2 DEF QueueOrder, Types
  <2>4. m' # None => m' <= queued' /\ \A j \in 1 .. Len(if_snd') : m' < if_snd'[j]
    BY <1>1, <1>4, <2>3 DEF Added
  <2> QED
    BY <2>1, <2>2, <2>4, Zenon DEF QueueOrder
<1>10. \A p \in 1 .. MaxPkts : Precedes(p) => Precedes(p)'
  BY <1>1, <1>2, <1>4 DEF Precedes, Added
<1>11. WireOrder' /\ SlotOrder'
  BY <1>0, <1>2, <1>10, OrderKept, Zenon
<1> QED
  BY <1>6, <1>7, <1>8, <1>9, <1>11, Zenon DEF IInv

\* if_netmap_start counts a packet its sender has queued.
LEMMA StartStep ==
  ASSUME IInv, NEW s \in Sender, if_netmap_start(s)
  PROVE  IInv'
<1> USE QAssumption, RingAssumption, SenderAssumption
<1>0. Types /\ Count /\ Phase /\ Space /\ QueueOrder /\ WireOrder /\ SlotOrder
  BY DEF IInv
<1>2. UNCHANGED <<if_snd, queued, opackets, m, cur, avail, pkts_sent, done, slot, txcur,
                  space, wire, stop_req, due>>
  BY DEF if_netmap_start, locals, ringVars, stopVars
<1>3. Cardinality(Pending') = Cardinality(Pending) - 1 /\ Cardinality(Pending) \in Nat
  <2>1. Pending' = Pending \ {s} /\ s \in Pending /\ Pending \in SUBSET Sender
    BY <1>0 DEF if_netmap_start, Pending, Types
  <2>2. IsFiniteSet(Pending) /\ Cardinality(Pending) \in Nat
    BY <2>1, PendingFinite
  <2> QED
    BY <2>1, <2>2, FS_RemoveElement, Zenon
<1>4. tx_pkts_to_send' = tx_pkts_to_send + 1 /\ tx_pkts_to_send \in Int
      /\ tpc' = IF tpc = "wait" /\ tx_pkts_to_send' = 1 THEN "woken" ELSE tpc
  BY <1>0 DEF if_netmap_start, Types
<1>5. Types'
  <2>1. spc' \in [Sender -> {"idle", "queued"}]
    BY <1>0 DEF if_netmap_start, Types
  <2> QED
    BY <1>0, <1>2, <1>4, <2>1 DEF Types
<1>6. QueueOrder' /\ Hand' = Hand /\ WireOrder' /\ SlotOrder'
  BY <1>0, <1>2, QueueKept, OrderKept, Zenon
<1>7. Count'
  <2>1. Hand \in 0 .. 1 /\ pkts_sent \in Nat /\ Len(if_snd) \in Nat
    BY <1>0 DEF Hand, Types
  <2> QED
    BY <1>0, <1>2, <1>3, <1>4, <1>6, <2>1 DEF Count
<1>8. Phase'
  BY <1>0, <1>2, <1>4 DEF Phase
<1>9. Space'
  BY <1>0, <1>2, <1>4, Zenon DEF Space, Filled
<1> QED
  BY <1>5, <1>6, <1>7, <1>8, <1>9, Zenon DEF IInv

\* The order of the packets while none is moved.
LEMMA Still ==
  ASSUME IInv, UNCHANGED <<if_snd, queued, spc, m, wire, slot, cur, txcur>>
  PROVE  /\ QueueOrder' /\ WireOrder' /\ SlotOrder'
         /\ Hand' = Hand /\ Pending' = Pending /\ Filled' = Filled
<1>1. Types /\ QueueOrder /\ WireOrder /\ SlotOrder
  BY DEF IInv
<1>2. QueueOrder' /\ Hand' = Hand /\ \A p \in 1 .. MaxPkts : Precedes(p) => Precedes(p)'
  BY <1>1, QueueKept, Zenon
<1>3. WireOrder' /\ SlotOrder'
  BY <1>1, <1>2, OrderKept, Zenon
<1>4. Pending' = Pending /\ Filled' = Filled
  BY Zenon DEF Pending, Filled
<1> QED
  BY <1>2, <1>3, <1>4, Zenon

\* The facts of the invariant the counters and the ring's bounds rest on.
LEMMA Numbers ==
  ASSUME IInv
  PROVE  /\ Types /\ Count /\ Phase /\ Space /\ QueueOrder /\ WireOrder /\ SlotOrder
         /\ Cardinality(Pending) \in Nat /\ Hand \in 0 .. 1 /\ Len(if_snd) \in Nat
         /\ Filled \in 0 .. NSlots - 1 /\ (Filled = 0 <=> cur = txcur)
<1>1. Types /\ Count /\ Phase /\ Space /\ QueueOrder /\ WireOrder /\ SlotOrder
  BY DEF IInv
<1>2. Pending \in SUBSET Sender
  BY DEF Pending
<1>3. Cardinality(Pending) \in Nat
  BY <1>2, PendingFinite, Zenon
<1>4. if_snd \in Seq(1 .. MaxPkts) /\ cur \in 0 .. NSlots - 1 /\ txcur \in 0 .. NSlots - 1
  BY <1>1 DEF Types
<1> QED
  BY <1>1, <1>3, <1>4, BatchEnds DEF Hand

\* The thread waits, wakes and polls: no packet is moved.
LEMMA WaitStep ==
  ASSUME IInv, \/ Top \/ Woken \/ WaitTimeout \/ PollReady \/ PollTimeout
               \/ kthread_stop_ack \/ kthread_stop \/ Tick
  PROVE  IInv'
<1> USE RingAssumption
<1>1. /\ Types /\ Count /\ Phase /\ Space
      /\ Cardinality(Pending) \in Nat /\ Hand \in 0 .. 1 /\ Len(if_snd) \in Nat
      /\ Filled \in 0 .. NSlots - 1
  BY Numbers, Zenon
<1>2. UNCHANGED <<if_snd, queued, spc, opackets, m, wire, slot, cur, txcur>>
  BY DEF Top, Woken, WaitTimeout, PollReady, PollTimeout, kthread_stop_ack, kthread_stop, Tick,
         sendVars, locals, ringVars, stopVars
<1>3. QueueOrder' /\ WireOrder' /\ SlotOrder' /\ Hand' = Hand /\ Pending' = Pending /\ Filled' = Filled
  BY <1>2, Still, Zenon
<1>4. CASE Top
  <2>1. /\ tpc = "top" /\ tx_pkts_to_send' = tx_pkts_to_send - pkts_sent /\ pkts_sent' = 0
        /\ tpc' = (IF tx_pkts_to_send' = 0 THEN "wait" ELSE "dequeue")
        /\ UNCHANGED <<avail, done, space, stop_req, due>>
    BY <1>4, Zenon DEF Top, WaitOrGo, ringVars, stopVars
  <2>2. Types'
    BY <1>1, <1>2, <2>1 DEF Types
  <2>3. Count'
    BY <1>1, <1>2, <1>3, <2>1 DEF Types, Count
  <2>4. Phase'
    BY <1>1, <1>2, <2>1, Zenon DEF Phase
  <2>5. Space'
    BY <1>1, <1>3, <2>1, Zenon DEF Space
  <2> QED
    BY <1>3, <2>2, <2>3, <2>4, <2>5, Zenon DEF IInv
<1>5. CASE Woken \/ kthread_stop_ack \/ kthread_stop \/ Tick
  <2>1. /\ UNCHANGED <<tx_pkts_to_send, avail, pkts_sent, done, space>>
        /\ stop_req' \in {stop_req, TRUE} /\ due' \in {due, TRUE}
        /\ \/ tpc' = tpc
           \/ tpc = "woken" /\ tpc' = (IF tx_pkts_to_send' = 0 THEN "wait" ELSE "dequeue")
           \/ tpc = "ack" /\ tpc' = "stopped"
    BY <1>5, Zenon DEF Woken, kthread_stop_ack, kthread_stop, Tick, WaitOrGo, locals, ringVars, stopVars
  <2>2. Types'
    BY <1>1, <1>2, <2>1, Zenon DEF Types
  <2>3. Count'
    BY <1>1, <1>2, <1>3, <2>1 DEF Count
  <2>4. Phase'
    BY <1>1, <1>2, <2>1 DEF Phase
  <2>5. Space'
    BY <1>1, <1>3, <2>1, Zenon DEF Space
  <2> QED
    BY <1>3, <2>2, <2>3, <2>4, <2>5 DEF IInv
<1>6. CASE WaitTimeout \/ PollTimeout
  <2>1. /\ UNCHANGED <<tx_pkts_to_send, avail, pkts_sent, space, stop_req>>
        /\ done' \in BOOLEAN /\ due' = FALSE
        /\ \/ tpc = "wait" /\ tpc' = (IF done' THEN "ack" ELSE "woken")
           \/ tpc = "room" /\ tpc' = (IF done' THEN "sync" ELSE "room")
    BY <1>6, Zenon DEF WaitTimeout, PollTimeout, StopChecked, ringVars
  <2>2. Types'
    BY <1>1, <1>2, <2>1, Zenon DEF Types
  <2>3. Count'
    BY <1>1, <1>2, <1>3, <2>1 DEF Count
  <2>4. Phase'
    BY <1>1, <1>2, <2>1 DEF Phase, Types
  <2>5. Space'
    BY <1>1, <1>3, <2>1, Zenon DEF Space
  <2> QED
    BY <1>3, <2>2, <2>3, <2>4, <2>5 DEF IInv
<1>7. CASE PollReady
  <2>1. PICK r \in space .. NSlots - 1 : r > 0 /\ space' = r /\ avail' = r
    BY <1>7, Zenon DEF PollReady
  <2>2. tpc = "room" /\ UNCHANGED <<tx_pkts_to_send, tpc, pkts_sent, done, stop_req, due>>
    BY <1>7, Zenon DEF PollReady, stopVars
  <2>3. Types'
    BY <1>1, <1>2, <2>1, <2>2 DEF Types
  <2>4. Count'
    BY <1>1, <1>2, <1>3, <2>2, Zenon DEF Count
  <2>5. Phase'
    BY <1>1, <1>2, <2>1, <2>2, Zenon DEF Phase, Types
  <2>6. Space'
    BY <1>1, <1>3, <2>1, <2>2 DEF Space, Types
  <2> QED
    BY <1>3, <2>3, <2>4, <2>5, <2>6, Zenon DEF IInv
<1> QED
  BY <1>4, <1>5, <1>6, <1>7, Zenon

\* The thread starts to fill slots at the ring's cur, or stops.
LEMMA RoomStep ==
  ASSUME IInv, Room
  PROVE  IInv'
<1> USE RingAssumption
<1>1. /\ Types /\ Count /\ Phase /\ Space /\ QueueOrder /\ WireOrder /\ SlotOrder
      /\ Cardinality(Pending) \in Nat /\ Hand \in 0 .. 1 /\ Len(if_snd) \in Nat
      /\ Filled \in 0 .. NSlots - 1
  BY Numbers, Zenon
<1>2. /\ tpc = "room" /\ avail > 0 /\ done' \in BOOLEAN /\ due' = FALSE
      /\ tpc' = (IF done' THEN "sync" ELSE "fill") /\ cur' = (IF done' THEN cur ELSE txcur)
      /\ UNCHANGED <<if_snd, queued, spc, tx_pkts_to_send, opackets, m, avail, pkts_sent, slot, txcur,
                     space, wire, stop_req>>
  BY Zenon DEF Room, StopChecked, sendVars, ringVars
<1>3. Types'
  BY <1>1, <1>2, Zenon DEF Types
<1>4. Hand' = Hand /\ Pending' = Pending
  BY <1>2 DEF Hand, Pending
<1>5. Count'
  BY <1>1, <1>2, <1>4 DEF Count
<1>6. Phase'
  BY <1>1, <1>2 DEF Phase, Types
<1>7. CASE done'
  <2>1. QueueOrder' /\ WireOrder' /\ SlotOrder' /\ Filled' = Filled
    BY <1>2, <1>7, Still, Zenon
  <2>2. Space'
    BY <1>1, <1>2, <1>7, <2>1, Zenon DEF Space
  <2> QED
    BY <1>3, <1>5, <1>6, <2>1, <2>2 DEF IInv
<1>8. CASE ~done'
  <2>1. Filled' = 0
    BY <1>1, <1>2, <1>8 DEF Filled, Types
  <2>2. Space'
    BY <1>1, <1>2, <1>8, <2>1 DEF Space, Types
  <2>3. SlotOrder'
    BY <2>1 DEF SlotOrder
  <2>4. QueueOrder' /\ WireOrder'
    BY <1>1, <1>2, Zenon DEF QueueOrder, WireOrder, Rising, Precedes
  <2> QED
    BY <1>3, <1>5, <1>6, <2>2, <2>3, <2>4, Zenon DEF IInv
<1> QED
  BY <1>7, <1>8, Zenon

\* A packet is taken off the queue.
LEMMA DequeueStep ==
  ASSUME IInv, Dequeue
  PROVE  IInv'
<1>1. /\ Types /\ Count /\ Phase /\ Space /\ QueueOrder /\ WireOrder /\ SlotOrder
      /\ Cardinality(Pending) \in Nat /\ Hand \in 0 .. 1 /\ Len(if_snd) \in Nat
  BY Numbers
<1>2. /\ tpc = "dequeue" /\ tpc' = (IF m' = None THEN "sync" ELSE "room") /\ Dequeued
      /\ UNCHANGED <<queued, spc, tx_pkts_to_send, opackets, cur, avail, pkts_sent, done, slot, txcur,
                     space, wire, stop_req, due>>
  BY DEF Dequeue, ringVars, stopVars
<1>3. /\ m' \in 1 .. MaxPkts \cup {None} /\ if_snd' \in Seq(1 .. MaxPkts) /\ Len(if_snd') <= QLen
      /\ QueueOrder' /\ Len(if_snd') + Hand' = Len(if_snd)
      /\ \A p \in 1 .. MaxPkts : p = m \/ Precedes(p) => Precedes(p)'
  BY <1>1, <1>2, DequeuedIs, Zenon
<1>4. Types'
  BY <1>1, <1>2, <1>3, Zenon DEF Types
<1>5. m = None /\ Hand = 0 /\ Pending' = Pending
  BY <1>1, <1>2, Zenon DEF Phase, Hand, Pending
<1>6. Count'
  <2>1. if_snd' \in Seq(1 .. MaxPkts) /\ Len(if_snd') \in Nat /\ Hand' \in 0 .. 1
    BY <1>3 DEF Hand
  <2>2. pkts_sent \in Nat /\ queued \in Nat /\ tx_pkts_to_send \in Int
    BY <1>1 DEF Types
  <2> QED
    BY <1>1, <1>2, <1>3, <1>5, <2>1, <2>2 DEF Count
<1>7. Phase'
  BY <1>1, <1>2, Zenon DEF Phase
<1>8. Space'
  BY <1>1, <1>2 DEF Space, Filled
<1>9. WireOrder' /\ SlotOrder'
  BY <1>1, <1>2, <1>3, OrderKept, Zenon
<1> QED
  BY <1>3, <1>4, <1>6, <1>7, <1>8, <1>9, Zenon DEF IInv

\* A packet goes into the slot behind the filled ones, and the next is taken.
LEMMA FillStep ==
  ASSUME IInv, Fill
  PROVE  IInv'
<1> USE RingAssumption
<1>1. /\ Types /\ Count /\ Phase /\ Space /\ QueueOrder /\ WireOrder /\ SlotOrder
      /\ Cardinality(Pending) \in Nat /\ Hand \in 0 .. 1 /\ Len(if_snd) \in Nat
      /\ Filled \in 0 .. NSlots - 1
  BY Numbers
<1>2. /\ tpc = "fill" /\ slot' = [slot EXCEPT ![cur] = m] /\ cur' = (cur + 1) % NSlots
      /\ avail' = avail - 1 /\ pkts_sent' = pkts_sent + 1 /\ opackets' = opackets \cup {m}
      /\ tpc' = (IF m' = None THEN "sync" ELSE IF avail' = 0 THEN "room" ELSE "fill") /\ Dequeued
      /\ UNCHANGED <<queued, spc, tx_pkts_to_send, done, txcur, space, wire, stop_req, due>>
  BY DEF Fill, stopVars
<1>3. /\ m' \in 1 .. MaxPkts \cup {None} /\ if_snd' \in Seq(1 .. MaxPkts) /\ Len(if_snd') <= QLen
      /\ QueueOrder' /\ Len(if_snd') + Hand' = Len(if_snd)
      /\ \A p \in 1 .. MaxPkts : p = m \/ Precedes(p) => Precedes(p)'
  BY <1>1, <1>2, DequeuedIs, Zenon
<1>4. /\ m # None /\ m \in 1 .. MaxPkts /\ avail > 0 /\ avail + Filled <= space
      /\ avail \in 0 .. NSlots - 1 /\ space \in 0 .. NSlots - 1
      /\ cur \in 0 .. NSlots - 1 /\ txcur \in 0 .. NSlots - 1 /\ ~done
  BY <1>1, <1>2, Zenon DEF Phase, Space, Types
<1>5. cur' \in 0 .. NSlots - 1 /\ Filled' = Filled + 1 /\ Filled + 1 < NSlots
  <2>1. Filled + 1 < NSlots
    BY <1>1, <1>4
  <2> QED
    BY <1>2, <1>4, <2>1, BatchGrows, Zenon
<1>6. Types'
  <2>1. slot' \in [0 .. NSlots - 1 -> 1 .. MaxPkts \cup {None}]
    BY <1>1, <1>2, Zenon DEF Types
  <2>2. avail' \in 0 .. NSlots - 1 /\ pkts_sent' \in Nat /\ opackets' \subseteq 1 .. MaxPkts
    BY <1>1, <1>2, <1>4 DEF Types
  <2> QED
    BY <1>1, <1>2, <1>3, <1>5, <2>1, <2>2, Zenon DEF Types
<1>7. Count'
  <2>1. if_snd' \in Seq(1 .. MaxPkts) /\ Len(if_snd') \in Nat /\ Hand' \in 0 .. 1
    BY <1>3 DEF Hand
  <2>2. pkts_sent \in Nat /\ queued \in Nat /\ tx_pkts_to_send \in Int
    BY <1>1 DEF Types
  <2>3. Pending' = Pending /\ Hand = 1
    BY <1>2, <1>4 DEF Pending, Hand
  <2>4. /\ tx_pkts_to_send + Cardinality(Pending) = Len(if_snd) + Hand + pkts_sent
        /\ Len(if_snd) + Hand + pkts_sent <= queued
    BY <1>1 DEF Count
  <2>5. /\ tx_pkts_to_send' = tx_pkts_to_send /\ pkts_sent' = pkts_sent + 1 /\ queued' = queued
        /\ Len(if_snd') + Hand' = Len(if_snd)
    BY <1>2, <1>3, Zenon
  <2> QED
    BY <1>1, <2>1, <2>2, <2>3, <2>4, <2>5 DEF Count
<1>8. Phase'
  <2>1. pkts_sent' # 0
    BY <1>1, <1>2 DEF Types
  <2> QED
    BY <1>2, <1>4, <2>1 DEF Phase
<1>9. Space'
  BY <1>1, <1>2, <1>4, <1>5 DEF Space
<1>10. \A i \in 1 .. Len(wire) : wire[i] \in 1 .. MaxPkts /\ Precedes(wire[i])
  <2>1. wire \in Seq(1 .. MaxPkts)
    BY <1>1 DEF Types
  <2>2. \A i \in 1 .. Len(wire) : wire[i] \in 1 .. MaxPkts
    BY <2>1, ElementIs, Zenon
  <2> QED
    BY <1>1, <2>2, Zenon DEF WireOrder
<1>11. WireOrder'
  <2>1. \A i \in 1 .. Len(wire') : Precedes(wire[i])'
    <3> SUFFICES ASSUME NEW i \in 1 .. Len(wire), NEW p \in 1 .. MaxPkts, wire[i] = p, Precedes(p)
                 PROVE  Precedes(wire[i])'
      BY <1>2, <1>10, Zenon
    <3>1. Precedes(p)' /\ wire'[i] = p
      BY <1>2, <1>3, Zenon
    <3> QED
      BY <3>1, Zenon
  <2> QED
    BY <1>1, <1>2, <2>1 DEF WireOrder, Rising
<1>12. SlotOrder'
  <2>1. /\ (txcur + Filled) % NSlots = cur
        /\ \A i \in 0 .. Filled - 1 : (txcur + i) % NSlots \in (0 .. NSlots - 1) \ {cur}
    BY <1>4, BatchEnds
  <2>2. slot \in [0 .. NSlots - 1 -> 1 .. MaxPkts \cup {None}]
    BY <1>1, Zenon DEF Types
  <2>3. /\ \A i \in 0 .. Filled - 1 : InSlot(i)' = InSlot(i) /\ InSlot(i) \in 1 .. MaxPkts \cup {None}
        /\ InSlot(Filled) = slot[cur]
    BY <1>2, <2>1, <2>2, Zenon DEF InSlot
  <2>4. \A i \in 0 .. Filled : i = Filled => InSlot(i)' = m
    BY <1>1, <1>2, <1>4, <2>1, <2>2, Zenon DEF InSlot
  <2>5. \A i \in 0 .. Filled - 1 :
          /\ InSlot(i) \in 1 .. MaxPkts /\ Precedes(InSlot(i)) /\ InSlot(i) < m
          /\ \A j \in 1 .. Len(wire) : wire[j] < InSlot(i)
          /\ \A j \in 0 .. Filled - 1 : i < j => InSlot(i) < InSlot(j)
    <3>1. \A i \in 0 .. Filled - 1 : InSlot(i) \in 1 .. MaxPkts
      BY <1>1, <2>3, Zenon DEF SlotOrder
    <3> QED
      BY <1>1, <1>4, <3>1, Zenon DEF SlotOrder, Precedes
  <2>6. \A j \in 1 .. Len(wire) : wire[j] < m
    BY <1>4, <1>10, Zenon DEF Precedes
  <2> SUFFICES ASSUME NEW i \in 0 .. Filled
               PROVE  /\ InSlot(i)' # None /\ Precedes(InSlot(i))'
                      /\ \A j \in 1 .. Len(wire') : wire'[j] < InSlot(i)'
                      /\ \A j \in 0 .. Filled' - 1 : i < j => InSlot(i)' < InSlot(j)'
    BY <1>1, <1>5 DEF SlotOrder
  <2>7. CASE i = Filled
    <3>1. InSlot(i)' = m /\ InSlot(i)' # None
      BY <1>4, <2>4, <2>7
    <3>2. \A j \in 0 .. Filled' - 1 : ~(i < j)
      BY <1>1, <1>5, <2>7
    <3>3. PICK p \in 1 .. MaxPkts : p = m
      BY <1>4, Zenon
    <3>4. Precedes(p)' /\ InSlot(i)' = p
      BY <1>3, <3>1, <3>3
    <3>5. Precedes(InSlot(i))'
      BY <3>4, Zenon
    <3> QED
      BY <1>2, <2>6, <3>1, <3>2, <3>5, Zenon
  <2>8. CASE i \in 0 .. Filled - 1
    <3>1. PICK p \in 1 .. MaxPkts : p = InSlot(i)
      BY <2>5, <2>8, Zenon
    <3>2. InSlot(i)' = p /\ Precedes(p) /\ p # None
      BY <1>1, <2>3, <2>5, <2>8, <3>1, Zenon DEF SlotOrder
    <3>3. Precedes(p)'
      BY <1>3, <3>2
    <3>4. Precedes(InSlot(i))'
      BY <3>2, <3>3, Zenon
    <3>5. \A j \in 1 .. Len(wire') : wire'[j] < InSlot(i)'
      BY <1>2, <2>5, <2>8, <3>1, <3>2, Zenon
    <3>6. ASSUME NEW j \in 0 .. Filled' - 1, i < j PROVE InSlot(i)' < InSlot(j)'
      <4>1. CASE j = Filled
        BY <1>1, <2>4, <2>5, <2>8, <3>1, <3>2, <4>1
      <4>2. CASE j \in 0 .. Filled - 1
        BY <2>3, <2>5, <2>8, <3>1, <3>2, <3>6, <4>2, Zenon
      <4> QED
        BY <1>1, <1>5, <4>1, <4>2
    <3> QED
      BY <3>2, <3>4, <3>5, <3>6, Zenon
  <2> QED
    BY <1>1, <2>7, <2>8
<1> QED
  BY <1>3, <1>6, <1>7, <1>8, <1>9, <1>11, <1>12, Zenon DEF IInv

\* The slots a sync hands over, and what is in them.
LEMMA BatchIs ==
  ASSUME IInv
  PROVE  /\ Batch(cur) \in Seq(1 .. MaxPkts) /\ Len(Batch(cur)) = Filled
         /\ \A i \in 1 .. Filled : i - 1 \in 0 .. Filled - 1 /\ Batch(cur)[i] = InSlot(i - 1)
<1>1. /\ Types /\ SlotOrder /\ Filled \in 0 .. NSlots - 1
  BY Numbers, Zenon
<1>2. \A i \in 1 .. Filled : i - 1 \in 0 .. Filled - 1 /\ txcur + i - 1 = txcur + (i - 1)
  BY <1>1 DEF Types
<1>3. slot \in [0 .. NSlots - 1 -> 1 .. MaxPkts \cup {None}]
      /\ \A i \in 0 .. Filled - 1 : (txcur + i) % NSlots \in 0 .. NSlots - 1
  BY <1>1, BatchEnds, Zenon DEF Types
<1>4. \A i \in 0 .. Filled - 1 : InSlot(i) \in 1 .. MaxPkts
  BY <1>1, <1>3 DEF SlotOrder, InSlot
<1>5. Batch(cur) = [i \in 1 .. Filled |-> slot[(txcur + i - 1) % NSlots]]
  BY DEF Batch, Filled
<1>6. \A i \in 1 .. Filled : Batch(cur)[i] = InSlot(i - 1)
  BY <1>2, <1>5 DEF InSlot
<1>7. Batch(cur) \in [1 .. Filled -> 1 .. MaxPkts]
  BY <1>2, <1>4, <1>5, <1>6
<1>8. Batch(cur) \in Seq(1 .. MaxPkts) /\ Len(Batch(cur)) = Filled
  <2>1. Filled \in Nat
    BY <1>1, RingAssumption
  <2> QED
    BY <1>7, <2>1, FunctionIs, Zenon
<1> QED
  BY <1>2, <1>6, <1>8, Zenon

\* A sequence and one behind it.
LEMMA ConcatIs ==
  ASSUME NEW S, NEW q \in Seq(S), NEW b \in Seq(S)
  PROVE  \A i \in 1 .. Len(q \o b) : (q \o b)[i] = IF i <= Len(q) THEN q[i] ELSE b[i - Len(q)]
  OBVIOUS

\* Two sequences in order, one behind the other.
LEMMA ConcatRises ==
  ASSUME NEW q \in Seq(1 .. MaxPkts), NEW b \in Seq(1 .. MaxPkts), NEW r, r = q \o b,
         Rising(q), Rising(b), Ahead(q, b)
  PROVE  r \in Seq(1 .. MaxPkts) /\ Rising(r) /\ Joined(q, b, r)
<1>1. r \in Seq(1 .. MaxPkts) /\ Len(q) \in Nat /\ Len(b) \in Nat /\ Len(r) = Len(q) + Len(b)
  OBVIOUS
<1>2. \A i \in 1 .. Len(r) : r[i] = IF i <= Len(q) THEN q[i] ELSE b[i - Len(q)]
  BY ConcatIs
<1>3. \A i \in 1 .. Len(r) : \/ i \in 1 .. Len(q) /\ i <= Len(q)
                             \/ i - Len(q) \in 1 .. Len(b) /\ ~(i <= Len(q))
  BY <1>1
<1>4. Joined(q, b, r)
  BY <1>2, <1>3, Zenon DEF Joined
<1>5. Rising(r)
  <2> SUFFICES ASSUME NEW i \in 1 .. Len(r), NEW j \in 1 .. Len(r), i < j PROVE r[i] < r[j]
    BY Zenon DEF Rising
  <2>1. CASE i \in 1 .. Len(q) /\ j \in 1 .. Len(q)
    BY <1>1, <1>2, <2>1 DEF Rising
  <2>2. CASE i \in 1 .. Len(q) /\ j - Len(q) \in 1 .. Len(b)
    <3>1. i <= Len(q) /\ ~(j <= Len(q))
      BY <1>1, <2>2
    <3>2. q[i] < b[j - Len(q)]
      BY <2>2, Zenon DEF Ahead, AllBelow
    <3> QED
      BY <1>2, <3>1, <3>2, Zenon
  <2>3. CASE i - Len(q) \in 1 .. Len(b) /\ j - Len(q) \in 1 .. Len(b)
    <3>1. i - Len(q) < j - Len(q) /\ ~(i <= Len(q)) /\ ~(j <= Len(q))
      BY <1>1, <2>3
    <3> QED
      BY <1>2, <2>3, <3>1, Zenon DEF Rising
  <2> QED
    BY <1>1, <2>1, <2>2, <2>3
<1> QED
  BY <1>1, <1>4, <1>5, Zenon

\* The kernel is given the filled slots: they go behind what it has sent.
LEMMA SyncStep ==
  ASSUME IInv, Sync
  PROVE  IInv'
<1> USE RingAssumption
<1>1. /\ Types /\ Count /\ Phase /\ Space /\ QueueOrder /\ WireOrder /\ SlotOrder
      /\ Filled \in 0 .. NSlots - 1
  BY Numbers, Zenon
<1>2. /\ tpc = "sync" /\ tpc' = (IF done THEN "ack" ELSE "top")
      /\ UNCHANGED <<if_snd, queued, spc, tx_pkts_to_send, opackets, m, cur, pkts_sent, done, slot,
                     stop_req, due>>
  BY DEF Sync, sendVars, stopVars
<1>3. /\ QueueOrder' /\ Hand' = Hand /\ \A p \in 1 .. MaxPkts : Precedes(p) => Precedes(p)'
  BY <1>1, <1>2, QueueKept, Zenon
<1>4. Pending' = Pending
  BY <1>2, Zenon DEF Pending
<1>5. Count'
  BY <1>1, <1>2, <1>3, <1>4, Zenon DEF Count
<1>6. CASE pkts_sent = 0
  <2>1. UNCHANGED <<wire, txcur, space, avail>>
    BY <1>6 DEF Sync
  <2>2. QueueOrder' /\ WireOrder' /\ SlotOrder' /\ Filled' = Filled
    BY <1>2, <2>1, Still, Zenon
  <2>3. Types'
    BY <1>1, <1>2, <2>1, Zenon DEF Types
  <2>4. Phase'
    BY <1>1, <1>2, <1>6, <2>1, Zenon DEF Phase
  <2>5. Space'
    BY <1>1, <1>2, <2>1, <2>2, Zenon DEF Space
  <2> QED
    BY <1>5, <2>2, <2>3, <2>4, <2>5, Zenon DEF IInv
<1>7. CASE pkts_sent # 0
  <2>1. wire' = wire \o Batch(cur) /\ txcur' = cur
        /\ \E r \in space - Len(Batch(cur)) .. NSlots - 1 : space' = r /\ avail' = r
    <3>1. pkts_sent > 0
      BY <1>1, <1>7 DEF Types
    <3> QED
      BY <3>1, Zenon DEF Sync, txsync
  <2>2. /\ Batch(cur) \in Seq(1 .. MaxPkts) /\ Len(Batch(cur)) = Filled
        /\ \A i \in 1 .. Filled : i - 1 \in 0 .. Filled - 1 /\ Batch(cur)[i] = InSlot(i - 1)
    BY BatchIs
  <2>3. space' \in 0 .. NSlots - 1 /\ avail' = space' /\ txcur' \in 0 .. NSlots - 1
    <3>1. Filled <= space /\ space \in 0 .. NSlots - 1 /\ cur \in 0 .. NSlots - 1
      BY <1>1, Zenon DEF Space, Types
    <3> QED
      BY <1>1, <2>1, <2>2, <3>1
  <2>4. Filled' = 0
    BY <1>1, <1>2, <2>1 DEF Filled, Types
  <2>5. wire \in Seq(1 .. MaxPkts) /\ Rising(wire) /\ Rising(Batch(cur))
        /\ Ahead(wire, Batch(cur))
    <3>1. wire \in Seq(1 .. MaxPkts) /\ Rising(wire)
      BY <1>1 DEF Types, WireOrder
    <3>2. \A i, j \in 1 .. Filled : i < j => i - 1 < j - 1
      BY <1>1
    <3>3. Rising(Batch(cur))
      BY <1>1, <2>2, <3>2, Zenon DEF SlotOrder, Rising
    <3>4. Ahead(wire, Batch(cur))
      BY <1>1, <2>2 DEF SlotOrder, Ahead, AllBelow
    <3> QED
      BY <3>1, <3>3, <3>4, Zenon
  <2>6. wire' \in Seq(1 .. MaxPkts) /\ Rising(wire') /\ Joined(wire, Batch(cur), wire')
    BY <2>1, <2>2, <2>5, ConcatRises, Zenon
  <2>7. WireOrder'
    <3>1. \A i \in 1 .. Len(wire) : Precedes(wire[i])
      BY <1>1, Zenon DEF WireOrder
    <3>2. \A i \in 1 .. Len(Batch(cur)) : Precedes(Batch(cur)[i])
      BY <1>1, <2>2 DEF SlotOrder
    <3>3. \A i \in 1 .. Len(wire') : wire'[i] \in 1 .. MaxPkts
      BY <2>6, ElementIs, Zenon
    <3>4. ASSUME NEW i \in 1 .. Len(wire') PROVE Precedes(wire[i])'
      <4>1. PICK p \in 1 .. MaxPkts : p = wire'[i]
        BY <3>3, Zenon
      <4>2. Precedes(p)
        BY <2>6, <3>1, <3>2, <4>1, Zenon DEF Joined
      <4>3. Precedes(p)'
        BY <1>3, <4>2, Zenon
      <4> QED
        BY <4>1, <4>3, Zenon
    <3>5. Rising(wire)'
      BY <2>6, Zenon DEF Rising
    <3> QED
      BY <3>4, <3>5, Zenon DEF WireOrder
  <2>8. Types'
    BY <1>1, <1>2, <2>3, <2>6, Zenon DEF Types
  <2>9. Phase'
    BY <1>1, <1>2, <2>1, Zenon DEF Phase
  <2>10. Space'
    BY <1>2, <2>3, <2>4 DEF Space
  <2>11. SlotOrder'
    BY <2>4 DEF SlotOrder
  <2> QED
    BY <1>3, <1>5, <2>7, <2>8, <2>9, <2>10, <2>11, Zenon DEF IInv
<1> QED
  BY <1>6, <1>7, Zenon

\* Every step of senders and thread keeps the invariant.
LEMMA NextStep == IInv /\ [Next]_vars => IInv'
<1> SUFFICES ASSUME IInv, [Next]_vars PROVE IInv'
  OBVIOUS
<1>1. CASE \E s \in Sender : Enqueue(s) \/ if_netmap_start(s)
  BY <1>1, EnqueueStep, StartStep, Zenon
<1>2. CASE if_netmap_send \/ WaitTimeout \/ kthread_stop \/ Tick
  BY <1>2, WaitStep, RoomStep, DequeueStep, FillStep, SyncStep, Zenon DEF if_netmap_send
<1>3. CASE UNCHANGED vars
  <2>1. UNCHANGED <<if_snd, queued, spc, tx_pkts_to_send, opackets, tpc, m, cur, avail, pkts_sent,
                    done, slot, txcur, space, wire, stop_req, due>>
    BY <1>3, Zenon DEF vars, sendVars, locals, ringVars, stopVars
  <2>2. QueueOrder' /\ WireOrder' /\ SlotOrder' /\ Hand' = Hand /\ Pending' = Pending /\ Filled' = Filled
    BY <2>1, Still, Zenon
  <2>3. Types' /\ Phase'
    BY <2>1 DEF IInv, Types, Phase
  <2>4. Count' /\ Space'
    BY <2>1, <2>2 DEF IInv, Count, Space
  <2> QED
    BY <2>2, <2>3, <2>4, Zenon DEF IInv
<1> QED
  BY <1>1, <1>2, <1>3 DEF Next

\* The count, the queue and the ring agree.
LEMMA InvImplies == IInv => SendInv /\ WireInOrder
<1> SUFFICES ASSUME IInv PROVE SendInv /\ WireInOrder
  BY Zenon
<1> USE QAssumption, RingAssumption, SenderAssumption
<1>1. /\ Types /\ Count /\ Phase /\ Space /\ WireOrder
      /\ Cardinality(Pending) \in Nat /\ Hand \in 0 .. 1 /\ Len(if_snd) \in Nat
      /\ Filled \in 0 .. NSlots - 1
  BY Numbers, Zenon
<1>2. Cardinality(Pending) <= Cardinality(Sender) /\ Cardinality(Sender) \in Nat
  <2>1. Pending \in SUBSET Sender
    BY Zenon DEF Pending
  <2> QED
    BY <2>1, PendingFinite, Zenon
<1>3. tx_pkts_to_send \in -Cardinality(Sender) .. MaxPkts /\ pkts_sent \in 0 .. MaxPkts
  <2>1. queued \in 0 .. MaxPkts /\ pkts_sent \in Nat /\ tx_pkts_to_send \in Int
    BY <1>1, Zenon DEF Types
  <2>2. /\ tx_pkts_to_send + Cardinality(Pending) = Len(if_snd) + Hand + pkts_sent
        /\ Len(if_snd) + Hand + pkts_sent <= queued
    BY <1>1, Zenon DEF Count
  <2> QED
    BY <1>1, <1>2, <2>1, <2>2
<1>4. TypeOK
  BY <1>1, <1>3, Zenon DEF Types, TypeOK
<1>5. CountExact
  BY <1>1 DEF Count, CountExact, Hand
<1>6. NoSleepOnQueue
  <2> SUFFICES ASSUME tpc = "wait" PROVE Len(if_snd) <= Cardinality(Pending)
    BY DEF NoSleepOnQueue
  <2>1. tx_pkts_to_send = 0 /\ pkts_sent = 0
    BY <1>1, Zenon DEF Phase
  <2>2. tx_pkts_to_send + Cardinality(Pending) = Len(if_snd) + Hand + pkts_sent
    BY <1>1, Zenon DEF Count
  <2> QED
    BY <1>1, <2>1, <2>2
<1>7. SlotsFree
  BY <1>1, BatchIs, Zenon DEF SlotsFree, Space
<1>8. WireInOrder
  <2>1. wire \in Seq(1 .. MaxPkts) /\ DOMAIN wire = 1 .. Len(wire)
    BY <1>1 DEF Types
  <2> QED
    BY <1>1, <2>1, Zenon DEF WireInOrder, WireOrder, Rising
<1> QED
  BY <1>4, <1>5, <1>6, <1>7, <1>8, Zenon DEF SendInv

\* ... so it holds throughout.
LEMMA Inductive == Spec => []IInv
  BY InitHolds, NextStep, PTL DEF Spec

\* For any senders, queue length and ring size: tx_pkts_to_send is exact up to
\* senders between IFQ_ENQUEUE and if_netmap_start, if_netmap_send does not
\* sleep on a queue it was told of, and it never fills a slot the kernel still
\* owns.
THEOREM SendInvariant == Spec => []SendInv
  BY Inductive, InvImplies, PTL

\* For any senders, queue length and ring size: if_netmap_send hands packets to
\* the kernel in the order of queueing and none twice, although a packet may
\* wait in hand for room in the ring across polls and syncs.
THEOREM WireAlwaysInOrder == Spec => []WireInOrder
  BY Inductive, InvImplies, PTL
=============================================================================
