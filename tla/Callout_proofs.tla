--------------------------- MODULE Callout_proofs ---------------------------
(***************************************************************************)
(* The callout wheel, for any number of callouts of both kinds, any number *)
(* of threads that reset, stop and drain them, and any size of the wheel.  *)
(* The inductive invariant CalIInv says where every pending callout is:    *)
(* in the bucket of its time, once, and either due within MaxTo ticks or   *)
(* in the part of the current bucket that softclock has still to visit.    *)
(***************************************************************************)
EXTENDS Callout, TLAPS

-----------------------------------------------------------------------------
\* x is in the bucket q.
On(q, x) == \E i \in 1 .. Len(q) : q[i] = x

\* No callout is in the bucket q twice.
Distinct(q) == \A i, j \in 1 .. Len(q) : q[i] = q[j] => i = j

\* x is at or behind the place of y.
Behind(q, y, x) == \E i, j \in 1 .. Len(q) : i <= j /\ q[i] = y /\ q[j] = x

\* Where softclock is when it has a bucket in hand.
Walking == {"scan", "yield", "lock", "handler", "body", "done"}

\* The bucket softclock has in hand.
Queue == cc_callwheel[Bucket(curticks)]

\* Where softclock goes on.
Cursor == IF pc = "scan" THEN c ELSE cc_next

\* cc_lock is held while softclock walks, and the clock is at most one tick
\* ahead of the wheel.
Clock ==
  /\ cc_lock = IF pc \in {"bucket", "scan"} THEN Timer ELSE None
  /\ pc = "tick" => cc_softticks = ticks
  /\ pc \in {"callout_tick", "softclock"} => ticks = Inc(cc_softticks)
  /\ pc = "bucket" => cc_softticks = ticks \/ ticks = Inc(cc_softticks)
  /\ pc \in Walking => cc_softticks = ticks /\ ticks = Inc(curticks)

\* The wheel's buckets hold the pending callouts.
WheelHolds(w, p, time) ==
  \A b \in 0 .. WheelSize - 1 :
    /\ Distinct(w[b])
    /\ \A x \in Callouts : On(w[b], x) <=> x \in p /\ Bucket(time[x]) = b

Wheel == WheelHolds(cc_callwheel, pending, c_time)

\* The walk's cursor stays in its bucket.
InBucket ==
  pc \in Walking => \/ Cursor = None
                    \/ /\ Cursor \in Callouts /\ Cursor \in pending
                       /\ Bucket(c_time[Cursor]) = Bucket(curticks)

\* The callout is due in e ticks, or in the bucket softclock is at.
OnTime(x) == \E e \in 0 .. MaxTo : c_time[x] = (ticks + e) % TickMod /\ left[x] <= e
Due(x) == ticks = Inc(c_time[x]) /\ left[x] = 0

\* A pending callout is still to come, or softclock has still to reach it.
Times ==
  \A x \in pending :
    \/ OnTime(x)
    \/ /\ Due(x)
       /\ \/ pc \in {"callout_tick", "softclock"}
          \/ pc = "bucket" /\ ticks = Inc(cc_softticks)
          \/ pc \in Walking /\ Behind(Queue, Cursor, x)

\* Where the current invocation is.
Current ==
  /\ cc_curr = IF pc \in {"lock", "handler", "body", "done"} THEN c ELSE None
  /\ pc \in {"lock", "handler", "body", "done"} => c \in Callouts
  /\ pc = "lock" => c \in Locked
  /\ pc = "handler" => c \in Mpsafe
  /\ pc \in {"body", "done"} /\ c \in Locked => cc_cancel
  /\ ~cc_waiting

\* Who was reset last.
Armed ==
  /\ \A x \in pending : armed[x]
  /\ pc = "lock" /\ ~cc_cancel => armed[c] /\ c \notin pending
  /\ pc = "handler" /\ c \notin pending /\ c \in active => armed[c]

\* The inductive invariant.
CalIInv == TypeOK /\ Clock /\ Wheel /\ InBucket /\ Times /\ Current /\ Armed /\ ReturnValuesExact

-----------------------------------------------------------------------------
\* r is p with q behind it.
IsConcat(p, q, r) ==
  /\ Len(r) = Len(p) + Len(q)
  /\ \A i \in 1 .. Len(p) : r[i] = p[i]
  /\ \A i \in 1 .. Len(q) : r[Len(p) + i] = q[i]

\* r is s, of length n, without what is in place at.
IsUnlinked(s, n, at, r) ==
  /\ Len(r) = n - 1
  /\ \A i \in 1 .. n - 1 : r[i] = IF i < at THEN s[i] ELSE s[i + 1]

\* A sequence and one behind it.
LEMMA ConcatIs ==
  ASSUME NEW S, NEW p \in Seq(S), NEW q \in Seq(S)
  PROVE  p \o q \in Seq(S) /\ IsConcat(p, q, p \o q)
  BY DEF IsConcat

\* A sequence without what is in place at.
LEMMA UnlinkedIs ==
  ASSUME NEW S, NEW s \in Seq(S), NEW n \in Nat, n = Len(s), NEW at \in 1 .. n,
         NEW r, r = SubSeq(s, 1, at - 1) \o SubSeq(s, at + 1, n)
  PROVE  r \in Seq(S) /\ IsUnlinked(s, n, at, r)
<1> DEFINE p == SubSeq(s, 1, at - 1)
           q == SubSeq(s, at + 1, n)
<1>b. s \in Seq(S) /\ n = Len(s) /\ n \in Nat /\ at \in 1 .. n
  OBVIOUS
<1>1. p \in Seq(S) /\ Len(p) = at - 1 /\ \A i \in 1 .. at - 1 : p[i] = s[i]
  BY ONLY <1>b
<1>2. q \in Seq(S) /\ Len(q) = n - at /\ \A i \in 1 .. n - at : q[i] = s[at + i]
  <2>1. Len(q) = n - at /\ q \in Seq(S)
    BY ONLY <1>b
  <2>2. ASSUME NEW i \in 1 .. n - at PROVE q[i] = s[at + i]
    BY ONLY <1>b, <2>2
  <2> QED
    BY ONLY <2>1, <2>2, Zenon
<1>3. r = p \o q
  BY Zenon
<1> HIDE DEF p, q
<1>4. r \in Seq(S) /\ IsConcat(p, q, r)
  BY ONLY <1>1, <1>2, <1>3, ConcatIs, Zenon
<1>5. Len(r) = n - 1
  BY ONLY <1>1, <1>2, <1>4, <1>b DEF IsConcat
<1>6. ASSUME NEW i \in 1 .. n - 1 PROVE r[i] = IF i < at THEN s[i] ELSE s[i + 1]
  <2>1. CASE i < at
    BY ONLY <1>1, <1>4, <1>6, <1>b, <2>1 DEF IsConcat
  <2>2. CASE i >= at
    <3>1. i - at + 1 \in 1 .. Len(q) /\ i - at + 1 \in 1 .. n - at
          /\ Len(p) + (i - at + 1) = i /\ at + (i - at + 1) = i + 1
      BY ONLY <1>1, <1>2, <1>6, <1>b, <2>2
    <3>2. r[Len(p) + (i - at + 1)] = q[i - at + 1] /\ q[i - at + 1] = s[at + (i - at + 1)]
      BY ONLY <1>2, <1>4, <3>1, Zenon DEF IsConcat
    <3> QED
      BY ONLY <1>6, <1>b, <2>2, <3>1, <3>2
  <2> QED
    BY ONLY <1>6, <1>b, <2>1, <2>2
<1> QED
  BY ONLY <1>4, <1>5, <1>6, Zenon DEF IsUnlinked

\* A bucket without x, which is in it once.
LEMMA WithoutIs ==
  ASSUME NEW S, NEW q \in Seq(S), NEW x, On(q, x), Distinct(q)
  PROVE  /\ Without(q, x) \in Seq(S) /\ Distinct(Without(q, x))
         /\ \A y : On(Without(q, x), y) <=> On(q, y) /\ y # x
         /\ \A y, z : y # x /\ z # x /\ Behind(q, y, z) => Behind(Without(q, x), y, z)
<1> DEFINE n == Len(q)
           at == Pos(q, x)
           r == Without(q, x)
<1>1. q \in Seq(S) /\ n \in Nat /\ n = Len(q) /\ DOMAIN q = 1 .. n
  OBVIOUS
<1>2. at \in 1 .. n /\ q[at] = x
  BY <1>1, Zenon DEF Pos, On
<1>3. r = SubSeq(q, 1, at - 1) \o SubSeq(q, at + 1, n)
  BY Zenon DEF Without
<1>4. \A i, j \in 1 .. n : q[i] = q[j] => i = j
  BY Zenon DEF Distinct
<1> HIDE DEF n, at, r
<1>5. r \in Seq(S) /\ IsUnlinked(q, n, at, r)
  BY ONLY <1>1, <1>2, <1>3, UnlinkedIs, ZenonT(60)
<1>6. /\ Len(r) = n - 1
      /\ \A i \in 1 .. n - 1 : i < at => i \in 1 .. n /\ i # at /\ r[i] = q[i]
      /\ \A i \in 1 .. n - 1 : i >= at => i + 1 \in 1 .. n /\ i + 1 # at /\ r[i] = q[i + 1]
      /\ \A i \in 1 .. n : i < at => i \in 1 .. n - 1 /\ r[i] = q[i]
      /\ \A i \in 1 .. n : i > at => i - 1 \in 1 .. n - 1 /\ r[i - 1] = q[i]
  BY ONLY <1>1, <1>2, <1>5 DEF IsUnlinked
<1>7. \A i, j \in 1 .. n - 1 : r[i] = r[j] => i = j
  BY ONLY <1>1, <1>2, <1>4, <1>6
<1>a. /\ \A i \in 1 .. n : i < at \/ i = at \/ i > at
      /\ \A i \in 1 .. n - 1 : i < at \/ i >= at
  BY ONLY <1>1, <1>2
<1>8. \A y : (\E i \in 1 .. n - 1 : r[i] = y) <=> (\E i \in 1 .. n : q[i] = y) /\ y # x
  <2>1. ASSUME NEW i \in 1 .. n - 1 PROVE (\E j \in 1 .. n : q[j] = r[i]) /\ r[i] # x
    <3>1. CASE i < at
      BY ONLY <1>2, <1>4, <1>6, <2>1, <3>1, Zenon
    <3>2. CASE i >= at
      <4>1. i + 1 \in 1 .. n /\ i + 1 # at /\ r[i] = q[i + 1]
        BY ONLY <1>6, <2>1, <3>2, Zenon
      <4>2. q[i + 1] # x
        BY ONLY <1>2, <1>4, <4>1, Zenon
      <4> QED
        BY ONLY <4>1, <4>2, Zenon
    <3> QED
      BY ONLY <1>a, <2>1, <3>1, <3>2, Zenon
  <2>2. ASSUME NEW i \in 1 .. n, q[i] # x PROVE \E j \in 1 .. n - 1 : r[j] = q[i]
    <3>1. CASE i < at
      BY ONLY <1>6, <2>2, <3>1, Zenon
    <3>2. CASE i > at
      BY ONLY <1>6, <2>2, <3>2, Zenon
    <3> QED
      BY ONLY <1>2, <1>a, <2>2, <3>1, <3>2, Zenon
  <2> QED
    BY ONLY <2>1, <2>2, Zenon
<1>9. ASSUME NEW i \in 1 .. n, NEW j \in 1 .. n, i <= j, q[i] # x, q[j] # x
      PROVE  \E a, b \in 1 .. n - 1 : a <= b /\ r[a] = q[i] /\ r[b] = q[j]
  <2>1. i # at /\ j # at
    BY ONLY <1>2, <1>9
  <2>2. CASE j < at
    <3>1. i \in 1 .. n - 1 /\ j \in 1 .. n - 1 /\ r[i] = q[i] /\ r[j] = q[j]
      BY ONLY <1>1, <1>2, <1>6, <1>9, <2>2
    <3> QED
      BY ONLY <1>9, <3>1, Zenon
  <2>3. CASE i < at /\ j > at
    <3>1. i \in 1 .. n - 1 /\ j - 1 \in 1 .. n - 1 /\ r[i] = q[i] /\ r[j - 1] = q[j] /\ i <= j - 1
      BY ONLY <1>1, <1>2, <1>6, <1>9, <2>3
    <3> QED
      BY ONLY <1>9, <3>1, Zenon
  <2>4. CASE i > at
    <3>1. i - 1 \in 1 .. n - 1 /\ j - 1 \in 1 .. n - 1 /\ r[i - 1] = q[i] /\ r[j - 1] = q[j]
          /\ i - 1 <= j - 1
      BY ONLY <1>1, <1>2, <1>6, <1>9, <2>4
    <3> QED
      BY ONLY <1>9, <3>1, Zenon
  <2> QED
    BY ONLY <1>1, <1>2, <1>9, <2>1, <2>2, <2>3, <2>4
<1>10. Len(r) = n - 1 /\ r = Without(q, x) /\ n = Len(q)
  BY <1>6 DEF r, n
<1>11. Distinct(r)
  BY ONLY <1>7, <1>10, Zenon DEF Distinct
<1>12. \A y : On(r, y) <=> On(q, y) /\ y # x
  BY ONLY <1>8, <1>10, Zenon DEF On
<1>13. ASSUME NEW y, NEW z, y # x, z # x, Behind(q, y, z) PROVE Behind(r, y, z)
  <2>1. PICK i \in 1 .. n, j \in 1 .. n : i <= j /\ q[i] = y /\ q[j] = z
    BY ONLY <1>10, <1>13, Zenon DEF Behind
  <2>2. PICK a \in 1 .. n - 1, b \in 1 .. n - 1 : a <= b /\ r[a] = y /\ r[b] = z
    BY ONLY <1>9, <1>13, <2>1, Zenon
  <2> QED
    BY ONLY <1>10, <2>2, Zenon DEF Behind
<1> QED
  BY ONLY <1>5, <1>10, <1>11, <1>12, <1>13, Zenon

\* A bucket with x put at its end.
LEMMA AppendIs ==
  ASSUME NEW S, NEW q \in Seq(S), NEW x \in S, ~On(q, x), Distinct(q)
  PROVE  /\ Append(q, x) \in Seq(S) /\ Distinct(Append(q, x))
         /\ \A y : On(Append(q, x), y) <=> On(q, y) \/ y = x
         /\ \A y, z : Behind(q, y, z) => Behind(Append(q, x), y, z)
<1> DEFINE n == Len(q)
           r == Append(q, x)
<1>1. n \in Nat /\ r \in Seq(S) /\ Len(r) = n + 1 /\ r[n + 1] = x
  OBVIOUS
<1>2. \A i \in 1 .. n : r[i] = q[i]
  OBVIOUS
<1>3. (\A i, j \in 1 .. n : q[i] = q[j] => i = j) /\ \A i \in 1 .. n : q[i] # x
  BY Zenon DEF Distinct, On
<1>4. n = Len(q) /\ r = Append(q, x)
  OBVIOUS
<1> HIDE DEF n, r
<1>5. \A i \in 1 .. n + 1 : (i \in 1 .. n /\ i # n + 1) \/ i = n + 1
  BY ONLY <1>1
<1>6. \A i \in 1 .. n : i \in 1 .. n + 1
  BY ONLY <1>1
<1>7. n + 1 \in 1 .. n + 1
  BY ONLY <1>1
<1>8. Distinct(r)
  BY ONLY <1>1, <1>2, <1>3, <1>5, Zenon DEF Distinct
<1>9. \A y : On(r, y) <=> On(q, y) \/ y = x
  BY ONLY <1>1, <1>2, <1>4, <1>5, <1>6, <1>7, Zenon DEF On
<1>10. \A y, z : Behind(q, y, z) => Behind(r, y, z)
  BY ONLY <1>1, <1>2, <1>4, <1>6, Zenon DEF Behind
<1> QED
  BY ONLY <1>1, <1>4, <1>8, <1>9, <1>10, Zenon

\* The one after x in a bucket, and what is behind it.
LEMMA AfterIs ==
  ASSUME NEW S, NEW q \in Seq(S), NEW x, On(q, x), Distinct(q), None \notin S
  PROVE  /\ After(q, x) # None => After(q, x) \in S /\ On(q, After(q, x)) /\ After(q, x) # x
         /\ \A z : Behind(q, x, z) /\ z # x => After(q, x) # None /\ Behind(q, After(q, x), z)
<1> DEFINE n == Len(q)
           at == Pos(q, x)
<1>1. q \in Seq(S) /\ n \in Nat /\ n = Len(q) /\ DOMAIN q = 1 .. n /\ \A i \in 1 .. n : q[i] \in S
  OBVIOUS
<1>2. at \in 1 .. n /\ q[at] = x
  BY <1>1, Zenon DEF Pos, On
<1>3. \A i, j \in 1 .. n : q[i] = q[j] => i = j
  BY Zenon DEF Distinct
<1>4. After(q, x) = IF at < n THEN q[at + 1] ELSE None
  BY Zenon DEF After
<1>5. None \notin S
  OBVIOUS
<1> HIDE DEF n, at
<1>6. CASE at < n
  <2>1. at + 1 \in 1 .. n /\ at + 1 # at /\ \A j \in 1 .. n : at <= j /\ j # at => at + 1 <= j
    BY ONLY <1>1, <1>2, <1>6
  <2>2. After(q, x) = q[at + 1] /\ q[at + 1] \in S /\ q[at + 1] # x
    BY ONLY <1>1, <1>2, <1>3, <1>4, <1>6, <2>1, Zenon
  <2>3. On(q, q[at + 1])
    BY ONLY <1>1, <2>1, Zenon DEF On
  <2>4. ASSUME NEW z, Behind(q, x, z), z # x PROVE Behind(q, q[at + 1], z)
    <3>1. PICK i \in 1 .. n, j \in 1 .. n : i <= j /\ q[i] = x /\ q[j] = z
      BY ONLY <1>1, <2>4, Zenon DEF Behind
    <3>2. i = at /\ j # at
      BY ONLY <1>2, <1>3, <2>4, <3>1, Zenon
    <3> QED
      BY ONLY <1>1, <2>1, <3>1, <3>2, Zenon DEF Behind
  <2> QED
    BY ONLY <1>5, <2>2, <2>3, <2>4, Zenon
<1>7. CASE ~(at < n)
  <2>1. \A j \in 1 .. n : at <= j => j = at
    BY ONLY <1>1, <1>2, <1>7
  <2>2. \A z : Behind(q, x, z) => z = x
    BY ONLY <1>1, <1>2, <1>3, <2>1, Zenon DEF Behind
  <2> QED
    BY ONLY <1>4, <1>7, <2>2, Zenon
<1> QED
  BY ONLY <1>6, <1>7, Zenon

\* The first one in a bucket.
LEMMA FirstIs ==
  ASSUME NEW S, NEW q \in Seq(S), None \notin S
  PROVE  /\ First(q) # None => First(q) \in S /\ On(q, First(q))
         /\ \A z : On(q, z) => First(q) # None /\ Behind(q, First(q), z)
<1>1. CASE q = <<>>
  BY <1>1 DEF First, On
<1>2. CASE q # <<>>
  <2>1. 1 \in 1 .. Len(q) /\ q[1] \in S /\ First(q) = q[1]
    BY <1>2 DEF First
  <2>2. \A i \in 1 .. Len(q) : 1 <= i
    OBVIOUS
  <2> QED
    BY ONLY <2>1, <2>2, None \notin S, Zenon DEF On, Behind
<1> QED
  BY <1>1, <1>2

-----------------------------------------------------------------------------
\* The values of the tick counter.
Tick == 0 .. TickMod - 1

\* What the numbers of WheelAssumption are.
LEMMA Sizes ==
  /\ WheelSize \in Nat \ {0} /\ MaxTo \in Nat \ {0} /\ TickMod \in Nat \ {0}
  /\ TickMod > 2 * (MaxTo + 1) /\ MaxSteps \in Nat \ {0}
  BY WheelAssumption

\* A tick has a bucket.
LEMMA BucketType == \A t \in Tick : Bucket(t) \in 0 .. WheelSize - 1
<1> SUFFICES ASSUME NEW t \in Tick PROVE Bucket(t) \in 0 .. WheelSize - 1
  OBVIOUS
<1>1. t \in Nat
  BY ONLY Sizes DEF Tick
<1> QED
  BY ONLY <1>1, Sizes DEF Bucket

\* Remainders of the sums and differences that occur.
LEMMA Remainders ==
  ASSUME NEW M \in Nat \ {0}
  PROVE  /\ \A n \in 0 .. M - 1 : n % M = n
         /\ \A n \in M .. 2 * M - 1 : n % M = n - M
         /\ \A n \in -M .. -1 : n % M = n + M
<1>1. ASSUME NEW n \in 0 .. M - 1 PROVE n % M = n
  OBVIOUS
<1>2. ASSUME NEW n \in M .. 2 * M - 1 PROVE n % M = n - M
  OBVIOUS
<1>3. ASSUME NEW n \in -M .. -1 PROVE n % M = n + M
  OBVIOUS
<1> QED
  BY ONLY <1>1, <1>2, <1>3, Zenon

\* The next tick, and a tick some way ahead.
LEMMA IncIs == \A t \in Tick : Inc(t) \in Tick /\ Inc(t) = IF t + 1 < TickMod THEN t + 1 ELSE 0
<1> SUFFICES ASSUME NEW t \in Tick
             PROVE  Inc(t) \in Tick /\ Inc(t) = IF t + 1 < TickMod THEN t + 1 ELSE 0
  OBVIOUS
<1>1. CASE t + 1 < TickMod
  <2>1. t + 1 \in 0 .. TickMod - 1
    BY ONLY <1>1, Sizes, t \in Tick DEF Tick
  <2>2. Inc(t) = t + 1
    BY ONLY <2>1, Sizes, Remainders, Zenon DEF Inc
  <2> QED
    BY ONLY <1>1, <2>1, <2>2, Zenon DEF Tick
<1>2. CASE ~(t + 1 < TickMod)
  <2>1. t + 1 \in TickMod .. 2 * TickMod - 1 /\ (t + 1) - TickMod = 0 /\ 0 \in 0 .. TickMod - 1
    BY ONLY <1>2, Sizes, t \in Tick DEF Tick
  <2>2. Inc(t) = 0
    BY ONLY <2>1, Sizes, Remainders, Zenon DEF Inc
  <2> QED
    BY ONLY <1>2, <2>1, <2>2, Zenon DEF Tick
<1> QED
  BY ONLY <1>1, <1>2, Zenon

\* No two ticks have the same next one.
LEMMA IncOnce == \A s, t \in Tick : Inc(s) = Inc(t) => s = t
  BY ONLY IncIs, Sizes DEF Tick

\* ticks + to_ticks on a counter that wraps.
LEMMA AddIs ==
  \A t \in Tick, e \in 0 .. MaxTo :
    (t + e) % TickMod \in Tick /\ (t + e) % TickMod = IF t + e < TickMod THEN t + e ELSE (t + e) - TickMod
<1> SUFFICES ASSUME NEW t \in Tick, NEW e \in 0 .. MaxTo
             PROVE  (t + e) % TickMod \in Tick
                    /\ (t + e) % TickMod = IF t + e < TickMod THEN t + e ELSE (t + e) - TickMod
  OBVIOUS
<1>0. t \in Tick /\ e \in 0 .. MaxTo
  OBVIOUS
<1>1. CASE t + e < TickMod
  <2>1. t + e \in 0 .. TickMod - 1
    BY ONLY <1>0, <1>1, Sizes DEF Tick
  <2>2. (t + e) % TickMod = t + e
    BY ONLY <2>1, Sizes, Remainders, Zenon
  <2> QED
    BY ONLY <1>1, <2>1, <2>2, Zenon DEF Tick
<1>2. CASE ~(t + e < TickMod)
  <2> DEFINE n == t + e
  <2>1. n \in TickMod .. 2 * TickMod - 1 /\ n - TickMod \in 0 .. TickMod - 1
    BY ONLY <1>0, <1>2, Sizes DEF Tick
  <2> HIDE DEF n
  <2>2. n % TickMod = n - TickMod
    BY ONLY <2>1, Sizes, Remainders, Zenon
  <2> QED
    BY ONLY <1>2, <2>1, <2>2, Zenon DEF Tick, n
<1> QED
  BY ONLY <1>1, <1>2, Zenon

\* A tick later, the same time is one tick nearer.
LEMMA OneNearer ==
  ASSUME NEW t \in Tick, NEW e \in 0 .. MaxTo
  PROVE  /\ e = 0 => (t + e) % TickMod = t
         /\ e # 0 => e - 1 \in 0 .. MaxTo /\ (Inc(t) + (e - 1)) % TickMod = (t + e) % TickMod
<1>0. t \in Tick /\ e \in 0 .. MaxTo
  OBVIOUS
<1>1. (t + e) % TickMod = IF t + e < TickMod THEN t + e ELSE (t + e) - TickMod
  BY <1>0, AddIs, Zenon
<1>2. Inc(t) \in Tick /\ Inc(t) = IF t + 1 < TickMod THEN t + 1 ELSE 0
  BY <1>0, IncIs, Zenon
<1>3. e = 0 => (t + e) % TickMod = t
  BY ONLY <1>0, <1>1, Sizes DEF Tick
<1>4. ASSUME e # 0 PROVE e - 1 \in 0 .. MaxTo /\ (Inc(t) + (e - 1)) % TickMod = (t + e) % TickMod
  <2>1. e - 1 \in 0 .. MaxTo
    BY ONLY <1>0, <1>4, Sizes
  <2>2. (Inc(t) + (e - 1)) % TickMod
          = IF Inc(t) + (e - 1) < TickMod THEN Inc(t) + (e - 1) ELSE (Inc(t) + (e - 1)) - TickMod
    BY ONLY <1>2, <2>1, AddIs, Zenon
  <2> DEFINE a == (Inc(t) + (e - 1)) % TickMod
             b == (t + e) % TickMod
             d == Inc(t)
  <2>3. a = IF d + (e - 1) < TickMod THEN d + (e - 1) ELSE (d + (e - 1)) - TickMod
    BY ONLY <2>2, Zenon
  <2>4. b = IF t + e < TickMod THEN t + e ELSE (t + e) - TickMod
    BY ONLY <1>1, Zenon
  <2>5. d = IF t + 1 < TickMod THEN t + 1 ELSE 0
    BY ONLY <1>2, Zenon
  <2> HIDE DEF a, b, d
  <2>6. a = b
    BY ONLY <1>0, <1>4, <2>3, <2>4, <2>5, Sizes DEF Tick
  <2> QED
    BY ONLY <2>1, <2>6, Zenon DEF a, b
<1> QED
  BY ONLY <1>3, <1>4, Zenon

\* A time that is still to come is not the tick before now, and not far from
\* the point the wheel has reached.
LEMMA ComingIs ==
  ASSUME NEW t \in Tick, NEW e \in 0 .. MaxTo, NEW x \in Tick, x = (t + e) % TickMod
  PROVE  /\ t # Inc(x)
         /\ \A s \in Tick : s = t \/ t = Inc(s) => (x - s) % TickMod <= MaxTo + 1
<1>0. t \in Tick /\ e \in 0 .. MaxTo /\ x \in Tick
  OBVIOUS
<1>1. x = IF t + e < TickMod THEN t + e ELSE (t + e) - TickMod
  BY <1>0, AddIs, Zenon
<1>2. t # Inc(x)
  <2>1. Inc(x) = IF x + 1 < TickMod THEN x + 1 ELSE 0
    BY ONLY <1>0, IncIs, Zenon
  <2> QED
    BY ONLY <1>0, <1>1, <2>1, Sizes DEF Tick
<1>3. ASSUME NEW s \in Tick, s = t \/ t = Inc(s) PROVE (x - s) % TickMod <= MaxTo + 1
  <2>1. Inc(s) = IF s + 1 < TickMod THEN s + 1 ELSE 0
    BY ONLY <1>3, IncIs, Zenon
  <2>2. CASE x >= s
    <3>1. x - s \in 0 .. TickMod - 1 /\ x - s <= MaxTo + 1
      BY ONLY <1>0, <1>1, <1>3, <2>1, <2>2, Sizes DEF Tick
    <3>2. (x - s) % TickMod = x - s
      BY ONLY <3>1, Sizes, Remainders, Zenon
    <3> QED
      BY ONLY <3>1, <3>2, Zenon
  <2>3. CASE x < s
    <3>1. x - s \in -TickMod .. -1 /\ x - s + TickMod <= MaxTo + 1
      BY ONLY <1>0, <1>1, <1>3, <2>1, <2>3, Sizes DEF Tick
    <3>2. (x - s) % TickMod = x - s + TickMod
      BY ONLY <3>1, Sizes, Remainders, Zenon
    <3> QED
      BY ONLY <3>1, <3>2, Zenon
  <2> QED
    BY ONLY <1>0, <1>3, <2>2, <2>3 DEF Tick
<1> QED
  BY ONLY <1>2, <1>3, Zenon

\* The wheel is one tick behind.
LEMMA LagIs ==
  ASSUME NEW s \in Tick
  PROVE  (Inc(s) - s) % TickMod = 1 /\ (s - s) % TickMod = 0
<1>0. s \in Tick
  OBVIOUS
<1>1. Inc(s) = IF s + 1 < TickMod THEN s + 1 ELSE 0
  BY ONLY <1>0, IncIs, Zenon
<1>2. CASE s + 1 < TickMod
  <2>1. Inc(s) - s = 1 /\ 1 \in 0 .. TickMod - 1
    BY ONLY <1>0, <1>1, <1>2, Sizes DEF Tick
  <2> QED
    BY ONLY <1>0, <2>1, Sizes, Remainders DEF Tick
<1>3. CASE ~(s + 1 < TickMod)
  <2>1. Inc(s) - s \in -TickMod .. -1 /\ Inc(s) - s + TickMod = 1
    BY ONLY <1>0, <1>1, <1>3, Sizes DEF Tick
  <2>2. (Inc(s) - s) % TickMod = 1
    BY ONLY <2>1, Sizes, Remainders, Zenon
  <2>3. s - s = 0 /\ 0 \in 0 .. TickMod - 1
    BY ONLY <1>0, Sizes DEF Tick
  <2> QED
    BY ONLY <2>2, <2>3, Sizes, Remainders, Zenon
<1> QED
  BY ONLY <1>2, <1>3, Zenon

-----------------------------------------------------------------------------
\* The values of the wheel.
Wheels == [0 .. WheelSize - 1 -> Seq(Callouts)]

\* Whoever is behind another in the wheel w still is in v, but for x.
Keeps(w, v, x) ==
  \A b \in 0 .. WheelSize - 1 : \A y, z : y # x /\ z # x /\ Behind(w[b], y, z) => Behind(v[b], y, z)

\* As Keeps, for every callout.
KeepsAll(w, v) ==
  \A b \in 0 .. WheelSize - 1 : \A y, z : Behind(w[b], y, z) => Behind(v[b], y, z)

\* A callout leaves its bucket.
LEMMA RemoveWheel ==
  ASSUME NEW w \in Wheels, NEW p \in SUBSET Callouts, NEW time \in [Callouts -> Tick],
         WheelHolds(w, p, time), NEW x \in p, NEW b, b = Bucket(time[x]),
         NEW v, v = [w EXCEPT ![b] = Without(@, x)]
  PROVE  v \in Wheels /\ WheelHolds(v, p \ {x}, time) /\ Keeps(w, v, x)
<1>1. x \in Callouts /\ b \in 0 .. WheelSize - 1 /\ w[b] \in Seq(Callouts)
  BY BucketType, Zenon DEF Wheels
<1>2. On(w[b], x) /\ Distinct(w[b])
  BY <1>1, Zenon DEF WheelHolds
<1>3. /\ Without(w[b], x) \in Seq(Callouts) /\ Distinct(Without(w[b], x))
      /\ \A y : On(Without(w[b], x), y) <=> On(w[b], y) /\ y # x
      /\ \A y, z : y # x /\ z # x /\ Behind(w[b], y, z) => Behind(Without(w[b], x), y, z)
  BY ONLY <1>1, <1>2, WithoutIs, Zenon
<1>4. w \in Wheels /\ v = [w EXCEPT ![b] = Without(w[b], x)] /\ b = Bucket(time[x])
      /\ p \subseteq Callouts
  BY Zenon
<1>5. WheelHolds(w, p, time)
  OBVIOUS
<1>6. v \in Wheels /\ v[b] = Without(w[b], x) /\ \A d \in 0 .. WheelSize - 1 : d # b => v[d] = w[d]
  BY ONLY <1>1, <1>3, <1>4 DEF Wheels
<1>7. Keeps(w, v, x)
  BY ONLY <1>3, <1>6, Zenon DEF Keeps
<1>8. ASSUME NEW d \in 0 .. WheelSize - 1
      PROVE  /\ Distinct(v[d])
             /\ \A y \in Callouts : On(v[d], y) <=> y \in p \ {x} /\ Bucket(time[y]) = d
  <2>1. CASE d = b
    <3>1. \A y \in Callouts : On(w[b], y) <=> y \in p /\ Bucket(time[y]) = b
      BY ONLY <1>1, <1>5, Zenon DEF WheelHolds
    <3>2. \A y \in Callouts : On(v[b], y) <=> y \in p \ {x} /\ Bucket(time[y]) = b
      BY ONLY <1>3, <1>6, <3>1, Zenon
    <3> QED
      BY ONLY <1>3, <1>6, <2>1, <3>2, Zenon
  <2>2. CASE d # b
    BY ONLY <1>4, <1>5, <1>6, <1>8, <2>2, Zenon DEF WheelHolds
  <2> QED
    BY ONLY <2>1, <2>2, Zenon
<1> QED
  BY ONLY <1>6, <1>7, <1>8, Zenon DEF WheelHolds

\* A callout that is not on the wheel goes to the end of a bucket.
LEMMA AddWheel ==
  ASSUME NEW w \in Wheels, NEW p \in SUBSET Callouts, NEW time \in [Callouts -> Tick],
         WheelHolds(w, p, time), NEW x \in Callouts, x \notin p, NEW when \in Tick,
         NEW v, v = [w EXCEPT ![Bucket(when)] = Append(@, x)]
  PROVE  /\ v \in Wheels /\ WheelHolds(v, p \cup {x}, [time EXCEPT ![x] = when])
         /\ KeepsAll(w, v)
<1> DEFINE b == Bucket(when)
           to == [time EXCEPT ![x] = when]
<1>1. x \in Callouts /\ b \in 0 .. WheelSize - 1 /\ w[b] \in Seq(Callouts) /\ b = Bucket(when)
  BY BucketType, Zenon DEF Wheels
<1>0. to[x] = when /\ \A y \in Callouts : y # x => to[y] = time[y]
  OBVIOUS
<1>4. w \in Wheels /\ v = [w EXCEPT ![b] = Append(w[b], x)] /\ x \notin p /\ to = [time EXCEPT ![x] = when]
  BY Zenon
<1>5. WheelHolds(w, p, time)
  OBVIOUS
<1> HIDE DEF b, to
<1>2. ~On(w[b], x) /\ Distinct(w[b])
  BY ONLY <1>1, <1>4, <1>5, Zenon DEF WheelHolds
<1>3. /\ Append(w[b], x) \in Seq(Callouts) /\ Distinct(Append(w[b], x))
      /\ \A y : On(Append(w[b], x), y) <=> On(w[b], y) \/ y = x
      /\ \A y, z : Behind(w[b], y, z) => Behind(Append(w[b], x), y, z)
  BY ONLY <1>1, <1>2, AppendIs, Zenon
<1>6. v \in Wheels /\ v[b] = Append(w[b], x) /\ \A d \in 0 .. WheelSize - 1 : d # b => v[d] = w[d]
  BY ONLY <1>1, <1>3, <1>4 DEF Wheels
<1>7. KeepsAll(w, v)
  BY ONLY <1>3, <1>6, Zenon DEF KeepsAll
<1>8. ASSUME NEW d \in 0 .. WheelSize - 1
      PROVE  /\ Distinct(v[d])
             /\ \A y \in Callouts : On(v[d], y) <=> y \in p \cup {x} /\ Bucket(to[y]) = d
  <2>1. CASE d = b
    <3>1. \A y \in Callouts : On(w[b], y) <=> y \in p /\ Bucket(time[y]) = b
      BY ONLY <1>1, <1>5, Zenon DEF WheelHolds
    <3>2. ASSUME NEW y \in Callouts PROVE On(v[b], y) <=> y \in p \cup {x} /\ Bucket(to[y]) = b
      <4>1. CASE y = x
        BY ONLY <1>0, <1>1, <1>3, <1>6, <4>1, Zenon
      <4>2. CASE y # x
        BY ONLY <1>0, <1>3, <1>6, <3>1, <3>2, <4>2, Zenon
      <4> QED
        BY ONLY <4>1, <4>2, Zenon
    <3> QED
      BY ONLY <1>3, <1>6, <2>1, <3>2, Zenon
  <2>2. CASE d # b
    <3>1. /\ v[d] = w[d] /\ Distinct(w[d])
          /\ \A y \in Callouts : On(w[d], y) <=> y \in p /\ Bucket(time[y]) = d
      BY ONLY <1>5, <1>6, <1>8, <2>2, Zenon DEF WheelHolds
    <3>2. \A y \in Callouts : (y \in p /\ Bucket(time[y]) = d) <=> (y \in p \cup {x} /\ Bucket(to[y]) = d)
      BY ONLY <1>0, <1>1, <1>4, <2>2, Zenon
    <3> QED
      BY ONLY <3>1, <3>2, Zenon
  <2> QED
    BY ONLY <2>1, <2>2, Zenon
<1> QED
  BY ONLY <1>4, <1>6, <1>7, <1>8, Zenon DEF WheelHolds

-----------------------------------------------------------------------------
\* Where softclock is with a callout in hand.
Running == {"lock", "handler", "body", "done"}

\* A step that leaves the wheel alone.
LEMMA SameWheel ==
  ASSUME Wheel, UNCHANGED <<cc_callwheel, pending, c_time>>
  PROVE  Wheel'
  BY Zenon DEF Wheel

\* A step that leaves the clock and the callouts' times alone.
LEMMA SameTimes ==
  ASSUME UNCHANGED <<ticks, c_time, left>>
  PROVE  \A x : (OnTime(x)' <=> OnTime(x)) /\ (Due(x)' <=> Due(x))
  BY Zenon DEF OnTime, Due

\* The types, one by one.
LEMMA Types ==
  ASSUME TypeOK
  PROVE  /\ ticks \in Tick /\ cc_softticks \in Tick /\ curticks \in Tick
         /\ cc_callwheel \in Wheels /\ c_time \in [Callouts -> Tick]
         /\ pending \in SUBSET Callouts /\ active \in SUBSET Callouts
         /\ cc_next \in Callouts \cup {None} /\ cc_curr \in Callouts \cup {None}
         /\ c \in Callouts \cup {None} /\ None \notin Callouts /\ Timer # None
  BY WheelAssumption, Zenon DEF TypeOK, Tick, Wheels, Callouts

\* hardclock moves the clock, and finds the wheel up to date.
LEMMA HardclockStep == ASSUME CalIInv, Hardclock PROVE CalIInv'
<1>1. /\ pc = "tick" /\ ticks' = Inc(ticks) /\ pc' = "callout_tick"
      /\ left' = [x \in Callouts |-> IF left[x] > 0 THEN left[x] - 1 ELSE 0]
      /\ UNCHANGED <<cc_softticks, cc_callwheel, cc_next, cc_curr, cc_cancel, cc_waiting, cc_lock,
                     c_time, pending, active, c_lock, c, curticks, steps, drain, woken, owed, armed>>
  BY Zenon DEF Hardclock, wheelVars, calloutVars, drainVars
<1>2. TypeOK /\ ticks \in Tick /\ left \in [Callouts -> 0 .. MaxTo]
  BY Types, Zenon DEF CalIInv, TypeOK
<1>3. Inc(ticks) \in Tick
  BY <1>2, IncIs, Zenon
<1>4. left' \in [Callouts -> 0 .. MaxTo]
  BY ONLY <1>1, <1>2, Sizes
<1>5. TypeOK'
  BY ONLY <1>1, <1>2, <1>3, <1>4, Zenon DEF TypeOK, Tick
<1>6. Clock'
  BY <1>1 DEF CalIInv, Clock, Walking
<1>7. Wheel'
  BY <1>1, SameWheel, Zenon DEF CalIInv
<1>8. InBucket'
  BY <1>1, Zenon DEF InBucket, Walking
<1>9. Times'
  <2> SUFFICES ASSUME NEW x \in pending PROVE OnTime(x)' \/ Due(x)'
    BY <1>1, Zenon DEF Times
  <2>1. x \in Callouts /\ c_time[x] \in Tick
    BY <1>2, Types
  <2>2. PICK e \in 0 .. MaxTo : c_time[x] = (ticks + e) % TickMod /\ left[x] <= e
    BY <1>1, Zenon DEF CalIInv, Times, OnTime, Walking
  <2>3. left'[x] = IF left[x] > 0 THEN left[x] - 1 ELSE 0
    BY ONLY <1>1, <2>1
  <2>4. left[x] \in 0 .. MaxTo
    BY ONLY <1>2, <2>1
  <2>5. CASE e = 0
    <3>1. c_time[x] = ticks
      BY ONLY <1>2, <2>2, <2>5, OneNearer, Zenon
    <3>2. left'[x] = 0
      BY ONLY <2>2, <2>3, <2>4, <2>5
    <3> QED
      BY <1>1, <3>1, <3>2, Zenon DEF Due
  <2>6. CASE e # 0
    <3>1. e - 1 \in 0 .. MaxTo /\ (Inc(ticks) + (e - 1)) % TickMod = (ticks + e) % TickMod
      BY ONLY <1>2, <2>2, <2>6, OneNearer, Zenon
    <3>2. left'[x] <= e - 1
      BY ONLY <2>2, <2>3, <2>4, <2>6
    <3> QED
      BY <1>1, <2>2, <3>1, <3>2, Zenon DEF OnTime
  <2> QED
    BY ONLY <2>5, <2>6, Zenon
<1>10. Current' /\ Armed' /\ ReturnValuesExact'
  BY <1>1 DEF CalIInv, Current, Armed, ReturnValuesExact
<1> QED
  BY <1>5, <1>6, <1>7, <1>8, <1>9, <1>10, Zenon DEF CalIInv

\* callout_tick looks ahead on the wheel, and skips only empty ticks.
LEMMA CalloutTickStep == ASSUME CalIInv, CalloutTick PROVE CalIInv'
<1>1. /\ pc = "callout_tick" /\ cc_lock = None
      /\ UNCHANGED <<ticks, cc_callwheel, cc_next, cc_curr, cc_cancel, cc_waiting, cc_lock, left,
                     c_time, pending, active, c_lock, c, curticks, steps, drain, woken, owed, armed>>
  BY Zenon DEF CalloutTick, calloutVars, drainVars, history
<1>2. TypeOK /\ ticks \in Tick /\ cc_softticks \in Tick /\ ticks = Inc(cc_softticks)
  BY <1>1, Types DEF CalIInv, Clock
<1>3. (ticks - cc_softticks) % TickMod = 1 /\ cc_softticks % TickMod = cc_softticks
  <2>1. (ticks - cc_softticks) % TickMod = 1
    BY <1>2, LagIs, Zenon
  <2> QED
    BY ONLY <1>2, <2>1, Sizes, Remainders, Zenon DEF Tick
<1> DEFINE q == cc_callwheel[Bucket(cc_softticks)]
<1>4. \/ q = <<>> /\ cc_softticks' = ticks /\ pc' = "tick"
      \/ q # <<>> /\ cc_softticks' = cc_softticks /\ pc' = "softclock"
  <2> DEFINE busy == {k \in 0 .. 0 : cc_callwheel[Bucket((cc_softticks + k) % TickMod)] # <<>>}
  <2>1. IF busy = {}
        THEN cc_softticks' = ticks /\ pc' = "tick"
        ELSE LET k == CHOOSE k \in busy : \A j \in busy : k <= j
             IN cc_softticks' = (cc_softticks + k) % TickMod /\ pc' = "softclock"
    <3>1. 0 .. ((ticks - cc_softticks) % TickMod) - 1 = 0 .. 0
      BY ONLY <1>3
    <3> QED
      BY <3>1, Zenon DEF CalloutTick
  <2>2. cc_softticks + 0 = cc_softticks
    BY ONLY <1>2, Sizes DEF Tick
  <2>3. 0 .. 0 = {0} /\ 0 <= 0
    OBVIOUS
  <2>4. busy = IF q = <<>> THEN {} ELSE {0}
    BY <1>3, <2>2, <2>3, Zenon
  <2> HIDE DEF busy
  <2>5. CASE q = <<>>
    BY <2>1, <2>4, <2>5, Zenon
  <2>6. CASE q # <<>>
    <3>1. busy = {0} /\ {0} # {}
      BY <2>4, <2>6, Zenon
    <3>2. (CHOOSE k \in busy : \A j \in busy : k <= j) = 0
      BY <2>3, <3>1, Zenon
    <3> QED
      BY <1>3, <2>1, <2>2, <2>6, <3>1, <3>2, Zenon
  <2> QED
    BY <2>5, <2>6, Zenon
<1>5. pc' \in {"tick", "softclock"} /\ cc_softticks' \in Tick
  BY <1>2, <1>4, Zenon
<1>6. TypeOK'
  BY ONLY <1>1, <1>2, <1>5, Zenon DEF TypeOK, Tick
<1>7. Clock'
  BY <1>1, <1>2, <1>4 DEF CalIInv, Clock, Walking
<1>8. Wheel'
  BY <1>1, SameWheel, Zenon DEF CalIInv
<1>9. InBucket'
  BY <1>5 DEF InBucket, Walking
<1>10. Times'
  <2> SUFFICES ASSUME NEW x \in pending PROVE OnTime(x) \/ (Due(x) /\ pc' = "softclock")
    BY <1>1, <1>5, SameTimes, Zenon DEF Times
  <2>1. x \in Callouts /\ c_time[x] \in Tick
    BY <1>2, Types
  <2>2. OnTime(x) \/ Due(x)
    BY Zenon DEF CalIInv, Times
  <2>3. ASSUME Due(x), q = <<>> PROVE FALSE
    <3>1. c_time[x] = cc_softticks
      BY <1>2, <2>1, <2>3, IncOnce, Zenon DEF Due
    <3>2. On(q, x)
      BY <1>2, <2>1, <3>1, BucketType, Zenon DEF CalIInv, Wheel, WheelHolds
    <3> QED
      BY <2>3, <3>2 DEF On
  <2> QED
    BY <1>4, <2>2, <2>3, Zenon
<1>11. Current' /\ Armed' /\ ReturnValuesExact'
  BY <1>1, <1>5 DEF CalIInv, Current, Armed, ReturnValuesExact
<1> QED
  BY <1>6, <1>7, <1>8, <1>9, <1>10, <1>11, Zenon DEF CalIInv

\* The steps of softclock between two callouts.
LEMMA SoftPassStep == ASSUME CalIInv, Softclock \/ SoftBucketEnd \/ SoftEnd PROVE CalIInv'
<1>1. /\ \/ pc = "softclock" /\ pc' = "bucket" /\ cc_lock' = Timer /\ steps' = 0 /\ cc_next' = cc_next
         \/ pc = "scan" /\ c = None /\ pc' = "bucket" /\ UNCHANGED <<cc_lock, steps, cc_next>>
         \/ /\ pc = "bucket" /\ cc_softticks = ticks /\ pc' = "tick" /\ cc_lock' = None
            /\ steps' = steps /\ cc_next' = None
      /\ UNCHANGED <<ticks, cc_softticks, cc_callwheel, cc_curr, cc_cancel, cc_waiting, left,
                     c_time, pending, active, c_lock, c, curticks, drain, woken, owed, armed>>
  BY Zenon DEF Softclock, SoftBucketEnd, SoftEnd, calloutVars, drainVars, history, wheelVars
<1>2. TypeOK /\ None \notin Callouts /\ Timer # None
  BY Types DEF CalIInv
<1>3. TypeOK'
  <2>1. steps' \in 0 .. MaxSteps - 1
    BY ONLY <1>1, <1>2, Sizes DEF TypeOK
  <2>2. /\ pc' \in {"bucket", "tick"} /\ cc_lock' \in {None, Timer}
        /\ cc_next' \in Callouts \cup {None}
    BY ONLY <1>1, <1>2 DEF TypeOK
  <2>3. UNCHANGED <<ticks, cc_softticks, cc_callwheel, cc_curr, cc_cancel, cc_waiting, left,
                    c_time, pending, active, c_lock, c, curticks, drain, woken, owed, armed>>
    BY ONLY <1>1, Zenon
  <2> QED
    BY ONLY <1>2, <2>1, <2>2, <2>3, Zenon DEF TypeOK
<1>4. Clock'
  BY <1>1 DEF CalIInv, Clock, Walking
<1>5. Wheel'
  BY <1>1, SameWheel, Zenon DEF CalIInv
<1>6. InBucket'
  BY <1>1 DEF InBucket, Walking
<1>7. Times'
  <2> SUFFICES ASSUME NEW x \in pending
               PROVE  OnTime(x) \/ (Due(x) /\ pc' = "bucket" /\ ticks = Inc(cc_softticks))
    BY <1>1, SameTimes, Zenon DEF Times
  <2>1. x \in Callouts
    BY <1>2, Types
  <2>2. CASE pc = "softclock"
    BY <1>1, <2>2 DEF CalIInv, Times, Clock
  <2>3. CASE pc = "scan"
    <3>1. Cursor = None
      BY <1>1, <2>3 DEF Cursor
    <3>2. ~Behind(Queue, None, x)
      <4>1. Queue \in Seq(Callouts)
        BY <1>2, Types, BucketType, Zenon DEF Queue, Wheels
      <4> QED
        BY <1>2, <4>1 DEF Behind
    <3> QED
      BY <2>3, <3>1, <3>2 DEF CalIInv, Times
  <2>4. CASE pc = "bucket"
    <3>1. ticks \in Tick /\ ticks # Inc(ticks)
      BY <1>2, Types, IncIs, Sizes DEF Tick
    <3> QED
      BY <1>1, <2>4, <3>1 DEF CalIInv, Times, Walking
  <2> QED
    BY <1>1, <2>2, <2>3, <2>4, Zenon
<1>8. Current' /\ Armed' /\ ReturnValuesExact'
  BY <1>1 DEF CalIInv, Current, Armed, ReturnValuesExact
<1> QED
  BY <1>3, <1>4, <1>5, <1>6, <1>7, <1>8, Zenon DEF CalIInv

\* softclock takes the next bucket in hand, from its first callout.
LEMMA SoftBucketStep == ASSUME CalIInv, SoftBucket PROVE CalIInv'
<1>1. /\ pc = "bucket" /\ cc_softticks # ticks /\ curticks' = cc_softticks
      /\ cc_softticks' = Inc(cc_softticks) /\ c' = First(cc_callwheel[Bucket(cc_softticks)])
      /\ pc' = "scan"
      /\ UNCHANGED <<ticks, cc_callwheel, cc_next, cc_curr, cc_cancel, cc_waiting, cc_lock, steps, left,
                     c_time, pending, active, c_lock, drain, woken, owed, armed>>
  BY Zenon DEF SoftBucket, calloutVars, drainVars, history
<1> DEFINE q == cc_callwheel[Bucket(cc_softticks)]
<1>2. TypeOK /\ None \notin Callouts /\ cc_softticks \in Tick /\ ticks = Inc(cc_softticks)
      /\ Bucket(cc_softticks) \in 0 .. WheelSize - 1 /\ q \in Seq(Callouts)
  <2>1. TypeOK /\ None \notin Callouts /\ cc_softticks \in Tick /\ cc_callwheel \in Wheels
    BY Types DEF CalIInv
  <2>2. ticks = Inc(cc_softticks)
    BY <1>1 DEF CalIInv, Clock
  <2> QED
    BY <2>1, <2>2, BucketType, Zenon DEF Wheels
<1>3. /\ First(q) # None => First(q) \in Callouts /\ On(q, First(q))
      /\ \A z : On(q, z) => First(q) # None /\ Behind(q, First(q), z)
  BY ONLY <1>2, FirstIs, Zenon
<1>4. \A x \in Callouts : On(q, x) <=> x \in pending /\ Bucket(c_time[x]) = Bucket(cc_softticks)
  BY <1>2, Zenon DEF CalIInv, Wheel, WheelHolds
<1>5. c' = First(q) /\ c' \in Callouts \cup {None}
  BY <1>1, <1>3, Zenon
<1> HIDE DEF q
<1>6. TypeOK'
  BY ONLY <1>1, <1>2, <1>5, IncIs, Zenon DEF TypeOK, Tick
<1>7. Clock'
  BY <1>1, <1>2 DEF CalIInv, Clock, Walking
<1>8. Wheel'
  BY <1>1, SameWheel, Zenon DEF CalIInv
<1>9. InBucket'
  BY <1>1, <1>3, <1>4, <1>5, Zenon DEF InBucket, Cursor
<1>10. Times'
  <2> SUFFICES ASSUME NEW x \in pending PROVE OnTime(x) \/ (Due(x) /\ Behind(q, First(q), x))
    <3>1. Queue' = q /\ Cursor' = First(q) /\ pc' \in Walking
      BY <1>1, <1>5, Zenon DEF Queue, Cursor, q, Walking
    <3> QED
      BY <1>1, <3>1, SameTimes, Zenon DEF Times
  <2>1. x \in Callouts /\ c_time[x] \in Tick
    BY <1>2, Types
  <2>2. OnTime(x) \/ Due(x)
    BY Zenon DEF CalIInv, Times
  <2>3. ASSUME Due(x) PROVE Behind(q, First(q), x)
    <3>1. c_time[x] = cc_softticks
      BY <1>2, <2>1, <2>3, IncOnce, Zenon DEF Due
    <3> QED
      BY <1>3, <1>4, <2>1, <3>1, Zenon
  <2> QED
    BY <2>2, <2>3, Zenon
<1>11. Current' /\ Armed' /\ ReturnValuesExact'
  BY <1>1 DEF CalIInv, Current, Armed, ReturnValuesExact
<1> QED
  BY <1>6, <1>7, <1>8, <1>9, <1>10, <1>11, Zenon DEF CalIInv

\* The callout after one that is in the bucket of the walk.
LEMMA NextIs ==
  ASSUME CalIInv, NEW x \in pending, Bucket(c_time[x]) = Bucket(curticks)
  PROVE  /\ NextInBucket(x) # None =>
              /\ NextInBucket(x) \in Callouts /\ NextInBucket(x) \in pending /\ NextInBucket(x) # x
              /\ Bucket(c_time[NextInBucket(x)]) = Bucket(curticks)
         /\ \A z : Behind(Queue, x, z) /\ z # x => NextInBucket(x) # None /\ Behind(Queue, NextInBucket(x), z)
<1>1. /\ cc_callwheel \in Wheels /\ x \in Callouts /\ None \notin Callouts
      /\ Bucket(curticks) \in 0 .. WheelSize - 1
  BY Types, BucketType, Zenon DEF CalIInv
<1>2. Queue \in Seq(Callouts) /\ Distinct(Queue)
      /\ \A y \in Callouts : On(Queue, y) <=> y \in pending /\ Bucket(c_time[y]) = Bucket(curticks)
  BY <1>1, Zenon DEF Queue, Wheels, CalIInv, Wheel, WheelHolds
<1>3. On(Queue, x) /\ NextInBucket(x) = After(Queue, x)
  BY <1>1, <1>2, Zenon DEF NextInBucket, Queue
<1>4. /\ After(Queue, x) # None =>
           After(Queue, x) \in Callouts /\ On(Queue, After(Queue, x)) /\ After(Queue, x) # x
      /\ \A z : Behind(Queue, x, z) /\ z # x => After(Queue, x) # None /\ Behind(Queue, After(Queue, x), z)
  BY ONLY <1>1, <1>2, <1>3, AfterIs, Zenon
<1> QED
  BY ONLY <1>2, <1>3, <1>4, Zenon

\* softclock passes a callout of a later turn of the wheel.
LEMMA SoftSkipStep == ASSUME CalIInv, SoftSkip PROVE CalIInv'
<1>1. /\ pc = "scan" /\ c # None /\ c_time[c] # curticks /\ c' = NextInBucket(c)
      /\ \/ pc' = "yield" /\ cc_next' = c' /\ cc_lock' = None /\ steps' = steps
         \/ pc' = "scan" /\ UNCHANGED <<cc_next, cc_lock>> /\ steps' = steps + 1 /\ steps + 1 < MaxSteps
      /\ UNCHANGED <<ticks, cc_softticks, cc_callwheel, cc_curr, cc_cancel, cc_waiting, left,
                     c_time, pending, active, c_lock, curticks, drain, woken, owed, armed>>
  <2>1. steps + 1 \in Int /\ MaxSteps \in Int
    BY Sizes DEF CalIInv, TypeOK
  <2>2. ~(steps + 1 >= MaxSteps) => steps + 1 < MaxSteps
    BY ONLY <2>1
  <2> QED
    BY <2>2, Zenon DEF SoftSkip, calloutVars, drainVars, history
<1>2. TypeOK /\ None \notin Callouts
  BY Types DEF CalIInv
<1>3. c \in pending /\ c \in Callouts /\ Bucket(c_time[c]) = Bucket(curticks)
  BY <1>1, <1>2, Zenon DEF CalIInv, InBucket, Cursor, Walking
<1>4. /\ c' # None => c' \in Callouts /\ c' \in pending /\ Bucket(c_time[c']) = Bucket(curticks)
      /\ \A z : Behind(Queue, c, z) /\ z # c => Behind(Queue, c', z)
  BY <1>1, <1>3, NextIs, Zenon
<1>5. c' \in Callouts \cup {None}
  BY <1>4, Zenon
<1>6. TypeOK'
  <2>1. steps' \in 0 .. MaxSteps - 1
    <3>1. steps \in 0 .. MaxSteps - 1
      BY ONLY <1>2 DEF TypeOK
    <3>2. steps' = steps \/ (steps' = steps + 1 /\ steps + 1 < MaxSteps)
      BY ONLY <1>1, Zenon
    <3> QED
      BY ONLY <3>1, <3>2, Sizes
  <2>2. /\ pc' \in {"scan", "yield"} /\ cc_lock' \in {None, Timer}
        /\ cc_next' \in Callouts \cup {None}
    BY ONLY <1>1, <1>2, <1>5, Zenon DEF TypeOK
  <2>3. UNCHANGED <<ticks, cc_softticks, cc_callwheel, cc_curr, cc_cancel, cc_waiting, left,
                    c_time, pending, active, c_lock, curticks, drain, woken, owed, armed>>
    BY ONLY <1>1, Zenon
  <2> QED
    BY ONLY <1>2, <1>5, <2>1, <2>2, <2>3, Zenon DEF TypeOK
<1>7. Clock'
  BY <1>1 DEF CalIInv, Clock, Walking
<1>8. Wheel'
  BY <1>1, SameWheel, Zenon DEF CalIInv
<1>9. Cursor' = c' /\ Queue' = Queue /\ pc' \in Walking /\ Cursor = c
  BY <1>1 DEF Cursor, Queue, Walking
<1>10. InBucket'
  BY <1>1, <1>4, <1>9, Zenon DEF InBucket
<1>11. Times'
  <2> SUFFICES ASSUME NEW x \in pending PROVE OnTime(x) \/ (Due(x) /\ Behind(Queue, c', x))
    BY <1>1, <1>9, SameTimes, Zenon DEF Times
  <2>1. x \in Callouts /\ c_time[x] \in Tick /\ curticks \in Tick /\ ticks = Inc(curticks)
    BY <1>1, <1>2, Types DEF CalIInv, Clock, Walking
  <2>2. OnTime(x) \/ (Due(x) /\ Behind(Queue, c, x))
    BY <1>1, <1>9, Zenon DEF CalIInv, Times
  <2>3. ASSUME Due(x) PROVE x # c
    BY <1>1, <2>1, <2>3, IncOnce, Zenon DEF Due
  <2> QED
    BY <1>4, <2>2, <2>3, Zenon
<1>12. Current' /\ Armed' /\ ReturnValuesExact'
  BY <1>1 DEF CalIInv, Current, Armed, ReturnValuesExact
<1> QED
  BY <1>6, <1>7, <1>8, <1>10, <1>11, <1>12, Zenon DEF CalIInv

\* softclock takes cc_lock again, in the middle of a bucket.
LEMMA SoftAgainStep == ASSUME CalIInv, SoftYield \/ SoftDone PROVE CalIInv'
<1>1. /\ pc \in {"yield", "done"} /\ pc' = "scan" /\ cc_lock' = Timer /\ c' = cc_next /\ steps' = 0
      /\ \/ pc = "yield" /\ UNCHANGED <<cc_curr, cc_waiting, woken>>
         \/ pc = "done" /\ cc_curr' = None /\ cc_waiting' = FALSE
            /\ woken' = IF cc_waiting THEN {t \in Thread : drain[t] # None} ELSE woken
      /\ UNCHANGED <<ticks, cc_softticks, cc_callwheel, cc_next, cc_cancel, left,
                     c_time, pending, active, c_lock, curticks, drain, owed, armed>>
  BY Zenon DEF SoftYield, SoftDone, calloutVars, drainVars, history, wheelVars
<1>2. TypeOK /\ None \notin Callouts /\ cc_next \in Callouts \cup {None}
  BY Types, Zenon DEF CalIInv
<1>3. cc_curr' = None /\ cc_waiting' = FALSE /\ woken' \subseteq Thread
  BY <1>1, <1>2, Zenon DEF CalIInv, Current, TypeOK
<1>4. TypeOK'
  <2>1. 0 \in 0 .. MaxSteps - 1
    BY ONLY Sizes
  <2>2. /\ pc' = "scan" /\ cc_lock' = Timer /\ c' = cc_next /\ steps' = 0
        /\ UNCHANGED <<ticks, cc_softticks, cc_callwheel, cc_next, cc_cancel, left,
                       c_time, pending, active, c_lock, curticks, drain, owed, armed>>
    BY ONLY <1>1, Zenon
  <2> QED
    BY ONLY <1>2, <1>3, <2>1, <2>2, Zenon DEF TypeOK
<1>5. Clock'
  BY <1>1 DEF CalIInv, Clock, Walking
<1>6. Wheel'
  BY <1>1, SameWheel, Zenon DEF CalIInv
<1>7. Cursor' = Cursor /\ Queue' = Queue /\ pc' \in Walking /\ pc \in Walking
  BY <1>1 DEF Cursor, Queue, Walking
<1>8. InBucket'
  BY <1>1, <1>7, Zenon DEF CalIInv, InBucket
<1>9. Times'
  <2> SUFFICES ASSUME NEW x \in pending PROVE OnTime(x) \/ (Due(x) /\ Behind(Queue, Cursor, x))
    BY <1>1, <1>7, SameTimes, Zenon DEF Times
  <2> QED
    BY <1>1 DEF CalIInv, Times
<1>10. Current'
  BY <1>1, <1>3 DEF Current
<1>11. Armed' /\ ReturnValuesExact'
  BY <1>1, <1>3 DEF CalIInv, Armed, ReturnValuesExact, Current
<1> QED
  BY <1>4, <1>5, <1>6, <1>8, <1>9, <1>10, <1>11, Zenon DEF CalIInv

\* softclock takes a due callout off its bucket and saves the next.
LEMMA SoftFireStep == ASSUME CalIInv, SoftFire PROVE CalIInv'
<1>1. /\ pc = "scan" /\ c # None /\ c_time[c] = curticks /\ cc_next' = NextInBucket(c)
      /\ cc_callwheel' = [cc_callwheel EXCEPT ![Bucket(curticks)] = Without(@, c)]
      /\ pending' = pending \ {c} /\ cc_curr' = c /\ cc_cancel' = FALSE /\ cc_lock' = None
      /\ pc' = IF c \in Locked THEN "lock" ELSE "handler"
      /\ UNCHANGED <<ticks, cc_softticks, cc_waiting, left, steps,
                     c_time, active, c_lock, c, curticks, drain, woken, owed, armed>>
  BY Zenon DEF SoftFire, Fire, drainVars, history
<1>2. TypeOK /\ None \notin Callouts /\ cc_callwheel \in Wheels /\ pending \in SUBSET Callouts
      /\ c_time \in [Callouts -> Tick] /\ curticks \in Tick /\ Bucket(curticks) \in 0 .. WheelSize - 1
  BY Types, BucketType, Zenon DEF CalIInv
<1>3. c \in pending /\ c \in Callouts
  BY <1>1, <1>2, Zenon DEF CalIInv, InBucket, Cursor, Walking
<1>4. /\ cc_next' # None => /\ cc_next' \in Callouts /\ cc_next' \in pending /\ cc_next' # c
                            /\ Bucket(c_time[cc_next']) = Bucket(curticks)
      /\ \A z : Behind(Queue, c, z) /\ z # c => cc_next' # None /\ Behind(Queue, cc_next', z)
  BY <1>1, <1>3, NextIs, Zenon
<1>5. cc_callwheel' \in Wheels /\ WheelHolds(cc_callwheel', pending \ {c}, c_time)
      /\ Keeps(cc_callwheel, cc_callwheel', c)
  <2>1. WheelHolds(cc_callwheel, pending, c_time)
    BY Zenon DEF CalIInv, Wheel
  <2> QED
    BY ONLY <1>1, <1>2, <1>3, <2>1, RemoveWheel, ZenonT(60)
<1>6. cc_next' \in Callouts \cup {None} /\ pc' \in {"lock", "handler"} /\ pc' \in Walking
      /\ pending' \in SUBSET Callouts /\ c \in Locked \cup Mpsafe
  BY <1>1, <1>2, <1>3, <1>4, Zenon DEF Walking, Callouts
<1>7. TypeOK'
  BY ONLY <1>1, <1>2, <1>3, <1>5, <1>6, Zenon DEF TypeOK, Wheels
<1>8. Clock'
  BY <1>1, <1>6 DEF CalIInv, Clock, Walking
<1>9. Wheel'
  BY <1>1, <1>5, Zenon DEF Wheel
<1>10. Cursor' = cc_next' /\ Cursor = c /\ Queue = cc_callwheel[Bucket(curticks)]
       /\ Queue' = cc_callwheel'[Bucket(curticks)]
  BY <1>1, <1>6 DEF Cursor, Queue
<1>11. InBucket'
  BY <1>1, <1>4, <1>6, <1>10, Zenon DEF InBucket
<1>12. Times'
  <2> SUFFICES ASSUME NEW x \in pending, x # c PROVE OnTime(x) \/ (Due(x) /\ Behind(Queue', cc_next', x))
    BY <1>1, <1>6, <1>10, SameTimes, Zenon DEF Times
  <2>1. OnTime(x) \/ (Due(x) /\ Behind(Queue, c, x))
    BY <1>1, <1>10, Zenon DEF CalIInv, Times
  <2>2. ASSUME Behind(Queue, c, x) PROVE Behind(Queue', cc_next', x)
    <3>1. cc_next' # c /\ Behind(Queue, cc_next', x)
      BY <1>4, <2>2, Zenon
    <3> QED
      BY <1>2, <1>5, <1>10, <3>1, Zenon DEF Keeps
  <2> QED
    BY <2>1, <2>2, Zenon
<1>13. Current'
  BY <1>1, <1>3, <1>6, Zenon DEF CalIInv, Current
<1>14. Armed'
  BY <1>1, <1>3 DEF CalIInv, Armed
<1>15. ReturnValuesExact'
  <2>1. cc_curr = None
    BY <1>1 DEF CalIInv, Current
  <2>2. c # None
    BY <1>1, Zenon
  <2> SUFFICES ASSUME NEW x \in Callouts
               PROVE  owed[x] = (IF x \in pending /\ x # c THEN 1 ELSE 0) + (IF c = x THEN 1 ELSE 0)
    BY <1>1, <1>6 DEF ReturnValuesExact
  <2>3. owed[x] = (IF x \in pending THEN 1 ELSE 0) + 0
    BY <1>1, <1>2, <2>1 DEF CalIInv, ReturnValuesExact
  <2> QED
    BY ONLY <1>3, <2>3
<1> QED
  BY <1>7, <1>8, <1>9, <1>11, <1>12, <1>13, <1>14, <1>15, Zenon DEF CalIInv

\* A step around the handler: what the wheel shows stays.
LEMMA HandlerFrame ==
  ASSUME CalIInv, pc \in Running, pc' \in Running,
         UNCHANGED <<ticks, cc_softticks, cc_callwheel, cc_next, cc_lock, left, c_time, pending, curticks>>
  PROVE  Clock' /\ Wheel' /\ InBucket' /\ Times'
<1>1. Clock'
  BY DEF CalIInv, Clock, Walking, Running
<1>2. Wheel'
  BY SameWheel, Zenon DEF CalIInv
<1>3. Cursor' = Cursor /\ Queue' = Queue /\ pc' \in Walking /\ pc \in Walking
  BY DEF Cursor, Queue, Walking, Running
<1>4. InBucket'
  BY <1>3, Zenon DEF CalIInv, InBucket
<1>5. Times'
  <2> SUFFICES ASSUME NEW x \in pending PROVE OnTime(x) \/ (Due(x) /\ Behind(Queue, Cursor, x))
    BY <1>3, SameTimes, Zenon DEF Times
  <2> QED
    BY DEF CalIInv, Times, Running
<1> QED
  BY <1>1, <1>2, <1>4, <1>5, Zenon

\* softclock and an MPSAFE handler with the callout's lock.
LEMMA SoftLockStep == ASSUME CalIInv, SoftLock PROVE CalIInv'
<1>1. /\ pc = "lock" /\ c_lock = None
      /\ \/ cc_cancel /\ pc' = "done" /\ UNCHANGED <<c_lock, cc_cancel, owed, armed>>
         \/ /\ ~cc_cancel /\ pc' = "body" /\ c_lock' = Timer /\ cc_cancel' = TRUE
            /\ owed' = [owed EXCEPT ![c] = @ - 1] /\ armed' = [armed EXCEPT ![c] = FALSE]
      /\ UNCHANGED <<ticks, cc_softticks, cc_callwheel, cc_next, cc_curr, cc_waiting, cc_lock,
                     c_time, pending, active, c, curticks, steps, drain, woken, left>>
  BY Zenon DEF SoftLock, SoftLockUnless, StartBody, calloutVars, drainVars
<1>2. TypeOK /\ c \in Callouts /\ c \in Locked /\ cc_curr = c
  BY <1>1 DEF CalIInv, Current
<1>3. Clock' /\ Wheel' /\ InBucket' /\ Times'
  BY <1>1, HandlerFrame DEF Running
<1>4. Current'
  BY <1>1, <1>2, Zenon DEF CalIInv, Current
<1>5. Armed'
  BY <1>1, <1>2, Zenon DEF CalIInv, Armed, TypeOK
<1>6. ReturnValuesExact'
  <2>1. owed \in [Callouts -> 0 .. 2]
    BY <1>2 DEF TypeOK
  <2> QED
    BY <1>1, <1>2, <2>1 DEF CalIInv, ReturnValuesExact
<1>7. TypeOK'
  <2>1. owed' \in [Callouts -> 0 .. 2]
    <3>1. owed[c] \in 1 .. 2 \/ cc_cancel
      BY <1>1, <1>2 DEF CalIInv, ReturnValuesExact, TypeOK
    <3>2. owed \in [Callouts -> 0 .. 2]
      BY <1>2 DEF TypeOK
    <3> QED
      BY ONLY <1>1, <1>2, <3>1, <3>2
  <2>2. /\ armed' \in [Callouts -> BOOLEAN] /\ pc' \in {"done", "body"} /\ cc_cancel' \in BOOLEAN
        /\ c_lock' \in Thread \cup {None, Timer}
    BY ONLY <1>1, <1>2, Zenon DEF TypeOK
  <2> QED
    BY ONLY <1>1, <1>2, <2>1, <2>2, Zenon DEF TypeOK
<1> QED
  BY <1>3, <1>4, <1>5, <1>6, <1>7, Zenon DEF CalIInv

\* The handler of a callout without a lock looks whether it is still wanted.
LEMMA HandlerStep == ASSUME CalIInv, Handler PROVE CalIInv'
<1>1. /\ pc = "handler" /\ c_lock = None /\ owed' = [owed EXCEPT ![c] = @ - 1]
      /\ \/ pc' = "done" /\ UNCHANGED <<c_lock, active, armed>>
         \/ /\ c \notin pending /\ pc' = "body" /\ c_lock' = Timer /\ active' = active \ {c}
            /\ armed' = [armed EXCEPT ![c] = FALSE]
      /\ UNCHANGED <<ticks, cc_softticks, cc_callwheel, cc_next, cc_curr, cc_cancel, cc_waiting, cc_lock,
                     c_time, pending, c, curticks, steps, drain, woken, left>>
  BY Zenon DEF Handler, HandlerUnless, StartBody, wheelVars, drainVars
<1>2. TypeOK /\ c \in Callouts /\ c \in Mpsafe /\ cc_curr = c /\ c \notin Locked
  BY <1>1, WheelAssumption DEF CalIInv, Current
<1>3. Clock' /\ Wheel' /\ InBucket' /\ Times'
  BY <1>1, HandlerFrame DEF Running
<1>4. Current'
  BY <1>1, <1>2 DEF CalIInv, Current
<1>5. Armed'
  BY <1>1, <1>2, Zenon DEF CalIInv, Armed, TypeOK
<1>6. ReturnValuesExact'
  <2>1. owed \in [Callouts -> 0 .. 2]
    BY <1>2, Zenon DEF TypeOK
  <2> QED
    BY <1>1, <1>2, <2>1 DEF CalIInv, ReturnValuesExact
<1>7. TypeOK'
  <2>1. owed' \in [Callouts -> 0 .. 2]
    <3>1. owed[c] \in 1 .. 2
      BY <1>1, <1>2 DEF CalIInv, ReturnValuesExact, TypeOK
    <3>2. owed \in [Callouts -> 0 .. 2]
      BY <1>2 DEF TypeOK
    <3> QED
      BY ONLY <1>1, <1>2, <3>1, <3>2
  <2>2. /\ armed' \in [Callouts -> BOOLEAN] /\ pc' \in {"done", "body"} /\ active' \subseteq Callouts
        /\ c_lock' \in Thread \cup {None, Timer}
    BY ONLY <1>1, <1>2, Zenon DEF TypeOK
  <2> QED
    BY ONLY <1>1, <1>2, <2>1, <2>2, Zenon DEF TypeOK
<1> QED
  BY <1>3, <1>4, <1>5, <1>6, <1>7, Zenon DEF CalIInv

\* A handler returns.
LEMMA HandlerEndStep == ASSUME CalIInv, HandlerEnd PROVE CalIInv'
<1>1. /\ pc = "body" /\ pc' = "done" /\ c_lock' = None
      /\ UNCHANGED <<ticks, cc_softticks, cc_callwheel, cc_next, cc_curr, cc_cancel, cc_waiting, cc_lock,
                     c_time, pending, active, c, curticks, steps, drain, woken, owed, armed, left>>
  BY Zenon DEF HandlerEnd, wheelVars, calloutVars, drainVars, history
<1>2. TypeOK
  BY DEF CalIInv
<1>3. Clock' /\ Wheel' /\ InBucket' /\ Times'
  <2>1. pc \in Running /\ pc' \in Running
    BY <1>1 DEF Running
  <2> QED
    BY <1>1, <2>1, HandlerFrame, Zenon
<1>4. Current' /\ Armed' /\ ReturnValuesExact'
  <2>1. Current' /\ Armed'
    BY <1>1 DEF CalIInv, Current, Armed
  <2>2. ReturnValuesExact'
    BY <1>1, Zenon DEF CalIInv, ReturnValuesExact
  <2> QED
    BY <2>1, <2>2, Zenon
<1>5. TypeOK'
  BY ONLY <1>1, <1>2, Zenon DEF TypeOK
<1> QED
  BY <1>3, <1>4, <1>5, Zenon DEF CalIInv

\* The lock of the callouts, the end of a drain, and no step at all.
LEMMA QuietStep ==
  ASSUME CalIInv, (\E t \in Thread : Lock(t) \/ Unlock(t) \/ DrainReturn(t)) \/ UNCHANGED vars
  PROVE  CalIInv'
<1>1. /\ c_lock' \in {c_lock, None} \cup Thread
      /\ \E t : drain' = drain \/ drain' = [drain EXCEPT ![t] = None]
      /\ woken' \subseteq woken
      /\ UNCHANGED <<ticks, cc_softticks, cc_callwheel, cc_next, cc_curr, cc_cancel, cc_waiting, cc_lock,
                     c_time, pending, active, pc, c, curticks, steps, owed, armed, left>>
  BY Zenon DEF Lock, Unlock, DrainReturn, vars, wheelVars, calloutVars, drainVars, timerVars, history
<1>2. TypeOK
  BY DEF CalIInv
<1>3. TypeOK'
  <2>1. /\ drain' \in [Thread -> Callouts \cup {None}] /\ woken' \subseteq Thread
        /\ c_lock' \in Thread \cup {None, Timer}
    BY ONLY <1>1, <1>2, Zenon DEF TypeOK
  <2>2. UNCHANGED <<ticks, cc_softticks, cc_callwheel, cc_next, cc_curr, cc_cancel, cc_waiting, cc_lock,
                    c_time, pending, active, pc, c, curticks, steps, owed, armed, left>>
    BY ONLY <1>1, Zenon
  <2> QED
    BY ONLY <1>2, <2>1, <2>2, Zenon DEF TypeOK
<1>4. Clock' /\ Wheel'
  BY <1>1, SameWheel DEF CalIInv, Clock
<1>5. Cursor' = Cursor /\ Queue' = Queue
  BY <1>1, Zenon DEF Cursor, Queue
<1>6. InBucket'
  BY <1>1, <1>5, Zenon DEF CalIInv, InBucket
<1>7. Times'
  BY <1>1, <1>5, SameTimes, Zenon DEF CalIInv, Times
<1>8. Current' /\ Armed' /\ ReturnValuesExact'
  BY <1>1 DEF CalIInv, Current, Armed, ReturnValuesExact
<1> QED
  BY <1>3, <1>4, <1>6, <1>7, <1>8, Zenon DEF CalIInv

\* cc_next and the wheel without x, as softclock may go on with.
Off(x, next, wheel) ==
  /\ wheel \in Wheels /\ WheelHolds(wheel, pending \ {x}, c_time)
  /\ next \in Callouts \cup {None}
  /\ pc \in Walking => \/ next = None
                       \/ /\ next \in Callouts /\ next \in pending /\ next # x
                          /\ Bucket(c_time[next]) = Bucket(curticks)
  /\ pc \in Walking => \A z \in pending :
       z # x /\ Behind(Queue, cc_next, z) => Behind(wheel[Bucket(curticks)], next, z)

\* Others see the walk where cc_next is.
LEMMA Outside ==
  ASSUME CalIInv, cc_lock = None
  PROVE  pc \notin {"bucket", "scan"} /\ Cursor = cc_next
  BY Types DEF CalIInv, Clock, Cursor

\* A pending callout is taken off the wheel.
LEMMA OffPending ==
  ASSUME CalIInv, cc_lock = None, NEW x \in pending
  PROVE  Off(x, Fix(x), Removed(x))
<1>1. TypeOK /\ None \notin Callouts /\ cc_callwheel \in Wheels /\ pending \in SUBSET Callouts
      /\ c_time \in [Callouts -> Tick] /\ x \in Callouts /\ cc_next \in Callouts \cup {None}
      /\ Bucket(curticks) \in 0 .. WheelSize - 1 /\ Bucket(c_time[x]) \in 0 .. WheelSize - 1
  BY Types, BucketType, Zenon DEF CalIInv
<1>2. Removed(x) \in Wheels /\ WheelHolds(Removed(x), pending \ {x}, c_time)
      /\ Keeps(cc_callwheel, Removed(x), x)
  <2>1. WheelHolds(cc_callwheel, pending, c_time)
    BY Zenon DEF CalIInv, Wheel
  <2>2. Removed(x) = [cc_callwheel EXCEPT ![Bucket(c_time[x])] = Without(@, x)]
    BY Zenon DEF Removed
  <2> QED
    BY ONLY <1>1, <2>1, <2>2, x \in pending, RemoveWheel, ZenonT(60)
<1>3. Fix(x) \in Callouts \cup {None}
  <2>1. LET q == cc_callwheel[Bucket(c_time[x])] IN
          q \in Seq(Callouts) /\ Distinct(q) /\ On(q, x)
    BY <1>1, Zenon DEF Wheels, CalIInv, Wheel, WheelHolds
  <2>2. NextInBucket(x) # None => NextInBucket(x) \in Callouts
    BY ONLY <1>1, <2>1, AfterIs, Zenon DEF NextInBucket
  <2> QED
    BY <1>1, <2>2, Zenon DEF Fix
<1>4. CASE pc \in Walking
  <2>1. Cursor = cc_next
    BY Outside, Zenon
  <2>2. CASE cc_next = x
    <3>1. Bucket(c_time[x]) = Bucket(curticks) /\ Fix(x) = NextInBucket(x)
      BY <1>1, <1>4, <2>1, <2>2, Zenon DEF CalIInv, InBucket, Fix
    <3>2. /\ NextInBucket(x) # None =>
               /\ NextInBucket(x) \in Callouts /\ NextInBucket(x) \in pending /\ NextInBucket(x) # x
               /\ Bucket(c_time[NextInBucket(x)]) = Bucket(curticks)
          /\ \A z : Behind(Queue, x, z) /\ z # x => NextInBucket(x) # None /\ Behind(Queue, NextInBucket(x), z)
      BY <3>1, NextIs, Zenon
    <3>3. ASSUME NEW z \in pending, z # x, Behind(Queue, cc_next, z)
          PROVE  Behind(Removed(x)[Bucket(curticks)], Fix(x), z)
      BY <1>1, <1>2, <2>2, <3>1, <3>2, <3>3, Zenon DEF Keeps, Queue
    <3> QED
      BY <1>2, <1>3, <3>1, <3>2, <3>3, Zenon DEF Off
  <2>3. CASE cc_next # x
    <3>1. Fix(x) = cc_next
      BY <2>3, Zenon DEF Fix
    <3>2. ASSUME NEW z \in pending, z # x, Behind(Queue, cc_next, z)
          PROVE  Behind(Removed(x)[Bucket(curticks)], Fix(x), z)
      BY <1>1, <1>2, <2>3, <3>1, <3>2, Zenon DEF Keeps, Queue
    <3>3. cc_next = None \/ /\ cc_next \in Callouts /\ cc_next \in pending
                            /\ Bucket(c_time[cc_next]) = Bucket(curticks)
      BY <1>4, <2>1, Zenon DEF CalIInv, InBucket
    <3> QED
      BY <1>2, <1>3, <2>3, <3>1, <3>2, <3>3, Zenon DEF Off
  <2> QED
    BY <2>2, <2>3, Zenon
<1>5. CASE pc \notin Walking
  BY <1>2, <1>3, <1>5, Zenon DEF Off
<1> QED
  BY <1>4, <1>5, Zenon

\* A callout that is not pending is not on it.
LEMMA OffIdle ==
  ASSUME CalIInv, cc_lock = None, NEW x \in Callouts, x \notin pending
  PROVE  Off(x, cc_next, cc_callwheel)
<1>1. cc_callwheel \in Wheels /\ cc_next \in Callouts \cup {None} /\ pending \ {x} = pending
  BY Types DEF CalIInv
<1>2. WheelHolds(cc_callwheel, pending \ {x}, c_time)
  BY <1>1, Zenon DEF CalIInv, Wheel
<1>3. Cursor = cc_next
  BY Outside, Zenon
<1>4. pc \in Walking => \/ cc_next = None
                        \/ /\ cc_next \in Callouts /\ cc_next \in pending /\ cc_next # x
                           /\ Bucket(c_time[cc_next]) = Bucket(curticks)
  BY <1>3, Zenon DEF CalIInv, InBucket
<1> QED
  BY <1>1, <1>2, <1>4, Zenon DEF Off, Queue

\* The wheel, when a callout has left it and nothing else has happened.
LEMMA DequeueStep ==
  ASSUME CalIInv, cc_lock = None, NEW x \in pending, Dequeue(x),
         UNCHANGED <<ticks, cc_softticks, cc_curr, cc_cancel, cc_waiting, cc_lock, c_time, pc, c, curticks, left>>
  PROVE  /\ Clock' /\ Wheel' /\ InBucket' /\ Times' /\ Current' /\ Armed' /\ ReturnValuesExact'
         /\ cc_callwheel' \in Wheels /\ cc_next' \in Callouts \cup {None}
         /\ pending' \in SUBSET Callouts /\ active' \in SUBSET Callouts
         /\ owed' \in [Callouts -> 0 .. 2] /\ armed' \in [Callouts -> BOOLEAN]
<1>1. /\ pending' = pending \ {x} /\ active' = active \ {x} /\ cc_next' = Fix(x)
      /\ cc_callwheel' = Removed(x) /\ owed' = [owed EXCEPT ![x] = @ - 1]
      /\ armed' = [armed EXCEPT ![x] = FALSE]
      /\ UNCHANGED <<ticks, cc_softticks, cc_curr, cc_cancel, cc_waiting, cc_lock, c_time, pc, c,
                     curticks, left>>
  BY Zenon DEF Dequeue
<1>2. TypeOK /\ x \in Callouts /\ pending \in SUBSET Callouts /\ active \in SUBSET Callouts
  BY Types DEF CalIInv
<1>3. Off(x, cc_next', cc_callwheel')
  BY <1>1, OffPending, Zenon
<1>4. Cursor = cc_next /\ Cursor' = cc_next' /\ Queue' = cc_callwheel'[Bucket(curticks)]
  BY <1>1, Outside DEF Cursor, Queue
<1>5. Clock'
  BY <1>1, Zenon DEF CalIInv, Clock
<1>6. Wheel'
  BY <1>1, <1>3, Zenon DEF Wheel, Off
<1>7. InBucket'
  BY <1>1, <1>3, <1>4, Zenon DEF InBucket, Off
<1>8. Times'
  <2> SUFFICES ASSUME NEW z \in pending, z # x
               PROVE  \/ OnTime(z)
                      \/ /\ Due(z)
                         /\ \/ pc \in {"callout_tick", "softclock"}
                            \/ pc = "bucket" /\ ticks = Inc(cc_softticks)
                            \/ pc \in Walking /\ Behind(Queue', cc_next', z)
    BY <1>1, <1>4, SameTimes, Zenon DEF Times
  <2> QED
    BY <1>3, <1>4, Zenon DEF CalIInv, Times, Off
<1>9. Current'
  BY <1>1 DEF CalIInv, Current
<1>10. owed \in [Callouts -> 0 .. 2] /\ armed \in [Callouts -> BOOLEAN] /\ owed[x] \in 1 .. 2
  <2>1. owed \in [Callouts -> 0 .. 2] /\ armed \in [Callouts -> BOOLEAN]
    BY <1>2, Zenon DEF TypeOK
  <2>2. ReturnValuesExact
    BY Zenon DEF CalIInv
  <2>3. owed[x] \in 1 .. 2
    BY ONLY <1>2, <2>2, x \in pending DEF ReturnValuesExact
  <2> QED
    BY ONLY <2>1, <2>3, Zenon
<1>11. owed' \in [Callouts -> 0 .. 2] /\ armed' \in [Callouts -> BOOLEAN]
  BY ONLY <1>1, <1>2, <1>10
<1>12. Armed'
  BY <1>1, <1>2, <1>10 DEF CalIInv, Armed, Current
<1>13. ReturnValuesExact'
  BY <1>1, <1>2, <1>10 DEF CalIInv, ReturnValuesExact
<1>14. pending' \in SUBSET Callouts /\ active' \in SUBSET Callouts
  BY <1>1, <1>2
<1> QED
  BY <1>3, <1>5, <1>6, <1>7, <1>8, <1>9, <1>11, <1>12, <1>13, <1>14, Zenon DEF Off

\* callout_stop and callout_drain.
LEMMA StopStep ==
  ASSUME CalIInv, NEW x \in Callouts,
         (\E a : CalloutStop(a, x)) \/ \E t \in Thread : CalloutDrain(t, x)
  PROVE  CalIInv'
<1>1. /\ cc_lock = None
      /\ \/ x \in pending /\ Dequeue(x) /\ UNCHANGED cc_cancel
         \/ /\ x \notin pending /\ active' = active \ {x} /\ UNCHANGED <<pending, cc_next, cc_callwheel>>
            /\ \/ /\ cc_cancel' = (cc_cancel \/ CanCancel(x))
                  /\ owed' = IF CanCancel(x) THEN [owed EXCEPT ![x] = @ - 1] ELSE owed
                  /\ armed' = [armed EXCEPT ![x] = FALSE]
               \/ UNCHANGED <<cc_cancel, owed, armed>>
      /\ \E t : drain' = drain \/ drain' = [drain EXCEPT ![t] = IF cc_curr = x THEN x ELSE None]
      /\ UNCHANGED <<ticks, cc_softticks, cc_curr, cc_waiting, cc_lock, c_time, c_lock, pc, c, curticks,
                     steps, woken, left>>
  <2>1. CASE \E a : CalloutStop(a, x)
    BY <2>1, Zenon DEF CalloutStop, timerVars, drainVars
  <2>2. CASE \E t \in Thread : CalloutDrain(t, x)
    BY <2>2, Zenon DEF CalloutDrain, timerVars
  <2> QED
    BY <2>1, <2>2, Zenon
<1>2. TypeOK /\ active \in SUBSET Callouts /\ drain \in [Thread -> Callouts \cup {None}]
      /\ owed \in [Callouts -> 0 .. 2] /\ armed \in [Callouts -> BOOLEAN] /\ cc_cancel \in BOOLEAN
  BY Zenon DEF CalIInv, TypeOK
<1>3. drain' \in [Thread -> Callouts \cup {None}]
  BY ONLY <1>1, <1>2, x \in Callouts
<1>4. UNCHANGED <<ticks, cc_softticks, cc_curr, cc_waiting, cc_lock, c_time, c_lock, pc, c, curticks,
                  steps, woken, left>>
  BY <1>1, Zenon
<1>5. CASE x \in pending
  <2>1. /\ Clock' /\ Wheel' /\ InBucket' /\ Times' /\ Current' /\ Armed' /\ ReturnValuesExact'
        /\ cc_callwheel' \in Wheels /\ cc_next' \in Callouts \cup {None}
        /\ pending' \in SUBSET Callouts /\ active' \in SUBSET Callouts
        /\ owed' \in [Callouts -> 0 .. 2] /\ armed' \in [Callouts -> BOOLEAN]
    BY <1>1, <1>4, <1>5, DequeueStep, Zenon
  <2>2. UNCHANGED cc_cancel
    BY <1>1, <1>5, Zenon
  <2>3. TypeOK'
    BY ONLY <1>2, <1>3, <1>4, <2>1, <2>2, Zenon DEF TypeOK, Wheels
  <2> QED
    BY <2>1, <2>3, Zenon DEF CalIInv
<1>6. CASE x \notin pending
  <2>1. /\ active' = active \ {x} /\ UNCHANGED <<pending, cc_next, cc_callwheel>>
        /\ \/ /\ cc_cancel' = (cc_cancel \/ CanCancel(x))
              /\ owed' = IF CanCancel(x) THEN [owed EXCEPT ![x] = @ - 1] ELSE owed
              /\ armed' = [armed EXCEPT ![x] = FALSE]
           \/ UNCHANGED <<cc_cancel, owed, armed>>
    BY <1>1, <1>6, Zenon
  <2>2. Cursor' = Cursor /\ Queue' = Queue
    BY <1>4, <2>1, Zenon DEF Cursor, Queue
  <2>3. Clock' /\ Wheel'
    BY <1>4, <2>1, SameWheel DEF CalIInv, Clock
  <2>4. InBucket'
    BY <1>4, <2>1, <2>2, Zenon DEF CalIInv, InBucket
  <2>5. Times'
    BY <1>4, <2>1, <2>2, SameTimes, Zenon DEF CalIInv, Times
  <2>6. CASE CanCancel(x) /\ ~UNCHANGED <<cc_cancel, owed, armed>>
    <3>1. pc = "lock" /\ c = x /\ cc_curr = x /\ ~cc_cancel /\ owed[x] = 1
      <4>1. cc_curr = x /\ x \in Locked /\ ~cc_cancel
        BY <2>6 DEF CanCancel
      <4>2. pc = "lock" /\ c = x
        BY <4>1, WheelAssumption DEF CalIInv, Current, Callouts
      <4> QED
        BY <1>6, <4>1, <4>2 DEF CalIInv, ReturnValuesExact
    <3>2. cc_cancel' = TRUE /\ owed' = [owed EXCEPT ![x] = @ - 1] /\ armed' = [armed EXCEPT ![x] = FALSE]
      BY <2>1, <2>6, Zenon
    <3>3. owed' \in [Callouts -> 0 .. 2] /\ armed' \in [Callouts -> BOOLEAN]
      BY ONLY <1>2, <3>1, <3>2, x \in Callouts
    <3>4. Current'
      BY <1>4, <3>2, Zenon DEF CalIInv, Current
    <3>5. Armed'
      BY <1>2, <1>4, <1>6, <2>1, <3>1, <3>2 DEF CalIInv, Armed
    <3>6. ReturnValuesExact'
      BY <1>2, <1>4, <1>6, <2>1, <3>1, <3>2 DEF CalIInv, ReturnValuesExact
    <3>7. TypeOK'
      BY ONLY <1>2, <1>3, <1>4, <2>1, <3>2, <3>3, Zenon DEF TypeOK
    <3> QED
      BY <2>3, <2>4, <2>5, <3>4, <3>5, <3>6, <3>7, Zenon DEF CalIInv
  <2>7. CASE ~CanCancel(x) \/ UNCHANGED <<cc_cancel, owed, armed>>
    <3>1. UNCHANGED <<cc_cancel, owed>> /\ (armed' = armed \/ (armed' = [armed EXCEPT ![x] = FALSE] /\ ~CanCancel(x)))
      BY <1>2, <2>1, <2>7
    <3>2. armed' \in [Callouts -> BOOLEAN]
      BY ONLY <1>2, <3>1, x \in Callouts, Zenon
    <3>3. Current' /\ ReturnValuesExact'
      BY <1>4, <2>1, <3>1 DEF CalIInv, Current, ReturnValuesExact
    <3>4. Armed'
      <4>1. CASE armed' = armed
        BY <1>4, <2>1, <3>1, <4>1 DEF CalIInv, Armed
      <4>2. CASE armed' = [armed EXCEPT ![x] = FALSE] /\ ~CanCancel(x)
        <5>1. pc = "lock" /\ ~cc_cancel => c # x
          BY <4>2 DEF CanCancel, CalIInv, Current
        <5> QED
          BY <1>2, <1>4, <1>6, <2>1, <3>1, <4>2, <5>1 DEF CalIInv, Armed
      <4> QED
        BY <3>1, <4>1, <4>2, Zenon
    <3>5. active' \subseteq Callouts
      BY <1>2, <2>1, Zenon
    <3>6. TypeOK'
      BY ONLY <1>2, <1>3, <1>4, <2>1, <3>1, <3>2, <3>5, Zenon DEF TypeOK
    <3> QED
      BY <2>3, <2>4, <2>5, <3>3, <3>4, <3>6, Zenon DEF CalIInv
  <2> QED
    BY <2>6, <2>7, Zenon
<1> QED
  BY <1>5, <1>6, Zenon

\* callout_reset_on.
LEMMA ResetStep ==
  ASSUME CalIInv, NEW x \in Callouts, NEW to \in 0 .. MaxTo, NEW a, CalloutReset(a, x, to)
  PROVE  CalIInv'
<1> DEFINE d == IF to <= 0 THEN 1 ELSE to
           when == (ticks + d) % TickMod
           next == IF x \in pending THEN Fix(x) ELSE cc_next
           wheel == IF x \in pending THEN Removed(x) ELSE cc_callwheel
<1>1. /\ cc_lock = None /\ cc_cancel' = (cc_cancel \/ CanCancel(x)) /\ cc_next' = next
      /\ cc_callwheel' = [wheel EXCEPT ![Bucket(when)] = Append(@, x)]
      /\ c_time' = [c_time EXCEPT ![x] = when] /\ pending' = pending \cup {x}
      /\ active' = active \cup {x} /\ armed' = [armed EXCEPT ![x] = TRUE] /\ left' = [left EXCEPT ![x] = to]
      /\ owed' = IF CanCancel(x) \/ x \in pending THEN owed ELSE [owed EXCEPT ![x] = @ + 1]
      /\ UNCHANGED <<ticks, cc_softticks, cc_curr, cc_waiting, cc_lock, c_lock, pc, c, curticks, steps,
                     drain, woken>>
  <2>1. ~cc_waiting
    BY DEF CalIInv, Current
  <2> QED
    BY <2>1, Zenon DEF CalloutReset, Reschedule, timerVars, drainVars
<1>2. TypeOK /\ active \in SUBSET Callouts /\ pending \in SUBSET Callouts /\ ticks \in Tick
      /\ c_time \in [Callouts -> Tick] /\ curticks \in Tick
      /\ owed \in [Callouts -> 0 .. 2] /\ armed \in [Callouts -> BOOLEAN] /\ cc_cancel \in BOOLEAN
      /\ left \in [Callouts -> 0 .. MaxTo]
  BY Types, Zenon DEF CalIInv, TypeOK
<1>3. d \in 0 .. MaxTo /\ to <= d
  BY Sizes
<1>4. when \in Tick
  BY <1>2, <1>3, AddIs, Zenon
<1>5. Off(x, next, wheel)
  <2>1. CASE x \in pending
    BY <1>1, <2>1, OffPending, Zenon
  <2>2. CASE x \notin pending
    BY <1>1, <2>2, OffIdle, Zenon
  <2> QED
    BY <2>1, <2>2, Zenon
<1>6. when = (ticks + d) % TickMod
  OBVIOUS
<1> HIDE DEF d, when, next, wheel
<1>7. /\ cc_callwheel' \in Wheels /\ WheelHolds(cc_callwheel', (pending \ {x}) \cup {x}, c_time')
      /\ KeepsAll(wheel, cc_callwheel')
  <2> DEFINE p == pending \ {x}
  <2>1. wheel \in Wheels /\ WheelHolds(wheel, p, c_time) /\ p \in SUBSET Callouts /\ x \notin p
    BY <1>2, <1>5, Zenon DEF Off
  <2>2. /\ cc_callwheel' = [wheel EXCEPT ![Bucket(when)] = Append(@, x)]
        /\ c_time' = [c_time EXCEPT ![x] = when] /\ c_time \in [Callouts -> Tick] /\ x \in Callouts
    BY <1>1, <1>2, Zenon
  <2> HIDE DEF p
  <2>3. /\ cc_callwheel' \in Wheels /\ WheelHolds(cc_callwheel', p \cup {x}, [c_time EXCEPT ![x] = when])
        /\ KeepsAll(wheel, cc_callwheel')
    BY ONLY <1>4, <2>1, <2>2, AddWheel, ZenonT(60)
  <2> QED
    BY ONLY <2>2, <2>3, Zenon DEF p
<1>8. Wheel'
  <2>1. (pending \ {x}) \cup {x} = pending'
    BY ONLY <1>1
  <2> QED
    BY ONLY <1>7, <2>1, Zenon DEF Wheel
<1>9. c_time'[x] = when /\ left'[x] = to /\ armed'[x] = TRUE
      /\ \A y \in Callouts : y # x => c_time'[y] = c_time[y] /\ left'[y] = left[y] /\ armed'[y] = armed[y]
  BY ONLY <1>1, <1>2, x \in Callouts
<1>10. OnTime(x)' /\ \A y \in Callouts : y # x => (OnTime(y)' <=> OnTime(y)) /\ (Due(y)' <=> Due(y))
  <2>1. ticks' = ticks
    BY <1>1, Zenon
  <2> QED
    BY ONLY <1>3, <1>6, <1>9, <2>1, Zenon DEF OnTime, Due
<1>11. Cursor = cc_next /\ Cursor' = next /\ Queue' = cc_callwheel'[Bucket(curticks)]
       /\ Bucket(curticks) \in 0 .. WheelSize - 1
  <2>1. Cursor = cc_next /\ pc # "scan" /\ pc' = pc
    BY <1>1, Outside, Zenon
  <2>2. Cursor' = next /\ Queue' = cc_callwheel'[Bucket(curticks)]
    BY ONLY <1>1, <2>1 DEF Cursor, Queue
  <2> QED
    BY <1>2, <2>1, <2>2, BucketType, Zenon
<1>12. Clock'
  BY <1>1, Zenon DEF CalIInv, Clock
<1>13. InBucket'
  BY <1>1, <1>5, <1>9, <1>11, Zenon DEF InBucket, Off
<1>14. Times'
  <2> SUFFICES ASSUME NEW z \in pending, z # x
               PROVE  \/ OnTime(z)
                      \/ /\ Due(z)
                         /\ \/ pc \in {"callout_tick", "softclock"}
                            \/ pc = "bucket" /\ ticks = Inc(cc_softticks)
                            \/ pc \in Walking /\ Behind(Queue', next, z)
    <3>1. \A z \in pending' : z = x \/ (z \in pending /\ z # x /\ z \in Callouts)
      BY <1>1, <1>2
    <3>2. pc' = pc /\ ticks' = ticks /\ cc_softticks' = cc_softticks
      BY <1>1, Zenon
    <3> QED
      BY <1>10, <1>11, <3>1, <3>2, Zenon DEF Times
  <2>1. pc \in Walking /\ Behind(Queue, cc_next, z) => Behind(Queue', next, z)
    BY <1>5, <1>7, <1>11, Zenon DEF Off, KeepsAll
  <2> QED
    BY <1>11, <2>1, Zenon DEF CalIInv, Times
<1>15. Current'
  BY <1>1, Zenon DEF CalIInv, Current
<1>16. Armed'
  <2>1. \A y \in pending' : armed'[y]
    BY <1>1, <1>2, <1>9 DEF CalIInv, Armed
  <2>2. ASSUME pc' = "lock", ~cc_cancel' PROVE armed'[c'] /\ c' \notin pending'
    <3>1. pc = "lock" /\ c' = c /\ ~cc_cancel /\ ~CanCancel(x)
      BY <1>1, <2>2, Zenon
    <3>2. c # x /\ c \in Callouts
      BY <3>1 DEF CanCancel, CalIInv, Current
    <3> QED
      BY <1>1, <1>9, <3>1, <3>2 DEF CalIInv, Armed
  <2>3. ASSUME pc' = "handler", c' \notin pending', c' \in active' PROVE armed'[c']
    <3>1. pc = "handler" /\ c' = c /\ c # x /\ c \notin pending /\ c \in active /\ c \in Callouts
      <4>1. pc = "handler" /\ c' = c /\ c # x /\ c \notin pending /\ c \in active
        BY <1>1, <2>3, Zenon
      <4> QED
        BY <4>1, Zenon DEF CalIInv, Current
    <3> QED
      BY <1>9, <3>1 DEF CalIInv, Armed
  <2> QED
    BY <2>1, <2>2, <2>3, Zenon DEF Armed
<1>17. ReturnValuesExact' /\ owed' \in [Callouts -> 0 .. 2]
  <2>1. CASE CanCancel(x)
    <3>1. cc_curr = x /\ x \in Locked /\ ~cc_cancel
      BY <2>1 DEF CanCancel
    <3>2. pc = "lock" /\ c = x
      BY <3>1, WheelAssumption DEF CalIInv, Current, Callouts
    <3>3. x \notin pending
      BY <3>1, <3>2, Zenon DEF CalIInv, Armed
    <3>4. owed' = owed /\ cc_cancel' = TRUE
      BY <1>1, <2>1, Zenon
    <3> QED
      BY <1>1, <1>2, <3>1, <3>2, <3>3, <3>4 DEF CalIInv, ReturnValuesExact
  <2>2. CASE ~CanCancel(x) /\ x \in pending
    BY <1>1, <1>2, <2>2 DEF CalIInv, ReturnValuesExact
  <2>3. CASE ~CanCancel(x) /\ x \notin pending
    <3>1. owed' = [owed EXCEPT ![x] = @ + 1] /\ cc_cancel' = cc_cancel /\ pending' = pending \cup {x}
          /\ UNCHANGED <<cc_curr, pc>>
      BY <1>1, <1>2, <2>3
    <3>2. ReturnValuesExact
      BY Zenon DEF CalIInv
    <3>3. owed[x] \in 0 .. 1
      BY ONLY <2>3, <3>2, x \in Callouts DEF ReturnValuesExact
    <3>4. owed' \in [Callouts -> 0 .. 2]
      BY ONLY <1>2, <3>1, <3>3, x \in Callouts
    <3>5. ReturnValuesExact'
      BY ONLY <1>2, <2>3, <3>1, <3>2, x \in Callouts DEF ReturnValuesExact
    <3> QED
      BY <3>4, <3>5, Zenon
  <2> QED
    BY <2>1, <2>2, <2>3, Zenon
<1>18. TypeOK'
  <2>1. c_time' \in [Callouts -> Tick] /\ left' \in [Callouts -> 0 .. MaxTo]
        /\ armed' \in [Callouts -> BOOLEAN]
    BY ONLY <1>1, <1>2, <1>4, x \in Callouts, to \in 0 .. MaxTo
  <2>2. /\ pending' \subseteq Callouts /\ active' \subseteq Callouts
        /\ cc_cancel' \in BOOLEAN
    BY ONLY <1>1, <1>2, x \in Callouts DEF CanCancel
  <2>3. cc_next' \in Callouts \cup {None}
    BY ONLY <1>1, <1>5, Zenon DEF Off
  <2>4. UNCHANGED <<ticks, cc_softticks, cc_curr, cc_waiting, cc_lock, c_lock, pc, c, curticks, steps,
                    drain, woken>>
    BY ONLY <1>1, Zenon
  <2> QED
    BY ONLY <1>2, <1>7, <1>17, <2>1, <2>2, <2>3, <2>4, Zenon DEF TypeOK, Wheels, Tick
<1> QED
  BY <1>8, <1>12, <1>13, <1>14, <1>15, <1>16, <1>17, <1>18, Zenon DEF CalIInv

\* The wheel starts empty.
LEMMA CalInit == Init => CalIInv
<1> SUFFICES ASSUME Init PROVE CalIInv
  OBVIOUS
<1>1. /\ ticks = 0 /\ cc_softticks = 0 /\ cc_callwheel = [b \in 0 .. WheelSize - 1 |-> <<>>]
      /\ cc_next = None /\ cc_curr = None /\ cc_cancel = FALSE /\ cc_waiting = FALSE
      /\ cc_lock = None /\ c_lock = None /\ c_time = [x \in Callouts |-> 0] /\ pending = {} /\ active = {}
      /\ pc = "tick" /\ c = None /\ curticks = 0 /\ steps = 0
      /\ drain = [t \in Thread |-> None] /\ woken = {} /\ owed = [x \in Callouts |-> 0]
      /\ armed = [x \in Callouts |-> FALSE] /\ left = [x \in Callouts |-> 0]
  BY Zenon DEF Init
<1>2. TypeOK
  <2>1. 0 \in 0 .. TickMod - 1 /\ 0 \in 0 .. MaxSteps - 1 /\ 0 \in 0 .. MaxTo
    BY ONLY Sizes
  <2>2. cc_callwheel \in [0 .. WheelSize - 1 -> Seq(Callouts)]
    BY ONLY <1>1
  <2>3. /\ c_time \in [Callouts -> 0 .. TickMod - 1] /\ left \in [Callouts -> 0 .. MaxTo]
        /\ owed \in [Callouts -> 0 .. 2] /\ armed \in [Callouts -> BOOLEAN]
        /\ drain \in [Thread -> Callouts \cup {None}]
    BY ONLY <1>1, <2>1
  <2> QED
    BY ONLY <1>1, <2>1, <2>2, <2>3, Zenon DEF TypeOK
<1>3. Clock /\ InBucket /\ Times /\ Armed
  BY ONLY <1>1 DEF Clock, InBucket, Times, Armed, Walking
<1>4. Wheel
  BY ONLY <1>1 DEF Wheel, WheelHolds, Distinct, On
<1>5. Current /\ ReturnValuesExact
  BY ONLY <1>1 DEF Current, ReturnValuesExact
<1> QED
  BY <1>2, <1>3, <1>4, <1>5, Zenon DEF CalIInv

\* Every step keeps the invariant.
LEMMA CalNext == CalIInv /\ [Next]_vars => CalIInv'
<1> SUFFICES ASSUME CalIInv, [Next]_vars PROVE CalIInv'
  OBVIOUS
<1>1. CASE TimerNext
  BY <1>1, HardclockStep, CalloutTickStep, SoftPassStep, SoftBucketStep, SoftSkipStep, SoftAgainStep,
     SoftFireStep, SoftLockStep, HandlerStep, HandlerEndStep, Zenon DEF TimerNext
<1>2. CASE (\E t \in Thread : Lock(t) \/ Unlock(t) \/ DrainReturn(t)) \/ UNCHANGED vars
  BY <1>2, QuietStep, Zenon
<1>3. ASSUME NEW a, NEW x \in Callouts,
             CalloutStop(a, x) \/ \E to \in 0 .. MaxTo : CalloutReset(a, x, to)
      PROVE  CalIInv'
  BY <1>3, StopStep, ResetStep, Zenon
<1>4. ASSUME NEW t \in Thread, NEW x \in Callouts, CalloutDrain(t, x) PROVE CalIInv'
  BY <1>4, StopStep, Zenon
<1> QED
  BY <1>1, <1>2, <1>3, <1>4, Zenon DEF Next

\* CalIInv is an invariant of the callout wheel.
LEMMA CalAlways == Spec => []CalIInv
  BY CalInit, CalNext, PTL DEF Spec

\* A callout is on the wheel, once and in the bucket of its time, exactly while
\* it is marked pending, whatever callout_reset_on, _callout_stop_safe and
\* softclock do to it.
THEOREM WheelInvariant == Spec => []WheelInv
<1>1. CalIInv => WheelInv
  <2> SUFFICES ASSUME CalIInv PROVE WheelMatchesPending
    BY Zenon DEF CalIInv, WheelInv
  <2> SUFFICES ASSUME NEW b \in 0 .. WheelSize - 1
               PROVE  LET q == cc_callwheel[b] IN
                      /\ \A i \in DOMAIN q : q[i] \in pending /\ Bucket(c_time[q[i]]) = b
                      /\ \A i, j \in DOMAIN q : q[i] = q[j] => i = j
                      /\ \A x \in pending : Bucket(c_time[x]) = b => \E i \in DOMAIN q : q[i] = x
    BY Zenon DEF WheelMatchesPending
  <2> DEFINE q == cc_callwheel[b]
  <2>1. q \in Seq(Callouts) /\ pending \in SUBSET Callouts
    BY Types DEF CalIInv, Wheels
  <2>2. DOMAIN q = 1 .. Len(q) /\ \A i \in 1 .. Len(q) : q[i] \in Callouts
    BY ONLY <2>1
  <2>3. Distinct(q) /\ \A x \in Callouts : On(q, x) <=> x \in pending /\ Bucket(c_time[x]) = b
    BY Zenon DEF CalIInv, Wheel, WheelHolds
  <2> HIDE DEF q
  <2>4. /\ \A i \in 1 .. Len(q) : q[i] \in pending /\ Bucket(c_time[q[i]]) = b
        /\ \A i, j \in 1 .. Len(q) : q[i] = q[j] => i = j
        /\ \A x \in pending : Bucket(c_time[x]) = b => \E i \in 1 .. Len(q) : q[i] = x
    BY ONLY <2>1, <2>2, <2>3, Zenon DEF Distinct, On
  <2> QED
    BY ONLY <2>2, <2>4, Zenon DEF q
<1> QED
  BY <1>1, CalAlways, PTL

\* The return values of callout_reset and callout_stop are right: the
\* invocations not reported as cancelled and not yet made are exactly the one on
\* the wheel and the one softclock is about to start.
THEOREM ReturnValuesAlwaysExact == Spec => []ReturnValuesExact
<1>1. CalIInv => ReturnValuesExact
  BY Zenon DEF CalIInv
<1> QED
  BY <1>1, CalAlways, PTL

\* softclock forgets no callout, though it gives up cc_lock in the middle of a
\* bucket and others change the bucket: one whose tick the wheel has passed is
\* still ahead of cc_next.
THEOREM NoneEverMissed == Spec => []NoneMissed
<1>1. CalIInv => NoneMissed
  <2> SUFFICES ASSUME CalIInv, NEW x \in pending
               PROVE  \/ (c_time[x] - cc_softticks) % TickMod <= MaxTo + 1
                      \/ c_time[x] = curticks /\ x \in Ahead
    BY Zenon DEF NoneMissed
  <2>1. /\ x \in Callouts /\ c_time[x] \in Tick /\ ticks \in Tick /\ cc_softticks \in Tick
        /\ curticks \in Tick /\ cc_callwheel \in Wheels /\ TypeOK
    BY Types, Zenon DEF CalIInv
  <2>2. cc_softticks = ticks \/ ticks = Inc(cc_softticks)
    BY <2>1 DEF CalIInv, Clock, Walking, TypeOK
  <2>3. CASE OnTime(x)
    <3>1. PICK e \in 0 .. MaxTo : c_time[x] = (ticks + e) % TickMod
      BY <2>3, Zenon DEF OnTime
    <3> QED
      BY ONLY <2>1, <2>2, <3>1, ComingIs, Zenon
  <2>4. CASE Due(x) /\ ticks = Inc(cc_softticks)
    <3>1. c_time[x] = cc_softticks
      BY <2>1, <2>4, IncOnce, Zenon DEF Due
    <3>2. (c_time[x] - cc_softticks) % TickMod = 0
      BY ONLY <2>1, <3>1, LagIs, Zenon
    <3>3. 0 <= MaxTo + 1
      BY ONLY Sizes
    <3> QED
      BY ONLY <3>2, <3>3, Zenon
  <2>5. CASE Due(x) /\ pc \in Walking /\ Behind(Queue, Cursor, x)
    <3>1. c_time[x] = curticks
      BY <2>1, <2>5, IncOnce, Zenon DEF Due, CalIInv, Clock
    <3>2. Queue \in Seq(Callouts)
      BY <2>1, BucketType, Zenon DEF Queue, Wheels
    <3>3. PICK i \in 1 .. Len(Queue), j \in 1 .. Len(Queue) : i <= j /\ Queue[i] = Cursor /\ Queue[j] = x
      BY <2>5, Zenon DEF Behind
    <3>4. j \in DOMAIN Queue /\ i \in 1 .. j
      BY ONLY <3>2, <3>3
    <3>5. Ahead = {Queue[k] : k \in {k \in DOMAIN Queue : \E l \in 1 .. k : Queue[l] = Cursor}}
      BY <2>5, Zenon DEF Ahead, Queue, Cursor, Walking
    <3>6. x \in Ahead
      BY ONLY <3>3, <3>4, <3>5, Zenon
    <3> QED
      BY <3>1, <3>6, Zenon
  <2> QED
    BY <2>3, <2>4, <2>5 DEF CalIInv, Times, Clock
<1> QED
  BY <1>1, CalAlways, PTL

\* A callout that was stopped, or whose invocation a reset overtook, does not
\* run: softclock looks at cc_cancel and an MPSAFE handler at the callout's flags
\* once they have its lock.
THEOREM StoppedNeverRuns == Spec => StoppedStaysStopped
<1>1. ASSUME CalIInv, [Next]_vars PROVE [pc # "body" /\ pc' = "body" => armed[cc_curr]]_vars
  <2> SUFFICES ASSUME pc # "body", pc' = "body" PROVE armed[cc_curr]
    BY Zenon
  <2>1. SoftLock \/ Handler
    <3>1. ~UNCHANGED pc
      OBVIOUS
    <3>2. ~UNCHANGED vars
      BY <3>1 DEF vars, timerVars
    <3>3. TimerNext
      BY <1>1, <3>1, <3>2, Zenon DEF Next, Lock, Unlock, DrainReturn, CalloutStop, CalloutReset, Reschedule,
         CalloutDrain, timerVars
    <3> QED
      BY <3>3, Zenon DEF TimerNext, Hardclock, CalloutTick, Softclock, SoftBucket, SoftBucketEnd, SoftEnd, SoftSkip,
         SoftYield, SoftFire, Fire, HandlerEnd, SoftDone
  <2>2. CASE SoftLock
    BY <1>1, <2>2 DEF SoftLock, SoftLockUnless, CalIInv, Armed, Current
  <2>3. CASE Handler
    BY <1>1, <2>3 DEF Handler, HandlerUnless, CalIInv, Armed, Current
  <2> QED
    BY <2>1, <2>2, <2>3, Zenon
<1> QED
  BY <1>1, CalAlways, PTL DEF Spec, StoppedStaysStopped

\* softclock takes no callout off the wheel before its number of ticks has
\* passed, though buckets are shared by times a turn of the wheel apart and the
\* clock wraps around.
THEOREM NoneIsEarly == Spec => NeverEarly
<1>1. ASSUME CalIInv, [Next]_vars
      PROVE  [pc = "scan" /\ pc' \in {"lock", "handler"} => left[c] = 0]_vars
  <2> SUFFICES ASSUME pc = "scan", pc' \in {"lock", "handler"} PROVE left[c] = 0
    BY Zenon
  <2>1. SoftFire
    <3>1. ~UNCHANGED pc
      OBVIOUS
    <3>2. ~UNCHANGED vars
      BY <3>1 DEF vars, timerVars
    <3>3. TimerNext
      BY <1>1, <3>1, <3>2, Zenon DEF Next, Lock, Unlock, DrainReturn, CalloutStop, CalloutReset, Reschedule,
         CalloutDrain, timerVars
    <3> QED
      BY <3>3, Zenon DEF TimerNext, Hardclock, CalloutTick, Softclock, SoftBucket, SoftBucketEnd, SoftEnd, SoftSkip,
         SoftYield, SoftLock, SoftLockUnless, StartBody, Handler, HandlerUnless, HandlerEnd, SoftDone
  <2>2. c # None /\ c_time[c] = curticks
    BY <2>1 DEF SoftFire, Fire
  <2>3. c \in Callouts /\ c \in pending /\ ticks = Inc(curticks) /\ ticks \in Tick /\ c_time[c] \in Tick
    <3>1. Cursor = c /\ pc \in Walking
      BY DEF Cursor, Walking
    <3>2. c \in Callouts /\ c \in pending /\ ticks = Inc(curticks)
      BY <1>1, <2>2, <3>1, Zenon DEF CalIInv, InBucket, Clock
    <3> QED
      BY <1>1, <3>2, Types DEF CalIInv
  <2>4. ~OnTime(c)
    BY <2>2, <2>3, ComingIs, Zenon DEF OnTime
  <2> QED
    BY <1>1, <2>3, <2>4, Zenon DEF CalIInv, Times, Due
<1> QED
  BY <1>1, CalAlways, PTL DEF Spec, NeverEarly
=============================================================================
