-------------------------- MODULE NetmapRx_proofs ---------------------------
(***************************************************************************)
(* For every pool size, the context pool of the netmap driver keeps its    *)
(* invariant, which is PoolInv of BufinfoPool, and the circular list       *)
(* implements the three sets of contexts of ContextPool.  For every ring   *)
(* and pool size, the receive ring and the pool keep every netmap buffer   *)
(* in one place: the inductive invariant is then                           *)
(* PoolInv /\ RingInv /\ NoBufferShared.                                   *)
(***************************************************************************)
EXTENDS NetmapRx, FiniteSetTheorems, TLAPS

-----------------------------------------------------------------------------
(***************************************************************************)
(* BufinfoPool.                                                            *)
(***************************************************************************)

\* Sets of contexts are finite, so that Cardinality counts them.
LEMMA HeldFinite ==
  ASSUME NEW S \in SUBSET Bufinfo
  PROVE  IsFiniteSet(S) /\ Cardinality(S) \in Nat
<1>1. IsFiniteSet(Bufinfo)
  BY MaxAssumption, FS_Interval DEF Bufinfo
<1> QED
  BY <1>1, FS_Subset, FS_CardinalityType

\* Removing and adding one context changes the count by one.
LEMMA HeldCount ==
  ASSUME NEW S \in SUBSET Bufinfo, NEW b \in Bufinfo
  PROVE  /\ b \in S => Cardinality(S \ {b}) = Cardinality(S) - 1
         /\ b \in S => Cardinality(S) >= 1
         /\ b \notin S => Cardinality(S \cup {b}) = Cardinality(S) + 1
<1>1. /\ IsFiniteSet(S) /\ Cardinality(S) \in Nat
      /\ IsFiniteSet(S \ {b}) /\ Cardinality(S \ {b}) \in Nat
  BY HeldFinite
<1>2. b \in S => Cardinality(S \ {b}) = Cardinality(S) - 1
  BY <1>1, FS_RemoveElement
<1>3. b \notin S => Cardinality(S \cup {b}) = Cardinality(S) + 1
  BY <1>1, FS_AddElement, Zenon
<1> QED
  BY <1>1, <1>2, <1>3

\* Two different contexts count for at least two.
LEMMA HeldTwo ==
  ASSUME NEW S \in SUBSET Bufinfo, NEW a \in S, NEW b \in S, a # b
  PROVE  Cardinality(S) >= 2
<1>1. /\ a \in Bufinfo /\ b \in S \ {a}
      /\ S \ {a} \in SUBSET Bufinfo
  OBVIOUS
<1>2. Cardinality(S \ {a}) = Cardinality(S) - 1
  BY HeldCount
<1>3. Cardinality(S \ {a}) >= 1
  BY <1>1, HeldCount, Zenon
<1>4. Cardinality(S) \in Nat
  BY HeldFinite
<1> QED
  BY <1>2, <1>3, <1>4

\* Places are places of the array, and different offsets are different ones.
LEMMA AtPlace ==
  ASSUME NEW h \in Bufinfo, NEW k \in 0 .. Max - 1
  PROVE  /\ At(h, k) \in Bufinfo
         /\ At(h, 0) = h
         /\ \A j \in 0 .. Max - 1 : j # k => At(h, j) # At(h, k)
  BY MaxAssumption DEF At, Bufinfo

\* Moving the head by one shifts the offsets by one.
LEMMA AtBump ==
  ASSUME NEW h \in Bufinfo
  PROVE  /\ Bump(h) \in Bufinfo /\ Drop(h) \in Bufinfo
         /\ Drop(Bump(h)) = h /\ Bump(Drop(h)) = h
         /\ Drop(h) = At(h, Max - 1)
         /\ \A k \in 0 .. Max - 2 : At(Bump(h), k) = At(h, k + 1)
         /\ \A k \in 1 .. Max - 1 : At(Drop(h), k) = At(h, k - 1)
         /\ At(Drop(h), 0) = Drop(h)
         /\ At(Bump(h), Max - 1) = h
         /\ \A k \in 0 .. Max - 2 : Bump(At(h, k)) = At(h, k + 1)
         /\ Bump(At(h, Max - 1)) = h
  BY MaxAssumption DEF At, Bufinfo, Bump, Drop

\* if_netmap_bufinfo_pool_init leaves every context ready and no call under
\* way.
LEMMA InitInv == PoolInit => PoolInv
<1> SUFFICES ASSUME PoolInit PROVE PoolInv
  OBVIOUS
<1> USE MaxAssumption DEF PoolInit
<1>1. PoolTypeOK
  BY DEF PoolTypeOK, Index, Bufinfo, NoBufinfo
<1>2. PoolConserved
  BY FS_EmptySet DEF PoolConserved
<1>3. NoDoubleUse
  BY DEF NoDoubleUse, Place, At, Bufinfo
<1>4. RingOrder /\ UnallocRestores /\ SweepInv /\ FreeInv
  BY DEF RingOrder, UnallocRestores, SweepInv, FreeInv, Place, At, NoBufinfo
<1> QED
  BY <1>1, <1>2, <1>3, <1>4 DEF PoolInv

-----------------------------------------------------------------------------
\* Allocating moves the first listed context to held; what is behind the
\* head is then that context.
LEMMA AllocInv == PoolInv /\ Alloc => PoolInv'
<1> SUFFICES ASSUME PoolInv, Alloc PROVE PoolInv'
  OBVIOUS
<1> USE MaxAssumption DEF PoolInv, Alloc, freeVars
<1>0. Max > 0 /\ head \in Bufinfo
  BY DEF PoolTypeOK, Index, Bufinfo
<1>1. /\ Max > 0 /\ head \in Bufinfo
      /\ pend' = free_list[Place(0)] /\ Place(0) = head
      /\ free_list[head] \in Bufinfo /\ free_list[head] \notin held
  <2>1. Place(0) = head
    BY <1>0 DEF Place, At, Bufinfo
  <2>2. 0 \in 0 .. avail + returnable - 1
    BY DEF PoolTypeOK
  <2> QED
    BY <1>0, <2>1, <2>2 DEF PoolTypeOK, NoDoubleUse
<1>2. head' \in Bufinfo /\ Drop(head') = head
  BY <1>1, AtBump, Zenon
<1>3. PoolTypeOK'
  BY <1>1, <1>2 DEF PoolTypeOK, Index
<1>4. PoolConserved'
  <2>1. Cardinality(held') = Cardinality(held) + 1
    BY <1>1, HeldCount DEF PoolTypeOK
  <2>2. Cardinality(held) \in Nat
    BY HeldFinite, Zenon DEF PoolTypeOK
  <2> QED
    BY <2>1, <2>2 DEF PoolConserved, PoolTypeOK
<1>5. \A k \in 0 .. avail' + returnable' - 1 :
        k + 1 \in 0 .. avail + returnable - 1 /\ Place(k)' = Place(k + 1)
  <2>1. avail + returnable <= Max
    BY HeldFinite DEF PoolTypeOK, PoolConserved
  <2> QED
    BY <1>1, <2>1, AtBump DEF PoolTypeOK, Place
<1>6. NoDoubleUse'
  BY <1>1, <1>5 DEF NoDoubleUse, PoolTypeOK
<1>7. RingOrder'
  <2>0. Cardinality(held) \in Nat
    BY HeldFinite DEF PoolTypeOK
  <2>1. /\ head \in 0 .. Max - 1 /\ avail \in 1 .. Max /\ returnable \in 0 .. Max
        /\ n = 0 /\ avail + returnable <= Max
    BY <1>0, <2>0 DEF PoolTypeOK, PoolConserved, SweepInv, Bufinfo
  <2> QED
    BY <2>1 DEF RingOrder, Place, At, Bump, Drop
<1>8. UnallocRestores'
  BY <1>1, <1>2 DEF UnallocRestores
<1>9. SweepInv' /\ FreeInv'
  BY <1>1 DEF SweepInv, FreeInv
<1> QED
  BY <1>3, <1>4, <1>6, <1>7, <1>8, <1>9

\* The context allocated last is put back where it came from.
LEMMA UnallocInv == PoolInv /\ Unalloc => PoolInv'
<1> SUFFICES ASSUME PoolInv, Unalloc PROVE PoolInv'
  OBVIOUS
<1> USE MaxAssumption DEF PoolInv, Unalloc, freeVars
<1>0. pend \in held /\ pend \in Bufinfo
  BY DEF PoolTypeOK
<1>1. /\ pend \in held /\ pend \in Bufinfo /\ Max > 0 /\ head \in Bufinfo
      /\ Drop(head) \in Bufinfo /\ free_list[Drop(head)] = pend
  <2>1. Max > 0 /\ head \in Bufinfo
    BY <1>0 DEF PoolTypeOK, Index, Bufinfo
  <2> QED
    BY <1>0, <2>1, AtBump DEF UnallocRestores
<1>2. /\ Cardinality(held') = Cardinality(held) - 1
      /\ Cardinality(held) \in Nat /\ Cardinality(held') \in Nat
      /\ Cardinality(held) >= 1
  BY <1>1, HeldCount, HeldFinite, Zenon DEF PoolTypeOK
<1>3. PoolConserved'
  BY <1>2 DEF PoolConserved, PoolTypeOK
<1>4. avail + returnable <= Max - 1
  BY <1>2 DEF PoolConserved, PoolTypeOK
<1>5. PoolTypeOK'
  BY <1>1, <1>4 DEF PoolTypeOK, Index
<1>6. /\ Place(0)' = Drop(head)
      /\ \A k \in 1 .. avail' + returnable' - 1 : Place(k)' = Place(k - 1)
  BY <1>1, <1>4, AtBump DEF PoolTypeOK, Place
<1>7. NoDoubleUse'
  BY <1>1, <1>6 DEF NoDoubleUse, PoolTypeOK
<1>8. RingOrder'
  <2>1. /\ head \in 0 .. Max - 1 /\ avail \in 0 .. Max /\ returnable \in 0 .. Max
        /\ n = 0
    BY <1>1 DEF PoolTypeOK, SweepInv, Bufinfo
  <2> QED
    BY <1>4, <2>1 DEF RingOrder, Place, At, Drop
<1>9. UnallocRestores' /\ SweepInv'
  BY Zenon DEF UnallocRestores, SweepInv
<1>10. FreeInv'
  <2>1. fpc = "written" => fbi # pend
    BY Zenon DEF FreeInv
  <2> QED
    BY <2>1 DEF FreeInv, NoBufinfo, PoolTypeOK, Bufinfo
<1> QED
  BY <1>3, <1>5, <1>7, <1>8, <1>9, <1>10

\* A context handed to the stack is no longer pending.
LEMMA HandOffInv == PoolInv /\ HandOff => PoolInv'
  BY DEF PoolInv, HandOff, freeVars, PoolTypeOK, PoolConserved, NoDoubleUse,
         RingOrder, UnallocRestores, SweepInv, FreeInv, Place, NoBufinfo, Bufinfo

-----------------------------------------------------------------------------
\* Sweeping only moves the boundary between the two parts of the list.
LEMMA SweepKeepsInv ==
  PoolInv /\ (SweepStart \/ SweepOne \/ SweepEnd) => PoolInv'
<1> SUFFICES ASSUME PoolInv, SweepStart \/ SweepOne \/ SweepEnd PROVE PoolInv'
  OBVIOUS
<1> USE MaxAssumption DEF PoolInv, freeVars
<1>1. /\ free_list' = free_list /\ head' = head /\ tail' = tail
      /\ held' = held /\ pend' = pend /\ fpc' = fpc /\ fbi' = fbi
      /\ avail' + returnable' = avail + returnable
      /\ avail' + returnable' - 1 = avail + returnable - 1
      /\ avail' \in Nat /\ returnable' \in Nat
  BY DEF SweepStart, SweepOne, SweepEnd, PoolTypeOK, SweepInv
<1>2. Cardinality(held) \in Nat /\ avail + returnable <= Max
  BY HeldFinite DEF PoolTypeOK, PoolConserved
<1>3. PoolConserved' /\ UnallocRestores' /\ FreeInv'
  BY <1>1 DEF PoolConserved, UnallocRestores, FreeInv
<1>4. NoDoubleUse'
  BY <1>1, Zenon DEF NoDoubleUse, Place
<1>5. SweepInv'
  BY <1>1 DEF SweepStart, SweepOne, SweepEnd, PoolTypeOK, SweepInv
<1>6. PoolTypeOK'
  <2>1. avail' \in 0 .. Max /\ returnable' \in 0 .. Max
    <3>1. avail' + returnable' <= Max /\ avail' \in Nat /\ returnable' \in Nat
      BY <1>1, <1>2, Zenon
    <3>2. \A a, b \in Nat : a + b <= Max => a \in 0 .. Max /\ b \in 0 .. Max
      BY ONLY MaxAssumption
    <3> QED
      BY ONLY <3>1, <3>2
  <2>2. /\ rxpc' \in {"receive", "sweep"} /\ returned' \in 0 .. Max
        /\ n' \in 0 .. returned'
    BY DEF SweepStart, SweepOne, SweepEnd, PoolTypeOK, SweepInv
  <2>3. trail' \in Index
    <3>1. trail \in Index /\ (trail' = trail \/ (trail' = Bump(trail) /\ Max > 0))
      BY DEF SweepStart, SweepOne, SweepEnd, PoolTypeOK
    <3> QED
      BY <3>1 DEF Index, Bump, Bufinfo
  <2> QED
    BY <1>1, <2>1, <2>2, <2>3 DEF PoolTypeOK
<1>7. RingOrder'
  <2>1. /\ head \in Nat /\ (head < Max \/ head = 0) /\ avail \in 0 .. Max
        /\ returnable \in 0 .. Max /\ n \in 0 .. returned /\ returned \in 0 .. returnable
    BY DEF PoolTypeOK, Index, Bufinfo, SweepInv
  <2>2. CASE SweepStart
    BY <1>1, <2>1, <2>2, Zenon DEF SweepStart, RingOrder, Place, SweepInv
  <2>3. CASE SweepOne
    BY <1>1, <1>2, <2>1, <2>3 DEF SweepOne, RingOrder, Place, At, Bump
  <2>4. CASE SweepEnd
    BY <1>1, <1>2, <2>1, <2>4 DEF SweepEnd, RingOrder, Place, At
  <2> QED
    BY <2>2, <2>3, <2>4
<1> QED
  BY <1>3, <1>4, <1>5, <1>6, <1>7

\* The entry at the tail is not a listed one and not the one behind the
\* head, so that writing it disturbs neither the list nor an allocation.
LEMMA FreeWriteInv ==
  ASSUME PoolInv, NEW bi \in Bufinfo, FreeWrite(bi)
  PROVE  PoolInv'
<1> USE MaxAssumption DEF PoolInv, FreeWrite, rxVars
<1>1. bi \in held /\ bi # pend /\ Cardinality(held) >= 1 /\ Cardinality(held) \in Nat
  BY HeldFinite, HeldCount, Zenon DEF PoolTypeOK
<1>2. avail + returnable <= Max - 1
  BY <1>1 DEF PoolConserved, PoolTypeOK
<1>3. Max > 0 /\ head \in Bufinfo /\ tail \in Bufinfo /\ tail = Place(avail + returnable)
  <2>1. avail \in Nat /\ returnable \in Nat /\ head \in Index /\ tail \in Index
    BY DEF PoolTypeOK
  <2>2. head \in Bufinfo /\ tail \in Bufinfo /\ Max > 0
    BY <1>2, <2>1 DEF Index, Bufinfo
  <2> QED
    BY <1>2, <2>1, <2>2 DEF RingOrder
<1>4. \A k \in 0 .. avail + returnable - 1 : Place(k) \in Bufinfo /\ Place(k) # tail
  BY <1>2, <1>3, AtPlace DEF PoolTypeOK, Place
<1>5. PoolTypeOK'
  BY <1>3 DEF PoolTypeOK
<1>6. PoolConserved' /\ SweepInv'
  BY DEF PoolConserved, SweepInv
<1>7. \A i \in Bufinfo : i # tail => free_list'[i] = free_list[i]
  BY DEF PoolTypeOK
<1>8. NoDoubleUse'
  <2>1. \A k \in 0 .. avail + returnable - 1 :
          Place(k)' = Place(k) /\ free_list'[Place(k)] = free_list[Place(k)]
    BY <1>4, <1>7, Zenon DEF Place
  <2>2. \A k \in 0 .. avail + returnable - 1 : \A j \in 0 .. k - 1 :
          j \in 0 .. avail + returnable - 1
    BY DEF PoolTypeOK
  <2> QED
    BY <2>1, <2>2 DEF NoDoubleUse
<1>9. RingOrder'
  BY Zenon DEF RingOrder, Place
<1>10. UnallocRestores'
  <2>1. SUFFICES ASSUME pend # NoBufinfo PROVE Drop(head) # tail /\ Drop(head) \in Bufinfo
    BY <1>7 DEF UnallocRestores
  <2>2. Cardinality(held) >= 2
    BY <1>1, <2>1, HeldTwo, Zenon DEF PoolTypeOK
  <2>3. avail + returnable <= Max - 2
    BY <1>1, <2>2 DEF PoolConserved, PoolTypeOK
  <2>4. avail + returnable \in 0 .. Max - 1 /\ Max - 1 \in 0 .. Max - 1
    BY <1>2, <1>3 DEF PoolTypeOK
  <2> QED
    BY <1>3, <2>3, <2>4, AtPlace, AtBump DEF Place
<1>11. FreeInv'
  BY <1>1, <1>3 DEF FreeInv, PoolTypeOK
<1> QED
  BY <1>5, <1>6, <1>8, <1>9, <1>10, <1>11

\* Publishing appends the entry at the tail to the list.
LEMMA FreePublishInv == PoolInv /\ FreePublish => PoolInv'
<1> SUFFICES ASSUME PoolInv, FreePublish PROVE PoolInv'
  OBVIOUS
<1> USE MaxAssumption DEF PoolInv, FreePublish, rxVars
<1>1. fbi \in held /\ fbi # pend /\ free_list[tail] = fbi /\ fbi \in Bufinfo
  BY DEF FreeInv, PoolTypeOK
<1>2. /\ Cardinality(held') = Cardinality(held) - 1
      /\ Cardinality(held) \in Nat /\ Cardinality(held') \in Nat
      /\ Cardinality(held) >= 1
  BY <1>1, HeldCount, HeldFinite, Zenon DEF PoolTypeOK
<1>3. PoolConserved'
  BY <1>2 DEF PoolConserved, PoolTypeOK
<1>4. avail \in Nat /\ returnable \in Nat /\ avail + returnable <= Max - 1
  BY <1>2 DEF PoolConserved, PoolTypeOK
<1>5. tail = Place(avail + returnable)
  BY <1>4 DEF RingOrder
<1>6. PoolTypeOK'
  <2>1. returnable' \in 0 .. Max
    BY <1>4
  <2> QED
    BY <1>1, <2>1 DEF PoolTypeOK
<1>7. NoDoubleUse'
  <2>1. \A k : Place(k)' = Place(k)
    BY DEF Place
  <2>2. \A k \in 0 .. avail' + returnable' - 1 :
          k \in 0 .. avail + returnable - 1 \/ k = avail + returnable
    BY <1>4
  <2>3. \A k \in 0 .. avail + returnable - 1 : free_list[Place(k)] # fbi
    BY <1>1 DEF NoDoubleUse
  <2>4. free_list[Place(avail + returnable)] = fbi
    BY <1>1, <1>5
  <2>5. \A k \in 0 .. avail' + returnable' - 1 : free_list[Place(k)] \notin held'
    BY <2>2, <2>4 DEF NoDoubleUse
  <2>6. \A k \in 0 .. avail' + returnable' - 1 : \A j \in 0 .. k - 1 :
          free_list[Place(j)] # free_list[Place(k)]
    <3> SUFFICES ASSUME NEW k \in 0 .. avail' + returnable' - 1, NEW j \in 0 .. k - 1
                 PROVE  free_list[Place(j)] # free_list[Place(k)]
      OBVIOUS
    <3>1. j \in 0 .. avail + returnable - 1
      BY <1>4
    <3>2. CASE k \in 0 .. avail + returnable - 1
      BY <3>2 DEF NoDoubleUse
    <3>3. CASE k = avail + returnable
      BY <3>1, <3>3, <2>3, <2>4, Zenon
    <3> QED
      BY <2>2, <3>2, <3>3, Zenon
  <2> QED
    BY <2>1, <2>5, <2>6 DEF NoDoubleUse
<1>8. RingOrder'
  <2>1. avail' + returnable' - 1 = avail + returnable
    BY <1>4
  <2> QED
    BY <1>4, <2>1 DEF RingOrder, Place
<1>9. UnallocRestores' /\ FreeInv'
  BY <1>1 DEF UnallocRestores, FreeInv
<1>10. SweepInv'
  BY <1>4 DEF SweepInv, PoolTypeOK
<1> QED
  BY <1>3, <1>6, <1>7, <1>8, <1>9, <1>10, Zenon

\* The last store of if_netmap_bufinfo_free moves the end of the range.
LEMMA FreeAdvanceInv == PoolInv /\ FreeAdvance => PoolInv'
<1> SUFFICES ASSUME PoolInv, FreeAdvance PROVE PoolInv'
  OBVIOUS
<1> USE MaxAssumption DEF PoolInv, FreeAdvance, rxVars
<1>1. PoolConserved' /\ UnallocRestores' /\ FreeInv' /\ SweepInv'
  BY DEF PoolConserved, UnallocRestores, FreeInv, SweepInv
<1>2. NoDoubleUse'
  BY DEF NoDoubleUse, Place
<1>3. Max > 0 /\ tail \in Bufinfo /\ head \in Bufinfo
  <2>1. fbi \in Bufinfo /\ tail \in Index /\ head \in Index
    BY Zenon DEF FreeInv, PoolTypeOK
  <2> QED
    BY <2>1 DEF Index, Bufinfo
<1>4. PoolTypeOK'
  BY <1>3, AtBump, Zenon DEF PoolTypeOK, Index
<1>5. RingOrder'
  <2>1. /\ avail \in Nat /\ returnable \in Nat /\ n \in Nat
        /\ Cardinality(held) \in Nat /\ avail + returnable <= Max
    BY HeldFinite DEF PoolTypeOK, PoolConserved
  <2>2. avail + returnable - 1 \in 0 .. Max - 1 => tail = Place(avail + returnable - 1)
    BY DEF RingOrder
  <2>3. avail + returnable - 1 = -1 => tail = Drop(head)
    BY DEF RingOrder
  <2>4. /\ avail + returnable \in 0 .. Max - 1 => tail' = Place(avail + returnable)
        /\ avail + returnable = Max => tail' = head
    <3>1. CASE avail + returnable = 0
      <4>1. avail + (returnable - 1) = -1
        BY ONLY <2>1, <3>1
      <4>2. tail' = head
        BY <1>3, <2>3, <4>1, AtBump
      <4>3. Place(0) = head
        BY <1>3, AtPlace DEF Place
      <4> QED
        BY <1>3, <3>1, <4>2, <4>3, Zenon
    <3> DEFINE m == avail + returnable
    <3>2. m \in Nat /\ m <= Max /\ (m - 1 \in 0 .. Max - 1 => tail = At(head, m - 1))
      <4>1. m \in Nat /\ m <= Max
        BY ONLY <2>1
      <4>2. m - 1 = avail + (returnable - 1)
        BY ONLY <2>1
      <4>3. m - 1 \in 0 .. Max - 1 => tail = At(head, m - 1)
        BY ONLY <2>2, <4>2 DEF Place
      <4> QED
        BY ONLY <4>1, <4>3
    <3> HIDE DEF m
    <3>3. \A k \in 0 .. Max - 2 : Bump(At(head, k)) = At(head, k + 1)
      BY <1>3, AtBump, Zenon
    <3>4. Bump(At(head, Max - 1)) = head
      BY <1>3, AtBump
    <3>5. CASE m \in 1 .. Max - 1
      <4>1. m - 1 \in 0 .. Max - 2 /\ (m - 1) + 1 = m /\ tail = At(head, m - 1)
        BY <3>2, <3>5
      <4>2. Bump(tail) = At(head, m)
        BY <3>3, <4>1, Zenon
      <4> QED
        BY <3>5, <4>2 DEF m, Place
    <3>6. CASE m = Max
      <4>1. tail = At(head, Max - 1)
        BY <1>3, <3>2, <3>6
      <4> QED
        BY <3>4, <3>6, <4>1 DEF m
    <3>7. m = 0 \/ m \in 1 .. Max - 1 \/ m = Max
      BY <3>2
    <3> QED
      BY <3>1, <3>5, <3>6, <3>7, Zenon DEF m
  <2>5. /\ avail + n < Max => trail = Place(avail + n)
        /\ (avail + n = Max /\ Max > 0) => trail = head
    BY DEF RingOrder
  <2>6. \A k : Place(k)' = Place(k)
    BY Zenon DEF Place
  <2> QED
    BY <2>1, <2>4, <2>5, <2>6 DEF RingOrder
<1> QED
  BY <1>1, <1>2, <1>4, <1>5, Zenon

-----------------------------------------------------------------------------

\* A step of the ring alone leaves the pool as it is.
LEMMA StutterInv == PoolInv /\ UNCHANGED poolVars => PoolInv'
  BY DEF PoolInv, poolVars, PoolTypeOK, PoolConserved, NoDoubleUse, RingOrder,
         UnallocRestores, SweepInv, FreeInv, Place

\* Every step of the receive thread and of a freeing thread keeps the
\* invariant of the context pool.
LEMMA PoolStep == PoolInv /\ [PoolNext]_poolVars => PoolInv'
  BY AllocInv, HandOffInv, UnallocInv, SweepKeepsInv, FreeWriteInv,
     FreePublishInv, FreeAdvanceInv, StutterInv, Zenon DEF PoolNext, Free

\* The inductive invariant of the context pool, for every pool size.
THEOREM PoolInvariant == PoolSpec => []PoolInv
<1>1. PoolInit => PoolInv
  BY InitInv
<1>2. PoolInv /\ [PoolNext]_poolVars => PoolInv'
  BY PoolStep
<1> QED
  BY <1>1, <1>2, PTL DEF PoolSpec

\* if_netmap_bufinfo_alloc never hands out a context that an mbuf still
\* uses, and no context is listed twice, however frees interleave.
THEOREM NeverDoubleUse == PoolSpec => []NoDoubleUse
<1>1. PoolInv => NoDoubleUse
  BY DEF PoolInv
<1> QED
  BY <1>1, PoolInvariant, PTL

\* No context is ever lost: allocatable, returned and held ones add up.
THEOREM AlwaysConserved == PoolSpec => []PoolConserved
<1>1. PoolInv => PoolConserved
  BY DEF PoolInv
<1> QED
  BY <1>1, PoolInvariant, PTL

\* if_netmap_bufinfo_unalloc restores exactly the allocation it undoes.
THEOREM UnallocAlwaysRestores == PoolSpec => []UnallocRestores
<1>1. PoolInv => UnallocRestores
  BY Zenon DEF PoolInv
<1> QED
  BY <1>1, PoolInvariant, PTL

-----------------------------------------------------------------------------
(***************************************************************************)
(* The circular list implements the three sets of contexts of ContextPool. *)
(***************************************************************************)

\* What is on the list: all places are places of the array, the three parts
\* fit into it, and different places hold different contexts.
LEMMA Listed ==
  ASSUME PoolInv
  PROVE  /\ avail \in Nat /\ returnable \in Nat /\ returned \in Nat
         /\ returned <= returnable
         /\ avail + returnable <= Max
         /\ \A k \in 0 .. avail + returnable - 1 :
              /\ head \in Bufinfo /\ Place(k) \in Bufinfo
              /\ free_list[Place(k)] \in Bufinfo \ held
         /\ \A k, j \in 0 .. avail + returnable - 1 :
              k # j => free_list[Place(k)] # free_list[Place(j)]
<1> USE MaxAssumption DEF PoolInv
<1>1. /\ avail \in Nat /\ returnable \in Nat /\ returned \in Nat
      /\ returned <= returnable /\ avail + returnable <= Max
  BY HeldFinite DEF PoolTypeOK, PoolConserved, SweepInv
<1>2. ASSUME NEW k \in 0 .. avail + returnable - 1
      PROVE  /\ head \in Bufinfo /\ Place(k) \in Bufinfo
             /\ free_list[Place(k)] \in Bufinfo \ held
  <2>1. k \in 0 .. Max - 1 /\ head \in Bufinfo
    BY <1>1 DEF PoolTypeOK, Index, Bufinfo
  <2>2. Place(k) \in Bufinfo
    BY <2>1, AtPlace, Zenon DEF Place
  <2> QED
    BY <2>1, <2>2, Zenon DEF PoolTypeOK, NoDoubleUse
<1>3. ASSUME NEW k \in 0 .. avail + returnable - 1,
             NEW j \in 0 .. avail + returnable - 1, k # j
      PROVE  free_list[Place(k)] # free_list[Place(j)]
  <2>1. k \in 0 .. j - 1 \/ j \in 0 .. k - 1
    BY <1>1, <1>3
  <2> QED
    BY <2>1 DEF NoDoubleUse
<1> QED
  BY <1>1, <1>2, <1>3, Zenon

\* A step that leaves the listed places as they are leaves the lists as they are.
LEMMA EntriesSame ==
  ASSUME avail \in Nat, returnable \in Nat,
         avail' = avail, returnable' = returnable,
         \A k \in 0 .. avail + returnable - 1 :
           free_list'[Place(k)'] = free_list[Place(k)]
  PROVE  /\ Entries(0 .. avail - 1)' = Entries(0 .. avail - 1)
         /\ Entries(avail .. avail + returnable - 1)'
              = Entries(avail .. avail + returnable - 1)
  BY DEF Entries

\* Initially every context is ready.
LEMMA InitRefines == PoolInit => Contexts!Init
<1> SUFFICES ASSUME PoolInit PROVE Contexts!Init
  OBVIOUS
<1> USE MaxAssumption DEF PoolInit
<1>1. \A k \in 0 .. Max - 1 : free_list[Place(k)] = k
  BY DEF Place, At, Bufinfo
<1>2. Entries(0 .. avail - 1) = Bufinfo
  BY <1>1 DEF Entries, Bufinfo
<1>3. Entries(avail .. avail + returnable - 1) = {}
  BY DEF Entries
<1> QED
  BY <1>2, <1>3, Zenon DEF Contexts!Init

\* if_netmap_bufinfo_alloc takes a ready context.
LEMMA AllocRefines ==
  ASSUME PoolInv, Alloc
  PROVE  \E c \in Bufinfo : Contexts!Take(c)
<1> USE MaxAssumption DEF Alloc, freeVars
<1>1. /\ avail \in Nat \ {0} /\ returnable \in Nat /\ avail + returnable <= Max
      /\ head \in Bufinfo /\ Place(0) = head /\ free_list[head] \in Bufinfo
  <2>1. avail \in Nat /\ avail > 0 /\ returnable \in Nat /\ avail + returnable <= Max
    BY Listed, Zenon
  <2>2. 0 \in 0 .. avail + returnable - 1
    BY <2>1
  <2>3. head \in Bufinfo /\ free_list[Place(0)] \in Bufinfo
    BY <2>2, Listed, Zenon
  <2>4. Place(0) = head
    BY <2>3, <2>1, AtPlace DEF Place
  <2> QED
    BY <2>1, <2>3, <2>4
<1>2. \A k \in 0 .. avail + returnable - 2 :
        k + 1 \in 0 .. avail + returnable - 1 /\ Place(k)' = Place(k + 1)
  BY <1>1, AtBump DEF Place
<1>3. \A k \in 1 .. avail + returnable - 1 :
        /\ k - 1 \in 0 .. avail + returnable - 2 /\ Place(k - 1)' = Place(k)
        /\ free_list[Place(k)] # free_list[head]
  <2>1. \A k \in 1 .. avail + returnable - 1 :
          k - 1 \in 0 .. avail + returnable - 2 /\ (k - 1) + 1 = k
          /\ k \in 0 .. avail + returnable - 1 /\ k # 0 /\ 0 \in 0 .. avail + returnable - 1
    BY <1>1
  <2> QED
    BY <1>1, <1>2, <2>1, Listed, Zenon
<1>4. Entries(0 .. avail - 1)' = Entries(0 .. avail - 1) \ {free_list[head]}
  <2>1. \A k \in 0 .. avail' - 1 : k \in 0 .. avail + returnable - 2 /\ k + 1 \in 1 .. avail - 1
                                   /\ k + 1 \in 0 .. avail - 1
    BY <1>1
  <2>2. \A k \in 0 .. avail - 1 : k = 0 \/ (k \in 1 .. avail + returnable - 1 /\ k - 1 \in 0 .. avail' - 1)
    BY <1>1
  <2>3. ASSUME NEW e \in Entries(0 .. avail - 1)' PROVE e \in Entries(0 .. avail - 1) \ {free_list[head]}
    <3>1. PICK k \in 0 .. avail' - 1 : e = free_list[Place(k)']
      BY <2>3, Zenon DEF Entries
    <3>2. e = free_list[Place(k + 1)] /\ k + 1 \in 1 .. avail + returnable - 1
      BY <3>1, <2>1, <1>2, <1>1
    <3> QED
      BY <3>2, <2>1, <1>3, Zenon DEF Entries
  <2>4. ASSUME NEW e \in Entries(0 .. avail - 1) \ {free_list[head]} PROVE e \in Entries(0 .. avail - 1)'
    <3>1. PICK k \in 0 .. avail - 1 : e = free_list[Place(k)]
      BY <2>4, Zenon DEF Entries
    <3>2. k # 0
      BY <3>1, <2>4, <1>1, Zenon
    <3>3. k - 1 \in 0 .. avail' - 1 /\ e = free_list[Place(k - 1)']
      BY <3>1, <3>2, <2>2, <1>3, Zenon
    <3> QED
      BY <3>3, Zenon DEF Entries
  <2> QED
    BY <2>3, <2>4, Zenon
<1>5. Entries(avail .. avail + returnable - 1)' = Entries(avail .. avail + returnable - 1)
  <2>1. \A k \in avail' .. avail' + returnable' - 1 :
          k \in 0 .. avail + returnable - 2 /\ k + 1 \in avail .. avail + returnable - 1
    BY <1>1
  <2>2. \A k \in avail .. avail + returnable - 1 :
          k \in 1 .. avail + returnable - 1 /\ k - 1 \in avail' .. avail' + returnable' - 1
    BY <1>1
  <2>3. ASSUME NEW e \in Entries(avail .. avail + returnable - 1)'
        PROVE  e \in Entries(avail .. avail + returnable - 1)
    BY <2>3, <2>1, <1>2, Zenon DEF Entries
  <2>4. ASSUME NEW e \in Entries(avail .. avail + returnable - 1)
        PROVE  e \in Entries(avail .. avail + returnable - 1)'
    BY <2>4, <2>2, <1>3, Zenon DEF Entries
  <2> QED
    BY <2>3, <2>4, Zenon
<1>6. free_list[head] \in Entries(0 .. avail - 1)
  BY <1>1 DEF Entries
<1> QED
  BY <1>1, <1>4, <1>5, <1>6 DEF Contexts!Take

\* if_netmap_bufinfo_unalloc undoes it.
LEMMA UnallocRefines ==
  ASSUME PoolInv, Unalloc
  PROVE  \E c \in Bufinfo : Contexts!Undo(c)
<1> USE MaxAssumption DEF Unalloc, freeVars
<1>1. pend \in held /\ pend \in Bufinfo /\ Max > 0 /\ head \in Bufinfo
  <2>1. pend \in held /\ pend \in Bufinfo /\ head \in Index
    BY Zenon DEF PoolInv, PoolTypeOK
  <2> QED
    BY <2>1 DEF Index, Bufinfo
<1>2. /\ avail \in Nat /\ returnable \in Nat /\ avail + returnable <= Max - 1
      /\ free_list[Drop(head)] = pend
  <2>1. Cardinality(held) >= 1 /\ Cardinality(held) \in Nat
    BY <1>1, HeldCount, HeldFinite, Zenon DEF PoolInv, PoolTypeOK
  <2> QED
    BY <2>1 DEF PoolInv, PoolTypeOK, PoolConserved, UnallocRestores
<1>3. Place(0)' = Drop(head)
  BY <1>1, AtBump, Zenon DEF Place
<1>4. \A k \in 1 .. avail + returnable :
        k - 1 \in 0 .. avail + returnable - 1 /\ Place(k)' = Place(k - 1)
  BY <1>1, <1>2, AtBump DEF Place
<1>5. \A k \in 0 .. avail + returnable - 1 :
        k + 1 \in 1 .. avail + returnable /\ Place(k + 1)' = Place(k)
  <2>1. \A k \in 0 .. avail + returnable - 1 :
          k + 1 \in 1 .. avail + returnable /\ (k + 1) - 1 = k
    BY <1>2
  <2> QED
    BY <1>4, <2>1, Zenon
<1>6. Entries(0 .. avail - 1)' = Entries(0 .. avail - 1) \cup {pend}
  <2>1. \A k \in 0 .. avail' - 1 :
          k = 0 \/ (k \in 1 .. avail + returnable /\ k - 1 \in 0 .. avail - 1)
    BY <1>2
  <2>2. \A k \in 0 .. avail - 1 :
          k \in 0 .. avail + returnable - 1 /\ k + 1 \in 0 .. avail' - 1
    BY <1>2
  <2>3. ASSUME NEW e \in Entries(0 .. avail - 1)' PROVE e \in Entries(0 .. avail - 1) \cup {pend}
    <3>1. PICK k \in 0 .. avail' - 1 : e = free_list[Place(k)']
      BY <2>3, Zenon DEF Entries
    <3>2. CASE k = 0
      BY <3>1, <3>2, <1>2, <1>3, Zenon
    <3>3. CASE k # 0
      BY <3>1, <3>3, <2>1, <1>4, Zenon DEF Entries
    <3> QED
      BY <3>2, <3>3, Zenon
  <2>4. ASSUME NEW e \in Entries(0 .. avail - 1) PROVE e \in Entries(0 .. avail - 1)'
    BY <2>4, <2>2, <1>5, Zenon DEF Entries
  <2>5. pend \in Entries(0 .. avail - 1)'
    <3>1. 0 \in 0 .. avail' - 1
      BY <1>2
    <3> QED
      BY <3>1, <1>2, <1>3, Zenon DEF Entries
  <2> QED
    BY <2>3, <2>4, <2>5, Zenon
<1>7. Entries(avail .. avail + returnable - 1)' = Entries(avail .. avail + returnable - 1)
  <2>1. \A k \in avail' .. avail' + returnable' - 1 :
          k \in 1 .. avail + returnable /\ k - 1 \in avail .. avail + returnable - 1
    BY <1>2
  <2>2. \A k \in avail .. avail + returnable - 1 :
          k \in 0 .. avail + returnable - 1 /\ k + 1 \in avail' .. avail' + returnable' - 1
    BY <1>2
  <2>3. ASSUME NEW e \in Entries(avail .. avail + returnable - 1)'
        PROVE  e \in Entries(avail .. avail + returnable - 1)
    BY <2>3, <2>1, <1>4, Zenon DEF Entries
  <2>4. ASSUME NEW e \in Entries(avail .. avail + returnable - 1)
        PROVE  e \in Entries(avail .. avail + returnable - 1)'
    BY <2>4, <2>2, <1>5, Zenon DEF Entries
  <2> QED
    BY <2>3, <2>4, Zenon
<1> QED
  BY <1>1, <1>6, <1>7, Zenon DEF Contexts!Undo

\* The end of a sweep makes the contexts it has counted ready again.
LEMMA SweepEndRefines ==
  ASSUME PoolInv, SweepEnd
  PROVE  \E S \in SUBSET Bufinfo : Contexts!Recycle(S)
<1> USE MaxAssumption DEF SweepEnd, freeVars
<1> DEFINE S == Entries(avail .. avail + returned - 1)
<1>1. /\ avail \in Nat /\ returnable \in Nat /\ returned \in Nat
      /\ returned <= returnable
  BY Listed, Zenon
<1>2. \A k : free_list'[Place(k)'] = free_list[Place(k)]
  BY Zenon DEF Place
<1>3. /\ S \in SUBSET Bufinfo
      /\ S \subseteq Entries(avail .. avail + returnable - 1)
  BY <1>1, Listed DEF Entries
<1>4. Entries(0 .. avail - 1)' = Entries(0 .. avail - 1) \cup S
  <2>1. 0 .. avail' - 1 = (0 .. avail - 1) \cup (avail .. avail + returned - 1)
    BY <1>1
  <2> QED
    BY <1>2, <2>1, Zenon DEF Entries
<1>5. Entries(avail .. avail + returnable - 1)' = Entries(avail .. avail + returnable - 1) \ S
  <2>1. avail' .. avail' + returnable' - 1 = avail + returned .. avail + returnable - 1
    BY <1>1
  <2>2. \A k \in avail + returned .. avail + returnable - 1 :
          \A j \in avail .. avail + returned - 1 :
            /\ k \in 0 .. avail + returnable - 1 /\ j \in 0 .. avail + returnable - 1 /\ k # j
            /\ k \in avail .. avail + returnable - 1
    BY <1>1
  <2>3. \A k \in avail .. avail + returnable - 1 :
          k \in avail + returned .. avail + returnable - 1 \/ k \in avail .. avail + returned - 1
    BY <1>1
  <2>4. ASSUME NEW e \in Entries(avail .. avail + returnable - 1)'
        PROVE  e \in Entries(avail .. avail + returnable - 1) \ S
    <3>1. PICK k \in avail + returned .. avail + returnable - 1 : e = free_list[Place(k)]
      BY <2>4, <2>1, <1>2, Zenon DEF Entries
    <3>2. e \notin S
      BY <3>1, <2>2, Listed, Zenon DEF Entries
    <3>3. k \in avail .. avail + returnable - 1
      BY <1>1
    <3> QED
      BY <3>1, <3>2, <3>3, Zenon DEF Entries
  <2>5. ASSUME NEW e \in Entries(avail .. avail + returnable - 1) \ S
        PROVE  e \in Entries(avail .. avail + returnable - 1)'
    BY <2>5, <2>1, <2>3, <1>2, Zenon DEF Entries
  <2> QED
    BY <2>4, <2>5, Zenon
<1> QED
  BY <1>3, <1>4, <1>5, Zenon DEF Contexts!Recycle

\* The entry if_netmap_bufinfo_free writes is not on the list yet ...
LEMMA FreeWriteRefines ==
  ASSUME PoolInv, NEW bi \in Bufinfo, FreeWrite(bi)
  PROVE  UNCHANGED Contexts!vars
<1> USE MaxAssumption DEF FreeWrite, rxVars
<1>1. avail \in Nat /\ returnable \in Nat /\ avail + returnable <= Max - 1 /\ Max > 0
  <2>1. Cardinality(held) >= 1 /\ Cardinality(held) \in Nat
    BY HeldCount, HeldFinite, Zenon DEF PoolInv, PoolTypeOK
  <2> QED
    BY <2>1 DEF PoolInv, PoolTypeOK, PoolConserved
<1>2. head \in Bufinfo /\ tail = At(head, avail + returnable)
  <2>1. head \in Index
    BY Zenon DEF PoolInv, PoolTypeOK
  <2> QED
    BY <1>1, <2>1 DEF PoolInv, RingOrder, Place, Index, Bufinfo
<1>3. \A k \in 0 .. avail + returnable - 1 :
        Place(k)' = Place(k) /\ Place(k) \in Bufinfo /\ Place(k) # tail
  <2>1. \A k \in 0 .. avail + returnable - 1 :
          k \in 0 .. Max - 1 /\ k # avail + returnable /\ avail + returnable \in 0 .. Max - 1
    BY <1>1
  <2> QED
    BY <1>2, <2>1, AtPlace, Zenon DEF Place
<1>4. \A k \in 0 .. avail + returnable - 1 : free_list'[Place(k)'] = free_list[Place(k)]
  BY <1>3, Zenon DEF PoolInv, PoolTypeOK
<1> QED
  BY <1>1, <1>4, EntriesSame DEF Contexts!vars

\* ... and is given back when it is published.
LEMMA FreePublishRefines ==
  ASSUME PoolInv, FreePublish
  PROVE  \E c \in Bufinfo : Contexts!GiveBack(c)
<1> USE MaxAssumption DEF FreePublish, rxVars
<1>1. fbi \in held /\ fbi \in Bufinfo /\ free_list[tail] = fbi
  BY Zenon DEF PoolInv, FreeInv, PoolTypeOK
<1>2. avail \in Nat /\ returnable \in Nat /\ avail + returnable <= Max - 1
  <2>1. Cardinality(held) >= 1 /\ Cardinality(held) \in Nat
    BY <1>1, HeldCount, HeldFinite, Zenon DEF PoolInv, PoolTypeOK
  <2> QED
    BY <2>1 DEF PoolInv, PoolTypeOK, PoolConserved
<1>3. free_list[Place(avail + returnable)] = fbi
  BY <1>1, <1>2 DEF PoolInv, RingOrder
<1>4. \A k : free_list'[Place(k)'] = free_list[Place(k)]
  BY Zenon DEF Place
<1>5. Entries(0 .. avail - 1)' = Entries(0 .. avail - 1)
  BY <1>4, Zenon DEF Entries
<1>6. Entries(avail .. avail + returnable - 1)'
        = Entries(avail .. avail + returnable - 1) \cup {fbi}
  <2>1. avail' .. avail' + returnable' - 1
          = (avail .. avail + returnable - 1) \cup {avail + returnable}
    BY <1>2
  <2> QED
    BY <1>3, <1>4, <2>1 DEF Entries
<1> QED
  BY <1>1, <1>5, <1>6, Zenon DEF Contexts!GiveBack

\* All other steps are not seen.
LEMMA OthersRefine ==
  ASSUME PoolInv,
         HandOff \/ SweepStart \/ SweepOne \/ FreeAdvance \/ UNCHANGED poolVars
  PROVE  UNCHANGED Contexts!vars
<1>1. /\ free_list' = free_list /\ head' = head /\ held' = held
      /\ avail' = avail /\ returnable' = returnable
  BY Zenon DEF HandOff, SweepStart, SweepOne, FreeAdvance, poolVars, freeVars, rxVars
<1>2. avail \in Nat /\ returnable \in Nat
  BY Listed, Zenon
<1>3. \A k : free_list'[Place(k)'] = free_list[Place(k)]
  BY <1>1 DEF Place
<1> QED
  BY <1>1, <1>2, <1>3, EntriesSame, Zenon DEF Contexts!vars

\* The circular list, with its frees in three stores and its sweeps without a
\* lock, implements the abstract pool for every pool size: to the driver,
\* if_netmap_bufinfo_alloc, _unalloc, _free and if_netmap_sweep_trail are moves
\* between three disjoint sets.
THEOREM PoolRefines == PoolSpec => ImplementsContextPool
<1>1. PoolInit => Contexts!Init
  BY InitRefines
<1>2. PoolInv /\ [PoolNext]_poolVars => [Contexts!Next]_(Contexts!vars)
  <2> SUFFICES ASSUME PoolInv, [PoolNext]_poolVars
               PROVE  Contexts!Next \/ UNCHANGED Contexts!vars
    OBVIOUS
  <2>1. CASE Alloc
    BY <2>1, AllocRefines, Zenon DEF Contexts!Next
  <2>2. CASE Unalloc
    BY <2>2, UnallocRefines, Zenon DEF Contexts!Next
  <2>3. CASE SweepEnd
    BY <2>3, SweepEndRefines, Zenon DEF Contexts!Next
  <2>4. CASE \E bi \in Bufinfo : FreeWrite(bi)
    BY <2>4, FreeWriteRefines, Zenon
  <2>5. CASE FreePublish
    BY <2>5, FreePublishRefines, Zenon DEF Contexts!Next
  <2>6. CASE HandOff \/ SweepStart \/ SweepOne \/ FreeAdvance \/ UNCHANGED poolVars
    BY <2>6, OthersRefine
  <2> QED
    BY <2>1, <2>2, <2>3, <2>4, <2>5, <2>6, Zenon DEF PoolNext, Free
<1> QED
  BY <1>1, <1>2, PoolInvariant, PTL DEF PoolSpec, ImplementsContextPool, Contexts!Spec

-----------------------------------------------------------------------------
(***************************************************************************)
(* NetmapRx: the ring with the pool.                                       *)
(***************************************************************************)

Away == held \cup GivenBack

\* The buffers s of the slots R and the buffers m of the contexts A are all
\* different.
Apart(R, s, A, m) ==
  /\ \A i, j \in R : i # j => s[i] # s[j]
  /\ \A b \in A : \A i \in R : s[i] # m[b]
  /\ \A b, c \in A : b # c => m[b] # m[c]

IInv == PoolInv /\ RingInv /\ NoBufferShared

\* NoBufferShared in the terms of the lemmas on buffers.
LEMMA SharedIsApart == NoBufferShared <=> (Running => Apart(RingOwned, slot, Away, nm_index))
  BY DEF NoBufferShared, Apart, Away

-----------------------------------------------------------------------------
(***************************************************************************)
(* Buffers between the ring and the contexts.                              *)
(***************************************************************************)

\* A received slot's buffer goes to a context.
LEMMA MoveOut ==
  ASSUME NEW R, NEW s, NEW A, NEW m, NEW D, NEW E, NEW c \in R, NEW b \in D, b \notin A,
         m \in [D -> E], A \subseteq D, Apart(R, s, A, m)
  PROVE  Apart(R \ {c}, s, A \cup {b}, [m EXCEPT ![b] = s[c]])
  BY DEF Apart

\* A context's buffer goes into a slot that is not the kernel's.
LEMMA MoveIn ==
  ASSUME NEW R, NEW s, NEW A, NEW m, NEW D, NEW E, NEW h \in D, h \notin R, NEW b \in A,
         s \in [D -> E], R \subseteq D, Apart(R, s, A, m)
  PROVE  Apart(R \cup {h}, [s EXCEPT ![h] = m[b]], A \ {b}, m)
  BY DEF Apart

\* A received slot's buffer goes into such a slot, or stays.
LEMMA MoveOver ==
  ASSUME NEW R, NEW s, NEW A, NEW m, NEW D, NEW E, NEW h \in D, NEW c \in R, h \notin R \/ h = c,
         s \in [D -> E], R \subseteq D, Apart(R, s, A, m)
  PROVE  Apart((R \ {c}) \cup {h}, [s EXCEPT ![h] = s[c]], A, m)
  BY DEF Apart

\* Fewer slots and contexts are still apart.
LEMMA ApartLess ==
  ASSUME NEW R, NEW s, NEW A, NEW m, NEW Q \in SUBSET R, NEW B \in SUBSET A, Apart(R, s, A, m)
  PROVE  Apart(Q, s, B, m)
  BY DEF Apart

-----------------------------------------------------------------------------
(***************************************************************************)
(* Going round the ring.                                                   *)
(***************************************************************************)
LEMMA Ring ==
  ASSUME hw_rx_rsvd_begin \in Slot, NEW i \in Slot
  PROVE  /\ Offset(i) \in 0 .. NSlots - 1
         /\ Offset(i) = 0 <=> i = hw_rx_rsvd_begin
         /\ RingNext(i) \in Slot
         /\ Offset(i) + 1 < NSlots => Offset(RingNext(i)) = Offset(i) + 1
  BY MaxAssumption, NSlotsAssumption DEF Slot, Offset, RingNext

\* Only one slot has a given offset.
LEMMA OneAtOffset ==
  ASSUME hw_rx_rsvd_begin \in Slot, NEW i \in Slot, NEW j \in Slot, Offset(i) = Offset(j)
  PROVE  i = j
  BY MaxAssumption, NSlotsAssumption DEF Slot, Offset

\* When the reserved trail loses its oldest slot, the others move up.
LEMMA RingShift ==
  ASSUME hw_rx_rsvd_begin \in Slot, hw_rx_rsvd_begin' = RingNext(hw_rx_rsvd_begin), NEW i \in Slot
  PROVE  Offset(i)' = IF i = hw_rx_rsvd_begin THEN NSlots - 1 ELSE Offset(i) - 1
  BY MaxAssumption, NSlotsAssumption DEF Slot, Offset, RingNext

\* What IInv says of the counts.
LEMMA Counts ==
  ASSUME IInv
  PROVE  /\ avail \in Nat /\ returnable \in Nat /\ n \in 0 .. returned /\ returned \in 0 .. returnable
         /\ avail + returnable <= Max
         /\ Running => NReserved = Max - avail - n
<1> USE MaxAssumption DEF IInv, PoolInv
<1>1. Cardinality(held) \in Nat
  BY HeldFinite DEF PoolTypeOK
<1>2. /\ avail \in Nat /\ returnable \in Nat /\ n \in 0 .. returned /\ returned \in 0 .. returnable
      /\ avail + returnable <= Max
  BY <1>1 DEF PoolTypeOK, PoolConserved, SweepInv
<1>3. Running => NReserved = Cardinality(held) + returnable - n
  BY DEF RingInv, ReservedExact
<1>4. avail + returnable + Cardinality(held) = Max
  BY DEF PoolConserved
<1> QED
  BY ONLY <1>1, <1>2, <1>3, <1>4

\* Contexts ready, returned and away add up to Max.
LEMMA Sums ==
  \A a, r, c \in Nat : \A x : \A k \in 0 .. r : a + r + c = Max =>
    /\ a + r <= Max
    /\ x = Max - a - k => x = c + r - k
  BY MaxAssumption

\* The counts after a step, if the pool has kept its invariant.
LEMMA CountsNext ==
  ASSUME PoolInv'
  PROVE  /\ avail' \in Nat /\ returnable' \in Nat /\ returned' \in Nat /\ n' \in Nat
         /\ n' <= returned' /\ returned' <= returnable' /\ avail' + returnable' <= Max
         /\ NReserved' = Max - avail' - n' => ReservedExact'
<1>1. PoolTypeOK' /\ PoolConserved' /\ SweepInv'
  BY DEF PoolInv
<1>2. Cardinality(held') \in Nat
  <2>1. held' \in SUBSET Bufinfo
    BY <1>1 DEF PoolTypeOK
  <2> QED
    BY <2>1, HeldFinite
<1>3. /\ avail' \in Nat /\ returnable' \in Nat /\ returned' \in Nat /\ n' \in Nat
      /\ n' <= returned' /\ returned' <= returnable' /\ n' \in 0 .. returnable'
  BY <1>1, MaxAssumption DEF PoolTypeOK, SweepInv
<1>4. avail' + returnable' + Cardinality(held') = Max
  BY <1>1 DEF PoolConserved
<1>5. /\ avail' + returnable' <= Max
      /\ NReserved' = Max - avail' - n' => NReserved' = Cardinality(held') + returnable' - n'
  BY ONLY <1>2, <1>3, <1>4, Sums
<1> QED
  BY <1>3, <1>5 DEF ReservedExact

\* What IInv says of the receive thread, place by place.
LEMMA Thread ==
  ASSUME IInv
  PROVE  /\ pc = "slot" => NReserved = reserved + new_reserved /\ n = 0
         /\ pc = "hdr" => NReserved = reserved + new_reserved + 1 /\ n = 0
         /\ pc = "poll" => NReserved = reserved /\ n = 0
         /\ pc = "sweep" => NReserved = reserved - n
         /\ pc = "stopped" => n = 0
         /\ Running => NReserved \in 0 .. Max
         /\ reserved \in Nat /\ new_reserved \in Nat
<1> USE MaxAssumption DEF IInv
<1>1. reserved \in Nat /\ new_reserved \in Nat
  BY DEF RingInv, TypeOK
<1>2. n \in Nat /\ (pc # "sweep" => n = 0)
  BY DEF RingInv, PassInv, PoolInv, PoolTypeOK, SweepInv
<1>3. /\ pc = "slot" => NReserved = reserved + new_reserved
      /\ pc = "hdr" => NReserved = reserved + new_reserved + 1
      /\ pc = "poll" => NReserved = reserved - n
      /\ pc = "sweep" => NReserved = reserved - n
  BY DEF NReserved
<1>4. Running => NReserved \in 0 .. Max
  BY Counts
<1> QED
  BY <1>1, <1>2, <1>3, <1>4

\* if_netmap_attach finds the ring whole and fills the pool.
LEMMA InitIInv == Init => IInv
<1> SUFFICES ASSUME Init PROVE IInv
  OBVIOUS
<1> USE MaxAssumption, NSlotsAssumption DEF Init
<1>1. PoolInv
  BY InitInv
<1>2. n = 0 /\ avail = Max /\ returnable = 0 /\ held = {} /\ pend = NoBufinfo /\ rxpc = "receive"
  BY DEF PoolInit
<1>3. NReserved = 0
  BY <1>2 DEF NReserved
<1>4. TypeOK
  BY <1>1 DEF TypeOK, PoolInv, Slot, nm_buffer_indices
<1>5. TrailMeetsCur /\ RingShare /\ PassInv
  BY <1>2 DEF TrailMeetsCur, RingShare, PassInv, Offset
<1>6. ReservedExact
  BY <1>2, <1>3, FS_EmptySet DEF ReservedExact
<1>7. NoBufferShared
  <2>1. held \cup GivenBack = {}
    BY <1>2 DEF GivenBack
  <2> QED
    BY <2>1 DEF NoBufferShared, RingOwned, nm_buffer_indices, Slot
<1> QED
  BY <1>1, <1>4, <1>5, <1>6, <1>7, Zenon DEF IInv, RingInv

\* The pool's part of every step is a step of the pool.
LEMMA PoolSteps == [Next]_vars => [PoolNext]_poolVars
  BY DEF Next, vars, RxThread, KernelRx, RxStop, PassStart, RxAlloc, RxZeroCopy, RxNoHeader,
         RxCopy, PassEnd, RxSweepOne, RxUpdate, Detach, StackFree, PoolNext

\* Every step of the receive path is one of the pool or leaves it alone.
LEMMA PoolPart == IInv /\ [Next]_vars => PoolInv'
  BY PoolSteps, PoolStep DEF IInv

-----------------------------------------------------------------------------
(***************************************************************************)
(* Steps that move no buffer.                                              *)
(***************************************************************************)
LEMMA BackSame ==
  ASSUME head' = head, free_list' = free_list, avail' + n' = avail + n,
         avail' + returnable' - 1 = avail + returnable - 1
  PROVE  GivenBack' = GivenBack
  BY DEF GivenBack, Place

\* A step that moves no buffer keeps the buffers apart.
LEMMA Quiet ==
  ASSUME IInv, Running, slot' = slot, hw_rx_rsvd_begin' = hw_rx_rsvd_begin, nm_index' = nm_index,
         NReserved' = NReserved, Away' \subseteq Away
  PROVE  NoBufferShared'
<1>1. RingOwned' = RingOwned
  BY DEF RingOwned, Offset
<1>2. Apart(RingOwned, slot, Away, nm_index)
  BY SharedIsApart DEF IInv
<1>3. Apart(RingOwned', slot', Away', nm_index')
  BY <1>1, <1>2, ApartLess
<1> QED
  BY <1>3 DEF NoBufferShared, Apart, Away

\* The kernel fills slots outside of the reserved range.
LEMMA KernelRxStep == ASSUME IInv, KernelRx, PoolInv' PROVE IInv'
<1> USE MaxAssumption, NSlotsAssumption DEF KernelRx
<1>1. /\ GivenBack' = GivenBack /\ held' = held /\ avail' = avail /\ n' = n /\ pend' = pend
      /\ rxpc' = rxpc
  BY DEF GivenBack, Place, poolVars
<1>2. NReserved' = NReserved
  BY <1>1 DEF NReserved
<1>3. NoBufferShared'
  BY <1>1, <1>2, Quiet, Zenon DEF Away, Running
<1>4. ringReserved \in 0 .. Max
  BY DEF IInv, RingInv, TypeOK
<1>5. TypeOK'
  BY <1>4 DEF IInv, RingInv, TypeOK, PoolInv
<1>6. TrailMeetsCur' /\ RingShare'
  BY DEF IInv, RingInv, TrailMeetsCur, RingShare, Offset
<1>7. ReservedExact'
  BY <1>1, <1>2, Counts, CountsNext, Zenon DEF Running
<1>8. PassInv'
  <2>1. \A a \in 1 .. NSlots - 1 - ringReserved : a + ringReserved < NSlots
    BY <1>4
  <2>2. ringAvail' + ringReserved' < NSlots
    BY ONLY <2>1, KernelRx DEF KernelRx
  <2> QED
    BY <1>1, <2>2 DEF IInv, RingInv, PassInv
<1> QED
  BY <1>3, <1>5, <1>6, <1>7, <1>8, Zenon DEF IInv, RingInv

\* if_netmap_receive begins a pass.
LEMMA PassStartStep == ASSUME IInv, PassStart, PoolInv' PROVE IInv'
<1> USE MaxAssumption, NSlotsAssumption DEF PassStart
<1>1. /\ GivenBack' = GivenBack /\ held' = held /\ avail' = avail /\ n' = n /\ pend' = pend
      /\ rxpc' = rxpc
  BY DEF GivenBack, Place, poolVars
<1>2. /\ ringReserved \in Nat /\ ringAvail \in 1 .. NSlots - 1 /\ ringReserved = reserved
      /\ Offset(ringCur) = ringReserved /\ ringAvail + ringReserved < NSlots
  BY DEF IInv, RingInv, TypeOK, TrailMeetsCur, PassInv
<1>3. NReserved' = reserved /\ NReserved = reserved /\ reserved <= Max
  BY <1>2, Thread DEF NReserved, Running
<1>4. NoBufferShared'
  BY <1>1, <1>3, Quiet, Zenon DEF Away, Running
<1>5. TypeOK'
  BY DEF IInv, RingInv, TypeOK, PoolInv
<1>6. TrailMeetsCur' /\ RingShare'
  BY <1>2, <1>3 DEF TrailMeetsCur, RingShare, Offset
<1>7. ReservedExact'
  BY <1>1, <1>3, Counts, CountsNext, Zenon DEF Running
<1>8. PassInv'
  BY <1>1, <1>2, <1>3, Zenon DEF IInv, RingInv, PassInv
<1> QED
  BY <1>4, <1>5, <1>6, <1>7, <1>8, Zenon DEF IInv, RingInv

\* A buffer leaves its slot with the context just allocated.
LEMMA ZeroCopyStep == ASSUME IInv, RxZeroCopy, PoolInv' PROVE IInv'
<1> USE MaxAssumption, NSlotsAssumption DEF RxZeroCopy
<1>1. /\ GivenBack' = GivenBack /\ held' = held /\ avail' = avail /\ n' = n
      /\ pend' = NoBufinfo /\ rxpc' = rxpc
  BY Zenon DEF GivenBack, Place, HandOff
<1>2. /\ reserved \in Nat /\ new_reserved \in Nat /\ NReserved = reserved + new_reserved + 1
      /\ NReserved \in 0 .. Max /\ left \in 1 .. NSlots - 1 /\ left + NReserved <= NSlots
  BY Thread DEF Running, IInv, RingInv, TypeOK, PassInv
<1>3. NReserved' = NReserved
  <2>1. NReserved' = reserved + (new_reserved + 1)
    BY DEF NReserved
  <2> QED
    BY <1>2, <2>1
<1>4. NoBufferShared'
  BY <1>1, <1>3, Quiet, Zenon DEF Away, Running
<1>5. TypeOK'
  BY <1>2 DEF IInv, RingInv, TypeOK, PoolInv
<1>6. TrailMeetsCur' /\ RingShare'
  BY <1>3 DEF IInv, RingInv, TrailMeetsCur, RingShare, Offset
<1>7. ReservedExact'
  BY <1>1, <1>3, Counts, CountsNext, Zenon DEF Running
<1>8. PassInv'
  BY <1>1, <1>2, <1>3 DEF IInv, RingInv, PassInv
<1> QED
  BY <1>4, <1>5, <1>6, <1>7, <1>8, Zenon DEF IInv, RingInv

\* The packets of a pass are taken, and the sweep begins.
LEMMA PassEndStep == ASSUME IInv, PassEnd, PoolInv' PROVE IInv'
<1> USE MaxAssumption, NSlotsAssumption DEF PassEnd
<1>1. /\ GivenBack' = GivenBack /\ held' = held /\ avail' = avail /\ n' = 0 /\ n = 0
      /\ pend' = pend /\ rxpc' = "sweep"
  BY Thread DEF GivenBack, Place, SweepStart
<1>2. /\ reserved \in Nat /\ new_reserved \in Nat /\ NReserved = reserved + new_reserved
      /\ NReserved \in 0 .. Max
  BY Thread, Zenon DEF Running
<1>3. NReserved' = NReserved
  <2>1. NReserved' = reserved' - 0
    BY <1>1 DEF NReserved
  <2> QED
    BY <1>2, <2>1
<1>4. NoBufferShared'
  BY <1>1, <1>3, Quiet, Zenon DEF Away, Running
<1>5. TypeOK'
  BY <1>2 DEF IInv, RingInv, TypeOK, PoolInv
<1>6. TrailMeetsCur' /\ RingShare'
  BY <1>3, Zenon DEF IInv, RingInv, TrailMeetsCur, RingShare, Offset
<1>7. ReservedExact'
  BY <1>1, <1>3, Counts, CountsNext, Zenon DEF Running
<1>8. PassInv'
  BY <1>1 DEF IInv, RingInv, PassInv
<1> QED
  BY <1>4, <1>5, <1>6, <1>7, <1>8, Zenon DEF IInv, RingInv

\* if_netmap_rxupdate gives the swept slots back to the kernel.
LEMMA UpdateStep == ASSUME IInv, RxUpdate, PoolInv' PROVE IInv'
<1> USE MaxAssumption, NSlotsAssumption DEF RxUpdate
<1>0. /\ avail \in Nat /\ returnable \in Nat /\ returned \in Nat /\ n = returned
      /\ NReserved = reserved - n /\ NReserved \in 0 .. Max /\ reserved \in Nat
      /\ NReserved = Max - avail - n
  BY Counts, Thread DEF Running, SweepEnd
<1>1. /\ GivenBack' = GivenBack /\ held' = held /\ avail' = avail + n /\ n' = 0
      /\ pend' = pend /\ rxpc' = "receive"
  <2>1. /\ head' = head /\ free_list' = free_list /\ avail' = avail + returned /\ n' = 0
        /\ returnable' = returnable - returned /\ held' = held /\ pend' = pend
        /\ rxpc' = "receive"
    BY Zenon DEF SweepEnd
  <2>2. /\ avail' + n' = avail + n /\ avail' + returnable' - 1 = avail + returnable - 1
    BY <1>0, <2>1
  <2> QED
    BY <1>0, <2>1, <2>2, BackSame, Zenon
<1>3. NReserved' = NReserved /\ reserved' = NReserved
  <2>1. NReserved' = reserved' - 0 /\ reserved' = reserved - n
    BY <1>0, <1>1, Zenon DEF NReserved
  <2> QED
    BY <1>0, <2>1
<1>4. NoBufferShared'
  BY <1>1, <1>3, Quiet, Zenon DEF Away, Running
<1>5. TypeOK'
  BY <1>0, <1>3 DEF IInv, RingInv, TypeOK, PoolInv
<1>6. TrailMeetsCur' /\ RingShare'
  BY <1>0, <1>3 DEF IInv, RingInv, TrailMeetsCur, RingShare, Offset
<1>7. ReservedExact'
  <2>1. NReserved' = Max - avail' - n'
    BY <1>0, <1>1, <1>3
  <2> QED
    BY <2>1, CountsNext, Zenon
<1>8. PassInv'
  BY <1>0, <1>1, <1>3 DEF IInv, RingInv, PassInv
<1> QED
  BY <1>4, <1>5, <1>6, <1>7, <1>8, Zenon DEF IInv, RingInv

\* A thread of the stack frees an mbuf: its context goes from held to given
\* back, and the entries of the list that count are not touched.
LEMMA FreeStep == ASSUME IInv, StackFree, PoolInv' PROVE IInv'
<1> USE MaxAssumption, NSlotsAssumption DEF StackFree
<1>1. /\ avail' = avail /\ n' = n /\ pend' = pend /\ rxpc' = rxpc /\ head' = head
      /\ UNCHANGED ringVars
  BY DEF Free, FreeWrite, FreePublish, FreeAdvance, rxVars
<1>2. NReserved' = NReserved
  BY <1>1 DEF NReserved, ringVars
<1>3. Away' \subseteq Away
  <2>0. avail \in Nat /\ returnable \in Nat /\ n \in Nat /\ avail + returnable <= Max
    BY Counts
  <2>1. ASSUME NEW bi \in Bufinfo, FreeWrite(bi) PROVE Away' \subseteq Away
    <3>1. \A k \in 0 .. avail + returnable - 1 : Place(k)' = Place(k) /\ free_list'[Place(k)] = free_list[Place(k)]
      <4>1. /\ Cardinality(held) >= 1 /\ Cardinality(held) \in Nat
        BY <2>1, HeldFinite, HeldCount, Zenon DEF FreeWrite, IInv, PoolInv, PoolTypeOK
      <4>2. avail + returnable \in 0 .. Max - 1
        BY <2>0, <4>1 DEF IInv, PoolInv, PoolConserved
      <4>3. tail = Place(avail + returnable) /\ head \in Bufinfo /\ free_list \in [Bufinfo -> Bufinfo]
        <5>1. head \in Index /\ free_list \in [Bufinfo -> Bufinfo] /\ fpc # "published"
          BY <2>1, Zenon DEF FreeWrite, IInv, PoolInv, PoolTypeOK
        <5>2. head \in Bufinfo
          BY <2>0, <4>2, <5>1 DEF Index, Bufinfo
        <5>3. tail = Place(avail + returnable)
          BY <2>0, <4>2, <5>1 DEF IInv, PoolInv, RingOrder
        <5> QED
          BY <5>1, <5>2, <5>3, Zenon
      <4>4. \A k \in 0 .. avail + returnable - 1 : Place(k) # tail /\ Place(k) \in Bufinfo
        BY <2>0, <4>2, <4>3, AtPlace DEF Place
      <4> QED
        BY <1>1, <2>1, <4>3, <4>4, Zenon DEF FreeWrite, Place
    <3>2. \A k \in avail + n .. avail + returnable - 1 : k \in 0 .. avail + returnable - 1
      BY <2>0
    <3>3. held' = held /\ returnable' = returnable
      BY <2>1, Zenon DEF FreeWrite
    <3> QED
      BY <1>1, <3>1, <3>2, <3>3, Zenon DEF Away, GivenBack
  <2>2. CASE FreePublish
    <3>1. /\ fbi \in held /\ free_list[tail] = fbi /\ held' = held \ {fbi} /\ free_list' = free_list
          /\ returnable' = returnable + 1
      BY <2>2 DEF FreePublish, IInv, PoolInv, FreeInv
    <3>2. Cardinality(held) \in Nat /\ Cardinality(held) >= 1
      BY <3>1, HeldFinite, HeldCount, Zenon DEF IInv, PoolInv, PoolTypeOK
    <3>3. avail + returnable \in 0 .. Max - 1
      BY <2>0, <3>2 DEF IInv, PoolInv, PoolConserved
    <3>4. tail = Place(avail + returnable)
      BY <2>0, <2>2, <3>3 DEF FreePublish, IInv, PoolInv, RingOrder
    <3>5. \A k \in avail + n .. avail + (returnable + 1) - 1 :
            k \in avail + n .. avail + returnable - 1 \/ k = avail + returnable
      BY <2>0
    <3>6. \A k : Place(k)' = Place(k)
      BY <1>1, Zenon DEF Place
    <3>7. GivenBack' \subseteq GivenBack \cup {fbi}
      BY <1>1, <3>1, <3>4, <3>5, <3>6, Zenon DEF GivenBack
    <3> QED
      BY <3>1, <3>7, Zenon DEF Away
  <2>3. CASE FreeAdvance
    BY <1>1, <2>3, Zenon DEF FreeAdvance, Away, GivenBack, Place
  <2> QED
    BY <2>1, <2>2, <2>3, Zenon DEF Free
<1>4. NoBufferShared'
  <2>1. CASE Running
    BY <1>1, <1>2, <1>3, <2>1, Quiet, Zenon DEF ringVars
  <2>2. CASE ~Running
    BY <1>1, <2>2, Zenon DEF NoBufferShared, Running, ringVars
  <2> QED
    BY <2>1, <2>2, Zenon
<1>5. TypeOK'
  BY <1>1, Zenon DEF IInv, RingInv, TypeOK, PoolInv, ringVars
<1>6. TrailMeetsCur' /\ RingShare'
  BY <1>1, <1>2, Zenon DEF IInv, RingInv, TrailMeetsCur, RingShare, Offset, ringVars
<1>7. ReservedExact'
  <2>1. CASE Running
    BY <1>1, <1>2, <2>1, Counts, CountsNext, Zenon
  <2>2. CASE ~Running
    BY <1>1, <2>2, Zenon DEF ReservedExact, Running, ringVars
  <2> QED
    BY <2>1, <2>2
<1>8. PassInv'
  BY <1>1, <1>2, Zenon DEF IInv, RingInv, PassInv, ringVars
<1> QED
  BY <1>4, <1>5, <1>6, <1>7, <1>8, Zenon DEF IInv, RingInv

-----------------------------------------------------------------------------
(***************************************************************************)
(* Steps that move a buffer.                                               *)
(***************************************************************************)

\* The slot after the reserved ones is the kernel's; the first one is, only
\* if there are none.
LEMMA Ends ==
  ASSUME IInv, pc \in {"slot", "hdr", "sweep"}
  PROVE  /\ cur \in Slot /\ cur \in RingOwned /\ RingOwned \subseteq Slot
         /\ Offset(cur) = NReserved /\ NReserved \in 0 .. Max /\ NReserved < NSlots
         /\ hw_rx_rsvd_begin \in Slot
         /\ NReserved > 0 => hw_rx_rsvd_begin \notin RingOwned
         /\ NReserved = 0 => hw_rx_rsvd_begin = cur
<1> USE MaxAssumption, NSlotsAssumption
<1>1. cur \in Slot /\ hw_rx_rsvd_begin \in Slot
  BY DEF IInv, RingInv, TypeOK
<1>2. Offset(cur) = NReserved /\ NReserved < NSlots
  BY DEF IInv, RingInv, TrailMeetsCur
<1>3. NReserved \in 0 .. Max
  BY Thread, Zenon DEF Running
<1>4. Offset(hw_rx_rsvd_begin) = 0
  BY <1>1, Ring, Zenon
<1>5. NReserved = 0 => hw_rx_rsvd_begin = cur
  BY <1>1, <1>2, <1>4, OneAtOffset, Zenon
<1> QED
  BY <1>1, <1>2, <1>3, <1>4, <1>5 DEF RingOwned

\* A packet is received in its buffer: the buffer of slot cur is now the
\* context's, and the slot is reserved.
LEMMA AllocStep == ASSUME IInv, RxAlloc, PoolInv' PROVE IInv'
<1> USE MaxAssumption, NSlotsAssumption DEF RxAlloc
<1>1. /\ avail \in Nat /\ avail > 0 /\ returnable \in Nat /\ n = 0 /\ avail + returnable <= Max
      /\ NReserved = reserved + new_reserved /\ reserved \in Nat /\ new_reserved \in Nat
      /\ NReserved = Max - avail
  BY Counts, Thread DEF Alloc, Running
<1>2. /\ avail' = avail - 1 /\ returnable' = returnable /\ n' = 0 /\ rxpc' = rxpc
      /\ pend' = free_list[head] /\ head' = Bump(head) /\ free_list' = free_list
      /\ held' = held \cup {pend'}
  BY <1>1, Zenon DEF Alloc
<1>3. /\ head \in Bufinfo /\ Place(0) = head /\ pend' \in Bufinfo \ held
      /\ \A k \in 1 .. avail + returnable - 1 : free_list[Place(k)] # pend'
  <2>1. 0 \in 0 .. avail + returnable - 1
    BY <1>1
  <2>2. head \in Bufinfo /\ free_list[Place(0)] \in Bufinfo \ held
    BY <2>1, Listed, Zenon DEF IInv
  <2>3. Place(0) = head
    BY <1>1, <2>2, AtPlace DEF Place
  <2>4. \A k \in 1 .. avail + returnable - 1 : k \in 0 .. avail + returnable - 1 /\ k # 0
    BY <1>1
  <2> QED
    BY <1>2, <2>1, <2>2, <2>3, <2>4, Listed, Zenon DEF IInv
<1>4. pend' \notin Away
  <2>1. \A k \in avail + n .. avail + returnable - 1 : k \in 1 .. avail + returnable - 1
    BY <1>1
  <2> QED
    BY <1>3, <2>1, Zenon DEF Away, GivenBack
<1>5. Away' \subseteq Away \cup {pend'}
  <2>1. \A k \in (avail - 1) .. (avail - 1) + returnable - 1 :
          k \in 0 .. Max - 2 /\ k + 1 \in avail .. avail + returnable - 1
    BY <1>1
  <2>2. \A k \in 0 .. Max - 2 : Place(k)' = Place(k + 1)
    BY <1>2, <1>3, AtBump, Zenon DEF Place
  <2>3. (avail - 1) + 0 = avail - 1 /\ avail + 0 = avail
    BY <1>1
  <2>4. GivenBack' = {free_list[Place(k)'] : k \in (avail - 1) .. (avail - 1) + returnable - 1}
    BY <1>2, <2>3, Zenon DEF GivenBack
  <2>5. GivenBack = {free_list[Place(k)] : k \in avail .. avail + returnable - 1}
    BY <1>1, <2>3, Zenon DEF GivenBack
  <2>6. GivenBack' \subseteq GivenBack
    BY <2>1, <2>2, <2>4, <2>5, Zenon
  <2> QED
    BY <1>2, <2>6, Zenon DEF Away
<1>6. NReserved' = NReserved + 1 /\ NReserved' <= Max
  <2>1. NReserved' = reserved + new_reserved + 1
    BY Zenon DEF NReserved
  <2> QED
    BY <1>1, <2>1
<1>7. RingOwned' \subseteq RingOwned \ {cur}
  <2> SUFFICES ASSUME NEW i \in RingOwned' PROVE i \in RingOwned \ {cur}
    BY Zenon
  <2>1. i \in Slot /\ Offset(i) \in Int /\ Offset(i) >= NReserved + 1 /\ NReserved \in Nat
    BY <1>6, Ends, Ring DEF RingOwned, Offset
  <2> QED
    BY <2>1, Ends DEF RingOwned
<1>8. NoBufferShared'
  <2>1. nm_index \in [Bufinfo -> Slot] /\ Away \subseteq Bufinfo
    <3>1. nm_index \in [Bufinfo -> Slot] /\ held \subseteq Bufinfo
      BY Zenon DEF IInv, RingInv, TypeOK, PoolTypeOK
    <3>2. \A k \in avail + n .. avail + returnable - 1 : k \in 0 .. avail + returnable - 1
      BY <1>1
    <3> QED
      BY <3>1, <3>2, Listed, Zenon DEF IInv, Away, GivenBack
  <2>2. Apart(RingOwned, slot, Away, nm_index)
    BY SharedIsApart, Zenon DEF IInv, Running
  <2>3. Apart(RingOwned \ {cur}, slot, Away \cup {pend'}, nm_index')
    BY <1>3, <1>4, <2>1, <2>2, Ends, MoveOut, Zenon
  <2>4. Apart(RingOwned', slot', Away', nm_index')
    BY <1>5, <1>7, <2>3, ApartLess, Zenon
  <2> QED
    BY <2>4, Zenon DEF NoBufferShared, Apart, Away
<1>9. slot[cur] \in Slot /\ cur' \in Slot /\ Offset(cur)' = NReserved'
  <2>1. slot[cur] \in Slot
    BY Ends, Zenon DEF IInv, RingInv, TypeOK
  <2>2. Offset(cur) + 1 < NSlots
    BY <1>6, Ends
  <2> QED
    BY <1>6, <2>1, <2>2, Ends, Ring, Zenon DEF Offset
<1>10. TypeOK'
  BY <1>9, Zenon DEF IInv, RingInv, TypeOK, PoolInv
<1>11. TrailMeetsCur' /\ RingShare'
  BY <1>6, <1>9, Ends DEF TrailMeetsCur, RingShare
<1>12. ReservedExact'
  <2>1. NReserved' = Max - avail' - n'
    BY <1>1, <1>2, <1>6
  <2> QED
    BY <2>1, CountsNext, Zenon
<1>13. PassInv'
  <2>1. pend' # NoBufinfo
    BY <1>3 DEF Bufinfo, NoBufinfo
  <2>2. left \in Nat /\ left + NReserved < NSlots /\ NReserved \in Nat
    BY Ends DEF IInv, RingInv, TypeOK, PassInv
  <2>3. left + NReserved' <= NSlots
    BY <1>6, <2>2
  <2> QED
    BY <1>2, <2>1, <2>3, Zenon DEF IInv, RingInv, PassInv
<1> QED
  BY <1>8, <1>10, <1>11, <1>12, <1>13, Zenon DEF IInv, RingInv

\* A context's buffer is recovered: the oldest reserved slot is the kernel's
\* again.
LEMMA Recover ==
  ASSUME IInv, pc \in {"hdr", "sweep"}, NEW b \in Away, RxSetSlot(nm_index[b]), nm_index' = nm_index,
         cur' = cur, NReserved > 0, NReserved' = NReserved - 1, Away' \subseteq Away \ {b}
  PROVE  /\ NoBufferShared'
         /\ slot' \in [Slot -> Slot] /\ hw_rx_rsvd_begin' \in Slot
         /\ Offset(cur)' = NReserved' /\ NReserved' \in 0 .. Max /\ NReserved' < NSlots
<1> USE MaxAssumption, NSlotsAssumption DEF RxSetSlot
<1>1. \A i \in Slot :
        Offset(i)' = IF i = hw_rx_rsvd_begin THEN NSlots - 1 ELSE Offset(i) - 1
  BY Ends, RingShift, Zenon
<1>2. RingOwned' \subseteq RingOwned \cup {hw_rx_rsvd_begin}
  <2> SUFFICES ASSUME NEW i \in RingOwned', i # hw_rx_rsvd_begin PROVE i \in RingOwned
    BY Zenon
  <2>1. i \in Slot /\ Offset(i)' >= NReserved'
    BY Zenon DEF RingOwned
  <2>2. Offset(i) - 1 >= NReserved - 1 /\ Offset(i) \in Int /\ NReserved \in Int
    BY <1>1, <2>1, Ends, Ring
  <2> QED
    BY <2>1, <2>2 DEF RingOwned
<1>3. /\ slot \in [Slot -> Slot] /\ nm_index \in [Bufinfo -> Slot] /\ Away \subseteq Bufinfo
  <2>1. slot \in [Slot -> Slot] /\ nm_index \in [Bufinfo -> Slot] /\ held \subseteq Bufinfo
    BY Zenon DEF IInv, RingInv, TypeOK, PoolTypeOK
  <2>2. \A k \in avail + n .. avail + returnable - 1 : k \in 0 .. avail + returnable - 1
    BY Counts
  <2> QED
    BY <2>1, <2>2, Listed, Zenon DEF IInv, Away, GivenBack
<1>4. NoBufferShared'
  <2>1. Apart(RingOwned, slot, Away, nm_index)
    BY SharedIsApart DEF IInv, Running
  <2>2. Apart(RingOwned \cup {hw_rx_rsvd_begin}, slot', Away \ {b}, nm_index)
    BY <1>3, <2>1, Ends, MoveIn, Zenon
  <2>3. Apart(RingOwned', slot', Away', nm_index')
    BY <1>2, <2>2, ApartLess, Zenon
  <2> QED
    BY <2>3, Zenon DEF NoBufferShared, Apart, Away
<1>5. cur # hw_rx_rsvd_begin
  BY Ends, Ring, Zenon
<1>6. Offset(cur)' = NReserved'
  <2>1. Offset(cur)' = Offset(cur) - 1
    BY <1>1, <1>5, Ends, Zenon DEF Offset
  <2> QED
    BY <2>1, Ends, Zenon
<1>7. slot' \in [Slot -> Slot] /\ hw_rx_rsvd_begin' \in Slot
  BY <1>3, Ends, Ring, Zenon
<1>8. NReserved' \in 0 .. Max /\ NReserved' < NSlots
  BY Ends
<1> QED
  BY <1>4, <1>6, <1>7, <1>8, Zenon

\* Without an mbuf header the context is un-allocated.
LEMMA NoHeaderStep == ASSUME IInv, RxNoHeader, PoolInv' PROVE IInv'
<1> USE MaxAssumption, NSlotsAssumption DEF RxNoHeader
<1>1. /\ avail \in Nat /\ returnable \in Nat /\ n = 0 /\ avail + returnable <= Max
      /\ NReserved = reserved + new_reserved + 1 /\ reserved \in Nat /\ new_reserved \in Nat
      /\ NReserved = Max - avail
  BY Counts, Thread DEF Running
<1>2. /\ avail' = avail + 1 /\ returnable' = returnable /\ n' = 0 /\ rxpc' = rxpc
      /\ pend' = NoBufinfo /\ head' = Drop(head) /\ free_list' = free_list
      /\ held' = held \ {pend} /\ pend \in held /\ pend \in Bufinfo
  BY <1>1, Zenon DEF Unalloc, IInv, PoolInv, PoolTypeOK
<1>3. Max > 0 /\ head \in Bufinfo /\ avail + returnable <= Max - 1
  <2>1. head \in Index /\ held \in SUBSET Bufinfo /\ PoolConserved
    BY Zenon DEF IInv, PoolInv, PoolTypeOK
  <2>2. Max > 0
    BY <1>2 DEF Bufinfo
  <2>3. head \in Bufinfo
    BY <2>1, <2>2 DEF Index, Bufinfo
  <2>4. Cardinality(held) \in Nat /\ Cardinality(held) >= 1
    BY <1>2, <2>1, HeldFinite, HeldCount, Zenon
  <2> QED
    BY <1>1, <2>2, <2>3, <2>4, <2>1 DEF PoolConserved
<1>4. pend \in Away /\ pend \notin GivenBack
  <2>1. \A k \in avail + n .. avail + returnable - 1 : k \in 0 .. avail + returnable - 1
    BY <1>1
  <2> QED
    BY <1>2, <2>1, Listed, Zenon DEF IInv, Away, GivenBack
<1>5. Away' \subseteq Away \ {pend}
  <2>1. \A k \in (avail + 1) .. (avail + 1) + returnable - 1 :
          k \in 1 .. Max - 1 /\ k - 1 \in avail .. avail + returnable - 1
    BY <1>1, <1>3
  <2>2. \A k \in 1 .. Max - 1 : Place(k)' = Place(k - 1)
    BY <1>2, <1>3, AtBump, Zenon DEF Place
  <2>3. (avail + 1) + 0 = avail + 1 /\ avail + 0 = avail
    BY <1>1
  <2>4. GivenBack' = {free_list[Place(k)'] : k \in (avail + 1) .. (avail + 1) + returnable - 1}
    BY <1>2, <2>3, Zenon DEF GivenBack
  <2>5. GivenBack = {free_list[Place(k)] : k \in avail .. avail + returnable - 1}
    BY <1>1, <2>3, Zenon DEF GivenBack
  <2>6. GivenBack' \subseteq GivenBack
    BY <2>1, <2>2, <2>4, <2>5, Zenon
  <2> QED
    BY <1>2, <1>4, <2>6, Zenon DEF Away
<1>6. NReserved' = NReserved - 1 /\ NReserved > 0
  <2>1. NReserved' = reserved + new_reserved
    BY Zenon DEF NReserved
  <2> QED
    BY <1>1, <2>1
<1>7. /\ NoBufferShared' /\ slot' \in [Slot -> Slot] /\ hw_rx_rsvd_begin' \in Slot
      /\ Offset(cur)' = NReserved' /\ NReserved' \in 0 .. Max /\ NReserved' < NSlots
  BY <1>4, <1>5, <1>6, Recover, Zenon
<1>8. left \in 1 .. NSlots - 1 /\ left + NReserved <= NSlots
  BY DEF IInv, RingInv, TypeOK, PassInv
<1>9. TypeOK'
  BY <1>7, <1>8 DEF IInv, RingInv, TypeOK, PoolInv
<1>10. TrailMeetsCur' /\ RingShare'
  BY <1>7, Zenon DEF TrailMeetsCur, RingShare
<1>11. ReservedExact'
  <2>1. NReserved' = Max - avail' - n'
    BY <1>1, <1>2, <1>6
  <2> QED
    BY <2>1, CountsNext, Zenon
<1>12. PassInv'
  <2>1. (left - 1) + NReserved' < NSlots
    BY <1>1, <1>6, <1>8
  <2> QED
    BY <1>2, <2>1, Zenon DEF IInv, RingInv, PassInv
<1> QED
  BY <1>7, <1>9, <1>10, <1>11, <1>12, Zenon DEF IInv, RingInv

\* A returned buffer goes into the first reserved slot.
LEMMA SweepOneStep == ASSUME IInv, RxSweepOne, PoolInv' PROVE IInv'
<1> USE MaxAssumption, NSlotsAssumption DEF RxSweepOne
<1>1. /\ avail \in Nat /\ returnable \in Nat /\ n \in Nat /\ n < returnable
      /\ avail + returnable <= Max /\ NReserved = reserved - n /\ reserved \in Nat
      /\ NReserved = Max - avail - n
  BY Counts, Thread DEF Running, SweepOne
<1>2. /\ avail' = avail /\ returnable' = returnable /\ n' = n + 1 /\ rxpc' = rxpc
      /\ pend' = pend /\ head' = head /\ free_list' = free_list /\ held' = held
  BY Zenon DEF SweepOne
<1>3. Swept = free_list[Place(avail + n)]
  BY <1>1 DEF Swept, IInv, PoolInv, RingOrder
<1>4. /\ Swept \in GivenBack /\ Swept \notin held
      /\ \A k \in avail + (n + 1) .. avail + returnable - 1 : free_list[Place(k)] # Swept
  <2>1. avail + n \in avail + n .. avail + returnable - 1 /\ avail + n \in 0 .. avail + returnable - 1
    BY <1>1
  <2>2. \A k \in avail + (n + 1) .. avail + returnable - 1 :
          k \in 0 .. avail + returnable - 1 /\ k # avail + n
    BY <1>1
  <2> QED
    BY <1>3, <2>1, <2>2, Listed, Zenon DEF GivenBack, IInv
<1>5. Swept \in Away /\ Away' \subseteq Away \ {Swept}
  <2>1. \A k \in avail + (n + 1) .. avail + returnable - 1 : k \in avail + n .. avail + returnable - 1
    BY <1>1
  <2>2. GivenBack' = {free_list[Place(k)] : k \in avail + (n + 1) .. avail + returnable - 1}
    BY <1>2, Zenon DEF GivenBack, Place
  <2>3. GivenBack' \subseteq GivenBack \ {Swept}
    BY <1>4, <2>1, <2>2, Zenon DEF GivenBack
  <2> QED
    BY <1>2, <1>4, <2>3, Zenon DEF Away
<1>6. NReserved' = NReserved - 1 /\ NReserved > 0
  <2>1. NReserved' = reserved - (n + 1)
    BY <1>2, Zenon DEF NReserved
  <2> QED
    BY <1>1, <2>1
<1>7. /\ NoBufferShared' /\ slot' \in [Slot -> Slot] /\ hw_rx_rsvd_begin' \in Slot
      /\ Offset(cur)' = NReserved' /\ NReserved' \in 0 .. Max /\ NReserved' < NSlots
  BY <1>5, <1>6, Recover, Zenon
<1>8. TypeOK'
  BY <1>7, Zenon DEF IInv, RingInv, TypeOK, PoolInv
<1>9. TrailMeetsCur' /\ RingShare'
  BY <1>7, Zenon DEF TrailMeetsCur, RingShare
<1>10. ReservedExact'
  <2>1. NReserved' = Max - avail' - n'
    BY <1>1, <1>2, <1>6
  <2> QED
    BY <2>1, CountsNext, Zenon
<1>11. PassInv'
  BY <1>2, Zenon DEF IInv, RingInv, PassInv
<1> QED
  BY <1>7, <1>8, <1>9, <1>10, <1>11, Zenon DEF IInv, RingInv

\* A packet is copied: its buffer goes to the far end of the reserved trail,
\* and its slot becomes the newest reserved one in exchange.
LEMMA CopyStep == ASSUME IInv, RxCopy, PoolInv' PROVE IInv'
<1> USE MaxAssumption, NSlotsAssumption DEF RxCopy, RxSetSlot
<1>1. /\ avail' = avail /\ n' = n /\ rxpc' = rxpc /\ pend' = pend /\ held' = held
      /\ GivenBack' = GivenBack
  BY Zenon DEF poolVars, GivenBack, Place
<1>2. NReserved' = NReserved
  BY <1>1, Zenon DEF NReserved
<1>3. \A i \in Slot :
        Offset(i)' = IF i = hw_rx_rsvd_begin THEN NSlots - 1 ELSE Offset(i) - 1
  BY Ends, RingShift, Zenon
<1>4. RingOwned' \subseteq (RingOwned \ {cur}) \cup {hw_rx_rsvd_begin}
  <2> SUFFICES ASSUME NEW i \in RingOwned', i # hw_rx_rsvd_begin PROVE i \in RingOwned \ {cur}
    BY Zenon
  <2>1. i \in Slot /\ Offset(i)' >= NReserved'
    BY Zenon DEF RingOwned
  <2>2. Offset(i) - 1 >= NReserved /\ Offset(i) \in Int /\ NReserved \in Int
    BY <1>2, <1>3, <2>1, Ends, Ring
  <2> QED
    BY <2>1, <2>2, Ends DEF RingOwned
<1>5. slot \in [Slot -> Slot]
  BY Zenon DEF IInv, RingInv, TypeOK
<1>6. NoBufferShared'
  <2>1. Apart(RingOwned, slot, Away, nm_index)
    BY SharedIsApart, Zenon DEF IInv, Running
  <2>2. hw_rx_rsvd_begin \notin RingOwned \/ hw_rx_rsvd_begin = cur
    BY Ends
  <2>3. Apart((RingOwned \ {cur}) \cup {hw_rx_rsvd_begin}, slot', Away, nm_index)
    BY <1>5, <2>1, <2>2, Ends, MoveOver, Zenon
  <2>4. Apart(RingOwned', slot', Away', nm_index')
    BY <1>1, <1>4, <2>3, ApartLess, Zenon DEF Away
  <2> QED
    BY <2>4, Zenon DEF NoBufferShared, Apart, Away
<1>7. /\ slot' \in [Slot -> Slot] /\ hw_rx_rsvd_begin' \in Slot /\ cur' \in Slot
      /\ Offset(cur)' = NReserved'
  <2>1. slot' \in [Slot -> Slot] /\ hw_rx_rsvd_begin' \in Slot /\ cur' \in Slot
    BY <1>5, Ends, Ring, Zenon
  <2>2. Offset(cur)' = Offset(cur)
    BY Ends DEF Offset, RingNext, Slot
  <2> QED
    BY <1>2, <2>1, <2>2, Ends, Zenon
<1>8. left \in 1 .. NSlots - 1 /\ left + NReserved < NSlots /\ NReserved \in Nat
  BY Ends DEF IInv, RingInv, TypeOK, PassInv
<1>9. TypeOK'
  BY <1>7, <1>8 DEF IInv, RingInv, TypeOK, PoolInv
<1>10. TrailMeetsCur' /\ RingShare'
  BY <1>2, <1>7, Ends, Zenon DEF TrailMeetsCur, RingShare
<1>11. ReservedExact'
  BY <1>1, <1>2, Counts, CountsNext, Zenon DEF Running
<1>12. PassInv'
  <2>1. (left - 1) + NReserved' < NSlots
    BY <1>2, <1>8
  <2> QED
    BY <1>1, <2>1, Zenon DEF IInv, RingInv, PassInv
<1> QED
  BY <1>6, <1>9, <1>10, <1>11, <1>12, Zenon DEF IInv, RingInv

\* After the thread has stopped, if_netmap_detach rewrites the ring.
LEMMA StopStep == ASSUME IInv, RxStop \/ Detach, PoolInv' PROVE IInv'
<1> USE MaxAssumption, NSlotsAssumption DEF RxStop, Detach
<1>1. pc' \in {"stopped", "detached"} /\ pc \in {"poll", "stopped"}
  BY Zenon
<1>2. NoBufferShared' /\ ReservedExact' /\ TrailMeetsCur' /\ RingShare'
  BY <1>1, Zenon DEF NoBufferShared, ReservedExact, TrailMeetsCur, RingShare, Running
<1>3. slot' \in [Slot -> Slot]
  BY Zenon DEF IInv, RingInv, TypeOK, nm_buffer_indices, Slot
<1>4. TypeOK'
  BY <1>1, <1>3, Zenon DEF IInv, RingInv, TypeOK, PoolInv
<1>5. PassInv'
  BY <1>1, Zenon DEF IInv, RingInv, PassInv, poolVars
<1> QED
  BY <1>2, <1>4, <1>5, Zenon DEF IInv, RingInv

\* Nothing happens.
LEMMA StutterStep == ASSUME IInv, UNCHANGED vars PROVE IInv'
<1>1. PoolInv'
  BY StutterInv, Zenon DEF IInv, vars
<1>2. GivenBack' = GivenBack /\ NReserved' = NReserved
  BY Zenon DEF vars, poolVars, ringVars, GivenBack, Place, NReserved
<1>3. NoBufferShared'
  BY <1>2 DEF IInv, vars, poolVars, ringVars, NoBufferShared, Running, RingOwned, Offset
<1>4. RingInv'
  BY <1>1, <1>2, Zenon DEF IInv, vars, poolVars, ringVars, RingInv, TypeOK, PoolInv, TrailMeetsCur,
     ReservedExact, RingShare, PassInv, Running, Offset
<1> QED
  BY <1>1, <1>3, <1>4, Zenon DEF IInv

-----------------------------------------------------------------------------

\* Every step keeps the invariant.
LEMMA IInvStep == IInv /\ [Next]_vars => IInv'
<1> SUFFICES ASSUME IInv, [Next]_vars PROVE IInv'
  BY Zenon
<1>1. PoolInv'
  BY PoolPart, Zenon
<1> QED
  BY <1>1, KernelRxStep, PassStartStep, ZeroCopyStep, PassEndStep, UpdateStep, FreeStep,
     AllocStep, NoHeaderStep, SweepOneStep, CopyStep, StopStep, StutterStep, Zenon
     DEF Next, RxThread

\* ... so it holds throughout.
LEMMA AlwaysIInv == Spec => []IInv
  BY InitIInv, IInvStep, PTL DEF Spec

\* For every ring and every smaller pool, the reserved slots are the ones
\* between hw_rx_rsvd_begin and cur, as many as there are buffers away from
\* the ring, and if_netmap_receive never runs into them.
THEOREM RingInvariant == Spec => []RingInv
<1>1. IInv => RingInv
  BY Zenon DEF IInv
<1> QED
  BY <1>1, AlwaysIInv, PTL

\* For every ring and every smaller pool, no netmap buffer is at once with
\* the kernel and with the stack, or twice with either.
THEOREM BuffersNeverShared == Spec => []NoBufferShared
<1>1. IInv => NoBufferShared
  BY DEF IInv
<1> QED
  BY <1>1, AlwaysIInv, PTL

\* The receive path uses the pool only by its operations, so that with every
\* ring around it the pool still behaves as ContextPool says.
THEOREM ReceiveRefines == Spec => ImplementsContextPool
<1>1. Init => PoolInit
  BY DEF Init
<1>2. Spec => PoolSpec
  BY <1>1, PoolSteps, PTL DEF Spec, PoolSpec
<1> QED
  BY <1>2, PoolRefines, Zenon
=============================================================================
