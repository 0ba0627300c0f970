------------------------ MODULE EndpointHandlesProofs ------------------------
(***************************************************************************)
(* The invariants of an endpoint whose caller releases in any order, for   *)
(* every number of buffers.  A link takes the facts about the ring         *)
(* operators from here, for each of its two ends.                          *)
(***************************************************************************)
EXTENDS EndpointHandles, SequenceTheorems, WellFoundedInduction, TLAPS

-----------------------------------------------------------------------------
(* The ring operators.                                                     *)

(* The remainder of a sum of two positions of a ring, without division.    *)
LEMMA ModSum ==
  ASSUME NEW N \in Nat \ {0}, NEW a \in 0..(N - 1), NEW i \in 0..N
  PROVE  (a + i) % N = IF a + i < N THEN a + i ELSE a + i - N
OBVIOUS

(* Modular positions without the modulus: a slot is one of two sums.       *)
LEMMA SlotValue ==
  ASSUME NEW r \in Rings, NEW i \in 0..NumBuffs
  PROVE  /\ Slot(r, i) \in Handles
         /\ Slot(r, i) = IF r.nextHandleRelease + i < NumBuffs
                         THEN r.nextHandleRelease + i
                         ELSE r.nextHandleRelease + i - NumBuffs
<1>1. r.nextHandleRelease \in 0..(NumBuffs - 1)
  BY DEF Rings, Handles
<1>3. Slot(r, i) = IF r.nextHandleRelease + i < NumBuffs
                   THEN r.nextHandleRelease + i
                   ELSE r.nextHandleRelease + i - NumBuffs
  BY <1>1, ModSum, NumBuffsAssumption, Zenon DEF Slot
<1> QED BY <1>1, <1>3, NumBuffsAssumption DEF Handles

(* A nonempty set of naturals has a least element.                         *)
LEMMA LeastNatural ==
  ASSUME NEW T, T \subseteq Nat, T # {}
  PROVE  \E m \in T : \A n \in T : m <= n
<1>1. \A x, y \in Nat : x < y => <<x, y>> \in OpToRel(<, Nat)
  BY Zenon DEF OpToRel
<1>2. PICK R : /\ IsWellFoundedOn(R, Nat)
               /\ \A x, y \in Nat : x < y => <<x, y>> \in R
  BY <1>1, NatLessThanWellFounded, Zenon
<1>3. T \subseteq Nat
  OBVIOUS
<1>4. \A W, S : IsWellFoundedOn(W, S) /\ T \subseteq S /\ T # {}
                => \E x \in T : \A y \in T : ~ (<<y, x>> \in W)
  BY WFMin, Zenon
<1>5. PICK m \in T : \A n \in T : ~ (<<n, m>> \in R)
  BY <1>2, <1>3, <1>4, Zenon
<1>6. \A n \in T : ~ (n < m)
  BY <1>2, <1>3, <1>5, Zenon
<1> QED BY <1>3, <1>6

(* The release loop stops, at the first held handle or at the end.         *)
LEMMA ReclaimableDef ==
  ASSUME NEW r \in Rings
  PROVE  /\ Reclaimable(r) \in 0..r.numHandlesAcquired
         /\ \A i \in 0..(Reclaimable(r) - 1) : ~ r.acquired[Slot(r, i)]
         /\ Reclaimable(r) < r.numHandlesAcquired
              => r.acquired[Slot(r, Reclaimable(r))]
<1> DEFINE n == r.numHandlesAcquired
           Stops(k) == /\ \A i \in 0..(k - 1) : ~ r.acquired[Slot(r, i)]
                       /\ k < n => r.acquired[Slot(r, k)]
           T == {i \in 0..(n - 1) : r.acquired[Slot(r, i)]}
<1>1. n \in Nat
  BY NumBuffsAssumption DEF Rings
<1>2. \E k \in 0..n : Stops(k)
  <2>1. CASE T = {}
    BY <1>1, <2>1
  <2>2. CASE T # {}
    <3>0. T \subseteq Nat
      BY <1>1
    <3>1. PICK m \in T : \A i \in T : m <= i
      BY <2>2, <3>0, LeastNatural, Zenon
    <3>2. Stops(m) /\ m \in 0..n
      BY <1>1, <3>1
    <3> QED BY <3>2
  <2> QED BY <2>1, <2>2
<1> QED BY <1>2 DEF Reclaimable

LEMMA EmptyRingOK == EmptyRing \in Rings /\ RingOK(EmptyRing)
BY NumBuffsAssumption
DEF EmptyRing, Rings, RingOK, IndexesAgree, HeldAreOutstanding, OldestIsHeld,
    Held, Slot, Handles

(* Acquiring on a ring that is not full gives a handle nobody holds.       *)
LEMMA RingAcquireOK ==
  ASSUME NEW r \in Rings, RingOK(r), ~ RingFull(r)
  PROVE  /\ RingAcquire(r) \in Rings
         /\ RingOK(RingAcquire(r))
         /\ r.nextHandleAcquire \notin Held(r)
         /\ Held(RingAcquire(r)) = Held(r) \cup {r.nextHandleAcquire}
<1> DEFINE q == RingAcquire(r)
           n == r.numHandlesAcquired
<1>1. n \in 0..(NumBuffs - 1) /\ NumBuffs \in Nat \ {0}
  BY NumBuffsAssumption DEF Rings, RingFull
<1>2. r.nextHandleAcquire \in Handles /\ r.nextHandleRelease \in Handles
  BY DEF Rings
<1>3. q \in Rings
  BY <1>1, <1>2 DEF RingAcquire, Rings, Handles
<1>4. /\ q.nextHandleRelease = r.nextHandleRelease
      /\ q.numHandlesAcquired = n + 1
      /\ q.nextHandleAcquire = (r.nextHandleAcquire + 1) % NumBuffs
      /\ q.acquired = [r.acquired EXCEPT ![r.nextHandleAcquire] = TRUE]
  BY DEF RingAcquire
<1>5. Held(q) = Held(r) \cup {r.nextHandleAcquire}
  BY <1>2, <1>4 DEF Held, Rings
<1>6. \A i \in 0..NumBuffs : Slot(q, i) = Slot(r, i)
  BY <1>4 DEF Slot
<1>7. r.nextHandleAcquire = Slot(r, n)
  BY DEF RingOK, IndexesAgree
<1>8. r.nextHandleAcquire \notin Held(r)
  <2>1. \A i \in 0..(n - 1) : Slot(r, i) # Slot(r, n)
    BY <1>1, <1>2, SlotValue DEF Handles
  <2> QED BY <1>7, <2>1 DEF RingOK, HeldAreOutstanding
<1>9. IndexesAgree(q)
  <2>1. Slot(r, n + 1) = (r.nextHandleAcquire + 1) % NumBuffs
    <3>1. r.nextHandleAcquire \in 0..(NumBuffs - 1) /\ 1 \in 0..NumBuffs
      BY <1>1, <1>2 DEF Handles
    <3>2. (r.nextHandleAcquire + 1) % NumBuffs
            = IF r.nextHandleAcquire + 1 < NumBuffs
              THEN r.nextHandleAcquire + 1 ELSE r.nextHandleAcquire + 1 - NumBuffs
      BY <1>1, <3>1, ModSum, Zenon
    <3>3. n \in 0..NumBuffs /\ n + 1 \in 0..NumBuffs
      BY <1>1
    <3> QED BY <1>1, <1>2, <1>7, <3>2, <3>3, SlotValue DEF Handles
  <2> QED BY <1>1, <1>4, <1>6, <2>1 DEF IndexesAgree
<1>10. HeldAreOutstanding(q)
  BY <1>1, <1>4, <1>5, <1>6, <1>7 DEF HeldAreOutstanding, RingOK
<1>11. OldestIsHeld(q)
  <2>1. CASE n = 0
    BY <1>1, <1>2, <1>4, <1>7, <2>1, SlotValue DEF OldestIsHeld, Rings, Handles
  <2>2. CASE n # 0
    BY <1>2, <1>4, <2>2 DEF OldestIsHeld, RingOK, Rings
  <2> QED BY <2>1, <2>2
<1> QED BY <1>3, <1>5, <1>8, <1>9, <1>10, <1>11 DEF RingOK

(* Where the slots of a ring go when a handle is released: the first k are *)
(* reclaimed, none of which is held any more, the others keep their order, *)
(* and the first of them is held.                                          *)
LEMMA RingReleaseSlots ==
  ASSUME NEW r \in Rings, NEW h \in Handles,
         NEW k, k = Reclaimable(Returned(r, h))
  PROVE  /\ k \in 0..r.numHandlesAcquired
         /\ RingRelease(r, h).numHandlesAcquired = r.numHandlesAcquired - k
         /\ \A i \in k..r.numHandlesAcquired :
              Slot(RingRelease(r, h), i - k) = Slot(r, i)
         /\ \A i \in 0..(k - 1) : Slot(r, i) \notin Held(RingRelease(r, h))
         /\ k < r.numHandlesAcquired => Slot(r, k) \in Held(RingRelease(r, h))
<1> DEFINE p == Returned(r, h)
           q == RingRelease(r, h)
           n == r.numHandlesAcquired
<1>1. NumBuffs \in Nat \ {0} /\ n \in 0..NumBuffs /\ r.nextHandleRelease \in Handles
  BY NumBuffsAssumption DEF Rings
<1>2. p \in Rings
  BY DEF Rings, Returned
<1>3. /\ p.nextHandleRelease = r.nextHandleRelease
      /\ p.nextHandleAcquire = r.nextHandleAcquire
      /\ p.numHandlesAcquired = n
  BY DEF Returned
<1>4. /\ k \in 0..n
      /\ \A i \in 0..(k - 1) : ~ p.acquired[Slot(p, i)]
      /\ k < n => p.acquired[Slot(p, k)]
  BY <1>2, <1>3, ReclaimableDef
<1>5. /\ q = RingReclaim(p)
      /\ q.acquired = p.acquired
      /\ q.nextHandleRelease = Slot(p, k)
      /\ q.numHandlesAcquired = n - k
  BY <1>3 DEF RingRelease, RingReclaim
<1>6. k \in 0..NumBuffs /\ n - k \in 0..NumBuffs
  BY <1>1, <1>4
<1>7. Slot(p, k) \in Handles
  BY <1>2, <1>6, SlotValue
<1>8. q \in Rings
  BY <1>2, <1>3, <1>5, <1>6, <1>7 DEF Rings, RingReclaim
<1>9. \A i \in 0..NumBuffs : Slot(p, i) = Slot(r, i) /\ Slot(r, i) \in Handles
  BY <1>3, SlotValue DEF Slot
<1>10. \A i \in k..n : Slot(q, i - k) = Slot(r, i)
  <2> SUFFICES ASSUME NEW i \in k..n
               PROVE  Slot(q, i - k) = Slot(r, i)
    OBVIOUS
  <2>1. i \in 0..NumBuffs /\ i - k \in 0..NumBuffs
    BY <1>1, <1>4
  <2>2. Slot(r, i) = IF r.nextHandleRelease + i < NumBuffs
                     THEN r.nextHandleRelease + i
                     ELSE r.nextHandleRelease + i - NumBuffs
    BY <2>1, SlotValue
  <2>3. Slot(p, k) = IF r.nextHandleRelease + k < NumBuffs
                     THEN r.nextHandleRelease + k
                     ELSE r.nextHandleRelease + k - NumBuffs
    BY <1>2, <1>3, <1>6, SlotValue
  <2>4. Slot(q, i - k) = IF Slot(p, k) + (i - k) < NumBuffs
                         THEN Slot(p, k) + (i - k)
                         ELSE Slot(p, k) + (i - k) - NumBuffs
    BY <1>5, <1>8, <2>1, SlotValue
  <2> HIDE DEF p, q, n
  <2> QED BY <1>1, <1>4, <2>1, <2>2, <2>3, <2>4 DEF Handles
<1>11. \A i \in 0..(k - 1) : Slot(r, i) \notin Held(q)
  <2> SUFFICES ASSUME NEW i \in 0..(k - 1)
               PROVE  Slot(r, i) \notin Held(q)
    OBVIOUS
  <2>1. i \in 0..NumBuffs
    BY <1>1, <1>6
  <2> QED BY <1>4, <1>5, <1>9, <2>1 DEF Held
<1>12. k < n => Slot(r, k) \in Held(q)
  BY <1>4, <1>5, <1>6, <1>9 DEF Held
<1> QED BY <1>4, <1>5, <1>10, <1>11, <1>12

(* Releasing a handle, held or not, in any order, keeps the ring in shape. *)
LEMMA RingReleaseOK ==
  ASSUME NEW r \in Rings, RingOK(r), NEW h \in Handles
  PROVE  /\ RingRelease(r, h) \in Rings
         /\ RingOK(RingRelease(r, h))
         /\ Held(RingRelease(r, h)) = Held(r) \ {h}
         /\ RingRelease(r, h).numHandlesAcquired <= r.numHandlesAcquired
<1> DEFINE p == Returned(r, h)
           k == Reclaimable(p)
           q == RingRelease(r, h)
           n == r.numHandlesAcquired
<1>1. NumBuffs \in Nat \ {0} /\ n \in 0..NumBuffs /\ r.nextHandleRelease \in Handles
  BY NumBuffsAssumption DEF Rings
<1>2. p \in Rings
  BY DEF Rings, Returned
<1>3. /\ p.acquired = [r.acquired EXCEPT ![h] = FALSE]
      /\ p.nextHandleAcquire = r.nextHandleAcquire
      /\ p.nextHandleRelease = r.nextHandleRelease
      /\ p.numHandlesAcquired = n
  BY DEF Returned
<1>4. /\ k \in 0..n
      /\ \A i \in 0..(k - 1) : ~ p.acquired[Slot(p, i)]
      /\ k < n => p.acquired[Slot(p, k)]
  BY <1>2, <1>3, ReclaimableDef
<1>5. /\ q = RingReclaim(p)
      /\ q.acquired = p.acquired
      /\ q.nextHandleAcquire = r.nextHandleAcquire
      /\ q.nextHandleRelease = Slot(p, k)
      /\ q.numHandlesAcquired = n - k
  BY <1>3 DEF RingRelease, RingReclaim
<1>6. Slot(p, k) \in Handles /\ n - k \in 0..n
  BY <1>1, <1>2, <1>4, SlotValue
<1>7. q \in Rings
  BY <1>1, <1>2, <1>3, <1>5, <1>6 DEF Rings, RingReclaim
<1>9. Held(q) = Held(r) \ {h}
  BY <1>3, <1>5 DEF Held, Rings
<1>10. \A i \in 0..n : i >= k => Slot(q, i - k) = Slot(r, i)
  BY <1>1, <1>4, RingReleaseSlots
<1>11. IndexesAgree(q)
  BY <1>1, <1>4, <1>5, <1>10 DEF IndexesAgree, RingOK
<1>12. HeldAreOutstanding(q)
  <2> SUFFICES ASSUME NEW g \in Held(q)
               PROVE  \E j \in 0..(q.numHandlesAcquired - 1) : g = Slot(q, j)
    BY DEF HeldAreOutstanding
  <2>1. PICK i \in 0..(n - 1) : g = Slot(r, i)
    BY <1>9 DEF RingOK, HeldAreOutstanding
  <2>2. i >= k
    <3>1. p.acquired[g]
      BY <1>5 DEF Held
    <3>2. Slot(p, i) = g
      BY <1>3, <2>1 DEF Slot
    <3> QED BY <1>1, <1>4, <2>1, <3>1, <3>2
  <2>3. i - k \in 0..(q.numHandlesAcquired - 1) /\ g = Slot(q, i - k)
    BY <1>1, <1>4, <1>5, <1>10, <2>1, <2>2
  <2> QED BY <2>3
<1>13. OldestIsHeld(q)
  BY <1>1, <1>4, <1>5 DEF OldestIsHeld
<1>14. q.numHandlesAcquired <= n
  BY <1>1, <1>4, <1>5
<1> QED BY <1>7, <1>9, <1>11, <1>12, <1>13, <1>14 DEF RingOK

-----------------------------------------------------------------------------
(* The endpoint.                                                           *)

(* The ring always has its type and its shape, whatever the caller does.   *)
THEOREM RingSafe == Spec => [](TypeOK /\ RingInv)
<1>1. Init => TypeOK /\ RingInv
  BY EmptyRingOK DEF Init, TypeOK, RingInv
<1>2. TypeOK /\ RingInv /\ [Next]_vars => (TypeOK /\ RingInv)'
  <2> SUFFICES ASSUME TypeOK, RingInv, [Next]_vars
               PROVE  (TypeOK /\ RingInv)'
    OBVIOUS
  <2>1. CASE Acquire
    BY <2>1, RingAcquireOK DEF Acquire, TypeOK, RingInv
  <2>2. CASE \E h \in Handles : Release(h)
    BY <2>2, RingReleaseOK DEF Release, TypeOK, RingInv
  <2>3. CASE UNCHANGED vars
    BY <2>3 DEF vars, TypeOK, RingInv
  <2> QED BY <2>1, <2>2, <2>3 DEF Next
<1> QED BY <1>1, <1>2, PTL DEF Spec

(* Every index and counter of the ring stays within its type.              *)
THEOREM RingTyped == Spec => []TypeOK
<1> QED BY RingSafe, PTL

(* A buffer given to the caller was free.                                  *)
THEOREM HandsOutFree == Spec => HandsOutFreeHandle
<1> DEFINE A == ring'.numHandlesAcquired > ring.numHandlesAcquired
                  => \E h \in Handles \ Held(ring) :
                       Held(ring') = Held(ring) \cup {h}
<1>1. TypeOK /\ RingInv /\ [Next]_vars => [A]_vars
  <2> SUFFICES ASSUME TypeOK, RingInv, Next
               PROVE  A
    OBVIOUS
  <2>1. CASE Acquire
    BY <2>1, RingAcquireOK DEF Acquire, TypeOK, RingInv, Rings
  <2>2. CASE \E h \in Handles : Release(h)
    <3>1. PICK h \in Handles : ring' = RingRelease(ring, h)
      BY <2>2 DEF Release
    <3>2. /\ ring'.numHandlesAcquired <= ring.numHandlesAcquired
          /\ ring'.numHandlesAcquired \in Nat
          /\ ring.numHandlesAcquired \in Nat
      BY <3>1, RingReleaseOK, NumBuffsAssumption DEF TypeOK, RingInv, Rings
    <3> QED BY <3>2
  <2> QED BY <2>1, <2>2 DEF Next
<1> QED BY <1>1, RingSafe, PTL DEF Spec, HandsOutFreeHandle
-----------------------------------------------------------------------------
(* The list of outstanding buffers, of any ring.                           *)
Listing(r) == [i \in 1..r.numHandlesAcquired |-> Slot(r, i - 1)]

LEMMA ListingIsSeq ==
  ASSUME NEW r \in Rings
  PROVE  /\ Listing(r) \in Seq(Handles)
         /\ Len(Listing(r)) = r.numHandlesAcquired
         /\ \A i \in 1..r.numHandlesAcquired : Listing(r)[i] = Slot(r, i - 1)
         /\ \A i \in 0..NumBuffs : Slot(r, i) \in Handles
<1> DEFINE n == r.numHandlesAcquired
           L == Listing(r)
<1>1. n \in Nat /\ n \in 0..NumBuffs
  BY NumBuffsAssumption DEF Rings
<1>2. \A i \in 0..NumBuffs : Slot(r, i) \in Handles
  BY SlotValue
<1>3. \A i \in 1..n : Slot(r, i - 1) \in Handles
  BY <1>1, <1>2, NumBuffsAssumption
<1>4. L = [i \in 1..n |-> Slot(r, i - 1)]
  BY DEF Listing
<1>5. L \in [1..n -> Handles] /\ DOMAIN L = 1..n /\ \A i \in 1..n : L[i] = Slot(r, i - 1)
  BY <1>3, <1>4, Zenon
<1> HIDE DEF L, n
<1>6. L \in Seq(Handles)
  BY <1>1, <1>5, SeqDef, Zenon
<1>7. DOMAIN L = 1..Len(L) /\ Len(L) \in Nat
  BY <1>6, LenProperties, Zenon
<1>8. Len(L) = n
  BY <1>1, <1>5, <1>7
<1> QED BY <1>2, <1>5, <1>6, <1>8 DEF n, L

(* Acquiring lists one more buffer, which was not listed.                  *)
LEMMA ListingAfterAcquire ==
  ASSUME NEW r \in Rings, RingOK(r), ~ RingFull(r)
  PROVE  /\ Listing(RingAcquire(r)) = Append(Listing(r), r.nextHandleAcquire)
         /\ \A i \in DOMAIN Listing(r) : Listing(r)[i] # r.nextHandleAcquire
         /\ r.nextHandleAcquire \in Handles
<1> DEFINE q == RingAcquire(r)
           n == r.numHandlesAcquired
           b == r.nextHandleAcquire
<1>1. n \in 0..(NumBuffs - 1) /\ NumBuffs \in Nat \ {0}
  BY NumBuffsAssumption DEF Rings, RingFull
<1>2. b \in Handles /\ r.nextHandleRelease \in Handles
  BY DEF Rings
<1>3. q \in Rings
  BY RingAcquireOK
<1>4. q.nextHandleRelease = r.nextHandleRelease /\ q.numHandlesAcquired = n + 1
  BY DEF RingAcquire
<1>5. b = Slot(r, n)
  BY DEF RingOK, IndexesAgree
<1>6. \A i \in 0..NumBuffs : Slot(q, i) = Slot(r, i)
  BY <1>4 DEF Slot
<1>7. /\ Listing(r) \in Seq(Handles) /\ Len(Listing(r)) = n
      /\ \A i \in 1..n : Listing(r)[i] = Slot(r, i - 1)
  BY ListingIsSeq
<1>8. /\ Listing(q) \in Seq(Handles) /\ Len(Listing(q)) = n + 1
      /\ \A i \in 1..(n + 1) : Listing(q)[i] = Slot(q, i - 1)
  BY <1>3, <1>4, ListingIsSeq
<1>9. /\ Append(Listing(r), b) \in Seq(Handles)
      /\ Len(Append(Listing(r), b)) = n + 1
      /\ \A i \in 1..n : Append(Listing(r), b)[i] = Listing(r)[i]
      /\ Append(Listing(r), b)[n + 1] = b
  <2>1. b \in Handles
    BY <1>2
  <2> HIDE DEF b, n
  <2> QED BY <1>7, <2>1, AppendProperties
<1>10. \A i \in 1..(n + 1) : Listing(q)[i] = Append(Listing(r), b)[i]
  <2> SUFFICES ASSUME NEW i \in 1..(n + 1)
               PROVE  Listing(q)[i] = Append(Listing(r), b)[i]
    OBVIOUS
  <2>1. i - 1 \in 0..NumBuffs
    BY <1>1
  <2>2. Listing(q)[i] = Slot(r, i - 1)
    BY <1>6, <1>8, <2>1
  <2>3. CASE i = n + 1
    BY <1>1, <1>5, <1>9, <2>2, <2>3
  <2>4. CASE i # n + 1
    BY <1>1, <1>7, <1>9, <2>2, <2>4
  <2> QED BY <2>3, <2>4
<1>11. Listing(q) = Append(Listing(r), b)
  <2> HIDE DEF b, q, n
  <2> QED BY <1>8, <1>9, <1>10, SeqEqual, Zenon
<1>12. \A i \in DOMAIN Listing(r) : Listing(r)[i] # b
  <2>1. \A i \in 0..(n - 1) : Slot(r, i) # Slot(r, n)
    BY <1>1, <1>2, SlotValue DEF Handles
  <2>2. DOMAIN Listing(r) = 1..n
    BY <1>7, LenProperties
  <2> QED BY <1>1, <1>5, <1>7, <2>1, <2>2
<1> QED BY <1>2, <1>11, <1>12

(* Releasing a held buffer leaves the suffix of the list that starts at    *)
(* its first buffer still held.                                            *)
LEMMA ListingAfterRelease ==
  ASSUME NEW r \in Rings, RingOK(r), NEW h \in Handles
  PROVE  Listing(RingRelease(r, h))
           = Pool!FromFirstIn(Listing(r), Held(RingRelease(r, h)))
<1> DEFINE q == RingRelease(r, h)
           n == r.numHandlesAcquired
           k == Reclaimable(Returned(r, h))
           H == Held(q)
           s == Listing(r)
           First(j) == /\ \A i \in 1..j : s[i] \notin H
                       /\ j < Len(s) => s[j + 1] \in H
<1>1. n \in 0..NumBuffs /\ NumBuffs \in Nat \ {0}
  BY NumBuffsAssumption DEF Rings
<1>2. q \in Rings
  BY RingReleaseOK
<1>3. /\ k \in 0..n
      /\ q.numHandlesAcquired = n - k
      /\ \A i \in k..n : Slot(q, i - k) = Slot(r, i)
      /\ \A i \in 0..(k - 1) : Slot(r, i) \notin H
      /\ k < n => Slot(r, k) \in H
  BY RingReleaseSlots
<1>4. /\ s \in Seq(Handles) /\ Len(s) = n
      /\ \A i \in 1..n : s[i] = Slot(r, i - 1)
      /\ \A i \in 0..NumBuffs : Slot(r, i) \in Handles
  BY ListingIsSeq
<1>5. /\ Listing(q) \in Seq(Handles) /\ Len(Listing(q)) = n - k
      /\ \A i \in 1..(n - k) : Listing(q)[i] = Slot(q, i - 1)
  BY <1>2, <1>3, ListingIsSeq
<1> HIDE DEF q, n, k, H, s
<1>6. First(k)
  BY <1>1, <1>3, <1>4
<1>7. \A j \in 0..n : First(j) => j = k
  <2> SUFFICES ASSUME NEW j \in 0..n, First(j)
               PROVE  j = k
    OBVIOUS
  <2>1. ~ (j < k)
    BY <1>1, <1>3, <1>4, <1>6
  <2>2. ~ (k < j)
    BY <1>1, <1>3, <1>4, <1>6
  <2> QED BY <1>1, <1>3, <2>1, <2>2
<1>8. (CHOOSE j \in 0..Len(s) : First(j)) = k
  BY <1>3, <1>4, <1>6, <1>7
<1>9. Pool!FromFirstIn(s, H) = SubSeq(s, k + 1, n)
  BY <1>4, <1>8 DEF Pool!FromFirstIn
<1>10. /\ SubSeq(s, k + 1, n) \in Seq(Handles)
       /\ Len(SubSeq(s, k + 1, n)) = n - k
       /\ \A i \in 1..(n - k) : SubSeq(s, k + 1, n)[i] = s[k + i]
  <2>1. /\ k + 1 \in Int /\ n \in Int
        /\ \A i \in (k + 1)..n : s[i] \in Handles
    BY <1>1, <1>3, <1>4
  <2>2. /\ SubSeq(s, k + 1, n) \in Seq(Handles)
        /\ Len(SubSeq(s, k + 1, n)) = IF k + 1 <= n THEN n - (k + 1) + 1 ELSE 0
        /\ \A i \in 1..(n - (k + 1) + 1) : SubSeq(s, k + 1, n)[i] = s[(k + 1) + i - 1]
    <3> DEFINE m == k + 1
    <3>1. m \in Int /\ n \in Int /\ \A i \in m..n : s[i] \in Handles
      BY <2>1
    <3> HIDE DEF m
    <3>2. /\ SubSeq(s, m, n) \in Seq(Handles)
          /\ Len(SubSeq(s, m, n)) = IF m <= n THEN n - m + 1 ELSE 0
          /\ \A i \in 1..n - m + 1 : SubSeq(s, m, n)[i] = s[m + i - 1]
      BY <3>1, SubSeqProperties
    <3> QED BY <3>2 DEF m
  <2> QED BY <1>1, <1>3, <2>2
<1>11. \A i \in 1..(n - k) : Listing(q)[i] = SubSeq(s, k + 1, n)[i]
  <2> SUFFICES ASSUME NEW i \in 1..(n - k)
               PROVE  Listing(q)[i] = SubSeq(s, k + 1, n)[i]
    OBVIOUS
  <2>1. k + (i - 1) \in k..n /\ (k + (i - 1)) - k = i - 1 /\ k + i \in 1..n
         /\ (k + i) - 1 = k + (i - 1)
    BY <1>1, <1>3
  <2>2. Slot(q, i - 1) = Slot(r, k + (i - 1))
    BY <1>3, <2>1
  <2> QED BY <1>4, <1>5, <1>10, <2>1, <2>2
<1>12. Listing(q) = SubSeq(s, k + 1, n)
  BY <1>5, <1>10, <1>11, SeqEqual, Zenon
<1> QED BY <1>9, <1>12 DEF q, H, s

(* Releasing a handle that nobody holds changes nothing.                   *)
LEMMA ReleaseOfFree ==
  ASSUME NEW r \in Rings, RingOK(r), NEW h \in Handles \ Held(r)
  PROVE  RingRelease(r, h) = r
<1> DEFINE p == Returned(r, h)
           n == r.numHandlesAcquired
<1>1. n \in 0..NumBuffs /\ NumBuffs \in Nat \ {0} /\ r.nextHandleRelease \in 0..(NumBuffs - 1)
  BY NumBuffsAssumption DEF Rings, Handles
<1>2. r.acquired \in [Handles -> BOOLEAN] /\ r.acquired[h] = FALSE
  BY DEF Rings, Held
<1>3. [r.acquired EXCEPT ![h] = FALSE] = r.acquired
  BY <1>2
<1>4. r = [acquired |-> r.acquired, nextHandleAcquire |-> r.nextHandleAcquire,
           nextHandleRelease |-> r.nextHandleRelease,
           numHandlesAcquired |-> r.numHandlesAcquired]
  BY DEF Rings
<1>5. p = r
  BY <1>3, <1>4 DEF Returned
<1>6. Slot(r, 0) = r.nextHandleRelease
  BY <1>1, SlotValue
<1>7. Reclaimable(r) = 0
  <2>1. /\ Reclaimable(r) \in 0..n
        /\ \A i \in 0..(Reclaimable(r) - 1) : ~ r.acquired[Slot(r, i)]
    BY ReclaimableDef
  <2>2. n # 0 => r.acquired[Slot(r, 0)]
    BY <1>6 DEF RingOK, OldestIsHeld
  <2> QED BY <1>1, <2>1, <2>2
<1>8. RingReclaim(r) = r
  BY <1>1, <1>4, <1>6, <1>7 DEF RingReclaim
<1> QED BY <1>5, <1>8 DEF RingRelease

(* The ring implements the pool: whatever the number of buffers and the    *)
(* order of the releases, a buffer is given out again only when the caller *)
(* has returned it and all the buffers given out before it.                *)
THEOREM RingImplementsPool == Spec => PoolSpec
<1>1. Init => Pool!Init
  <2> SUFFICES ASSUME Init PROVE Pool!Init
    OBVIOUS
  <2>1. ring \in Rings /\ ring.numHandlesAcquired = 0 /\ Held(ring) = {}
    BY EmptyRingOK DEF Init, EmptyRing, Held
  <2>2. Listing(ring) \in Seq(Handles) /\ Len(Listing(ring)) = 0
    BY <2>1, ListingIsSeq
  <2>3. Listing(ring) = <<>>
    BY <2>2, EmptySeq
  <2> QED BY <2>1, <2>3 DEF Pool!Init, Outstanding, Listing
<1>2. TypeOK /\ RingInv /\ [Next]_vars => [Pool!Next]_(Pool!vars)
  <2> SUFFICES ASSUME TypeOK, RingInv, [Next]_vars
               PROVE  Pool!Next \/ UNCHANGED Pool!vars
    OBVIOUS
  <2>0. Outstanding = Listing(ring) /\ Outstanding' = Listing(ring')
    BY DEF Outstanding, Listing
  <2>1. CASE Acquire
    <3>1. /\ ring \in Rings /\ RingOK(ring) /\ ~ RingFull(ring)
          /\ ring' = RingAcquire(ring)
      BY <2>1 DEF TypeOK, RingInv, Acquire
    <3>2. /\ Outstanding' = Append(Outstanding, ring.nextHandleAcquire)
          /\ ring.nextHandleAcquire \notin Pool!Listed(Outstanding)
          /\ ring.nextHandleAcquire \in Handles
      BY <2>0, <3>1, ListingAfterAcquire DEF Pool!Listed
    <3>3. Held(ring)' = Held(ring) \cup {ring.nextHandleAcquire}
      BY <3>1, RingAcquireOK DEF Held
    <3> QED BY <3>2, <3>3 DEF Pool!Next, Pool!Give
  <2>2. ASSUME NEW h \in Handles, Release(h)
        PROVE  Pool!Next \/ UNCHANGED Pool!vars
    <3>1. ring \in Rings /\ RingOK(ring) /\ ring' = RingRelease(ring, h)
      BY <2>2 DEF TypeOK, RingInv, Release
    <3>2. CASE h \in Held(ring)
      <4>1. Held(ring)' = Held(ring) \ {h}
        BY <3>1, RingReleaseOK DEF Held
      <4>2. Held(ring)' = Held(RingRelease(ring, h))
        BY <3>1 DEF Held
      <4>3. Outstanding' = Pool!FromFirstIn(Outstanding, Held(ring)')
        BY <2>0, <3>1, <4>2, ListingAfterRelease
      <4> QED BY <2>2, <3>2, <4>1, <4>3 DEF Pool!Next, Pool!Return
    <3>3. CASE h \notin Held(ring)
      <4>1. ring' = ring
        BY <2>2, <3>1, <3>3, ReleaseOfFree
      <4> QED BY <4>1 DEF Pool!vars, Outstanding, Held, Slot
    <3> QED BY <3>2, <3>3
  <2>3. CASE UNCHANGED vars
    BY <2>3 DEF vars, Pool!vars, Outstanding, Held, Slot
  <2> QED BY <2>1, <2>2, <2>3 DEF Next
<1> QED BY <1>1, <1>2, RingSafe, PTL DEF Spec, PoolSpec, Pool!Spec
=============================================================================
