-------------------------- MODULE StreamLinkProofs --------------------------
(***************************************************************************)
(* The flow control of a link, for every window, modulus, number of        *)
(* buffers and loss budget: types, the bound on datagrams in flight, the   *)
(* losses it takes to stall the sender, and how both come back after a     *)
(* failed read of an ACK.                                                  *)
(***************************************************************************)
EXTENDS StreamLink, FiniteSetTheorems, SequenceTheorems, TLAPS

-----------------------------------------------------------------------------
(* The two ends of the link, each an endpoint on its own.                  *)
SndEnd == INSTANCE EndpointHandlesProofs WITH ring <- sndRing
RcvEnd == INSTANCE EndpointHandlesProofs WITH ring <- rcvRing

(* The ring operators of an end are those of the link.                     *)
LEMMA SndOperators ==
  /\ SndEnd!EmptyRing = EmptyRing /\ SndEnd!Rings = Rings /\ SndEnd!Handles = Handles
  /\ \A r : /\ SndEnd!RingOK(r) = RingOK(r) /\ SndEnd!RingFull(r) = RingFull(r)
            /\ SndEnd!Held(r) = Held(r) /\ SndEnd!RingAcquire(r) = RingAcquire(r)
  /\ \A r, h : SndEnd!RingRelease(r, h) = RingRelease(r, h)
<1>1. SndEnd!EmptyRing = EmptyRing /\ SndEnd!Rings = Rings /\ SndEnd!Handles = Handles
  BY DEF Rings, Handles, EmptyRing, SndEnd!Rings, SndEnd!Handles, SndEnd!EmptyRing
<1>2. \A r, i : SndEnd!Slot(r, i) = Slot(r, i)
  BY DEF Slot, SndEnd!Slot
<1>3. \A r : /\ SndEnd!RingFull(r) = RingFull(r) /\ SndEnd!Held(r) = Held(r)
             /\ SndEnd!RingAcquire(r) = RingAcquire(r)
             /\ SndEnd!Reclaimable(r) = Reclaimable(r)
  BY <1>1, <1>2
  DEF RingFull, Held, RingAcquire, Reclaimable, Slot, Handles,
      SndEnd!RingFull, SndEnd!Held, SndEnd!RingAcquire, SndEnd!Reclaimable, SndEnd!Slot,
      SndEnd!Handles
<1>4. \A r, h : SndEnd!RingRelease(r, h) = RingRelease(r, h)
  BY <1>2, <1>3, SMT
  DEF RingRelease, RingReclaim, Returned, Slot, Reclaimable,
      SndEnd!RingRelease, SndEnd!RingReclaim, SndEnd!Returned, SndEnd!Slot,
      SndEnd!Reclaimable
<1>5. \A r : SndEnd!RingOK(r) = RingOK(r)
  BY <1>1, <1>2, <1>3
  DEF RingOK, IndexesAgree, HeldAreOutstanding, OldestIsHeld,
      SndEnd!RingOK, SndEnd!IndexesAgree, SndEnd!HeldAreOutstanding, SndEnd!OldestIsHeld
<1> QED BY <1>1, <1>3, <1>4, <1>5

LEMMA RcvOperators ==
  /\ RcvEnd!EmptyRing = EmptyRing /\ RcvEnd!Handles = Handles
  /\ \A r : RcvEnd!RingFull(r) = RingFull(r) /\ RcvEnd!RingAcquire(r) = RingAcquire(r)
  /\ \A r, h : RcvEnd!RingRelease(r, h) = RingRelease(r, h)
<1>1. RcvEnd!EmptyRing = EmptyRing /\ RcvEnd!Handles = Handles
  BY DEF Handles, EmptyRing, RcvEnd!Handles, RcvEnd!EmptyRing
<1>2. \A r, i : RcvEnd!Slot(r, i) = Slot(r, i)
  BY DEF Slot, RcvEnd!Slot
<1>3. \A r : /\ RcvEnd!RingFull(r) = RingFull(r)
             /\ RcvEnd!RingAcquire(r) = RingAcquire(r)
             /\ RcvEnd!Reclaimable(r) = Reclaimable(r)
  BY <1>1, <1>2
  DEF RingFull, RingAcquire, Reclaimable, Slot, Handles,
      RcvEnd!RingFull, RcvEnd!RingAcquire, RcvEnd!Reclaimable, RcvEnd!Slot, RcvEnd!Handles
<1>4. \A r, h : RcvEnd!RingRelease(r, h) = RingRelease(r, h)
  BY <1>2, <1>3, SMT
  DEF RingRelease, RingReclaim, Returned, Slot, Reclaimable,
      RcvEnd!RingRelease, RcvEnd!RingReclaim, RcvEnd!Returned, RcvEnd!Slot,
      RcvEnd!Reclaimable
<1> QED BY <1>1, <1>3, <1>4

(* The facts about the ring, under the names of the link.                  *)
LEMMA EmptyRingOK == EmptyRing \in Rings /\ RingOK(EmptyRing)
BY SndEnd!EmptyRingOK, SndOperators, NumBuffsAssumption

LEMMA RingAcquireOK ==
  ASSUME NEW r \in Rings, RingOK(r), ~ RingFull(r)
  PROVE  /\ RingAcquire(r) \in Rings
         /\ RingOK(RingAcquire(r))
         /\ r.nextHandleAcquire \notin Held(r)
         /\ Held(RingAcquire(r)) = Held(r) \cup {r.nextHandleAcquire}
BY SndEnd!RingAcquireOK, SndOperators, NumBuffsAssumption

LEMMA RingReleaseOK ==
  ASSUME NEW r \in Rings, RingOK(r), NEW h \in Handles
  PROVE  /\ RingRelease(r, h) \in Rings
         /\ RingOK(RingRelease(r, h))
         /\ Held(RingRelease(r, h)) = Held(r) \ {h}
         /\ RingRelease(r, h).numHandlesAcquired <= r.numHandlesAcquired
BY SndEnd!RingReleaseOK, SndOperators, NumBuffsAssumption

(* Whatever the network does, each end of a link acquires and releases as  *)
(* an endpoint does, so each hands out its buffers as a pool.              *)
THEOREM LinkEndsArePools == Spec => SndEnd!PoolSpec /\ RcvEnd!PoolSpec
<1>1. Init => SndEnd!Init /\ RcvEnd!Init
  BY SndOperators, RcvOperators DEF Init, SndEnd!Init, RcvEnd!Init
<1>2. [Next]_vars => [SndEnd!Next]_(SndEnd!vars)
  <2> SUFFICES ASSUME [Next]_vars, sndRing' # sndRing PROVE SndEnd!Next
    BY DEF SndEnd!vars
  <2>1. \/ ~ RingFull(sndRing) /\ sndRing' = RingAcquire(sndRing)
        \/ \E h \in Handles : sndRing' = RingRelease(sndRing, h)
    BY DEF Next, Sender, Receiver, Network, vars, sndVars, rcvVars, netVars,
           RecvACK, RecvACKFailed, StopDraining, AcquireSend, ReleaseSend, WaitRecvACK,
           WaitRecvACKSilent, AcquireRecv, AcquireRecvShort, ReleaseRecv, LoseData, LoseACK
  <2> QED BY <2>1, SndOperators DEF SndEnd!Next, SndEnd!Acquire, SndEnd!Release
<1>3. [Next]_vars => [RcvEnd!Next]_(RcvEnd!vars)
  <2> SUFFICES ASSUME [Next]_vars, rcvRing' # rcvRing PROVE RcvEnd!Next
    BY DEF RcvEnd!vars
  <2>1. \/ ~ RingFull(rcvRing) /\ rcvRing' = RingAcquire(rcvRing)
        \/ \E h \in Handles : rcvRing' = RingRelease(rcvRing, h)
    BY DEF Next, Sender, Receiver, Network, vars, sndVars, rcvVars, netVars,
           RecvACK, RecvACKFailed, StopDraining, AcquireSend, ReleaseSend, WaitRecvACK,
           WaitRecvACKSilent, AcquireRecv, AcquireRecvShort, ReleaseRecv, LoseData, LoseACK
  <2> QED BY <2>1, RcvOperators DEF RcvEnd!Next, RcvEnd!Acquire, RcvEnd!Release
<1>4. Spec => SndEnd!Spec /\ RcvEnd!Spec
  BY <1>1, <1>2, <1>3, PTL DEF Spec, SndEnd!Spec, RcvEnd!Spec
<1> QED BY <1>4, SndEnd!RingImplementsPool, RcvEnd!RingImplementsPool, NumBuffsAssumption

-----------------------------------------------------------------------------
(* Distances between sequence numbers, without the modulus.                *)
LEMMA ModDiff ==
  ASSUME NEW N \in Nat \ {0}, NEW x \in 0..(N - 1), NEW y \in 0..(N - 1)
  PROVE  (y - x) % N = IF x <= y THEN y - x ELSE y - x + N
OBVIOUS

LEMMA DistanceValue ==
  ASSUME NEW a \in Seqs, NEW b \in Seqs
  PROVE  /\ Distance(a, b) \in Seqs
         /\ Distance(a, b) = IF a <= b THEN b - a ELSE b - a + Modulus
<1>2. Modulus \in Nat \ {0} /\ a \in 0..(Modulus - 1) /\ b \in 0..(Modulus - 1)
  BY WindowAssumption DEF Seqs
<1>3. Distance(a, b) = IF a <= b THEN b - a ELSE b - a + Modulus
  BY ModDiff, <1>2, Zenon DEF Distance
<1> QED BY <1>2, <1>3 DEF Seqs

LEMMA DistanceShift ==
  ASSUME NEW a \in Seqs, NEW b \in Seqs, NEW c \in Seqs,
         Distance(a, b) <= Distance(a, c)
  PROVE  Distance(b, c) = Distance(a, c) - Distance(a, b)
<1>1. Modulus \in Nat /\ a \in 0..(Modulus - 1) /\ b \in 0..(Modulus - 1)
      /\ c \in 0..(Modulus - 1)
  BY WindowAssumption DEF Seqs
<1>2. /\ Distance(a, b) = IF a <= b THEN b - a ELSE b - a + Modulus
      /\ Distance(a, c) = IF a <= c THEN c - a ELSE c - a + Modulus
      /\ Distance(b, c) = IF b <= c THEN c - b ELSE c - b + Modulus
  BY DistanceValue
<1> QED BY <1>1, <1>2

LEMMA NextSeqValue ==
  ASSUME NEW s \in Seqs
  PROVE  /\ NextSeq(s) \in Seqs
         /\ NextSeq(s) = IF s + 1 < Modulus THEN s + 1 ELSE 0
<1>1. Modulus \in Nat \ {0} /\ s \in 0..(Modulus - 1) /\ 1 \in 0..Modulus
  BY WindowAssumption DEF Seqs
<1>2. NextSeq(s) = IF s + 1 < Modulus THEN s + 1 ELSE s + 1 - Modulus
  BY <1>1, SndEnd!ModSum, NumBuffsAssumption, Zenon DEF NextSeq
<1> QED BY <1>1, <1>2 DEF Seqs

LEMMA DistanceNext ==
  ASSUME NEW a \in Seqs, NEW b \in Seqs, Distance(a, b) + 1 < Modulus
  PROVE  Distance(a, NextSeq(b)) = Distance(a, b) + 1
<1>1. Modulus \in Nat /\ a \in 0..(Modulus - 1) /\ b \in 0..(Modulus - 1)
  BY WindowAssumption DEF Seqs
<1>2. /\ NextSeq(b) \in Seqs
      /\ NextSeq(b) = IF b + 1 < Modulus THEN b + 1 ELSE 0
  BY NextSeqValue
<1>3. /\ Distance(a, b) = IF a <= b THEN b - a ELSE b - a + Modulus
      /\ Distance(a, NextSeq(b)) = IF a <= NextSeq(b) THEN NextSeq(b) - a
                                  ELSE NextSeq(b) - a + Modulus
  BY <1>2, DistanceValue
<1> QED BY <1>1, <1>2, <1>3

(* Removing one element of a sequence moves the later ones one place down. *)
LEMMA RemoveAtValue ==
  ASSUME NEW S, NEW s \in Seq(S), NEW i \in DOMAIN s
  PROVE  /\ RemoveAt(s, i) \in Seq(S)
         /\ Len(RemoveAt(s, i)) = Len(s) - 1
         /\ \A j \in 1..(Len(s) - 1) :
              RemoveAt(s, i)[j] = IF j < i THEN s[j] ELSE s[j + 1]
<1>1. i \in 1..Len(s) /\ Len(s) \in Nat
  OBVIOUS
<1>2. /\ SubSeq(s, 1, i - 1) \in Seq(S)
      /\ Len(SubSeq(s, 1, i - 1)) = i - 1
      /\ \A j \in 1..(i - 1) : SubSeq(s, 1, i - 1)[j] = s[j]
  BY <1>1
<1>3. /\ SubSeq(s, i + 1, Len(s)) \in Seq(S)
      /\ Len(SubSeq(s, i + 1, Len(s))) = Len(s) - i
      /\ \A j \in 1..(Len(s) - i) : SubSeq(s, i + 1, Len(s))[j] = s[i + j]
  BY <1>1
<1> DEFINE p == SubSeq(s, 1, i - 1)
           q == SubSeq(s, i + 1, Len(s))
<1>4. /\ p \in Seq(S) /\ Len(p) = i - 1 /\ \A j \in 1..(i - 1) : p[j] = s[j]
      /\ q \in Seq(S) /\ Len(q) = Len(s) - i
      /\ \A j \in 1..(Len(s) - i) : q[j] = s[i + j]
  BY <1>2, <1>3
<1>5. RemoveAt(s, i) = p \o q
  BY DEF RemoveAt
<1> HIDE DEF p, q
<1>6. /\ p \o q \in Seq(S)
      /\ Len(p \o q) = Len(p) + Len(q)
      /\ \A j \in 1..(Len(p) + Len(q)) :
           (p \o q)[j] = IF j <= Len(p) THEN p[j] ELSE q[j - Len(p)]
  BY <1>4, ConcatProperties, Zenon
<1>7. ASSUME NEW j \in 1..(Len(s) - 1)
      PROVE  (p \o q)[j] = IF j < i THEN s[j] ELSE s[j + 1]
  <2>1. (p \o q)[j] = IF j <= i - 1 THEN p[j] ELSE q[j - (i - 1)]
    <3>1. j \in 1..(Len(p) + Len(q)) /\ Len(p) = i - 1
      BY <1>1, <1>4
    <3> QED BY <1>6, <3>1, Zenon
  <2>2. CASE j < i
    BY <1>1, <1>4, <2>1, <2>2
  <2>3. CASE ~ (j < i)
    <3>1. j - (i - 1) \in 1..(Len(s) - i) /\ i + (j - (i - 1)) = j + 1
      BY <1>1, <2>3
    <3>2. q[j - (i - 1)] = s[j + 1]
      BY <1>4, <3>1
    <3> QED BY <1>1, <2>1, <2>3, <3>2
  <2> QED BY <2>2, <2>3
<1>8. Len(p \o q) = Len(s) - 1
  BY <1>1, <1>4, <1>6
<1> QED BY <1>5, <1>6, <1>7, <1>8

LEMMA TailValue ==
  ASSUME NEW S, NEW s \in Seq(S), s # <<>>
  PROVE  /\ Head(s) \in S /\ Head(s) = s[1] /\ 1 \in DOMAIN s
         /\ Tail(s) \in Seq(S)
         /\ Len(Tail(s)) = Len(s) - 1
         /\ \A j \in 1..(Len(s) - 1) : Tail(s)[j] = s[j + 1]
OBVIOUS

LEMMA AppendValue ==
  ASSUME NEW S, NEW s \in Seq(S), NEW e \in S
  PROVE  /\ Append(s, e) \in Seq(S)
         /\ Len(Append(s, e)) = Len(s) + 1
         /\ \A j \in 1..Len(s) : Append(s, e)[j] = s[j]
         /\ Append(s, e)[Len(s) + 1] = e
OBVIOUS

-----------------------------------------------------------------------------
(* How the two orders survive the operations on the channels.              *)
LEMMA SpacedAppend ==
  ASSUME NEW n \in Nat, NEW f \in [1..n -> Int], NEW g \in [1..(n + 1) -> Int],
         NEW low \in Int, NEW top \in Int, Spaced(f, n, low, top),
         \A i \in 1..n : g[i] = f[i], g[n + 1] = top
  PROVE  Spaced(g, n + 1, low, top + 1)
<1>1. ASSUME NEW i \in 1..(n + 1)
      PROVE  low + i <= g[i] + 1 /\ g[i] + ((n + 1) - i) + 1 <= top + 1
  <2>1. CASE i \in 1..n
    <3>1. low + i <= f[i] + 1 /\ f[i] + (n - i) + 1 <= top
      BY <2>1 DEF Spaced
    <3>2. f[i] \in Int /\ g[i] = f[i] /\ i \in Int
      BY <2>1
    <3> QED BY <3>1, <3>2, SMTT(30)
  <2>2. CASE i = n + 1
    BY <2>2 DEF Spaced
  <2> QED BY <2>1, <2>2
<1>2. ASSUME NEW i \in 1..(n + 1), NEW j \in 1..(n + 1), i <= j
      PROVE  g[i] + (j - i) <= g[j]
  <2>1. CASE i \in 1..n /\ j \in 1..n
    BY <1>2, <2>1 DEF Spaced
  <2>2. CASE i \in 1..n /\ j = n + 1
    BY <2>2 DEF Spaced
  <2>3. CASE i = n + 1 /\ j = n + 1
    BY <2>3
  <2> QED BY <1>2, <2>1, <2>2, <2>3
<1> QED BY <1>1, <1>2 DEF Spaced

LEMMA SpacedTail ==
  ASSUME NEW n \in Nat, n # 0, NEW f \in [1..n -> Int],
         NEW g \in [1..(n - 1) -> Int], NEW low \in Int, NEW top \in Int,
         Spaced(f, n, low, top), \A i \in 1..(n - 1) : g[i] = f[i + 1]
  PROVE  Spaced(g, n - 1, f[1] + 1, top) /\ low <= f[1] /\ f[1] + n <= top
<1>1. ASSUME NEW i \in 1..(n - 1)
      PROVE  f[1] + 1 + i <= g[i] + 1 /\ g[i] + ((n - 1) - i) + 1 <= top
  <2>1. i + 1 \in 1..n /\ 1 \in 1..n /\ 1 <= i + 1
    OBVIOUS
  <2>2. f[1] + ((i + 1) - 1) <= f[i + 1] /\ f[i + 1] + (n - (i + 1)) + 1 <= top
    BY <2>1 DEF Spaced
  <2> QED BY <2>1, <2>2, SMTT(30)
<1>2. ASSUME NEW i \in 1..(n - 1), NEW j \in 1..(n - 1), i <= j
      PROVE  g[i] + (j - i) <= g[j]
  <2>1. i + 1 \in 1..n /\ j + 1 \in 1..n
    OBVIOUS
  <2>2. f[i + 1] + ((j + 1) - (i + 1)) <= f[j + 1]
    BY <1>2, <2>1 DEF Spaced
  <2> QED BY <2>1, <2>2
<1>3. low <= f[1] /\ f[1] + n <= top
  BY DEF Spaced
<1> QED BY <1>1, <1>2, <1>3 DEF Spaced

(* What fits one place up fits here.                                       *)
LEMMA PlaceBelow ==
  ASSUME NEW x \in Int, NEW i \in Int, NEW n \in Int, NEW low \in Int,
         NEW top \in Int, low + (i + 1) <= x + 1, x + (n - (i + 1)) + 1 <= top
  PROVE  low + i <= x + 1 /\ x + ((n - 1) - i) + 1 <= top
OBVIOUS

(* What fits among n fits among n - 1.                                     *)
LEMMA PlaceHere ==
  ASSUME NEW x \in Int, NEW i \in Int, NEW n \in Int, NEW low \in Int,
         NEW top \in Int, low + i <= x + 1, x + (n - i) + 1 <= top
  PROVE  low + i <= x + 1 /\ x + ((n - 1) - i) + 1 <= top
OBVIOUS

LEMMA SpacedRemove ==
  ASSUME NEW n \in Nat, NEW k \in 1..n, NEW f \in [1..n -> Int],
         NEW g \in [1..(n - 1) -> Int], NEW low \in Int, NEW top \in Int,
         Spaced(f, n, low, top),
         \A i \in 1..(n - 1) : g[i] = IF i < k THEN f[i] ELSE f[i + 1]
  PROVE  Spaced(g, n - 1, low, top)
<1>1. ASSUME NEW i \in 1..(n - 1)
      PROVE  low + i <= g[i] + 1 /\ g[i] + ((n - 1) - i) + 1 <= top
  <2>1. i \in 1..n /\ i + 1 \in 1..n
    OBVIOUS
  <2>2. /\ low + i <= f[i] + 1 /\ f[i] + (n - i) + 1 <= top
        /\ low + (i + 1) <= f[i + 1] + 1 /\ f[i + 1] + (n - (i + 1)) + 1 <= top
    BY <2>1 DEF Spaced
  <2>3. f[i] \in Int /\ f[i + 1] \in Int /\ i \in Int /\ n \in Int
    BY <2>1
  <2>4. CASE i < k
    <3>1. g[i] = f[i]
      BY <2>4
    <3>2. low + i <= f[i] + 1 /\ f[i] + ((n - 1) - i) + 1 <= top
      BY <2>2, <2>3, PlaceHere, Zenon
    <3> QED BY <3>1, <3>2
  <2>5. CASE ~ (i < k)
    <3>1. g[i] = f[i + 1]
      BY <2>5
    <3>2. low + i <= f[i + 1] + 1 /\ f[i + 1] + ((n - 1) - i) + 1 <= top
      BY <2>2, <2>3, PlaceBelow, Zenon
    <3> QED BY <3>1, <3>2
  <2> QED BY <2>4, <2>5
<1>2. ASSUME NEW i \in 1..(n - 1), NEW j \in 1..(n - 1), i <= j
      PROVE  g[i] + (j - i) <= g[j]
  <2>1. /\ i \in 1..n /\ i + 1 \in 1..n /\ j \in 1..n /\ j + 1 \in 1..n
        /\ i <= j + 1 /\ i + 1 <= j + 1
    BY <1>2
  <2>2. f[i] + (j - i) <= f[j]
    BY <1>2, <2>1 DEF Spaced
  <2>3. f[i] + ((j + 1) - i) <= f[j + 1]
    BY <2>1 DEF Spaced
  <2>4. f[i + 1] + ((j + 1) - (i + 1)) <= f[j + 1]
    BY <2>1 DEF Spaced
  <2>5. f[i] \in Int /\ f[i + 1] \in Int /\ f[j] \in Int /\ f[j + 1] \in Int
    BY <2>1
  <2>6. CASE j < k
    <3>1. i < k
      BY <1>2, <2>6
    <3>2. g[i] = f[i]
      BY <3>1
    <3>3. g[j] = f[j]
      BY <2>6
    <3> QED BY <2>2, <3>2, <3>3
  <2>7. CASE i < k /\ ~ (j < k)
    <3>1. g[i] = f[i]
      BY <2>7
    <3>2. g[j] = f[j + 1]
      BY <2>7
    <3>3. i \in Int /\ j \in Int
      OBVIOUS
    <3>4. f[i] + (j - i) <= f[j + 1]
      BY <2>3, <2>5, <3>3, SMTT(30)
    <3> QED BY <3>1, <3>2, <3>4, Zenon
  <2>8. CASE ~ (i < k)
    <3>1. g[i] = f[i + 1] /\ g[j] = f[j + 1]
      BY <1>2, <2>8
    <3> QED BY <2>4, <2>5, <3>1
  <2> QED BY <2>6, <2>7, <2>8
<1> QED BY <1>1, <1>2 DEF Spaced

LEMMA SpacedShift ==
  ASSUME NEW n \in Nat, NEW f \in [1..n -> Int], NEW g \in [1..n -> Int],
         NEW low \in Int, NEW top \in Int, NEW e \in Int,
         Spaced(f, n, low, top), \A i \in 1..n : g[i] = f[i] - e
  PROVE  Spaced(g, n, low - e, top - e)
<1>1. ASSUME NEW i \in 1..n
      PROVE  /\ (low - e) + i <= g[i] + 1
             /\ g[i] + (n - i) + 1 <= top - e
  <2>1. low + i <= f[i] + 1 /\ f[i] + (n - i) + 1 <= top
    BY DEF Spaced
  <2>2. f[i] \in Int /\ g[i] = f[i] - e /\ i \in Int
    OBVIOUS
  <2> QED BY <2>1, <2>2, SMTT(30)
<1>2. ASSUME NEW i \in 1..n, NEW j \in 1..n, i <= j
      PROVE  g[i] + (j - i) <= g[j]
  <2>1. f[i] + (j - i) <= f[j]
    BY <1>2 DEF Spaced
  <2>2. f[i] \in Int /\ g[i] = f[i] - e /\ f[j] \in Int /\ g[j] = f[j] - e
    OBVIOUS
  <2> QED BY <2>1, <2>2
<1>3. (low - e) + n <= top - e
  BY DEF Spaced
<1> QED BY <1>1, <1>2, <1>3 DEF Spaced

LEMMA RisingAppend ==
  ASSUME NEW n \in Nat, NEW f \in [1..n -> Int], NEW g \in [1..(n + 1) -> Int],
         NEW top \in Int, NEW new \in Int, Rising(f, n, top), top <= new,
         \A i \in 1..n : g[i] = f[i], g[n + 1] = new
  PROVE  Rising(g, n + 1, new)
BY DEF Rising

(* Two places measured from a third keep their order.                      *)
LEMMA LessFrom ==
  ASSUME NEW a \in Int, NEW b \in Int, NEW c \in Int, a <= b
  PROVE  a - c <= b - c
OBVIOUS

LEMMA RisingTail ==
  ASSUME NEW n \in Nat, n # 0, NEW f \in [1..n -> Int],
         NEW g \in [1..(n - 1) -> Int], NEW top \in Int,
         Rising(f, n, top), \A i \in 1..(n - 1) : g[i] = f[i + 1] - f[1]
  PROVE  Rising(g, n - 1, top - f[1])
<1>1. ASSUME NEW i \in 1..(n - 1)
      PROVE  g[i] <= top - f[1]
  <2>1. i + 1 \in 1..n /\ 1 \in 1..n
    OBVIOUS
  <2>2. f[i + 1] \in Int /\ f[1] \in Int
    BY <2>1
  <2>3. g[i] = f[i + 1] - f[1]
    OBVIOUS
  <2>4. f[i + 1] <= top
    BY <2>1 DEF Rising
  <2>5. f[i + 1] - f[1] <= top - f[1]
    BY <2>2, <2>4, LessFrom, Zenon
  <2> QED BY <2>3, <2>5
<1>2. ASSUME NEW i \in 1..(n - 1), NEW j \in 1..(n - 1), i <= j
      PROVE  g[i] <= g[j]
  <2>1. i + 1 \in 1..n /\ j + 1 \in 1..n /\ 1 \in 1..n /\ i + 1 <= j + 1
    BY <1>2
  <2>2. f[i + 1] <= f[j + 1]
    BY <2>1 DEF Rising
  <2>3. f[i + 1] \in Int /\ f[j + 1] \in Int /\ f[1] \in Int
    BY <2>1
  <2> QED BY <2>2, <2>3, SMTT(30)
<1> QED BY <1>1, <1>2 DEF Rising

LEMMA RisingRemove ==
  ASSUME NEW n \in Nat, NEW k \in 1..n, NEW f \in [1..n -> Int],
         NEW g \in [1..(n - 1) -> Int], NEW top \in Int, Rising(f, n, top),
         \A i \in 1..(n - 1) : g[i] = IF i < k THEN f[i] ELSE f[i + 1]
  PROVE  Rising(g, n - 1, top)
<1>1. ASSUME NEW i \in 1..(n - 1)
      PROVE  g[i] <= top
  <2>1. i \in 1..n /\ i + 1 \in 1..n
    OBVIOUS
  <2> QED BY <2>1 DEF Rising
<1>2. ASSUME NEW i \in 1..(n - 1), NEW j \in 1..(n - 1), i <= j
      PROVE  g[i] <= g[j]
  <2>1. i \in 1..n /\ i + 1 \in 1..n /\ j \in 1..n /\ j + 1 \in 1..n
    OBVIOUS
  <2>2. f[i] <= f[j] /\ f[i] <= f[j + 1] /\ f[i + 1] <= f[j + 1]
    BY <1>2, <2>1 DEF Rising
  <2> QED BY <1>2, <2>1, <2>2, SMTT(30)
<1> QED BY <1>1, <1>2 DEF Rising

(* One more element is one step more.                                      *)
LEMMA StepTimes ==
  ASSUME NEW step \in Nat, NEW x \in Int
  PROVE  step * x \in Int /\ step * (x + 1) = step * x + step
OBVIOUS

LEMMA AccountedAppend ==
  ASSUME NEW n \in Nat, NEW f \in [1..n -> Int], NEW g \in [1..(n + 1) -> Int],
         NEW top \in Int, NEW new \in Int, NEW debt \in Int, NEW owed \in Nat,
         NEW step \in Nat, Accounted(f, n, top, debt, step),
         new + debt <= top + step + owed, debt <= owed,
         \A i \in 1..n : g[i] = f[i], g[n + 1] = new
  PROVE  Accounted(g, n + 1, new, owed, step)
<1>1. new <= step * (n + 1) + owed
  BY StepTimes DEF Accounted
<1>2. ASSUME NEW i \in 1..n
      PROVE  new <= g[i] + step * ((n + 1) - i) + owed
  <2>1. n - i \in Int /\ (n + 1) - i = (n - i) + 1
    OBVIOUS
  <2>2. step * ((n + 1) - i) = step * (n - i) + step /\ step * (n - i) \in Int
    BY <2>1, StepTimes
  <2> QED BY <2>1, <2>2 DEF Accounted
<1>3. new <= g[n + 1] + step * ((n + 1) - (n + 1)) + owed
  OBVIOUS
<1>4. \A i \in 1..(n + 1) : new <= g[i] + step * ((n + 1) - i) + owed
  <2> TAKE i \in 1..(n + 1)
  <2>1. i \in 1..n \/ i = n + 1
    OBVIOUS
  <2> QED BY <1>2, <1>3, <2>1
<1> QED BY <1>1, <1>4 DEF Accounted

(* A debt cannot be negative: the last ACK sent is under way, or nothing   *)
(* lies between it and the last ACK received but the debt.                 *)
LEMMA DebtNat ==
  ASSUME NEW n \in Nat, NEW f \in [1..n -> Int], NEW top \in Nat,
         NEW debt \in Int, NEW step \in Nat,
         Rising(f, n, top), Accounted(f, n, top, debt, step)
  PROVE  debt \in Nat
<1>1. CASE n = 0
  <2>1. step * 0 = 0
    OBVIOUS
  <2> QED BY <1>1, <2>1 DEF Accounted
<1>2. CASE n # 0
  <2>1. n \in 1..n /\ step * (n - n) = 0
    BY <1>2
  <2>2. f[n] <= top /\ top <= f[n] + 0 + debt /\ f[n] \in Int
    BY <2>1 DEF Rising, Accounted
  <2> QED BY <2>2
<1> QED BY <1>1, <1>2

(* A larger debt accounts for as much.                                     *)
LEMMA AccountedMore ==
  ASSUME NEW n \in Nat, NEW f \in [1..n -> Int], NEW top \in Int,
         NEW debt \in Int, NEW more \in Int, NEW step \in Nat, debt <= more,
         Accounted(f, n, top, debt, step)
  PROVE  Accounted(f, n, top, more, step)
<1>1. top <= step * n + more
  BY StepTimes DEF Accounted
<1>2. ASSUME NEW i \in 1..n
      PROVE  top <= f[i] + step * (n - i) + more
  <2>1. step * (n - i) \in Int /\ f[i] \in Int
    BY StepTimes
  <2>2. top <= f[i] + step * (n - i) + debt
    BY DEF Accounted
  <2> QED BY <2>1, <2>2
<1> QED BY <1>1, <1>2 DEF Accounted

(* What a bound becomes when both sides are measured from another place.   *)
LEMMA Rebase ==
  ASSUME NEW a \in Int, NEW b \in Int, NEW e \in Int, NEW x \in Int,
         NEW d \in Int, a <= b + x + d
  PROVE  a - e <= (b - e) + x + d
OBVIOUS

LEMMA AccountedTail ==
  ASSUME NEW n \in Nat, n # 0, NEW f \in [1..n -> Int],
         NEW g \in [1..(n - 1) -> Int], NEW top \in Int, NEW debt \in Int,
         NEW step \in Nat, Accounted(f, n, top, debt, step),
         \A i \in 1..(n - 1) : g[i] = f[i + 1] - f[1]
  PROVE  Accounted(g, n - 1, top - f[1], debt, step)
<1>1. 1 \in 1..n /\ step * (n - 1) \in Int
  BY StepTimes
<1>2. top - f[1] <= step * (n - 1) + debt
  BY <1>1 DEF Accounted
<1>3. ASSUME NEW i \in 1..(n - 1)
      PROVE  top - f[1] <= g[i] + step * ((n - 1) - i) + debt
  <2>1. i + 1 \in 1..n /\ n - (i + 1) = (n - 1) - i /\ (n - 1) - i \in Int
    OBVIOUS
  <2>2. top <= f[i + 1] + step * (n - (i + 1)) + debt
    BY <2>1 DEF Accounted
  <2>3. step * ((n - 1) - i) \in Int
    BY <2>1, StepTimes
  <2>4. f[i + 1] \in Int /\ f[1] \in Int /\ g[i] = f[i + 1] - f[1]
    BY <1>1, <2>1
  <2>5. top <= f[i + 1] + step * ((n - 1) - i) + debt
    BY <2>1, <2>2
  <2>6. top - f[1] <= (f[i + 1] - f[1]) + step * ((n - 1) - i) + debt
    BY <2>3, <2>4, <2>5, Rebase
  <2> QED BY <2>4, <2>6
<1> QED BY <1>2, <1>3 DEF Accounted

LEMMA AccountedRemove ==
  ASSUME NEW n \in Nat, NEW k \in 1..n, NEW f \in [1..n -> Int],
         NEW g \in [1..(n - 1) -> Int], NEW top \in Int, NEW debt \in Int,
         NEW step \in Nat, Accounted(f, n, top, debt, step),
         \A i \in 1..(n - 1) : g[i] = IF i < k THEN f[i] ELSE f[i + 1]
  PROVE  Accounted(g, n - 1, top, debt + step, step)
<1>1. step * n = step * (n - 1) + step /\ step * (n - 1) \in Int
  BY StepTimes
<1>2. top <= step * (n - 1) + (debt + step)
  BY <1>1 DEF Accounted
<1>3. ASSUME NEW i \in 1..(n - 1)
      PROVE  top <= g[i] + step * ((n - 1) - i) + (debt + step)
  <2>1. /\ i \in 1..n /\ i + 1 \in 1..n /\ (n - 1) - i \in Int
        /\ n - i = ((n - 1) - i) + 1 /\ n - (i + 1) = (n - 1) - i
    OBVIOUS
  <2>2. /\ step * (n - i) = step * ((n - 1) - i) + step
        /\ step * ((n - 1) - i) \in Int
    BY <2>1, StepTimes
  <2>3. /\ top <= f[i] + step * (n - i) + debt
        /\ top <= f[i + 1] + step * (n - (i + 1)) + debt
    BY <2>1 DEF Accounted
  <2>4. f[i] \in Int /\ f[i + 1] \in Int
    BY <2>1
  <2>5. /\ top <= f[i] + step * ((n - 1) - i) + step + debt
        /\ top <= f[i + 1] + step * ((n - 1) - i) + debt
    BY <2>1, <2>2, <2>3, <2>4
  <2>6. g[i] = f[i] \/ g[i] = f[i + 1]
    OBVIOUS
  <2> QED BY <2>2, <2>4, <2>5, <2>6, SMTT(30)
<1> QED BY <1>2, <1>3 DEF Accounted

-----------------------------------------------------------------------------
LEMMA ACKType ==
  ASSUME NEW s \in Seqs
  PROVE  ACK(s) \in Acks /\ ACK(s).seq = s /\ ACK(s).max = MaxInFlightSeqs
BY WindowAssumption DEF ACK, Acks

(* Types and the shape of both rings, of every link, whatever fails.       *)
LEMMA TypeStep ==
  TypeOK /\ RingsOK /\ [Next]_vars => (TypeOK /\ RingsOK)'
<1> SUFFICES ASSUME TypeOK, RingsOK, [Next]_vars
             PROVE  TypeOK' /\ RingsOK'
  OBVIOUS
<1> USE DEF sndVars, rcvVars, netVars
<1>1. CASE RecvACK
  <2>1. Head(acks) \in Acks /\ Tail(acks) \in Seq(Acks)
    BY <1>1, TailValue DEF RecvACK, TypeOK
  <2>2. Head(acks).seq \in Seqs /\ Head(acks).max \in 0..(Modulus - 1)
    BY <2>1 DEF Acks
  <2> QED BY <1>1, <2>1, <2>2 DEF RecvACK, TypeOK, RingsOK
<1>2. CASE RecvACKFailed
  BY <1>2 DEF RecvACKFailed, TypeOK, RingsOK
<1>3. CASE StopDraining
  BY <1>3 DEF StopDraining, TypeOK, RingsOK
<1>4. CASE AcquireSend
  <2>1. sndRing' \in Rings /\ RingOK(sndRing')
    BY <1>4, RingAcquireOK DEF AcquireSend, TypeOK, RingsOK
  <2> QED BY <1>4, <2>1 DEF AcquireSend, TypeOK, RingsOK
<1>5. ASSUME NEW h \in Handles, NEW err \in BOOLEAN, ReleaseSend(h, err)
      PROVE  TypeOK' /\ RingsOK'
  <2>1. sndRing' \in Rings /\ RingOK(sndRing')
    BY <1>5, RingReleaseOK DEF ReleaseSend, TypeOK, RingsOK
  <2>2. sndLastSendSequence' \in Seqs
    BY <1>5, NextSeqValue DEF ReleaseSend, TypeOK
  <2>3. [seq |-> sndLastSendSequence, err |-> err] \in Datagrams
    BY DEF Datagrams, TypeOK
  <2>4. data' \in Seq(Datagrams)
    BY <1>5, <2>3, AppendValue DEF ReleaseSend, TypeOK
  <2> QED BY <1>5, <2>1, <2>2, <2>4 DEF ReleaseSend, TypeOK, RingsOK
<1>6. CASE WaitRecvACK
  <2>1. acks' \in Seq(Acks)
    BY <1>6, ACKType, AppendValue DEF WaitRecvACK, TypeOK
  <2> QED BY <1>6, <2>1 DEF WaitRecvACK, TypeOK, RingsOK
<1>7. CASE AcquireRecv
  <2> DEFINE next == NextSeq(Head(data).seq)
  <2>1. Head(data) \in Datagrams /\ Tail(data) \in Seq(Datagrams)
    BY <1>7, TailValue DEF AcquireRecv, TypeOK
  <2>2. next \in Seqs
    BY <2>1, NextSeqValue DEF Datagrams
  <2>3. Append(acks, ACK(next)) \in Seq(Acks)
    BY <2>2, ACKType, AppendValue DEF TypeOK
  <2> HIDE DEF next
  <2>4. rcvLastSendSequence' \in Seqs /\ acks' \in Seq(Acks)
        /\ rcvLastRecvSequence' = next
    BY <1>7, <2>2, <2>3 DEF AcquireRecv, TypeOK, next
  <2>5. rcvRing' \in Rings /\ RingOK(rcvRing')
    BY <1>7, RingAcquireOK DEF AcquireRecv, TypeOK, RingsOK
  <2> QED BY <1>7, <2>1, <2>2, <2>4, <2>5 DEF AcquireRecv, TypeOK, RingsOK
<1>8. CASE AcquireRecvShort
  <2>1. Tail(data) \in Seq(Datagrams)
    BY <1>8, TailValue DEF AcquireRecvShort, TypeOK
  <2> QED BY <1>8, <2>1 DEF AcquireRecvShort, TypeOK, RingsOK
<1>9. ASSUME NEW h \in Handles, ReleaseRecv(h)
      PROVE  TypeOK' /\ RingsOK'
  <2>1. rcvRing' \in Rings /\ RingOK(rcvRing')
    BY <1>9, RingReleaseOK DEF ReleaseRecv, TypeOK, RingsOK
  <2> QED BY <1>9, <2>1 DEF ReleaseRecv, TypeOK, RingsOK
<1>10. ASSUME NEW i \in DOMAIN data, LoseData(i)
       PROVE  TypeOK' /\ RingsOK'
  <2>1. data' \in Seq(Datagrams)
    BY <1>10, RemoveAtValue DEF LoseData, TypeOK
  <2> QED BY <1>10, <2>1 DEF LoseData, TypeOK, RingsOK
<1>11. ASSUME NEW i \in DOMAIN acks, LoseACK(i)
       PROVE  TypeOK' /\ RingsOK'
  <2>1. acks' \in Seq(Acks)
    BY <1>11, RemoveAtValue DEF LoseACK, TypeOK
  <2> QED BY <1>11, <2>1 DEF LoseACK, TypeOK, RingsOK
<1>12. CASE UNCHANGED vars
  BY <1>12 DEF vars, TypeOK, RingsOK
<1> QED
  BY <1>1, <1>2, <1>3, <1>4, <1>5, <1>6, <1>7, <1>8, <1>9, <1>10, <1>11, <1>12
  DEF Next, Sender, Receiver, Network

THEOREM TypeCorrect == Spec => [](TypeOK /\ RingsOK)
<1>1. Init => TypeOK /\ RingsOK
  <2> SUFFICES ASSUME Init PROVE TypeOK /\ RingsOK
    OBVIOUS
  <2>1. 0 \in Seqs /\ 0 \in 0..(Modulus - 1)
    BY WindowAssumption DEF Seqs
  <2>2. <<ACK(0)>> \in Seq(Acks)
    BY <2>1, ACKType
  <2>3. <<>> \in Seq(Datagrams) /\ 0 \in Nat
    OBVIOUS
  <2>4. RingsOK /\ sndRing \in Rings /\ rcvRing \in Rings
    BY EmptyRingOK DEF Init, RingsOK
  <2>5. data \in Seq(Datagrams) /\ acks \in Seq(Acks)
    BY <2>2, <2>3 DEF Init
  <2> QED BY <2>1, <2>3, <2>4, <2>5 DEF Init, TypeOK
<1> QED BY <1>1, TypeStep, PTL DEF Spec

-----------------------------------------------------------------------------
(* Sequences ahead of the last ACK received are numbers below the modulus. *)
LEMMA AheadType ==
  ASSUME TypeOK, NEW s \in Seqs
  PROVE  Ahead(s) \in Nat /\ Ahead(s) < Modulus
<1>1. Ahead(s) \in Seqs
  BY DistanceValue DEF Ahead, TypeOK
<1> QED BY <1>1, WindowAssumption DEF Seqs

LEMMA StepType == Step \in Nat \ {0} /\ TriggerAckWindow \in Nat
<1>1. TriggerAckWindow \in Nat
  BY WindowAssumption, NumBuffsAssumption DEF TriggerAckWindow
<1> QED BY <1>1 DEF Step

LEMMA HeldCard ==
  ASSUME NEW r \in Rings
  PROVE  IsFiniteSet(Held(r)) /\ Cardinality(Held(r)) \in Nat
<1>1. IsFiniteSet(Handles)
  BY FS_Interval, NumBuffsAssumption DEF Handles
<1>2. Held(r) \subseteq Handles
  BY DEF Held
<1>3. IsFiniteSet(Held(r))
  BY <1>1, <1>2, FS_Subset
<1> QED BY <1>3, FS_CardinalityType

(* What the step of an action has to show besides the shape of the rings.  *)
FlowInv ==
  QuietStart /\ AckLagBounded /\ AcksInOrder /\ DataInOrder /\ CreditsFit /\ WindowKnown
    /\ LossAccounted

(* Acquiring a handle takes a credit, which the open window has.           *)
LEMMA AcquireSendStep ==
  ASSUME TypeOK, LinkInv, AcquireSend
  PROVE  FlowInv'
<1> USE DEF sndVars, rcvVars, netVars
<1>1. UNCHANGED <<sndLastSendSequence, sndLastRecvSequence, sndMaxInFlightSeqs,
                  sndReceiveInitial, rcvLastRecvSequence, rcvLastSendSequence,
                  data, acks, lostData, lostAcks>>
  BY DEF AcquireSend
<1>2. /\ AckLagBounded' /\ AcksInOrder' /\ DataInOrder' /\ WindowKnown'
      /\ LossAccounted'
  BY <1>1 DEF LinkInv, AckLagBounded, AcksInOrder, DataInOrder, WindowKnown,
              LossAccounted, AckPlaces, DataPlaces, Missing, Ahead
<1>6. QuietStart'
  BY DEF AcquireSend, Waiting, WindowOpen, QuietStart
<1>3. Ahead(sndLastSendSequence) <= MaxInFlightSeqs - 1
  BY AheadType, WindowAssumption
     DEF AcquireSend, Waiting, WindowOpen, LinkInv, WindowKnown, Ahead, TypeOK
<1>4. Cardinality(Held(sndRing')) <= MaxHeld /\ Cardinality(Held(sndRing')) \in Nat
  <2>1. Held(sndRing') = Held(sndRing) \cup {sndRing.nextHandleAcquire}
    BY RingAcquireOK DEF AcquireSend, LinkInv, RingsOK, TypeOK
  <2>2. IsFiniteSet(Held(sndRing)) /\ Cardinality(Held(sndRing)) \in Nat
    BY HeldCard DEF TypeOK
  <2>3. Cardinality(Held(sndRing)) + 1 <= MaxHeld
    BY <2>2, WindowAssumption DEF AcquireSend
  <2>4. \/ Cardinality(Held(sndRing')) = Cardinality(Held(sndRing))
        \/ Cardinality(Held(sndRing')) = Cardinality(Held(sndRing)) + 1
    BY <2>1, <2>2, FS_AddElement, Zenon
  <2> QED BY <2>2, <2>3, <2>4, WindowAssumption
<1>5. CreditsFit'
  <2>1. Ahead(sndLastSendSequence)' = Ahead(sndLastSendSequence)
    BY <1>1 DEF Ahead
  <2>2. Ahead(sndLastSendSequence) \in Nat
    BY AheadType DEF TypeOK
  <2> QED BY <1>3, <1>4, <2>1, <2>2, WindowAssumption DEF CreditsFit
<1> QED BY <1>2, <1>5, <1>6 DEF FlowInv

(* The places of the messages of a channel are numbers, one per message.   *)
PlacesFrom(base, s) == [i \in DOMAIN s |-> Distance(base, s[i].seq)]

LEMMA PlacesType ==
  ASSUME NEW base \in Seqs, NEW S, NEW s \in Seq(S), \A x \in S : x.seq \in Seqs
  PROVE  /\ Len(s) \in Nat /\ DOMAIN s = 1..Len(s)
         /\ PlacesFrom(base, s) \in [1..Len(s) -> Int]
         /\ \A i \in 1..Len(s) : /\ s[i] \in S /\ s[i].seq \in Seqs
                                 /\ PlacesFrom(base, s)[i] = Distance(base, s[i].seq)
                                 /\ Distance(base, s[i].seq) \in Nat
<1>1. Len(s) \in Nat /\ DOMAIN s = 1..Len(s)
  OBVIOUS
<1>2. ASSUME NEW i \in 1..Len(s)
      PROVE  s[i] \in S /\ s[i].seq \in Seqs /\ Distance(base, s[i].seq) \in Nat
  <2>1. s[i] \in S
    BY <1>1
  <2>2. Distance(base, s[i].seq) \in Seqs
    BY <2>1, DistanceValue
  <2> QED BY <2>1, <2>2, WindowAssumption DEF Seqs
<1>3. \A i \in 1..Len(s) : PlacesFrom(base, s)[i] = Distance(base, s[i].seq)
  BY <1>1 DEF PlacesFrom
<1> QED BY <1>1, <1>2, <1>3 DEF PlacesFrom

LEMMA ChannelSeqs ==
  (\A x \in Datagrams : x.seq \in Seqs) /\ (\A x \in Acks : x.seq \in Seqs)
BY DEF Datagrams, Acks

LEMMA AckPlacesType ==
  ASSUME NEW base \in Seqs, NEW s \in Seq(Acks)
  PROVE  /\ PlacesFrom(base, s) \in [1..Len(s) -> Int]
         /\ \A i \in 1..Len(s) : PlacesFrom(base, s)[i] = Distance(base, s[i].seq)
BY PlacesType, ChannelSeqs

LEMMA DataPlacesType ==
  ASSUME NEW base \in Seqs, NEW s \in Seq(Datagrams)
  PROVE  /\ PlacesFrom(base, s) \in [1..Len(s) -> Int]
         /\ \A i \in 1..Len(s) : PlacesFrom(base, s)[i] = Distance(base, s[i].seq)
BY PlacesType, ChannelSeqs

(* A datagram sent takes the next place, and turns a credit into a place.  *)
LEMMA ReleaseSendStep ==
  ASSUME TypeOK, LinkInv, TypeOK', NEW h \in Handles, NEW err \in BOOLEAN,
         ReleaseSend(h, err)
  PROVE  FlowInv'
<1> USE DEF sndVars, rcvVars, netVars
<1>1. UNCHANGED <<sndLastRecvSequence, sndMaxInFlightSeqs, sndReceiveInitial,
                  rcvLastRecvSequence, rcvLastSendSequence, acks, lostData,
                  lostAcks>>
  BY DEF ReleaseSend
<1>2. AckLagBounded' /\ AcksInOrder' /\ WindowKnown'
  BY <1>1 DEF LinkInv, AckLagBounded, AcksInOrder, WindowKnown, AckPlaces, Ahead
<1> DEFINE top == Ahead(sndLastSendSequence)
           low == Ahead(rcvLastRecvSequence)
           n == Len(data)
<1>3. top \in Nat /\ low \in Nat
  BY AheadType DEF TypeOK
<1>4. /\ Cardinality(Held(sndRing)) \in Nat /\ Cardinality(Held(sndRing')) \in Nat
      /\ Cardinality(Held(sndRing')) = Cardinality(Held(sndRing)) - 1
  <2>1. Held(sndRing') = Held(sndRing) \ {h} /\ h \in Held(sndRing)
    BY RingReleaseOK DEF ReleaseSend, LinkInv, RingsOK, TypeOK
  <2>2. IsFiniteSet(Held(sndRing)) /\ Cardinality(Held(sndRing)) \in Nat
    BY HeldCard DEF TypeOK
  <2>3. Cardinality(Held(sndRing')) \in Nat
    BY HeldCard DEF TypeOK
  <2> QED BY <2>1, <2>2, <2>3, FS_RemoveElement
<1>5. top + Cardinality(Held(sndRing)) <= MaxInFlightSeqs + MaxHeld - 1
  BY DEF LinkInv, CreditsFit
<1>6. Ahead(sndLastSendSequence)' = top + 1
  <2>1. top + 1 < Modulus
    BY <1>3, <1>4, <1>5, WindowAssumption
  <2>2. Distance(sndLastRecvSequence, NextSeq(sndLastSendSequence)) = top + 1
    BY <2>1, DistanceNext DEF Ahead, TypeOK
  <2> QED BY <1>1, <2>2 DEF ReleaseSend, Ahead
<1>7. CreditsFit'
  BY <1>3, <1>4, <1>5, <1>6, WindowAssumption DEF CreditsFit
<1>8. /\ data' \in Seq(Datagrams) /\ Len(data') = n + 1 /\ n \in Nat
      /\ \A i \in 1..n : data'[i] = data[i]
      /\ data'[n + 1].seq = sndLastSendSequence
  <2>1. [seq |-> sndLastSendSequence, err |-> err] \in Datagrams
    BY DEF Datagrams, TypeOK
  <2>2. data' = Append(data, [seq |-> sndLastSendSequence, err |-> err])
    BY DEF ReleaseSend
  <2> QED BY <2>1, <2>2, AppendValue DEF TypeOK
<1>9. DataInOrder'
  <2> DEFINE f == PlacesFrom(sndLastRecvSequence, data)
             g == PlacesFrom(sndLastRecvSequence, data')
  <2>1. /\ f \in [1..n -> Int]
        /\ \A i \in 1..n : f[i] = Distance(sndLastRecvSequence, data[i].seq)
    BY PlacesType, ChannelSeqs DEF TypeOK
  <2>2. /\ g \in [1..(n + 1) -> Int]
        /\ \A i \in 1..(n + 1) : g[i] = Distance(sndLastRecvSequence, data'[i].seq)
    <3>1. sndLastRecvSequence \in Seqs
      BY DEF TypeOK
    <3>2. /\ g \in [1..Len(data') -> Int]
          /\ \A i \in 1..Len(data') : g[i] = Distance(sndLastRecvSequence, data'[i].seq)
      BY <1>8, <3>1, DataPlacesType, Zenon
    <3> QED BY <1>8, <3>2, Zenon
  <2>3. Spaced(f, n, low, top)
    BY DEF LinkInv, DataInOrder, DataPlaces, PlacesFrom, Ahead
  <2>4. DataPlaces' = g
    BY <1>1 DEF DataPlaces, PlacesFrom, Ahead
  <2>5. Ahead(rcvLastRecvSequence)' = low
    BY <1>1 DEF Ahead
  <2> HIDE DEF f, g
  <2>6. \A i \in 1..n : g[i] = f[i]
    BY <1>8, <2>1, <2>2
  <2>7. g[n + 1] = top
    BY <1>8, <2>2 DEF Ahead
  <2>8. Spaced(g, n + 1, low, top + 1)
    <3>1. low \in Int /\ top \in Int /\ n \in Nat
      BY <1>3, <1>8
    <3> HIDE DEF n, top, low
    <3> QED BY <2>1, <2>2, <2>3, <2>6, <2>7, <3>1, SpacedAppend, ZenonT(30)
  <2> QED BY <1>6, <1>8, <2>4, <2>5, <2>8 DEF DataInOrder
<1>10. LossAccounted'
  <2>1. Missing' = Missing
    <3>1. Ahead(rcvLastRecvSequence)' = low
      BY <1>1 DEF Ahead
    <3> QED BY <1>3, <1>6, <1>8, <3>1 DEF Missing
  <2> QED BY <1>1, <2>1 DEF LinkInv, LossAccounted, AckPlaces, Ahead
<1>11. QuietStart'
  BY <1>1 DEF ReleaseSend, LinkInv, QuietStart
<1> QED BY <1>2, <1>7, <1>9, <1>10, <1>11 DEF FlowInv

(* The window moves to the ACK taken, and every place with it.             *)
LEMMA RecvACKStep ==
  ASSUME TypeOK, LinkInv, TypeOK', RecvACK
  PROVE  FlowInv'
<1> USE DEF sndVars, rcvVars, netVars
<1> DEFINE base == sndLastRecvSequence
           next == Head(acks).seq
           f == PlacesFrom(base, acks)
           g == PlacesFrom(next, acks')
           n == Len(acks)
           m == Len(data)
           e == Ahead(next)
           a == Ahead(rcvLastSendSequence)
           low == Ahead(rcvLastRecvSequence)
           top == Ahead(sndLastSendSequence)
<1>1. /\ UNCHANGED <<sndRing, sndLastSendSequence, rcvLastRecvSequence,
                     rcvLastSendSequence, rcvReceiveInitial, data, lostData,
                     lostAcks>>
      /\ sndLastRecvSequence' = next /\ sndReceiveInitial' = TRUE
  BY DEF RecvACK
<1>2. /\ next \in Seqs /\ next = acks[1].seq /\ 1 \in 1..n /\ n \in Nat /\ n # 0
      /\ Head(acks) = acks[1] /\ acks' \in Seq(Acks) /\ Len(acks') = n - 1
      /\ \A j \in 1..(n - 1) : acks'[j] = acks[j + 1]
  <2>1. acks \in Seq(Acks) /\ acks # <<>> /\ acks' = Tail(acks)
    BY DEF RecvACK, TypeOK
  <2>2. /\ Head(acks) \in Acks /\ Head(acks) = acks[1] /\ 1 \in DOMAIN acks
        /\ Tail(acks) \in Seq(Acks) /\ Len(Tail(acks)) = n - 1
        /\ \A j \in 1..(n - 1) : Tail(acks)[j] = acks[j + 1]
    BY <2>1, TailValue
  <2>3. n \in Nat /\ DOMAIN acks = 1..n
    BY <2>1
  <2> QED BY <2>1, <2>2, <2>3 DEF Acks
<1>3. a \in Nat /\ low \in Nat /\ top \in Nat /\ e \in Nat
  BY <1>2, AheadType DEF TypeOK
<1>4. /\ f \in [1..n -> Int]
      /\ \A i \in 1..n : /\ acks[i].seq \in Seqs
                         /\ f[i] = Distance(base, acks[i].seq)
  <2>1. acks \in Seq(Acks) /\ base \in Seqs
    BY DEF TypeOK
  <2> HIDE DEF f, n, base
  <2>2. \A i \in 1..Len(acks) : acks[i].seq \in Seqs
    BY <2>1, ChannelSeqs
  <2>3. /\ f \in [1..Len(acks) -> Int]
        /\ \A i \in 1..Len(acks) : f[i] = Distance(base, acks[i].seq)
    BY <2>1, AckPlacesType, Zenon DEF f
  <2> QED BY <2>2, <2>3 DEF n
<1>5. /\ g \in [1..(n - 1) -> Int]
      /\ \A i \in 1..(n - 1) : g[i] = Distance(next, acks'[i].seq)
  <2> HIDE DEF next, n, g
  <2>1. acks' \in Seq(Acks) /\ next \in Seqs
    BY <1>2
  <2>2. /\ g \in [1..Len(acks') -> Int]
        /\ \A i \in 1..Len(acks') : g[i] = Distance(next, acks'[i].seq)
    BY <2>1, PlacesType, ChannelSeqs DEF g
  <2>3. Len(acks') = n - 1
    BY <1>2
  <2> QED BY <2>2, <2>3, Zenon
<1>6. Rising(f, n, a) /\ a <= low
  BY DEF LinkInv, AcksInOrder, AckPlaces, PlacesFrom, Ahead
<1>7. f[1] = e
  BY <1>2, <1>4 DEF Ahead
<1>8. /\ Spaced(PlacesFrom(base, data), m, low, top) /\ m \in Nat
      /\ e <= a /\ e <= low /\ low <= top
  <2>1. Spaced(PlacesFrom(base, data), m, low, top) /\ m \in Nat
    BY DEF LinkInv, DataInOrder, DataPlaces, PlacesFrom, Ahead, TypeOK
  <2>2. e <= a
    BY <1>2, <1>6, <1>7 DEF Rising
  <2>3. low + m <= top
    BY <2>1 DEF Spaced
  <2> QED BY <1>3, <1>6, <2>1, <2>2, <2>3
<1>9. /\ Ahead(rcvLastSendSequence)' = a - e
      /\ Ahead(rcvLastRecvSequence)' = low - e
      /\ Ahead(sndLastSendSequence)' = top - e
  BY <1>1, <1>2, <1>3, <1>6, <1>8, DistanceShift, SMTT(30) DEF Ahead, TypeOK
<1>10. \A i \in 1..(n - 1) : g[i] = f[i + 1] - f[1]
  <2> TAKE i \in 1..(n - 1)
  <2>1. i + 1 \in 1..n /\ 1 <= i + 1
    BY <1>2
  <2>2. f[1] <= f[i + 1]
    BY <1>2, <1>6, <2>1 DEF Rising
  <2>3. g[i] = Distance(next, acks[i + 1].seq)
    BY <1>2, <1>5
  <2>4. /\ f[1] = Distance(base, next) /\ f[i + 1] = Distance(base, acks[i + 1].seq)
        /\ acks[i + 1].seq \in Seqs /\ base \in Seqs /\ next \in Seqs
    BY <1>2, <1>4, <2>1 DEF TypeOK
  <2> HIDE DEF base, next, f, g
  <2> QED BY <2>2, <2>3, <2>4, DistanceShift
<1>11. AckPlaces' = g
  BY <1>1 DEF AckPlaces, PlacesFrom, Ahead
<1>12. AcksInOrder'
  <2>1. Rising(g, n - 1, a - f[1])
    <3>1. a \in Int
      BY <1>3
    <3> HIDE DEF f, g, n, a
    <3> QED BY <1>2, <1>4, <1>5, <1>6, <1>10, <3>1, RisingTail, Zenon
  <2>2. a - e <= low - e
    BY <1>3, <1>6
  <2> QED BY <1>2, <1>7, <1>9, <1>11, <2>1, <2>2 DEF AcksInOrder
<1>13. DataInOrder'
  <2> DEFINE p == PlacesFrom(base, data)
             q == PlacesFrom(next, data)
  <2>1. /\ p \in [1..m -> Int]
        /\ \A i \in 1..m : /\ data[i].seq \in Seqs
                           /\ p[i] = Distance(base, data[i].seq)
    BY PlacesType, ChannelSeqs DEF TypeOK
  <2>2. /\ q \in [1..m -> Int]
        /\ \A i \in 1..m : q[i] = Distance(next, data[i].seq)
    <3>1. next \in Seqs /\ data \in Seq(Datagrams)
      BY <1>2 DEF TypeOK
    <3> HIDE DEF next
    <3> QED BY <3>1, PlacesType, ChannelSeqs
  <2>3. \A i \in 1..m : q[i] = p[i] - e
    <3> TAKE i \in 1..m
    <3>1. low + i <= p[i] + 1 /\ p[i] \in Int /\ i \in Nat \ {0}
      BY <1>8, <2>1, SMTT(30) DEF Spaced
    <3>2. e <= p[i]
      BY <1>3, <1>8, <3>1
    <3>3. e = Distance(base, next) /\ base \in Seqs /\ next \in Seqs
      BY <1>2 DEF Ahead, TypeOK
    <3> HIDE DEF base, next, e, p, q
    <3> QED BY <2>1, <2>2, <3>2, <3>3, DistanceShift
  <2>4. Spaced(q, m, low - e, top - e)
    <3>1. e \in Int /\ low \in Int /\ top \in Int
      BY <1>3
    <3> HIDE DEF p, q, m, e, low, top
    <3>2. Spaced(p, m, low, top) /\ m \in Nat
      BY <1>8 DEF p
    <3> QED BY <2>1, <2>2, <2>3, <3>1, <3>2, SpacedShift, Zenon
  <2>5. DataPlaces' = q
    BY <1>1 DEF DataPlaces, PlacesFrom, Ahead
  <2> QED BY <1>1, <1>9, <2>4, <2>5 DEF DataInOrder
<1>14. CreditsFit'
  <2>1. Cardinality(Held(sndRing)) \in Nat
    BY HeldCard DEF TypeOK
  <2>2. top + Cardinality(Held(sndRing)) <= MaxInFlightSeqs + MaxHeld - 1
    BY DEF LinkInv, CreditsFit
  <2> QED BY <1>1, <1>3, <1>9, <2>1, <2>2, WindowAssumption DEF CreditsFit
<1>15. WindowKnown'
  <2>1. \A i \in 1..n : acks[i].max = MaxInFlightSeqs
    BY DEF LinkInv, WindowKnown, TypeOK
  <2>2. sndMaxInFlightSeqs' = MaxInFlightSeqs
    BY <1>2, <2>1 DEF RecvACK
  <2>3. \A i \in 1..(n - 1) : acks'[i].max = MaxInFlightSeqs
    BY <1>2, <2>1
  <2>4. DOMAIN acks' = 1..(n - 1)
    BY <1>2
  <2> QED BY <2>2, <2>3, <2>4 DEF WindowKnown
<1>16. LossAccounted'
  <2> DEFINE debt == Step * lostAcks + lostData - Missing
  <2>1. Missing \in Int /\ Missing' = Missing
    BY <1>1, <1>3, <1>8, <1>9 DEF Missing
  <2>2. debt \in Int /\ Step \in Nat
    BY <2>1, StepType, StepTimes DEF TypeOK
  <2>3. Accounted(f, n, a, debt, Step)
    BY DEF LinkInv, LossAccounted, AckPlaces, PlacesFrom, Ahead
  <2>4. Accounted(g, n - 1, a - f[1], debt, Step)
    <3>1. a \in Int
      BY <1>3
    <3> HIDE DEF f, g, n, a, debt
    <3> QED BY <1>2, <1>4, <1>5, <1>10, <2>2, <2>3, <3>1, AccountedTail, Zenon
  <2>5. Accounted(AckPlaces', Len(acks'), Ahead(rcvLastSendSequence)', debt, Step)
    BY <1>2, <1>7, <1>9, <1>11, <2>4
  <2> QED BY <1>1, <2>1, <2>5 DEF LossAccounted, Step, TriggerAckWindow
<1>17. AckLagBounded' /\ QuietStart'
  BY <1>1 DEF LinkInv, AckLagBounded, QuietStart, Step, TriggerAckWindow
<1> QED BY <1>12, <1>13, <1>14, <1>15, <1>16, <1>17 DEF FlowInv

(* What the losses so far still account for.                               *)
Debt == Step * lostAcks + lostData - Missing

LEMMA DebtType ==
  ASSUME TypeOK, LinkInv
  PROVE  Debt \in Nat /\ Missing \in Nat
<1> DEFINE n == Len(acks)
           f == PlacesFrom(sndLastRecvSequence, acks)
           a == Ahead(rcvLastSendSequence)
<1>1. /\ a \in Nat /\ Ahead(rcvLastRecvSequence) \in Nat
      /\ Ahead(sndLastSendSequence) \in Nat
  BY AheadType DEF TypeOK
<1>2. n \in Nat /\ f \in [1..n -> Int]
  BY PlacesType, ChannelSeqs DEF TypeOK
<1>3. Rising(f, n, a)
  BY DEF LinkInv, AcksInOrder, AckPlaces, PlacesFrom, Ahead
<1>4. Len(data) \in Nat
  BY DEF TypeOK
<1>5. Missing \in Nat
  BY <1>1, <1>4 DEF LinkInv, DataInOrder, Spaced, Missing
<1>6. Step \in Nat /\ Debt \in Int
  BY <1>5, StepType, StepTimes DEF Debt, TypeOK
<1>7. Accounted(f, n, a, Debt, Step)
  BY DEF LinkInv, LossAccounted, AckPlaces, PlacesFrom, Ahead, Debt
<1> HIDE DEF f, n, a
<1> QED BY <1>1, <1>2, <1>3, <1>5, <1>6, <1>7, DebtNat

(* One more ACK, for the sequence s.                                       *)
LEMMA SendACK ==
  ASSUME TypeOK, LinkInv, NEW s \in Seqs, NEW owed \in Nat,
         Ahead(rcvLastSendSequence) <= Ahead(s), Debt <= owed,
         Ahead(s) + Debt <= Ahead(rcvLastSendSequence) + Step + owed,
         acks' = Append(acks, ACK(s)),
         sndLastRecvSequence' = sndLastRecvSequence
  PROVE  /\ Rising(AckPlaces', Len(acks'), Ahead(s))
         /\ Accounted(AckPlaces', Len(acks'), Ahead(s), owed, Step)
         /\ \A i \in DOMAIN acks' : acks'[i].max = MaxInFlightSeqs
<1> DEFINE base == sndLastRecvSequence
           n == Len(acks)
           f == PlacesFrom(base, acks)
           g == PlacesFrom(base, acks')
           a == Ahead(rcvLastSendSequence)
           new == Ahead(s)
<1>1. a \in Int /\ new \in Int /\ Debt \in Int /\ Step \in Nat /\ base \in Seqs
  BY AheadType, DebtType, StepType DEF TypeOK
<1>2. /\ ACK(s) \in Acks /\ ACK(s).seq = s /\ ACK(s).max = MaxInFlightSeqs
      /\ acks \in Seq(Acks)
  BY ACKType DEF TypeOK
<1>3. /\ acks' \in Seq(Acks) /\ Len(acks') = n + 1 /\ n \in Nat
      /\ \A i \in 1..n : acks'[i] = acks[i]
      /\ acks'[n + 1] = ACK(s)
  BY <1>2, AppendValue
<1>4. /\ f \in [1..n -> Int]
      /\ \A i \in 1..n : f[i] = Distance(base, acks[i].seq)
  <2> HIDE DEF n, base
  <2> QED BY <1>1, <1>2, PlacesType, ChannelSeqs DEF n
<1>5. /\ g \in [1..(n + 1) -> Int]
      /\ \A i \in 1..(n + 1) : g[i] = Distance(base, acks'[i].seq)
  <2> HIDE DEF n, base, g
  <2>1. acks' \in Seq(Acks) /\ base \in Seqs
    BY <1>1, <1>3
  <2>2. /\ g \in [1..Len(acks') -> Int]
        /\ \A i \in 1..Len(acks') : g[i] = Distance(base, acks'[i].seq)
    BY <2>1, AckPlacesType, Zenon DEF g
  <2> QED BY <1>3, <2>2
<1>6. Rising(f, n, a) /\ Accounted(f, n, a, Debt, Step)
  BY DEF LinkInv, AcksInOrder, LossAccounted, AckPlaces, PlacesFrom, Ahead, Debt
<1>7. AckPlaces' = g
  BY DEF AckPlaces, PlacesFrom, Ahead
<1>8. (\A i \in 1..n : g[i] = f[i]) /\ g[n + 1] = new
  <2>1. \A i \in 1..n : i \in 1..(n + 1)
    BY <1>3
  <2>2. n + 1 \in 1..(n + 1)
    BY <1>3
  <2>3. new = Distance(base, s)
    BY DEF Ahead
  <2> HIDE DEF f, g, n, base, new
  <2> QED BY <1>2, <1>3, <1>4, <1>5, <2>1, <2>2, <2>3
<1>9. Rising(g, n + 1, new) /\ Accounted(g, n + 1, new, owed, Step)
  <2>1. a <= new /\ new + Debt <= a + Step + owed /\ Debt <= owed
    OBVIOUS
  <2> HIDE DEF f, g, n, base, new, a
  <2>2. Rising(g, n + 1, new)
    BY <1>1, <1>3, <1>4, <1>5, <1>6, <1>8, <2>1, RisingAppend, Zenon
  <2>3. Accounted(g, n + 1, new, owed, Step)
    BY <1>1, <1>3, <1>4, <1>5, <1>6, <1>8, <2>1, AccountedAppend, Zenon
  <2> QED BY <2>2, <2>3
<1>10. \A i \in DOMAIN acks' : acks'[i].max = MaxInFlightSeqs
  <2>1. \A i \in 1..n : acks[i].max = MaxInFlightSeqs
    BY DEF LinkInv, WindowKnown, TypeOK
  <2>2. DOMAIN acks' = 1..(n + 1)
    BY <1>3
  <2>3. \A i \in 1..(n + 1) : i \in 1..n \/ i = n + 1
    BY <1>3
  <2> HIDE DEF n
  <2> QED BY <1>2, <1>3, <2>1, <2>2, <2>3
<1> QED BY <1>3, <1>7, <1>9, <1>10

(* The gratuitous ACK repeats how far the receiver is: it closes the lag.  *)
LEMMA WaitRecvACKStep ==
  ASSUME TypeOK, LinkInv, WaitRecvACK
  PROVE  FlowInv'
<1> USE DEF sndVars, rcvVars, netVars
<1> DEFINE base == sndLastRecvSequence
           rr == rcvLastRecvSequence
           a == Ahead(rcvLastSendSequence)
           low == Ahead(rr)
<1>1. /\ UNCHANGED <<sndRing, sndLastSendSequence, sndLastRecvSequence,
                     sndMaxInFlightSeqs, sndReceiveInitial, rcvLastRecvSequence,
                     rcvReceiveInitial, data, lostData, lostAcks>>
      /\ acks' = Append(acks, ACK(rr)) /\ rcvLastSendSequence' = rr
  BY DEF WaitRecvACK
<1>2. a \in Nat /\ low \in Nat /\ rr \in Seqs /\ Debt \in Nat
  BY AheadType, DebtType DEF TypeOK
<1>3. a <= low /\ Distance(rcvLastSendSequence, rr) < Step
  BY DEF LinkInv, AcksInOrder, AckLagBounded
<1>4. low < a + Step
  <2>1. Distance(rcvLastSendSequence, rr) = low - a
    BY <1>2, <1>3, DistanceShift DEF Ahead, TypeOK
  <2> QED BY <1>2, <1>3, <2>1, StepType
<1>5. /\ Rising(AckPlaces', Len(acks'), low)
      /\ Accounted(AckPlaces', Len(acks'), low, Debt, Step)
      /\ \A i \in DOMAIN acks' : acks'[i].max = MaxInFlightSeqs
  <2>1. low + Debt <= a + Step + Debt /\ Debt <= Debt
    BY <1>2, <1>4, StepType
  <2> QED BY <1>1, <1>2, <1>3, <2>1, SendACK
<1>6. /\ Ahead(rcvLastSendSequence)' = low /\ Ahead(rcvLastRecvSequence)' = low
      /\ low <= low
  BY <1>1, <1>2 DEF Ahead
<1>7. AcksInOrder'
  BY <1>5, <1>6 DEF AcksInOrder
<1>8. LossAccounted'
  <2>1. (Step * lostAcks + lostData - Missing)' = Debt /\ Step' = Step
    BY <1>1 DEF Debt, Missing, Ahead, Step, TriggerAckWindow
  <2> QED BY <1>5, <1>6, <2>1 DEF LossAccounted
<1>9. WindowKnown'
  BY <1>1, <1>5 DEF LinkInv, WindowKnown
<1>10. AckLagBounded'
  <2>1. Distance(rr, rr) = 0
    BY <1>2, DistanceValue, WindowAssumption DEF Seqs
  <2> QED BY <1>1, <2>1, StepType DEF AckLagBounded, Step, TriggerAckWindow
<1>11. DataInOrder' /\ CreditsFit' /\ QuietStart'
  BY <1>1 DEF LinkInv, DataInOrder, CreditsFit, QuietStart, DataPlaces, Ahead
<1> QED BY <1>7, <1>8, <1>9, <1>10, <1>11 DEF FlowInv

(* Where the first datagram lies, and what is left after it.               *)
LEMMA FirstDatagram ==
  ASSUME TypeOK, LinkInv, data # <<>>
  PROVE  LET next == NextSeq(Head(data).seq)
             q == PlacesFrom(sndLastRecvSequence, Tail(data))
         IN  /\ next \in Seqs /\ Ahead(next) \in Nat
             /\ Ahead(rcvLastRecvSequence) < Ahead(next)
             /\ Tail(data) \in Seq(Datagrams) /\ Len(Tail(data)) = Len(data) - 1
             /\ Len(data) \in Nat
             /\ Spaced(q, Len(data) - 1, Ahead(next), Ahead(sndLastSendSequence))
<1> DEFINE base == sndLastRecvSequence
           d == Head(data).seq
           next == NextSeq(d)
           m == Len(data)
           p == PlacesFrom(base, data)
           q == PlacesFrom(base, Tail(data))
           low == Ahead(rcvLastRecvSequence)
           top == Ahead(sndLastSendSequence)
<1>1. /\ d \in Seqs /\ d = data[1].seq /\ 1 \in 1..m /\ m \in Nat /\ m # 0
      /\ Tail(data) \in Seq(Datagrams) /\ Len(Tail(data)) = m - 1
      /\ \A i \in 1..(m - 1) : Tail(data)[i] = data[i + 1]
  <2>1. data \in Seq(Datagrams) /\ data # <<>>
    BY DEF TypeOK
  <2>2. /\ Head(data) \in Datagrams /\ Head(data) = data[1] /\ 1 \in DOMAIN data
        /\ Tail(data) \in Seq(Datagrams) /\ Len(Tail(data)) = m - 1
        /\ \A j \in 1..(m - 1) : Tail(data)[j] = data[j + 1]
    BY <2>1, TailValue
  <2>3. m \in Nat /\ DOMAIN data = 1..m
    BY <2>1
  <2> QED BY <2>1, <2>2, <2>3 DEF Datagrams
<1>2. base \in Seqs /\ data \in Seq(Datagrams) /\ low \in Nat /\ top \in Nat
  BY AheadType DEF TypeOK
<1>3. /\ p \in [1..m -> Int]
      /\ \A i \in 1..m : p[i] = Distance(base, data[i].seq)
  <2> HIDE DEF base
  <2> QED BY <1>2, DataPlacesType, Zenon
<1>4. /\ q \in [1..(m - 1) -> Int]
      /\ \A i \in 1..(m - 1) : q[i] = Distance(base, Tail(data)[i].seq)
  <2> HIDE DEF base, q, m
  <2>1. /\ q \in [1..Len(Tail(data)) -> Int]
        /\ \A i \in 1..Len(Tail(data)) : q[i] = Distance(base, Tail(data)[i].seq)
    BY <1>1, <1>2, DataPlacesType, Zenon DEF q
  <2> QED BY <1>1, <2>1
<1>5. Spaced(p, m, low, top)
  BY DEF LinkInv, DataInOrder, DataPlaces, PlacesFrom, Ahead
<1>6. \A i \in 1..(m - 1) : q[i] = p[i + 1]
  <2> TAKE i \in 1..(m - 1)
  <2>1. i + 1 \in 1..m
    BY <1>1
  <2> HIDE DEF p, q, m, base
  <2> QED BY <1>1, <1>3, <1>4, <2>1
<1>7. Spaced(q, m - 1, p[1] + 1, top) /\ low <= p[1] /\ p[1] + m <= top
  <2>1. low \in Int /\ top \in Int
    BY <1>2
  <2> HIDE DEF p, q, m, low, top
  <2> QED BY <1>1, <1>3, <1>4, <1>5, <1>6, <2>1, SpacedTail, Zenon
<1>8. Ahead(next) = p[1] + 1 /\ next \in Seqs /\ p[1] \in Nat
  <2>1. p[1] = Distance(base, d) /\ p[1] = Ahead(d)
    BY <1>1, <1>3 DEF Ahead
  <2>2. p[1] \in Nat
    BY <1>1, <2>1, AheadType
  <2>3. Cardinality(Held(sndRing)) \in Nat
        /\ top + Cardinality(Held(sndRing)) <= MaxInFlightSeqs + MaxHeld - 1
    BY HeldCard DEF LinkInv, CreditsFit, TypeOK
  <2>4. p[1] + 1 < Modulus
    <3> HIDE DEF p, m, top
    <3> QED BY <1>1, <1>2, <1>7, <2>2, <2>3, WindowAssumption
  <2>5. Distance(base, NextSeq(d)) = Distance(base, d) + 1
    BY <1>1, <1>2, <2>1, <2>4, DistanceNext
  <2>6. next \in Seqs
    BY <1>1, NextSeqValue
  <2> QED BY <2>1, <2>2, <2>5, <2>6 DEF Ahead
<1>9. low < p[1] + 1
  BY <1>2, <1>7, <1>8
<1> HIDE DEF p, q, m, low, top, d
<1>10. Ahead(next) \in Nat /\ low < Ahead(next)
  BY <1>8, <1>9
<1> QED BY <1>1, <1>7, <1>8, <1>10 DEF p, q, m, low, top, d

(* A datagram received moves the receiver over it and over the lost ones   *)
(* before it, and is answered with an ACK when one is due.                 *)
LEMMA AcquireRecvStep ==
  ASSUME TypeOK, LinkInv, AcquireRecv
  PROVE  FlowInv'
<1> USE DEF sndVars, rcvVars, netVars
<1> DEFINE base == sndLastRecvSequence
           next == NextSeq(Head(data).seq)
           m == Len(data)
           a == Ahead(rcvLastSendSequence)
           low == Ahead(rcvLastRecvSequence)
           top == Ahead(sndLastSendSequence)
           new == Ahead(next)
           owed == Debt + (new - 1 - low)
<1>1. /\ UNCHANGED <<sndRing, sndLastSendSequence, sndLastRecvSequence,
                     sndMaxInFlightSeqs, sndReceiveInitial, sndDraining,
                     lostData, lostAcks>>
      /\ data # <<>> /\ data' = Tail(data) /\ rcvReceiveInitial' = TRUE
      /\ rcvLastRecvSequence' = next
  BY DEF AcquireRecv
<1>2. /\ next \in Seqs /\ new \in Nat /\ low < new
      /\ data' \in Seq(Datagrams) /\ Len(data') = m - 1 /\ m \in Nat
      /\ Spaced(PlacesFrom(base, data'), m - 1, new, top)
  BY <1>1, FirstDatagram
<1>3. a \in Nat /\ low \in Nat /\ top \in Nat /\ Debt \in Nat
  BY AheadType, DebtType DEF TypeOK
<1>4. a <= low /\ Distance(rcvLastSendSequence, rcvLastRecvSequence) < Step
  BY DEF LinkInv, AcksInOrder, AckLagBounded
<1>5. low < a + Step
  <2>1. Distance(rcvLastSendSequence, rcvLastRecvSequence) = low - a
    BY <1>3, <1>4, DistanceShift DEF Ahead, TypeOK
  <2> QED BY <1>3, <1>4, <2>1, StepType
<1>6. /\ owed \in Nat /\ Debt <= owed /\ a <= new
      /\ new + Debt <= a + Step + owed
  <2> HIDE DEF a, low, new
  <2>1. owed \in Nat /\ Debt <= owed /\ a <= new
    BY <1>2, <1>3, <1>4
  <2> QED BY <1>2, <1>3, <1>4, <1>5, <2>1, StepType
<1>7. Ahead(rcvLastRecvSequence)' = new /\ Ahead(sndLastSendSequence)' = top
  BY <1>1 DEF Ahead
<1>8. DataInOrder'
  <2>1. DataPlaces' = PlacesFrom(base, data')
    BY <1>1 DEF DataPlaces, PlacesFrom, Ahead
  <2> QED BY <1>2, <1>7, <2>1 DEF DataInOrder
<1>9. CreditsFit' /\ QuietStart'
  <2>1. sndReceiveInitial
    BY <1>1 DEF LinkInv, QuietStart
  <2> QED BY <1>1, <2>1 DEF LinkInv, CreditsFit, QuietStart, Ahead
<1>10. (Step * lostAcks + lostData - Missing)' = owed /\ Step' = Step
  <2>1. Missing' = top - new - (m - 1) /\ Missing = top - low - m
    BY <1>2, <1>7 DEF Missing
  <2>2. Step' = Step /\ lostAcks' = lostAcks /\ lostData' = lostData
    BY <1>1 DEF Step, TriggerAckWindow
  <2>3. Step * lostAcks \in Int /\ lostData \in Int
    BY StepType, StepTimes DEF TypeOK
  <2>4. (Step * lostAcks + lostData - Missing)' = Step * lostAcks + lostData - Missing'
    BY <2>2
  <2> HIDE DEF a, low, top, new, m
  <2> QED BY <1>2, <1>3, <2>1, <2>2, <2>3, <2>4 DEF Debt
<1>11. CASE AckDue(next)
  <2>1. rcvLastSendSequence' = next /\ acks' = Append(acks, ACK(next))
    BY <1>11 DEF AcquireRecv
  <2>2. /\ Rising(AckPlaces', Len(acks'), new)
        /\ Accounted(AckPlaces', Len(acks'), new, owed, Step)
        /\ \A i \in DOMAIN acks' : acks'[i].max = MaxInFlightSeqs
    <3> HIDE DEF owed
    <3> QED BY <1>1, <1>2, <1>6, <2>1, SendACK
  <2>3. Ahead(rcvLastSendSequence)' = new
    BY <1>1, <2>1 DEF Ahead
  <2>4. AcksInOrder' /\ LossAccounted' /\ WindowKnown'
    BY <1>1, <1>2, <1>7, <1>10, <2>2, <2>3
       DEF AcksInOrder, LossAccounted, WindowKnown, LinkInv
  <2>5. AckLagBounded'
    <3>1. Distance(next, next) = 0
      BY <1>2, DistanceValue, WindowAssumption DEF Seqs
    <3> QED BY <1>1, <1>10, <2>1, <3>1, StepType DEF AckLagBounded
  <2> QED BY <1>8, <1>9, <2>4, <2>5 DEF FlowInv
<1>12. CASE ~ AckDue(next)
  <2>1. UNCHANGED <<rcvLastSendSequence, acks>>
    BY <1>12 DEF AcquireRecv
  <2>2. Ahead(rcvLastSendSequence)' = a /\ AckPlaces' = AckPlaces
    BY <1>1, <2>1 DEF Ahead, AckPlaces
  <2>3. AckLagBounded'
    <3>1. Distance(rcvLastSendSequence, next) \in Seqs
      BY <1>2, DistanceValue DEF TypeOK
    <3>2. Distance(rcvLastSendSequence, next) < TriggerAckWindow
      BY <1>12, <3>1, StepType, WindowAssumption DEF AckDue, Seqs
    <3>3. TriggerAckWindow = Step
      BY <3>1, <3>2, StepType, WindowAssumption DEF Step, Seqs
    <3> QED BY <1>1, <1>10, <2>1, <3>2, <3>3 DEF AckLagBounded
  <2>4. AcksInOrder' /\ WindowKnown'
    BY <1>1, <1>6, <1>7, <2>1, <2>2 DEF AcksInOrder, WindowKnown, LinkInv
  <2>5. Accounted(AckPlaces, Len(acks), a, owed, Step)
    <3>1. Accounted(AckPlaces, Len(acks), a, Debt, Step)
      BY DEF LinkInv, LossAccounted, Debt
    <3>2. AckPlaces = PlacesFrom(base, acks)
      BY DEF AckPlaces, PlacesFrom, Ahead
    <3>3. /\ PlacesFrom(base, acks) \in [1..Len(acks) -> Int]
          /\ Len(acks) \in Nat /\ a \in Int /\ Debt \in Int /\ owed \in Int
          /\ Step \in Nat
      <4>1. base \in Seqs /\ acks \in Seq(Acks)
        BY DEF TypeOK
      <4>2. PlacesFrom(base, acks) \in [1..Len(acks) -> Int]
        <5> HIDE DEF base
        <5> QED BY <4>1, AckPlacesType, Zenon
      <4> HIDE DEF owed, a, base
      <4> QED BY <1>3, <1>6, <4>1, <4>2, StepType
    <3> HIDE DEF owed, a, base
    <3> QED BY <1>6, <3>1, <3>2, <3>3, AccountedMore, Zenon
  <2>6. LossAccounted'
    BY <1>10, <2>1, <2>2, <2>5 DEF LossAccounted
  <2> QED BY <1>8, <1>9, <2>3, <2>4, <2>6 DEF FlowInv
<1> QED BY <1>11, <1>12

(* A datagram lost on the way, or thrown away because it arrived short: it *)
(* joins the missing ones.                                                 *)
LEMMA LostDatagramStep ==
  ASSUME TypeOK, LinkInv, NEW k \in DOMAIN data, data' = RemoveAt(data, k),
         lostData' = lostData + 1, sndReceiveInitial \/ ~ rcvReceiveInitial',
         UNCHANGED <<sndVars, rcvRing, rcvLastRecvSequence, rcvLastSendSequence,
                     acks, lostAcks>>
  PROVE  FlowInv'
<1> USE DEF sndVars
<1> DEFINE base == sndLastRecvSequence
           m == Len(data)
           p == PlacesFrom(base, data)
           q == PlacesFrom(base, data')
           low == Ahead(rcvLastRecvSequence)
           top == Ahead(sndLastSendSequence)
<1>1. /\ AckLagBounded' /\ AcksInOrder' /\ CreditsFit' /\ WindowKnown'
      /\ AckPlaces' = AckPlaces /\ Ahead(rcvLastRecvSequence)' = low
      /\ Ahead(sndLastSendSequence)' = top
      /\ Ahead(rcvLastSendSequence)' = Ahead(rcvLastSendSequence)
  BY DEF LinkInv, AckLagBounded, AcksInOrder, CreditsFit, WindowKnown,
         AckPlaces, Ahead, Step, TriggerAckWindow
<1>2. /\ base \in Seqs /\ data \in Seq(Datagrams) /\ low \in Nat /\ top \in Nat
      /\ k \in 1..m /\ m \in Nat
  BY AheadType DEF TypeOK
<1>3. /\ data' \in Seq(Datagrams) /\ Len(data') = m - 1
      /\ \A j \in 1..(m - 1) : data'[j] = IF j < k THEN data[j] ELSE data[j + 1]
  <2> HIDE DEF m
  <2> QED BY <1>2, RemoveAtValue DEF m
<1>4. /\ p \in [1..m -> Int]
      /\ \A i \in 1..m : p[i] = Distance(base, data[i].seq)
  <2> HIDE DEF base
  <2> QED BY <1>2, DataPlacesType, Zenon
<1>5. /\ q \in [1..(m - 1) -> Int]
      /\ \A i \in 1..(m - 1) : q[i] = Distance(base, data'[i].seq)
  <2> HIDE DEF base, q, m
  <2>1. /\ q \in [1..Len(data') -> Int]
        /\ \A i \in 1..Len(data') : q[i] = Distance(base, data'[i].seq)
    BY <1>2, <1>3, DataPlacesType, Zenon DEF q
  <2> QED BY <1>3, <2>1
<1>6. \A i \in 1..(m - 1) : q[i] = IF i < k THEN p[i] ELSE p[i + 1]
  <2> TAKE i \in 1..(m - 1)
  <2>1. i \in 1..m /\ i + 1 \in 1..m
    BY <1>2
  <2> HIDE DEF p, q, m, base
  <2> QED BY <1>3, <1>4, <1>5, <2>1
<1>7. DataInOrder'
  <2>1. Spaced(p, m, low, top)
    BY DEF LinkInv, DataInOrder, DataPlaces, PlacesFrom, Ahead
  <2>2. Spaced(q, m - 1, low, top)
    <3>1. low \in Int /\ top \in Int
      BY <1>2
    <3> HIDE DEF p, q, m, low, top
    <3> QED BY <1>2, <1>4, <1>5, <1>6, <2>1, <3>1, SpacedRemove, Zenon
  <2>3. DataPlaces' = q
    BY DEF DataPlaces, PlacesFrom, Ahead
  <2> QED BY <1>1, <1>3, <2>2, <2>3 DEF DataInOrder
<1>8. LossAccounted'
  <2>1. Missing' = Missing + 1 /\ Missing \in Int
    <3> HIDE DEF low, top, m
    <3>1. Missing' = top - low - (m - 1) /\ Missing = top - low - m
      BY <1>1, <1>3 DEF Missing, low, top, m
    <3> QED BY <1>2, <3>1
  <2>2. Step' = Step /\ lostAcks' = lostAcks /\ acks' = acks
    BY DEF Step, TriggerAckWindow
  <2>3. Step * lostAcks \in Int /\ lostData \in Int
    BY StepType, StepTimes DEF TypeOK
  <2>4. (Step * lostAcks + lostData - Missing)' = Step * lostAcks + lostData - Missing
    <3>1. (Step * lostAcks + lostData - Missing)' = Step * lostAcks + lostData' - Missing'
      BY <2>2
    <3> QED BY <2>1, <2>3, <3>1
  <2> QED BY <1>1, <2>2, <2>4 DEF LinkInv, LossAccounted
<1>9. QuietStart'
  BY <1>2 DEF LinkInv, QuietStart
<1> QED BY <1>1, <1>7, <1>8, <1>9 DEF FlowInv

(* The first of a sequence removed.                                        *)
LEMMA FirstRemoved ==
  ASSUME NEW S, NEW s \in Seq(S), s # <<>>
  PROVE  1 \in DOMAIN s /\ RemoveAt(s, 1) = Tail(s)
<1>1. /\ 1 \in DOMAIN s /\ Tail(s) \in Seq(S) /\ Len(Tail(s)) = Len(s) - 1
      /\ \A j \in 1..(Len(s) - 1) : Tail(s)[j] = s[j + 1]
  BY TailValue
<1>2. /\ RemoveAt(s, 1) \in Seq(S) /\ Len(RemoveAt(s, 1)) = Len(s) - 1
      /\ \A j \in 1..(Len(s) - 1) : RemoveAt(s, 1)[j] = s[j + 1]
  <2>1. /\ RemoveAt(s, 1) \in Seq(S) /\ Len(RemoveAt(s, 1)) = Len(s) - 1
        /\ \A j \in 1..(Len(s) - 1) :
             RemoveAt(s, 1)[j] = IF j < 1 THEN s[j] ELSE s[j + 1]
    BY <1>1, RemoveAtValue, Zenon
  <2>2. \A j \in 1..(Len(s) - 1) : ~ (j < 1)
    BY <1>1
  <2> QED BY <2>1, <2>2, Zenon
<1> DEFINE u == RemoveAt(s, 1)
           v == Tail(s)
<1>3. u \in Seq(S) /\ v \in Seq(S) /\ Len(u) = Len(v)
      /\ \A j \in 1..Len(u) : u[j] = v[j]
  BY <1>1, <1>2
<1> HIDE DEF u, v
<1>4. u = v
  BY <1>3, SeqEqual
<1> QED BY <1>1, <1>4 DEF u, v

(* A lost ACK costs the step to the one after it.                          *)
LEMMA LoseACKStep ==
  ASSUME TypeOK, LinkInv, NEW k \in DOMAIN acks, LoseACK(k)
  PROVE  FlowInv'
<1> USE DEF sndVars, rcvVars, netVars
<1> DEFINE base == sndLastRecvSequence
           n == Len(acks)
           f == PlacesFrom(base, acks)
           g == PlacesFrom(base, acks')
           a == Ahead(rcvLastSendSequence)
<1>1. /\ UNCHANGED <<sndVars, rcvVars, data, lostData>>
      /\ acks' = RemoveAt(acks, k) /\ lostAcks' = lostAcks + 1
  BY DEF LoseACK
<1>2. /\ AckLagBounded' /\ DataInOrder' /\ CreditsFit' /\ QuietStart'
      /\ Ahead(rcvLastRecvSequence)' = Ahead(rcvLastRecvSequence)
      /\ Ahead(rcvLastSendSequence)' = a /\ Missing' = Missing
  BY <1>1 DEF LinkInv, AckLagBounded, DataInOrder, CreditsFit, QuietStart,
              DataPlaces, Ahead, Step, TriggerAckWindow, Missing
<1>3. /\ base \in Seqs /\ acks \in Seq(Acks) /\ a \in Nat /\ k \in 1..n /\ n \in Nat
      /\ Debt \in Int /\ Step \in Nat
  BY AheadType, DebtType, StepType DEF TypeOK
<1>4. /\ acks' \in Seq(Acks) /\ Len(acks') = n - 1
      /\ \A j \in 1..(n - 1) : acks'[j] = IF j < k THEN acks[j] ELSE acks[j + 1]
  <2> HIDE DEF n
  <2> QED BY <1>1, <1>3, RemoveAtValue DEF n
<1>5. /\ f \in [1..n -> Int]
      /\ \A i \in 1..n : f[i] = Distance(base, acks[i].seq)
  <2> HIDE DEF base
  <2> QED BY <1>3, AckPlacesType, Zenon
<1>6. /\ g \in [1..(n - 1) -> Int]
      /\ \A i \in 1..(n - 1) : g[i] = Distance(base, acks'[i].seq)
  <2> HIDE DEF base, g, n
  <2>1. /\ g \in [1..Len(acks') -> Int]
        /\ \A i \in 1..Len(acks') : g[i] = Distance(base, acks'[i].seq)
    BY <1>3, <1>4, AckPlacesType, Zenon DEF g
  <2> QED BY <1>4, <2>1
<1>7. \A i \in 1..(n - 1) : i \in 1..n /\ i + 1 \in 1..n
  BY <1>3
<1>8. \A i \in 1..(n - 1) : g[i] = IF i < k THEN f[i] ELSE f[i + 1]
  <2> TAKE i \in 1..(n - 1)
  <2> HIDE DEF f, g, n, base
  <2> QED BY <1>4, <1>5, <1>6, <1>7
<1>9. AckPlaces' = g
  BY <1>1 DEF AckPlaces, PlacesFrom, Ahead
<1>10. Rising(g, n - 1, a) /\ Accounted(g, n - 1, a, Debt + Step, Step)
  <2>1. Rising(f, n, a) /\ Accounted(f, n, a, Debt, Step)
    BY DEF LinkInv, AcksInOrder, LossAccounted, AckPlaces, PlacesFrom, Ahead, Debt
  <2>2. a \in Int
    BY <1>3
  <2> HIDE DEF f, g, n, a
  <2>3. Rising(g, n - 1, a)
    BY <1>3, <1>5, <1>6, <1>8, <2>1, <2>2, RisingRemove, Zenon
  <2>4. Accounted(g, n - 1, a, Debt + Step, Step)
    BY <1>3, <1>5, <1>6, <1>8, <2>1, <2>2, AccountedRemove, Zenon
  <2> QED BY <2>3, <2>4
<1>11. AcksInOrder'
  BY <1>2, <1>4, <1>9, <1>10 DEF LinkInv, AcksInOrder
<1>12. LossAccounted'
  <2>1. Step' = Step /\ lostData' = lostData
    BY <1>1 DEF Step, TriggerAckWindow
  <2>2. /\ Step * (lostAcks + 1) = Step * lostAcks + Step
        /\ Step * lostAcks \in Int /\ lostData \in Int /\ Missing \in Int
    BY <1>3, StepTimes, DebtType DEF TypeOK
  <2>3. (Step * lostAcks + lostData - Missing)' = Debt + Step
    <3>1. (Step * lostAcks + lostData - Missing)'
            = Step * (lostAcks + 1) + lostData - Missing
      BY <1>1, <1>2, <2>1
    <3> QED BY <1>3, <2>2, <3>1 DEF Debt
  <2> QED BY <1>2, <1>4, <1>9, <1>10, <2>1, <2>3 DEF LossAccounted
<1>13. WindowKnown'
  <2>1. \A i \in 1..n : acks[i].max = MaxInFlightSeqs
    BY DEF LinkInv, WindowKnown, TypeOK
  <2>2. DOMAIN acks' = 1..(n - 1)
    BY <1>4
  <2>3. \A i \in 1..(n - 1) : acks'[i] = acks[i] \/ acks'[i] = acks[i + 1]
    BY <1>4
  <2>4. \A i \in DOMAIN acks' : acks'[i].max = MaxInFlightSeqs
    <3> HIDE DEF n
    <3> QED BY <1>7, <2>1, <2>2, <2>3
  <2> QED BY <1>1, <2>4 DEF LinkInv, WindowKnown
<1> QED BY <1>2, <1>11, <1>12, <1>13 DEF FlowInv

(* Steps that move no sequence number.                                     *)
LEMMA QuietStep ==
  ASSUME LinkInv,
         UNCHANGED <<sndRing, sndLastSendSequence, sndLastRecvSequence,
                     sndMaxInFlightSeqs, sndReceiveInitial, rcvLastRecvSequence,
                     rcvLastSendSequence, rcvReceiveInitial, netVars>>
  PROVE  FlowInv'
BY DEF netVars, FlowInv, LinkInv, QuietStart, AckLagBounded, AcksInOrder,
       DataInOrder, CreditsFit, WindowKnown, LossAccounted, AckPlaces,
       DataPlaces, Missing, Ahead, Step, TriggerAckWindow

(* As long as recvACK never uses a header that was not received, every     *)
(* step keeps the order of the sequences and the account of the losses.    *)
LEMMA FlowStep ==
  ASSUME RecvErrors = FALSE
  PROVE  TypeOK /\ LinkInv /\ TypeOK' /\ RingsOK' /\ [Next]_vars => LinkInv'
<1> SUFFICES ASSUME TypeOK, LinkInv, TypeOK', RingsOK', [Next]_vars
             PROVE  FlowInv'
  BY DEF FlowInv, LinkInv
<1> USE DEF sndVars, rcvVars, netVars
<1>1. CASE RecvACK
  BY <1>1, RecvACKStep
<1>2. CASE RecvACKFailed
  BY <1>2 DEF RecvACKFailed
<1>3. CASE StopDraining
  BY <1>3, QuietStep DEF StopDraining
<1>4. CASE AcquireSend
  BY <1>4, AcquireSendStep
<1>5. ASSUME NEW h \in Handles, NEW err \in BOOLEAN, ReleaseSend(h, err)
      PROVE  FlowInv'
  BY <1>5, ReleaseSendStep
<1>6. CASE WaitRecvACK
  BY <1>6, WaitRecvACKStep
<1>7. CASE AcquireRecv
  BY <1>7, AcquireRecvStep
<1>8. CASE AcquireRecvShort
  <2>1. data # <<>> /\ data \in Seq(Datagrams)
    BY <1>8 DEF AcquireRecvShort, TypeOK
  <2>2. 1 \in DOMAIN data /\ RemoveAt(data, 1) = Tail(data)
    BY <2>1, FirstRemoved
  <2>3. sndReceiveInitial
    BY <2>1 DEF LinkInv, QuietStart
  <2> QED BY <1>8, <2>2, <2>3, LostDatagramStep DEF AcquireRecvShort
<1>9. ASSUME NEW h \in Handles, ReleaseRecv(h)
      PROVE  FlowInv'
  BY <1>9, QuietStep DEF ReleaseRecv
<1>10. ASSUME NEW i \in DOMAIN data, LoseData(i)
       PROVE  FlowInv'
  <2>1. data # <<>>
    BY DEF TypeOK
  <2>2. sndReceiveInitial
    BY <2>1 DEF LinkInv, QuietStart
  <2> QED BY <1>10, <2>2, LostDatagramStep DEF LoseData
<1>11. ASSUME NEW i \in DOMAIN acks, LoseACK(i)
       PROVE  FlowInv'
  BY <1>11, LoseACKStep
<1>12. CASE UNCHANGED vars
  BY <1>12, QuietStep DEF vars
<1> QED
  BY <1>1, <1>2, <1>3, <1>4, <1>5, <1>6, <1>7, <1>8, <1>9, <1>10, <1>11, <1>12
  DEF Next, Sender, Receiver, Network

LEMMA FlowInit == Init => LinkInv
<1> SUFFICES ASSUME Init PROVE LinkInv
  OBVIOUS
<1>1. RingsOK /\ Held(sndRing) = {}
  <2>1. RingsOK
    BY EmptyRingOK DEF Init, RingsOK
  <2>2. Held(EmptyRing) = {}
    BY DEF Held, EmptyRing
  <2> QED BY <2>1, <2>2 DEF Init
<1>2. 0 \in Seqs /\ MaxInFlightSeqs \in Nat \ {0} /\ MaxHeld \in Nat \ {0}
  BY WindowAssumption, NumBuffsAssumption DEF Seqs
<1>3. Distance(0, 0) = 0
  BY <1>2, DistanceValue
<1>4. /\ Ahead(rcvLastSendSequence) = 0 /\ Ahead(rcvLastRecvSequence) = 0
      /\ Ahead(sndLastSendSequence) = 0
  BY <1>3 DEF Init, Ahead
<1>5. /\ acks = <<ACK(0)>> /\ Len(acks) = 1 /\ DOMAIN acks = {1}
      /\ acks[1] = ACK(0) /\ ACK(0).seq = 0 /\ ACK(0).max = MaxInFlightSeqs
  BY <1>2, ACKType DEF Init
<1>6. AckPlaces[1] = 0
  BY <1>3, <1>5 DEF AckPlaces, Ahead, Init
<1>7. AcksInOrder
  BY <1>4, <1>5, <1>6 DEF AcksInOrder, Rising
<1>8. data = <<>> /\ Len(data) = 0
  BY DEF Init
<1>9. DataInOrder
  BY <1>4, <1>8 DEF DataInOrder, Spaced
<1>10. CreditsFit
  BY <1>1, <1>2, <1>4, FS_EmptySet DEF CreditsFit
<1>11. LossAccounted
  <2>1. /\ Step * 0 = 0 /\ Step * 1 = Step /\ Step * (1 - 1) = 0 /\ Step \in Nat
    BY StepType
  <2>2. Missing = 0 /\ lostAcks = 0 /\ lostData = 0
    BY <1>4, <1>8 DEF Missing, Init
  <2> QED BY <1>4, <1>5, <1>6, <2>1, <2>2 DEF LossAccounted, Accounted
<1>12. AckLagBounded
  BY <1>3, StepType DEF AckLagBounded, Init
<1>13. WindowKnown /\ QuietStart
  BY <1>1, <1>5 DEF WindowKnown, QuietStart, Init
<1> QED BY <1>1, <1>7, <1>9, <1>10, <1>11, <1>12, <1>13 DEF LinkInv

(* The inductive invariant of a link whose ACKs are read without errors:   *)
(* ACKs and datagrams under way lie in order between the sender's last ACK *)
(* and its next sequence, and every gap is accounted for by the losses.    *)
THEOREM LinkInvariant ==
  ASSUME RecvErrors = FALSE
  PROVE  Spec => []LinkInv
<1>1. Init => LinkInv
  BY FlowInit
<1>2. TypeOK /\ LinkInv /\ TypeOK' /\ RingsOK' /\ [Next]_vars => LinkInv'
  BY FlowStep
<1>3. Spec => [](TypeOK /\ RingsOK)
  BY TypeCorrect
<1> QED BY <1>1, <1>2, <1>3, PTL DEF Spec

(* acquireSend behind waitSend never lets more datagrams into the network  *)
(* than the window of the receiver, and one for every handle its caller    *)
(* holds beyond the first.                                                 *)
THEOREM WindowRespected ==
  ASSUME RecvErrors = FALSE
  PROVE  Spec => []InFlightBound
<1>1. TypeOK /\ LinkInv => InFlightBound
  <2> SUFFICES ASSUME TypeOK, LinkInv PROVE InFlightBound
    OBVIOUS
  <2>1. /\ Ahead(rcvLastRecvSequence) \in Nat /\ Ahead(sndLastSendSequence) \in Nat
        /\ Cardinality(Held(sndRing)) \in Nat /\ Len(data) \in Nat
    BY AheadType, HeldCard DEF TypeOK
  <2>2. Ahead(rcvLastRecvSequence) + Len(data) <= Ahead(sndLastSendSequence)
    BY DEF LinkInv, DataInOrder, Spaced
  <2> QED BY <2>1, <2>2, WindowAssumption DEF LinkInv, CreditsFit, InFlightBound
<1>2. Spec => []LinkInv
  BY LinkInvariant
<1> QED BY <1>1, <1>2, TypeCorrect, PTL

(* A sender that waits while nothing is under way has lost at least a      *)
(* window of sequences, less what an ACK may lag, each lost ACK counting   *)
(* for the sequences between two ACKs: a link that loses nothing never     *)
(* gets there.                                                             *)
THEOREM StallsOnlyAfterLoss ==
  ASSUME RecvErrors = FALSE
  PROVE  Spec => []StallNeedsLoss
<1>1. TypeOK /\ LinkInv => StallNeedsLoss
  <2> SUFFICES ASSUME TypeOK, LinkInv, Idle, ~ WindowOpen
               PROVE  lostData + Step * lostAcks + (Step - 1) >= MaxInFlightSeqs
    BY DEF StallNeedsLoss
  <2> DEFINE a == Ahead(rcvLastSendSequence)
             low == Ahead(rcvLastRecvSequence)
             top == Ahead(sndLastSendSequence)
  <2>1. a \in Nat /\ low \in Nat /\ top \in Nat /\ Missing \in Nat
    BY AheadType, DebtType DEF TypeOK
  <2>2. top >= MaxInFlightSeqs
    <3>1. sndReceiveInitial
      BY DEF LinkInv, QuietStart, Idle
    <3>2. sndMaxInFlightSeqs = MaxInFlightSeqs
      BY <3>1 DEF LinkInv, WindowKnown
    <3> QED BY <2>1, <3>1, <3>2, WindowAssumption DEF WindowOpen, Ahead
  <2>3. Missing = top - low
    BY <2>1 DEF Idle, Missing
  <2>4. low < a + Step
    <3>1. a <= low /\ Distance(rcvLastSendSequence, rcvLastRecvSequence) < Step
      BY DEF LinkInv, AcksInOrder, AckLagBounded
    <3>2. Distance(rcvLastSendSequence, rcvLastRecvSequence) = low - a
      BY <3>1, DistanceShift DEF Ahead, TypeOK
    <3> QED BY <2>1, <3>1, <3>2, StepType
  <2>5. a <= Step * lostAcks + lostData - Missing
    <3>1. Step * 0 = 0
      BY StepType
    <3>2. a <= Step * Len(acks) + (Step * lostAcks + lostData - Missing)
      BY DEF LinkInv, LossAccounted, Accounted
    <3>3. Step * lostAcks \in Int /\ lostData \in Nat
      BY StepType, StepTimes DEF TypeOK
    <3> HIDE DEF a
    <3> QED BY <2>1, <3>1, <3>2, <3>3 DEF Idle
  <2>6. Step * lostAcks \in Int /\ lostData \in Int /\ Step \in Nat
    BY StepType, StepTimes DEF TypeOK
  <2> HIDE DEF a, low, top
  <2> QED BY <2>1, <2>2, <2>3, <2>4, <2>5, <2>6, WindowAssumption
<1>2. Spec => []LinkInv
  BY LinkInvariant
<1> QED BY <1>1, <1>2, TypeCorrect, PTL

-----------------------------------------------------------------------------
(* What a failed recvACK leaves behind is gone with the next ACK.  Now     *)
(* sequences are placed by how far they lie behind the next one that the   *)
(* sender will use: nothing that a header did to the sender moves that.    *)
Behind(s) == Distance(s, sndLastSendSequence)

Lag == Distance(rcvLastSendSequence, rcvLastRecvSequence)

Steps(n) == Step * n

(* The places of datagrams under way, and of the last ACK read, if it was  *)
(* one, with those under way.                                              *)
DataBack(d, top) == [i \in 1..Len(d) |-> Distance(d[i].seq, top)]

AckSeq(first, a, i) == IF i = 0 THEN first ELSE a[i].seq

AcksBack(low, first, a, top) ==
  [i \in low..Len(a) |-> Distance(AckSeq(first, a, i), top)]

Oldest == IF sndAckRead THEN 0 ELSE 1

(* Datagrams f[1], ..., f[n] lie between the receiver at r and the sender, *)
(* and only lost ones are missing between them.                            *)
InFlight(f, n, r, lost) ==
  /\ n <= r /\ r <= n + lost
  /\ \A i \in 1..n : n - i + 1 <= f[i] /\ f[i] <= n - i + 1 + lost /\ f[i] <= r
  /\ \A i, j \in 1..n : i < j => f[j] < f[i]

(* ACKs f[low], ..., f[n] come before the last one sent, at s; each is at  *)
(* most a step behind for every ACK after it and every lost one.           *)
Acked(f, low, n, s, lost, rest) ==
  /\ \A i \in low..n : s <= f[i] /\ f[i] <= Steps(n - i + lost) + rest
  /\ \A i, j \in low..n : i <= j => f[j] <= f[i]

Budgets ==
  /\ lostData + lostAcks <= LossBudget
  /\ Len(acks) <= AckCap
  /\ Len(data) <= DataCap

WindowTold ==
  /\ \A i \in 1..Len(acks) : acks[i].max = MaxInFlightSeqs
  /\ sndAckRead => sndReceiveInitial /\ sndMaxInFlightSeqs = MaxInFlightSeqs

DataBehind ==
  InFlight(DataBack(data, sndLastSendSequence), Len(data),
           Behind(rcvLastRecvSequence), lostData)

AcksBehind ==
  /\ Behind(rcvLastSendSequence) = Behind(rcvLastRecvSequence) + Lag
  /\ Acked(AcksBack(Oldest, sndLastRecvSequence, acks, sndLastSendSequence), Oldest,
           Len(acks), Behind(rcvLastSendSequence), lostAcks,
           Lag + Len(data) + lostData)

HealInv == AckLagBounded /\ Budgets /\ WindowTold /\ DataBehind /\ AcksBehind

(* Distances to one end, in place of from one origin.                      *)
LEMMA DistanceBetween ==
  ASSUME NEW a \in Seqs, NEW b \in Seqs, NEW c \in Seqs,
         Distance(b, c) <= Distance(a, c)
  PROVE  Distance(a, b) = Distance(a, c) - Distance(b, c)
<1>1. Modulus \in Nat /\ a \in 0..(Modulus - 1) /\ b \in 0..(Modulus - 1)
      /\ c \in 0..(Modulus - 1)
  BY WindowAssumption DEF Seqs
<1>2. /\ Distance(a, b) = IF a <= b THEN b - a ELSE b - a + Modulus
      /\ Distance(a, c) = IF a <= c THEN c - a ELSE c - a + Modulus
      /\ Distance(b, c) = IF b <= c THEN c - b ELSE c - b + Modulus
  BY DistanceValue
<1> QED BY <1>1, <1>2

LEMMA DistanceFromNext ==
  ASSUME NEW a \in Seqs, NEW b \in Seqs, Distance(a, b) # 0
  PROVE  Distance(NextSeq(a), b) = Distance(a, b) - 1
<1>1. Modulus \in Nat /\ a \in 0..(Modulus - 1) /\ b \in 0..(Modulus - 1)
  BY WindowAssumption DEF Seqs
<1>2. /\ NextSeq(a) \in Seqs
      /\ NextSeq(a) = IF a + 1 < Modulus THEN a + 1 ELSE 0
  BY NextSeqValue
<1>3. /\ Distance(a, b) = IF a <= b THEN b - a ELSE b - a + Modulus
      /\ Distance(NextSeq(a), b) = IF NextSeq(a) <= b THEN b - NextSeq(a)
                                  ELSE b - NextSeq(a) + Modulus
  BY <1>2, DistanceValue
<1> QED BY <1>1, <1>2, <1>3

LEMMA DistanceNat ==
  ASSUME NEW a \in Seqs, NEW b \in Seqs
  PROVE  Distance(a, b) \in Nat /\ Distance(a, a) = 0
<1>1. Distance(a, b) \in Seqs /\ Distance(a, a) = IF a <= a THEN a - a ELSE a - a + Modulus
  BY DistanceValue, Zenon
<1>2. Seqs \subseteq Nat
  BY WindowAssumption DEF Seqs
<1>3. a \in Nat
  BY <1>2
<1>4. Distance(a, a) = 0
  BY <1>1, <1>3, WindowAssumption
<1> QED BY <1>1, <1>2, <1>4

LEMMA StepsRise ==
  ASSUME NEW m \in Nat, NEW n \in Nat, m <= n
  PROVE  /\ Steps(m) \in Nat /\ Steps(n) \in Nat /\ Steps(m) <= Steps(n)
         /\ Steps(m + 1) = Steps(m) + Step
<1>1. Step \in Nat /\ n - m \in Nat /\ n = m + (n - m)
  BY StepType
<1>2. ASSUME NEW x \in Nat, NEW y \in Nat, NEW step \in Nat
      PROVE  step * x \in Nat /\ step * (x + y) = step * x + step * y
  OBVIOUS
<1>3. ASSUME NEW x \in Nat
      PROVE  Step * x \in Nat /\ Step * (m + x) = Step * m + Step * x
  BY <1>1, <1>2
<1>4. Step * n = Step * m + Step * (n - m) /\ Step * (n - m) \in Nat /\ Step * m \in Nat
  BY <1>1, <1>3
<1>5. Step * (m + 1) = Step * m + Step
  BY <1>1, StepTimes
<1> QED BY <1>3, <1>4, <1>5 DEF Steps

LEMMA StepsNat ==
  ASSUME NEW n \in Nat
  PROVE  Steps(n) \in Nat /\ Steps(n + 1) = Steps(n) + Step
<1>1. n <= n
  OBVIOUS
<1> QED BY <1>1, StepsRise, Zenon

-----------------------------------------------------------------------------
(* How the places behind survive the operations on the channels.           *)
LEMMA BothNext ==
  ASSUME NEW x \in Int, NEW y \in Int, x < y
  PROVE  x + 1 < y + 1
OBVIOUS

LEMMA FlightAppend ==
  ASSUME NEW n \in Nat, NEW f \in [1..n -> Int], NEW g \in [1..(n + 1) -> Int],
         NEW r \in Int, NEW lost \in Nat, InFlight(f, n, r, lost),
         \A i \in 1..n : g[i] = f[i] + 1, g[n + 1] = 1
  PROVE  InFlight(g, n + 1, r + 1, lost)
<1>1. ASSUME NEW i \in 1..(n + 1)
      PROVE  /\ (n + 1) - i + 1 <= g[i] /\ g[i] <= (n + 1) - i + 1 + lost
             /\ g[i] <= r + 1
  <2>1. CASE i \in 1..n
    <3>1. n - i + 1 <= f[i] /\ f[i] <= n - i + 1 + lost /\ f[i] <= r
      BY <2>1 DEF InFlight
    <3>2. g[i] = f[i] + 1 /\ f[i] \in Int
      BY <2>1
    <3> QED BY <3>1, <3>2, SMTT(30)
  <2>2. CASE i = n + 1
    BY <2>2 DEF InFlight
  <2> QED BY <2>1, <2>2
<1>2. ASSUME NEW i \in 1..(n + 1), NEW j \in 1..(n + 1), i < j
      PROVE  g[j] < g[i]
  <2>1. i \in 1..n /\ g[i] = f[i] + 1 /\ f[i] \in Int /\ n - i + 1 <= f[i]
    BY <1>2 DEF InFlight
  <2>2. CASE j \in 1..n
    <3>1. f[j] < f[i] /\ g[j] = f[j] + 1 /\ f[j] \in Int
      BY <1>2, <2>1, <2>2 DEF InFlight
    <3>2. f[j] + 1 < f[i] + 1
      BY <2>1, <3>1, BothNext, Zenon
    <3> QED BY <2>1, <3>1, <3>2, Zenon
  <2>3. CASE j = n + 1
    BY <2>1, <2>3
  <2> QED BY <2>2, <2>3
<1> QED BY <1>1, <1>2 DEF InFlight

LEMMA FlightTail ==
  ASSUME NEW n \in Nat, n # 0, NEW f \in [1..n -> Int],
         NEW g \in [1..(n - 1) -> Int], NEW r \in Int, NEW lost \in Nat,
         InFlight(f, n, r, lost), \A i \in 1..(n - 1) : g[i] = f[i + 1]
  PROVE  /\ InFlight(g, n - 1, f[1] - 1, lost)
         /\ f[1] <= r /\ n <= f[1] /\ f[1] <= n + lost
<1>1. 1 \in 1..n /\ f[1] \in Int
  OBVIOUS
<1>2. f[1] <= r /\ n - 1 + 1 <= f[1] /\ f[1] <= n - 1 + 1 + lost
  BY <1>1 DEF InFlight
<1>3. ASSUME NEW i \in 1..(n - 1)
      PROVE  /\ (n - 1) - i + 1 <= g[i] /\ g[i] <= (n - 1) - i + 1 + lost
             /\ g[i] <= f[1] - 1
  <2>1. i + 1 \in 1..n /\ 1 < i + 1 /\ f[i + 1] \in Int
    OBVIOUS
  <2>2. /\ n - (i + 1) + 1 <= f[i + 1] /\ f[i + 1] <= n - (i + 1) + 1 + lost
        /\ f[i + 1] < f[1]
    BY <1>1, <2>1 DEF InFlight
  <2> QED BY <1>1, <2>1, <2>2, SMTT(30)
<1>4. ASSUME NEW i \in 1..(n - 1), NEW j \in 1..(n - 1), i < j
      PROVE  g[j] < g[i]
  <2>1. i + 1 \in 1..n /\ j + 1 \in 1..n /\ i + 1 < j + 1
    BY <1>4
  <2> QED BY <2>1 DEF InFlight
<1> QED BY <1>1, <1>2, <1>3, <1>4 DEF InFlight

LEMMA FlightRemove ==
  ASSUME NEW n \in Nat, NEW k \in 1..n, NEW f \in [1..n -> Int],
         NEW g \in [1..(n - 1) -> Int], NEW r \in Int, NEW lost \in Nat,
         InFlight(f, n, r, lost),
         \A i \in 1..(n - 1) : g[i] = IF i < k THEN f[i] ELSE f[i + 1]
  PROVE  InFlight(g, n - 1, r, lost + 1)
<1>1. ASSUME NEW i \in 1..(n - 1)
      PROVE  /\ (n - 1) - i + 1 <= g[i] /\ g[i] <= (n - 1) - i + 1 + (lost + 1)
             /\ g[i] <= r
  <2>1. i \in 1..n /\ i + 1 \in 1..n /\ f[i] \in Int /\ f[i + 1] \in Int
    OBVIOUS
  <2>2. /\ n - i + 1 <= f[i] /\ f[i] <= n - i + 1 + lost /\ f[i] <= r
        /\ n - (i + 1) + 1 <= f[i + 1] /\ f[i + 1] <= n - (i + 1) + 1 + lost
        /\ f[i + 1] <= r
    BY <2>1 DEF InFlight
  <2>3. g[i] = f[i] \/ g[i] = f[i + 1]
    OBVIOUS
  <2>4. /\ (n - 1) - i + 1 <= f[i] /\ f[i] <= (n - 1) - i + 1 + (lost + 1)
        /\ (n - 1) - i + 1 <= f[i + 1] /\ f[i + 1] <= (n - 1) - i + 1 + (lost + 1)
    BY <2>1, <2>2, SMTT(30)
  <2> QED BY <2>2, <2>3, <2>4, Zenon
<1>2. ASSUME NEW i \in 1..(n - 1), NEW j \in 1..(n - 1), i < j
      PROVE  g[j] < g[i]
  <2>1. /\ i \in 1..n /\ i + 1 \in 1..n /\ j \in 1..n /\ j + 1 \in 1..n
        /\ i < j + 1 /\ i + 1 < j + 1
    BY <1>2
  <2>2. f[j] < f[i] /\ f[j + 1] < f[i] /\ f[j + 1] < f[i + 1]
    BY <1>2, <2>1 DEF InFlight
  <2>3. /\ g[i] = IF i < k THEN f[i] ELSE f[i + 1]
        /\ g[j] = IF j < k THEN f[j] ELSE f[j + 1]
    OBVIOUS
  <2>4. ~ (j < k) \/ i < k
    BY <1>2
  <2> QED BY <2>2, <2>3, <2>4, Zenon
<1>3. n - 1 <= r /\ r <= (n - 1) + (lost + 1)
  BY DEF InFlight
<1> QED BY <1>1, <1>2, <1>3 DEF InFlight

LEMMA AckedShift ==
  ASSUME NEW low \in {0, 1}, NEW n \in Nat, NEW f \in [low..n -> Int],
         NEW g \in [low..n -> Int], NEW s \in Int, NEW lost \in Nat, NEW rest \in Int,
         Acked(f, low, n, s, lost, rest), \A i \in low..n : g[i] = f[i] + 1
  PROVE  Acked(g, low, n, s + 1, lost, rest + 1)
<1>1. ASSUME NEW i \in low..n
      PROVE  s + 1 <= g[i] /\ g[i] <= Steps(n - i + lost) + (rest + 1)
  <2>1. s <= f[i] /\ f[i] <= Steps(n - i + lost) + rest
    BY DEF Acked
  <2>2. n - i + lost \in Nat /\ f[i] \in Int
    OBVIOUS
  <2>3. Steps(n - i + lost) \in Nat
    BY <2>2, StepsNat, Zenon
  <2> QED BY <2>1, <2>2, <2>3, SMTT(30)
<1>2. \A i, j \in low..n : i <= j => g[j] <= g[i]
  BY DEF Acked
<1> QED BY <1>1, <1>2 DEF Acked

LEMMA AckedTail ==
  ASSUME NEW low \in {0, 1}, NEW n \in Nat, n # 0, NEW f \in [low..n -> Int],
         NEW g \in [0..(n - 1) -> Int], NEW s \in Int, NEW lost \in Nat,
         NEW rest \in Int, Acked(f, low, n, s, lost, rest),
         \A i \in 0..(n - 1) : g[i] = f[i + 1]
  PROVE  Acked(g, 0, n - 1, s, lost, rest)
<1>1. ASSUME NEW i \in 0..(n - 1)
      PROVE  s <= g[i] /\ g[i] <= Steps((n - 1) - i + lost) + rest
  <2>1. i + 1 \in low..n /\ n - (i + 1) + lost = (n - 1) - i + lost
    OBVIOUS
  <2> QED BY <2>1 DEF Acked
<1>2. ASSUME NEW i \in 0..(n - 1), NEW j \in 0..(n - 1), i <= j
      PROVE  g[j] <= g[i]
  <2>1. i + 1 \in low..n /\ j + 1 \in low..n /\ i + 1 <= j + 1
    BY <1>2
  <2> QED BY <2>1 DEF Acked
<1> QED BY <1>1, <1>2 DEF Acked

LEMMA AckedForget ==
  ASSUME NEW low \in {0, 1}, NEW n \in Nat, NEW f \in [low..n -> Int],
         NEW g \in [1..n -> Int], NEW s \in Int, NEW lost \in Nat, NEW rest \in Int,
         Acked(f, low, n, s, lost, rest), \A i \in 1..n : g[i] = f[i]
  PROVE  Acked(g, 1, n, s, lost, rest)
<1>1. \A i \in 1..n : i \in low..n
  OBVIOUS
<1> QED BY <1>1 DEF Acked

LEMMA AckedMore ==
  ASSUME NEW low \in {0, 1}, NEW n \in Nat, NEW f \in [low..n -> Int], NEW s \in Int,
         NEW lost \in Nat, NEW rest \in Int, NEW more \in Int, rest <= more,
         Acked(f, low, n, s, lost, rest)
  PROVE  Acked(f, low, n, s, lost, more)
<1>1. ASSUME NEW i \in low..n
      PROVE  s <= f[i] /\ f[i] <= Steps(n - i + lost) + more
  <2>1. n - i + lost \in Nat /\ f[i] \in Int
    OBVIOUS
  <2>2. Steps(n - i + lost) \in Nat
    BY <2>1, StepsNat, Zenon
  <2>3. s <= f[i] /\ f[i] <= Steps(n - i + lost) + rest
    BY DEF Acked
  <2> QED BY <2>1, <2>2, <2>3
<1> QED BY <1>1 DEF Acked

LEMMA AckedAppend ==
  ASSUME NEW low \in {0, 1}, NEW n \in Nat, NEW f \in [low..n -> Int],
         NEW g \in [low..(n + 1) -> Int], NEW s \in Int, NEW new \in Int,
         NEW lost \in Nat, NEW rest \in Int, NEW left \in Int,
         Acked(f, low, n, s, lost, rest),
         new <= s, new <= left, rest <= left + Step,
         \A i \in low..n : g[i] = f[i], g[n + 1] = new
  PROVE  Acked(g, low, n + 1, new, lost, left)
<1>1. ASSUME NEW i \in low..(n + 1)
      PROVE  new <= g[i] /\ g[i] <= Steps((n + 1) - i + lost) + left
  <2>1. CASE i \in low..n
    <3>1. n - i + lost \in Nat /\ f[i] \in Int /\ (n + 1) - i + lost = (n - i + lost) + 1
      BY <2>1
    <3>2. /\ Steps(n - i + lost) \in Nat
          /\ Steps((n - i + lost) + 1) = Steps(n - i + lost) + Step
      BY <3>1, StepsNat, Zenon
    <3>3. s <= f[i] /\ f[i] <= Steps(n - i + lost) + rest /\ g[i] = f[i]
      BY <2>1 DEF Acked
    <3> QED BY <3>1, <3>2, <3>3, StepType, SMTT(30)
  <2>2. CASE i = n + 1
    <3>1. (n + 1) - i + lost = lost
      BY <2>2
    <3>2. Steps(lost) \in Nat
      BY StepsNat, Zenon
    <3> QED BY <2>2, <3>1, <3>2
  <2> QED BY <2>1, <2>2
<1>2. ASSUME NEW i \in low..(n + 1), NEW j \in low..(n + 1), i <= j
      PROVE  g[j] <= g[i]
  <2>1. CASE j \in low..n
    <3>1. i \in low..n
      BY <1>2, <2>1
    <3> QED BY <1>2, <2>1, <3>1 DEF Acked
  <2>2. CASE j = n + 1
    BY <1>1, <2>2
  <2> QED BY <2>1, <2>2
<1> QED BY <1>1, <1>2 DEF Acked

LEMMA AckedRemove ==
  ASSUME NEW low \in {0, 1}, NEW n \in Nat, NEW k \in 1..n, NEW f \in [low..n -> Int],
         NEW g \in [low..(n - 1) -> Int], NEW s \in Int, NEW lost \in Nat,
         NEW rest \in Int, Acked(f, low, n, s, lost, rest),
         \A i \in low..(n - 1) : g[i] = IF i < k THEN f[i] ELSE f[i + 1]
  PROVE  Acked(g, low, n - 1, s, lost + 1, rest)
<1>1. ASSUME NEW i \in low..(n - 1)
      PROVE  s <= g[i] /\ g[i] <= Steps((n - 1) - i + (lost + 1)) + rest
  <2>1. /\ i \in low..n /\ i + 1 \in low..n /\ f[i] \in Int /\ f[i + 1] \in Int
        /\ (n - 1) - i + (lost + 1) = n - i + lost
    OBVIOUS
  <2>2. /\ s <= f[i] /\ f[i] <= Steps(n - i + lost) + rest
        /\ s <= f[i + 1] /\ f[i + 1] <= f[i]
    BY <2>1 DEF Acked
  <2>3. n - i + lost \in Nat
    BY <2>1
  <2>4. Steps(n - i + lost) \in Nat
    BY <2>3, StepsNat, Zenon
  <2>5. g[i] = f[i] \/ g[i] = f[i + 1]
    OBVIOUS
  <2> QED BY <2>1, <2>2, <2>4, <2>5
<1>2. ASSUME NEW i \in low..(n - 1), NEW j \in low..(n - 1), i <= j
      PROVE  g[j] <= g[i]
  <2>1. /\ i \in low..n /\ i + 1 \in low..n /\ j \in low..n /\ j + 1 \in low..n
        /\ i <= j + 1 /\ i + 1 <= j + 1
    BY <1>2
  <2>2. f[j] <= f[i] /\ f[j + 1] <= f[i] /\ f[j + 1] <= f[i + 1]
    BY <1>2, <2>1 DEF Acked
  <2>3. /\ g[i] = IF i < k THEN f[i] ELSE f[i + 1]
        /\ g[j] = IF j < k THEN f[j] ELSE f[j + 1]
    OBVIOUS
  <2>4. ~ (j < k) \/ i < k
    BY <1>2
  <2> QED BY <2>2, <2>3, <2>4, Zenon
<1> QED BY <1>1, <1>2 DEF Acked

(* The receiver never owes an ACK, whatever is lost and whatever fails.    *)
LEMMA AckLagStep ==
  ASSUME TypeOK, AckLagBounded, [Next]_vars
  PROVE  AckLagBounded'
<1> USE DEF sndVars, rcvVars, netVars
<1>1. Step' = Step /\ Step \in Nat \ {0} /\ TriggerAckWindow \in Nat
  BY StepType DEF Step, TriggerAckWindow
<1>2. ASSUME NEW s \in Seqs
      PROVE  Distance(s, s) = 0
  BY DistanceValue, WindowAssumption DEF Seqs
<1>3. CASE WaitRecvACK
  BY <1>1, <1>2, <1>3 DEF WaitRecvACK, AckLagBounded, TypeOK
<1>4. CASE AcquireRecv
  <2> DEFINE next == NextSeq(Head(data).seq)
  <2>1. next \in Seqs
    <3>1. Head(data) \in Datagrams
      BY <1>4, TailValue DEF AcquireRecv, TypeOK
    <3> QED BY <3>1, NextSeqValue DEF Datagrams
  <2>2. CASE AckDue(next)
    <3>1. rcvLastSendSequence' = next /\ rcvLastRecvSequence' = next
      BY <1>4, <2>2 DEF AcquireRecv
    <3> HIDE DEF next
    <3> QED BY <1>1, <1>2, <2>1, <3>1 DEF AckLagBounded
  <2>3. CASE ~ AckDue(next)
    <3>1. /\ rcvLastSendSequence' = rcvLastSendSequence
          /\ rcvLastRecvSequence' = next
      BY <1>4, <2>3 DEF AcquireRecv
    <3>2. Distance(rcvLastSendSequence, next) \in Nat
      <4>1. Distance(rcvLastSendSequence, next) \in Seqs
        BY <2>1, DistanceValue DEF TypeOK
      <4> HIDE DEF next
      <4> QED BY <4>1, WindowAssumption DEF Seqs
    <3>3. Distance(rcvLastSendSequence, next) < TriggerAckWindow
      BY <1>1, <2>3, <3>2 DEF AckDue
    <3>4. TriggerAckWindow = Step
      BY <1>1, <3>2, <3>3 DEF Step
    <3> QED BY <1>1, <3>1, <3>3, <3>4 DEF AckLagBounded
  <2> QED BY <2>2, <2>3
<1>5. CASE UNCHANGED <<rcvLastSendSequence, rcvLastRecvSequence>>
  BY <1>1, <1>5 DEF AckLagBounded
<1> QED
  BY <1>3, <1>4, <1>5
  DEF Next, Sender, Receiver, Network, RecvACK, RecvACKFailed, StopDraining,
      AcquireSend, ReleaseSend, AcquireRecvShort, ReleaseRecv, LoseData,
      LoseACK, vars

-----------------------------------------------------------------------------
(* The places of a channel, and of where both ends are.                    *)
LEMMA DataBackType ==
  ASSUME NEW d \in Seq(Datagrams), NEW top \in Seqs
  PROVE  /\ DataBack(d, top) \in [1..Len(d) -> Int]
         /\ \A i \in 1..Len(d) : DataBack(d, top)[i] = Distance(d[i].seq, top)
<1>1. \A i \in 1..Len(d) : Distance(d[i].seq, top) \in Int
  <2> TAKE i \in 1..Len(d)
  <2>1. d[i] \in Datagrams
    OBVIOUS
  <2>2. Distance(d[i].seq, top) \in Nat
    BY <2>1, ChannelSeqs, DistanceNat, Zenon
  <2> QED BY <2>2
<1> QED BY <1>1 DEF DataBack

LEMMA AcksBackType ==
  ASSUME NEW low \in {0, 1}, NEW first \in Seqs, NEW a \in Seq(Acks), NEW top \in Seqs
  PROVE  /\ AcksBack(low, first, a, top) \in [low..Len(a) -> Int]
         /\ \A i \in low..Len(a) :
              /\ AckSeq(first, a, i) \in Seqs
              /\ AcksBack(low, first, a, top)[i] = Distance(AckSeq(first, a, i), top)
<1>1. \A i \in low..Len(a) :
        AckSeq(first, a, i) \in Seqs /\ Distance(AckSeq(first, a, i), top) \in Int
  <2> TAKE i \in low..Len(a)
  <2>1. i = 0 \/ a[i] \in Acks
    <3>1. i = 0 \/ i \in 1..Len(a)
      OBVIOUS
    <3> QED BY <3>1
  <2>2. AckSeq(first, a, i) \in Seqs
    BY <2>1, ChannelSeqs, Zenon DEF AckSeq
  <2>3. Distance(AckSeq(first, a, i), top) \in Nat
    BY <2>2, DistanceNat
  <2> QED BY <2>2, <2>3
<1> QED BY <1>1 DEF AcksBack

LEMMA BehindType ==
  ASSUME TypeOK
  PROVE  /\ Behind(rcvLastRecvSequence) \in Nat /\ Behind(rcvLastSendSequence) \in Nat
         /\ Lag \in Nat /\ Len(data) \in Nat /\ Len(acks) \in Nat
         /\ lostData \in Nat /\ lostAcks \in Nat /\ Oldest \in {0, 1}
         /\ sndLastSendSequence \in Seqs /\ sndLastRecvSequence \in Seqs
         /\ rcvLastRecvSequence \in Seqs /\ rcvLastSendSequence \in Seqs
         /\ data \in Seq(Datagrams) /\ acks \in Seq(Acks)
<1>1. /\ sndLastSendSequence \in Seqs /\ sndLastRecvSequence \in Seqs
      /\ rcvLastRecvSequence \in Seqs /\ rcvLastSendSequence \in Seqs
      /\ data \in Seq(Datagrams) /\ acks \in Seq(Acks)
      /\ lostData \in Nat /\ lostAcks \in Nat
  BY DEF TypeOK
<1>2. /\ Behind(rcvLastRecvSequence) \in Nat /\ Behind(rcvLastSendSequence) \in Nat
      /\ Lag \in Nat
  BY <1>1, DistanceNat, Zenon DEF Behind, Lag
<1>3. Len(data) \in Nat /\ Len(acks) \in Nat
  BY <1>1
<1>4. Oldest \in {0, 1}
  BY DEF Oldest
<1> QED BY <1>1, <1>2, <1>3, <1>4, Zenon

(* What the places are about, spelled out once.                            *)
LEMMA Places ==
  ASSUME TypeOK, HealInv
  PROVE  LET f == DataBack(data, sndLastSendSequence)
             g == AcksBack(Oldest, sndLastRecvSequence, acks, sndLastSendSequence)
         IN  /\ f \in [1..Len(data) -> Int] /\ g \in [Oldest..Len(acks) -> Int]
             /\ \A i \in 1..Len(data) : f[i] = Behind(data[i].seq)
             /\ \A i \in Oldest..Len(acks) :
                  g[i] = Behind(AckSeq(sndLastRecvSequence, acks, i))
             /\ InFlight(f, Len(data), Behind(rcvLastRecvSequence), lostData)
             /\ Acked(g, Oldest, Len(acks), Behind(rcvLastSendSequence), lostAcks,
                      Lag + Len(data) + lostData)
             /\ Behind(rcvLastSendSequence) = Behind(rcvLastRecvSequence) + Lag
             /\ Lag + 1 <= Step
<1>1. /\ Oldest \in {0, 1} /\ sndLastSendSequence \in Seqs /\ sndLastRecvSequence \in Seqs
      /\ data \in Seq(Datagrams) /\ acks \in Seq(Acks) /\ Lag \in Nat
  BY BehindType, Zenon
<1>2. Lag + 1 <= Step
  BY <1>1, StepType DEF HealInv, AckLagBounded, Lag
<1> QED
  BY <1>1, <1>2, DataBackType, AcksBackType, Zenon DEF HealInv, DataBehind, AcksBehind, Behind

(* Steps of the sending end that move no sequence under way.               *)
LEMMA QuietHeals ==
  ASSUME HealInv,
         UNCHANGED <<sndLastSendSequence, sndLastRecvSequence, sndAckRead,
                     rcvLastRecvSequence, rcvLastSendSequence, netVars>>
  PROVE  DataBehind' /\ AcksBehind'
BY DEF netVars, HealInv, DataBehind, AcksBehind, Behind, Lag, Oldest, DataBack,
       AcksBack, AckSeq, Acked, Steps, Step, TriggerAckWindow

(* Everything moves one place back; the bounds of the channels keep the    *)
(* oldest from coming round.                                               *)
LEMMA ReleaseSendHeals ==
  ASSUME Reach < Modulus, TypeOK, HealInv, TypeOK', Budgets',
         NEW h \in Handles, NEW err \in BOOLEAN, ReleaseSend(h, err)
  PROVE  DataBehind' /\ AcksBehind'
<1> DEFINE top == sndLastSendSequence
           n == Len(data)
           m == Len(acks)
           r == Behind(rcvLastRecvSequence)
           s == Behind(rcvLastSendSequence)
           first == sndLastRecvSequence
           rest == Lag + n + lostData
           f == DataBack(data, top)
           g == AcksBack(Oldest, first, acks, top)
           ff == DataBack(data', top')
           gg == AcksBack(Oldest, first, acks, top')
<1>1. /\ UNCHANGED <<sndLastRecvSequence, sndAckRead, rcvLastRecvSequence,
                     rcvLastSendSequence, acks, lostData, lostAcks>>
      /\ data' = Append(data, [seq |-> top, err |-> err]) /\ top' = NextSeq(top)
  BY DEF ReleaseSend, rcvVars
<1>2. /\ n \in Nat /\ m \in Nat /\ r \in Nat /\ s \in Nat /\ Lag \in Nat
      /\ lostData \in Nat /\ lostAcks \in Nat /\ Oldest \in {0, 1}
      /\ top \in Seqs /\ first \in Seqs /\ data \in Seq(Datagrams) /\ acks \in Seq(Acks)
      /\ rcvLastRecvSequence \in Seqs /\ rcvLastSendSequence \in Seqs /\ top' \in Seqs
      /\ rest \in Int /\ r \in Int /\ s \in Int
  <2>1. top' \in Seqs
    BY DEF TypeOK
  <2>2. Lag + n + lostData \in Int
    BY BehindType
  <2> QED BY <2>1, <2>2, BehindType
<1>3. /\ f \in [1..n -> Int] /\ g \in [Oldest..m -> Int]
      /\ \A i \in 1..n : f[i] = Distance(data[i].seq, top)
      /\ \A i \in Oldest..m : g[i] = Distance(AckSeq(first, acks, i), top)
      /\ InFlight(f, n, r, lostData) /\ Acked(g, Oldest, m, s, lostAcks, rest)
      /\ s = r + Lag /\ Lag + 1 <= Step
  BY Places, Zenon DEF Behind
<1>4. /\ data' \in Seq(Datagrams) /\ Len(data') = n + 1
      /\ \A i \in 1..n : data'[i] = data[i]
      /\ data'[n + 1].seq = top
  <2>1. [seq |-> top, err |-> err] \in Datagrams
    BY <1>2 DEF Datagrams
  <2> HIDE DEF top
  <2> QED BY <1>1, <1>2, <2>1, AppendValue
<1>5. /\ LossBudget \in Nat /\ AckCap \in Nat /\ DataCap \in Nat /\ Modulus \in Nat
      /\ Step \in Nat /\ n + 1 <= DataCap /\ m <= AckCap
      /\ lostData <= LossBudget /\ lostAcks <= LossBudget
  <2>1. lostData + lostAcks <= LossBudget /\ m <= AckCap
    BY DEF HealInv, Budgets
  <2>2. n + 1 <= DataCap
    BY <1>4 DEF Budgets
  <2> HIDE DEF n, m
  <2> QED BY <1>2, <2>1, <2>2, WindowAssumption, StepType
<1>6. /\ Steps(AckCap + LossBudget) + rest + 1 < Modulus
      /\ Steps(AckCap + LossBudget) \in Nat
  <2>1. AckCap + LossBudget \in Nat
    BY <1>5
  <2>2. /\ Steps(AckCap + LossBudget) \in Nat
        /\ Steps(AckCap + LossBudget + 1) = Steps(AckCap + LossBudget) + Step
    BY <2>1, StepsNat, Zenon
  <2>3. Steps(AckCap + LossBudget + 1) + DataCap + LossBudget < Modulus
    BY DEF Reach, Steps
  <2> HIDE DEF n, m, r, s, f, g
  <2>4. rest + 1 <= Step + DataCap + LossBudget
    BY <1>2, <1>3, <1>5
  <2> HIDE DEF rest
  <2> QED BY <1>2, <1>5, <2>2, <2>3, <2>4
<1>7. ASSUME NEW x \in Seqs, Distance(x, top) + 1 < Modulus
      PROVE  Distance(x, top') = Distance(x, top) + 1
  BY <1>1, <1>2, <1>7, DistanceNext, Zenon
<1>8. Distance(top, top') = 1
  <2>1. Distance(top, top) = 0
    BY <1>2, DistanceNat, Zenon
  <2>2. 0 + 1 < Modulus /\ 0 + 1 = 1
    BY WindowAssumption
  <2> QED BY <1>2, <1>7, <2>1, <2>2, Zenon
<1> HIDE DEF n, m, r, s, rest, f, g, ff, gg, top, first
<1>9. /\ r + 1 < Modulus /\ s + 1 < Modulus
  <2>1. r <= n + lostData
    BY <1>3 DEF InFlight
  <2>2. r + Lag <= rest
    BY <1>2, <2>1 DEF rest
  <2> QED BY <1>2, <1>3, <1>5, <1>6, <2>2
<1>10. Behind(rcvLastRecvSequence)' = r + 1 /\ Behind(rcvLastSendSequence)' = s + 1
  BY <1>1, <1>2, <1>7, <1>9, Zenon DEF r, s, top, Behind
<1>11. /\ ff \in [1..(n + 1) -> Int] /\ gg \in [Oldest..m -> Int]
       /\ \A i \in 1..(n + 1) : ff[i] = Distance(data'[i].seq, top')
       /\ \A i \in Oldest..m : /\ AckSeq(first, acks, i) \in Seqs
                               /\ gg[i] = Distance(AckSeq(first, acks, i), top')
  <2>1. /\ ff \in [1..Len(data') -> Int]
        /\ \A i \in 1..Len(data') : ff[i] = Distance(data'[i].seq, top')
    BY <1>2, <1>4, DataBackType, Zenon DEF ff
  <2>2. /\ gg \in [Oldest..Len(acks) -> Int]
        /\ \A i \in Oldest..Len(acks) :
             /\ AckSeq(first, acks, i) \in Seqs
             /\ gg[i] = Distance(AckSeq(first, acks, i), top')
    BY <1>2, AcksBackType, Zenon DEF gg
  <2> QED BY <1>4, <2>1, <2>2, Zenon DEF m
<1>12. ff[n + 1] = 1 /\ \A i \in 1..n : ff[i] = f[i] + 1
  <2>1. n + 1 \in 1..(n + 1) /\ \A i \in 1..n : i \in 1..(n + 1)
    BY <1>2
  <2>2. ASSUME NEW i \in 1..n
        PROVE  ff[i] = f[i] + 1
    <3>1. f[i] <= r /\ f[i] \in Int
      BY <1>3 DEF InFlight
    <3>2. f[i] + 1 < Modulus
      BY <1>2, <1>5, <1>9, <3>1
    <3>3. data[i].seq \in Seqs
      <4>1. data[i] \in Datagrams
        BY <1>2 DEF n
      <4> QED BY <4>1, ChannelSeqs, Zenon
    <3> QED BY <1>3, <1>4, <1>7, <1>11, <2>1, <3>2, <3>3, Zenon
  <2> QED BY <1>4, <1>8, <1>11, <2>1, <2>2, Zenon
<1>13. \A i \in Oldest..m : gg[i] = g[i] + 1
  <2> TAKE i \in Oldest..m
  <2>1. g[i] <= Steps(m - i + lostAcks) + rest /\ g[i] \in Int
    BY <1>3 DEF Acked
  <2>2. m - i + lostAcks \in Nat /\ m - i + lostAcks <= AckCap + LossBudget
        /\ AckCap + LossBudget \in Nat
    BY <1>2, <1>5
  <2>3. Steps(m - i + lostAcks) <= Steps(AckCap + LossBudget)
        /\ Steps(m - i + lostAcks) \in Nat
    BY <2>2, StepsRise, Zenon
  <2>4. g[i] + 1 < Modulus
    BY <1>2, <1>5, <1>6, <2>1, <2>3
  <2> QED BY <1>3, <1>7, <1>11, <2>4, Zenon
<1>14. InFlight(ff, n + 1, r + 1, lostData)
  BY <1>2, <1>3, <1>11, <1>12, FlightAppend, Zenon
<1>15. Acked(gg, Oldest, m, s + 1, lostAcks, rest + 1)
  BY <1>2, <1>3, <1>11, <1>13, AckedShift, Zenon
<1>16. DataBehind'
  BY <1>1, <1>4, <1>10, <1>14, Zenon DEF DataBehind, ff, top
<1>17. AcksBehind'
  <2>1. s + 1 = (r + 1) + Lag /\ rest + 1 = Lag + (n + 1) + lostData
    BY <1>2, <1>3 DEF rest
  <2>2. /\ Oldest' = Oldest /\ Lag' = Lag /\ lostAcks' = lostAcks /\ lostData' = lostData
        /\ Len(acks') = m /\ Len(data') = n + 1
        /\ AcksBack(Oldest, sndLastRecvSequence, acks, sndLastSendSequence)' = gg
    BY <1>1, <1>4 DEF Oldest, Lag, m, gg, first, top, AcksBack, AckSeq
  <2> QED BY <1>10, <1>15, <2>1, <2>2 DEF AcksBehind
<1> QED BY <1>16, <1>17

(* The ACK that is read takes the place of the last one, whatever was      *)
(* there.                                                                  *)
LEMMA RecvACKHeals ==
  ASSUME TypeOK, HealInv, TypeOK', RecvACK
  PROVE  DataBehind' /\ AcksBehind'
<1> DEFINE top == sndLastSendSequence
           m == Len(acks)
           s == Behind(rcvLastSendSequence)
           first == sndLastRecvSequence
           rest == Lag + Len(data) + lostData
           g == AcksBack(Oldest, first, acks, top)
           gg == AcksBack(0, first', acks', top)
<1>1. /\ UNCHANGED <<sndLastSendSequence, rcvLastRecvSequence, rcvLastSendSequence,
                     data, lostData, lostAcks>>
      /\ acks # <<>> /\ acks' = Tail(acks) /\ first' = Head(acks).seq /\ sndAckRead' = TRUE
  BY DEF RecvACK, rcvVars
<1>2. /\ m \in Nat /\ s \in Int /\ lostAcks \in Nat /\ Oldest \in {0, 1} /\ top \in Seqs
      /\ acks \in Seq(Acks) /\ acks' \in Seq(Acks) /\ first' \in Seqs
      /\ rest \in Int
  <2>1. acks' \in Seq(Acks) /\ first' \in Seqs
    BY DEF TypeOK
  <2>2. Lag + Len(data) + lostData \in Int
    BY BehindType
  <2> QED BY <2>1, <2>2, BehindType
<1>3. /\ g \in [Oldest..m -> Int]
      /\ \A i \in Oldest..m : g[i] = Distance(AckSeq(first, acks, i), top)
      /\ Acked(g, Oldest, m, s, lostAcks, rest)
  BY Places, Zenon DEF Behind
<1>4. /\ m # 0 /\ Len(acks') = m - 1 /\ acks[1].seq = first'
      /\ \A i \in 1..(m - 1) : acks'[i] = acks[i + 1]
  <2>1. /\ Head(acks) = acks[1] /\ Len(Tail(acks)) = Len(acks) - 1
        /\ \A j \in 1..(Len(acks) - 1) : Tail(acks)[j] = acks[j + 1]
    BY <1>1, <1>2, TailValue, Zenon
  <2>2. m # 0
    BY <1>1, <1>2
  <2> QED BY <1>1, <2>1, <2>2
<1> HIDE DEF m, s, rest, g, gg, top, first
<1>5. /\ gg \in [0..(m - 1) -> Int]
      /\ \A i \in 0..(m - 1) : gg[i] = Distance(AckSeq(first', acks', i), top)
  <2>1. /\ gg \in [0..Len(acks') -> Int]
        /\ \A i \in 0..Len(acks') : gg[i] = Distance(AckSeq(first', acks', i), top)
    BY <1>2, AcksBackType, Zenon DEF gg
  <2> QED BY <1>4, <2>1, Zenon
<1>6. \A i \in 0..(m - 1) : gg[i] = g[i + 1]
  <2> TAKE i \in 0..(m - 1)
  <2>1. i + 1 \in Oldest..m /\ i + 1 # 0 /\ (i = 0 \/ i \in 1..(m - 1)) /\ 0 + 1 = 1
    BY <1>2
  <2>2. AckSeq(first', acks', i) = AckSeq(first, acks, i + 1)
    BY <1>4, <2>1, Zenon DEF AckSeq
  <2> QED BY <1>3, <1>5, <2>1, <2>2, Zenon
<1>7. Acked(gg, 0, m - 1, s, lostAcks, rest)
  BY <1>2, <1>3, <1>4, <1>5, <1>6, AckedTail, Zenon
<1>8. /\ Oldest' = 0 /\ Lag' = Lag /\ Behind(rcvLastSendSequence)' = s
      /\ Behind(rcvLastRecvSequence)' = Behind(rcvLastRecvSequence)
      /\ (Lag + Len(data) + lostData)' = rest
      /\ AcksBack(Oldest, sndLastRecvSequence, acks, sndLastSendSequence)' = gg
  BY <1>1 DEF Oldest, Lag, Behind, rest, s, gg, first, top, AcksBack, AckSeq
<1>9. AcksBehind'
  <2>1. Behind(rcvLastSendSequence) = Behind(rcvLastRecvSequence) + Lag
    BY DEF HealInv, AcksBehind
  <2> QED BY <1>1, <1>4, <1>7, <1>8, <2>1, Zenon DEF AcksBehind, s
<1>10. DataBehind'
  BY <1>1, <1>8, Zenon DEF HealInv, DataBehind
<1> QED BY <1>9, <1>10

(* A failed read loses the place of the sender and nothing else.           *)
LEMMA RecvACKFailedHeals ==
  ASSUME TypeOK, HealInv, TypeOK', RecvACKFailed
  PROVE  DataBehind' /\ AcksBehind'
<1> DEFINE top == sndLastSendSequence
           m == Len(acks)
           s == Behind(rcvLastSendSequence)
           first == sndLastRecvSequence
           rest == Lag + Len(data) + lostData
           g == AcksBack(Oldest, first, acks, top)
           gg == AcksBack(1, first', acks, top)
<1>1. /\ UNCHANGED <<sndLastSendSequence, rcvLastRecvSequence, rcvLastSendSequence,
                     data, acks, lostData, lostAcks>>
      /\ sndAckRead' = FALSE
  BY DEF RecvACKFailed, rcvVars, netVars
<1>2. /\ m \in Nat /\ s \in Int /\ lostAcks \in Nat /\ Oldest \in {0, 1} /\ top \in Seqs
      /\ acks \in Seq(Acks) /\ first' \in Seqs /\ rest \in Int
  <2>1. first' \in Seqs
    BY DEF TypeOK
  <2>2. Lag + Len(data) + lostData \in Int
    BY BehindType
  <2> QED BY <2>1, <2>2, BehindType
<1>3. /\ g \in [Oldest..m -> Int]
      /\ \A i \in Oldest..m : g[i] = Distance(AckSeq(first, acks, i), top)
      /\ Acked(g, Oldest, m, s, lostAcks, rest)
  BY Places, Zenon DEF Behind
<1> HIDE DEF m, s, rest, g, gg, top, first
<1>4. /\ gg \in [1..m -> Int]
      /\ \A i \in 1..m : gg[i] = Distance(AckSeq(first', acks, i), top)
  BY <1>2, AcksBackType, Zenon DEF gg, m
<1>5. \A i \in 1..m : gg[i] = g[i]
  <2> TAKE i \in 1..m
  <2>1. i \in Oldest..m /\ i # 0
    BY <1>2
  <2>2. AckSeq(first', acks, i) = AckSeq(first, acks, i)
    BY <2>1, Zenon DEF AckSeq
  <2> QED BY <1>3, <1>4, <2>1, <2>2, Zenon
<1>6. Acked(gg, 1, m, s, lostAcks, rest)
  BY <1>2, <1>3, <1>4, <1>5, AckedForget, Zenon
<1>7. /\ Oldest' = 1 /\ Lag' = Lag /\ Behind(rcvLastSendSequence)' = s
      /\ Behind(rcvLastRecvSequence)' = Behind(rcvLastRecvSequence)
      /\ (Lag + Len(data) + lostData)' = rest
      /\ AcksBack(Oldest, sndLastRecvSequence, acks, sndLastSendSequence)' = gg
  BY <1>1 DEF Oldest, Lag, Behind, rest, s, gg, first, top, AcksBack, AckSeq
<1>8. AcksBehind'
  <2>1. Behind(rcvLastSendSequence) = Behind(rcvLastRecvSequence) + Lag
    BY DEF HealInv, AcksBehind
  <2> QED BY <1>1, <1>6, <1>7, <2>1, Zenon DEF AcksBehind, s, m
<1>9. DataBehind'
  BY <1>1, <1>7, Zenon DEF HealInv, DataBehind
<1> QED BY <1>8, <1>9

(* An ACK that is sent takes its place behind those under way.             *)
LEMMA SendACKBack ==
  ASSUME TypeOK, HealInv, NEW next \in Seqs, NEW left \in Int,
         Behind(next) <= Behind(rcvLastSendSequence), Behind(next) <= left,
         Lag + Len(data) + lostData <= left + Step
  PROVE  /\ Len(Append(acks, ACK(next))) = Len(acks) + 1
         /\ Acked(AcksBack(Oldest, sndLastRecvSequence, Append(acks, ACK(next)),
                           sndLastSendSequence),
                  Oldest, Len(acks) + 1, Behind(next), lostAcks, left)
<1> DEFINE top == sndLastSendSequence
           m == Len(acks)
           s == Behind(rcvLastSendSequence)
           new == Behind(next)
           first == sndLastRecvSequence
           rest == Lag + Len(data) + lostData
           a == Append(acks, ACK(next))
           g == AcksBack(Oldest, first, acks, top)
           gg == AcksBack(Oldest, first, a, top)
<1>1. /\ m \in Nat /\ s \in Int /\ lostAcks \in Nat /\ Oldest \in {0, 1} /\ top \in Seqs
      /\ acks \in Seq(Acks) /\ first \in Seqs /\ rest \in Int /\ new \in Int
  <2>1. Lag + Len(data) + lostData \in Int
    BY BehindType
  <2>2. new \in Nat
    BY BehindType, DistanceNat, Zenon DEF Behind
  <2> QED BY <2>1, <2>2, BehindType
<1>2. /\ g \in [Oldest..m -> Int]
      /\ \A i \in Oldest..m : g[i] = Distance(AckSeq(first, acks, i), top)
      /\ Acked(g, Oldest, m, s, lostAcks, rest)
  BY Places, Zenon DEF Behind
<1>3. /\ a \in Seq(Acks) /\ Len(a) = m + 1
      /\ \A i \in 1..m : a[i] = acks[i]
      /\ a[m + 1] = ACK(next) /\ ACK(next).seq = next
  BY <1>1, ACKType, AppendValue
<1>4. new <= s /\ new <= left /\ rest <= left + Step
  OBVIOUS
<1>5. new = Distance(next, top)
  BY DEF Behind
<1> HIDE DEF m, s, rest, g, gg, top, first, new, a
<1>6. /\ gg \in [Oldest..(m + 1) -> Int]
      /\ \A i \in Oldest..(m + 1) : gg[i] = Distance(AckSeq(first, a, i), top)
  <2>1. /\ gg \in [Oldest..Len(a) -> Int]
        /\ \A i \in Oldest..Len(a) : gg[i] = Distance(AckSeq(first, a, i), top)
    BY <1>1, <1>3, AcksBackType, Zenon DEF gg
  <2> QED BY <1>3, <2>1, Zenon
<1>7. \A i \in Oldest..m : gg[i] = g[i]
  <2> TAKE i \in Oldest..m
  <2>1. i \in Oldest..(m + 1) /\ (i = 0 \/ i \in 1..m)
    BY <1>1
  <2>2. AckSeq(first, a, i) = AckSeq(first, acks, i)
    BY <1>3, <2>1, Zenon DEF AckSeq
  <2> QED BY <1>2, <1>6, <2>1, <2>2, Zenon
<1>8. gg[m + 1] = new
  <2>1. m + 1 \in Oldest..(m + 1) /\ m + 1 # 0
    BY <1>1
  <2>2. AckSeq(first, a, m + 1) = next
    BY <1>3, <2>1, Zenon DEF AckSeq
  <2> QED BY <1>5, <1>6, <2>1, <2>2, Zenon
<1>9. Acked(gg, Oldest, m + 1, new, lostAcks, left)
  BY <1>1, <1>2, <1>4, <1>6, <1>7, <1>8, AckedAppend, Zenon
<1> QED BY <1>3, <1>9, Zenon DEF a, m, gg, first, top, new

(* waitRecv repeats the place that the receiver has reached.               *)
LEMMA WaitRecvACKHeals ==
  ASSUME TypeOK, HealInv, WaitRecvACK
  PROVE  DataBehind' /\ AcksBehind'
<1> DEFINE rr == rcvLastRecvSequence
           r == Behind(rr)
           left == Len(data) + lostData
<1>1. /\ UNCHANGED <<sndVars, rcvLastRecvSequence, data, lostData, lostAcks>>
      /\ acks' = Append(acks, ACK(rr)) /\ rcvLastSendSequence' = rr
  BY DEF WaitRecvACK
<1>2. /\ r \in Nat /\ Lag \in Nat /\ left \in Int /\ rr \in Seqs
      /\ Behind(rcvLastSendSequence) \in Nat
  BY BehindType
<1>3. /\ Behind(rcvLastSendSequence) = r + Lag /\ Lag + 1 <= Step
      /\ r <= left
  BY Places DEF InFlight
<1>4. /\ r <= Behind(rcvLastSendSequence) /\ Lag + Len(data) + lostData <= left + Step
  <2>1. Len(data) \in Nat /\ lostData \in Nat /\ Step \in Nat
    BY BehindType, StepType
  <2> QED BY <1>2, <1>3, <2>1
<1>5. /\ Len(acks') = Len(acks) + 1
      /\ Acked(AcksBack(Oldest, sndLastRecvSequence, acks', sndLastSendSequence),
               Oldest, Len(acks) + 1, r, lostAcks, left)
  <2> HIDE DEF left, r, rr
  <2> QED BY <1>1, <1>2, <1>3, <1>4, SendACKBack, Zenon DEF r
<1>6. /\ Lag' = 0 /\ Oldest' = Oldest
      /\ Behind(rcvLastSendSequence)' = r /\ Behind(rcvLastRecvSequence)' = r
      /\ AcksBack(Oldest, sndLastRecvSequence, acks, sndLastSendSequence)'
           = AcksBack(Oldest, sndLastRecvSequence, acks', sndLastSendSequence)
  <2>1. Distance(rr, rr) = 0
    BY <1>2, DistanceNat, Zenon
  <2> QED BY <1>1, <2>1 DEF Lag, Oldest, Behind, sndVars, AcksBack, AckSeq
<1>7. AcksBehind'
  <2>1. r = r + 0 /\ 0 + Len(data) + lostData = left
    BY <1>2, BehindType
  <2> HIDE DEF left, r, rr
  <2> QED BY <1>1, <1>5, <1>6, <2>1 DEF AcksBehind
<1>8. DataBehind'
  BY <1>1, <1>6 DEF HealInv, DataBehind, sndVars
<1> QED BY <1>7, <1>8

(* The first datagram lies where the receiver will be; what is left lies   *)
(* behind it.                                                              *)
LEMMA FirstBack ==
  ASSUME TypeOK, HealInv, data # <<>>
  PROVE  LET next == NextSeq(Head(data).seq)
             n == Len(data)
         IN  /\ next \in Seqs /\ n \in Nat /\ Len(Tail(data)) = n - 1
             /\ Behind(next) \in Nat /\ Behind(next) + 1 <= Behind(rcvLastRecvSequence)
             /\ Behind(next) <= n - 1 + lostData
             /\ InFlight(DataBack(Tail(data), sndLastSendSequence), n - 1,
                         Behind(next), lostData)
             /\ Distance(rcvLastSendSequence, next)
                  = Behind(rcvLastSendSequence) - Behind(next)
<1> DEFINE top == sndLastSendSequence
           n == Len(data)
           d == Head(data).seq
           next == NextSeq(d)
           r == Behind(rcvLastRecvSequence)
           s == Behind(rcvLastSendSequence)
           f == DataBack(data, top)
           ff == DataBack(Tail(data), top)
<1>1. /\ n \in Nat /\ r \in Int /\ s \in Int /\ lostData \in Nat /\ Lag \in Nat
      /\ top \in Seqs /\ data \in Seq(Datagrams) /\ rcvLastSendSequence \in Seqs
  BY BehindType
<1>2. /\ f \in [1..n -> Int] /\ \A i \in 1..n : f[i] = Distance(data[i].seq, top)
      /\ InFlight(f, n, r, lostData) /\ s = r + Lag
  BY Places, Zenon DEF Behind
<1>3. /\ n # 0 /\ d \in Seqs /\ d = data[1].seq
      /\ Tail(data) \in Seq(Datagrams) /\ Len(Tail(data)) = n - 1
      /\ \A i \in 1..(n - 1) : Tail(data)[i] = data[i + 1]
  <2>1. /\ Head(data) \in Datagrams /\ Head(data) = data[1]
        /\ Tail(data) \in Seq(Datagrams) /\ Len(Tail(data)) = Len(data) - 1
        /\ \A j \in 1..(Len(data) - 1) : Tail(data)[j] = data[j + 1]
    BY <1>1, TailValue, Zenon
  <2>2. n # 0
    BY <1>1
  <2>3. Head(data).seq \in Seqs
    BY <2>1, ChannelSeqs, Zenon
  <2> QED BY <2>1, <2>2, <2>3
<1>4. next \in Seqs
  BY <1>3, NextSeqValue, Zenon
<1> HIDE DEF n, d, r, s, f, ff, top
<1>5. /\ ff \in [1..(n - 1) -> Int]
      /\ \A i \in 1..(n - 1) : ff[i] = Distance(Tail(data)[i].seq, top)
  <2>1. /\ ff \in [1..Len(Tail(data)) -> Int]
        /\ \A i \in 1..Len(Tail(data)) : ff[i] = Distance(Tail(data)[i].seq, top)
    BY <1>1, <1>3, DataBackType, Zenon DEF ff
  <2> QED BY <1>3, <2>1, Zenon
<1>6. \A i \in 1..(n - 1) : ff[i] = f[i + 1]
  <2> TAKE i \in 1..(n - 1)
  <2>1. i + 1 \in 1..n
    BY <1>1
  <2> QED BY <1>2, <1>3, <1>5, <2>1, Zenon
<1>7. /\ InFlight(ff, n - 1, f[1] - 1, lostData)
      /\ f[1] <= r /\ n <= f[1] /\ f[1] <= n + lostData
  BY <1>1, <1>2, <1>3, <1>5, <1>6, FlightTail, Zenon
<1>8. f[1] = Distance(d, top) /\ f[1] \in Int
  <2>1. 1 \in 1..n
    BY <1>1, <1>3
  <2> QED BY <1>2, <1>3, <2>1, Zenon
<1>9. Behind(next) = f[1] - 1
  <2>1. Distance(d, top) # 0
    BY <1>1, <1>3, <1>7, <1>8
  <2> QED BY <1>1, <1>3, <1>8, <2>1, DistanceFromNext, Zenon DEF Behind, top
<1>10. /\ Behind(next) \in Nat /\ Behind(next) + 1 <= r
       /\ Behind(next) <= n - 1 + lostData /\ Behind(next) <= s
  <2> HIDE DEF next
  <2> QED BY <1>1, <1>2, <1>3, <1>7, <1>8, <1>9
<1>11. Distance(rcvLastSendSequence, next) = s - Behind(next)
  <2> HIDE DEF next
  <2> QED BY <1>1, <1>4, <1>10, DistanceBetween, Zenon DEF Behind, s, top
<1>12. InFlight(ff, n - 1, Behind(next), lostData)
  BY <1>7, <1>9, Zenon
<1> QED BY <1>1, <1>3, <1>4, <1>10, <1>11, <1>12, Zenon DEF n, d, r, s, ff, top

(* A datagram received counts in full if no ACK goes out, and an ACK makes *)
(* up for the lag.                                                         *)
LEMMA AcquireRecvHeals ==
  ASSUME TypeOK, HealInv, AcquireRecv
  PROVE  DataBehind' /\ AcksBehind'
<1> DEFINE next == NextSeq(Head(data).seq)
           n == Len(data)
           r == Behind(rcvLastRecvSequence)
           s == Behind(rcvLastSendSequence)
           new == Behind(next)
           rest == Lag + n + lostData
           g == AcksBack(Oldest, sndLastRecvSequence, acks, sndLastSendSequence)
<1>1. /\ UNCHANGED <<sndVars, lostData, lostAcks>> /\ data # <<>>
      /\ rcvLastRecvSequence' = next /\ data' = Tail(data)
      /\ \/ rcvLastSendSequence' = next /\ acks' = Append(acks, ACK(next))
         \/ UNCHANGED <<rcvLastSendSequence, acks>>
  BY DEF AcquireRecv
<1>2. /\ next \in Seqs /\ n \in Nat /\ Len(data') = n - 1 /\ new \in Nat
      /\ new + 1 <= r /\ new <= n - 1 + lostData
      /\ InFlight(DataBack(Tail(data), sndLastSendSequence), n - 1, new, lostData)
      /\ Distance(rcvLastSendSequence, next) = s - new
  BY <1>1, FirstBack, Zenon
<1>3. /\ r \in Nat /\ s \in Nat /\ Lag \in Nat /\ lostData \in Nat /\ lostAcks \in Nat
      /\ Step \in Nat /\ Len(acks) \in Nat /\ Oldest \in {0, 1} /\ rest \in Int
  <2>1. /\ r \in Nat /\ s \in Nat /\ Lag \in Nat /\ lostData \in Nat /\ lostAcks \in Nat
        /\ Step \in Nat /\ Len(acks) \in Nat /\ Oldest \in {0, 1}
    BY BehindType, StepType
  <2> QED BY <1>2, <2>1
<1>4. /\ g \in [Oldest..Len(acks) -> Int] /\ s = r + Lag /\ Lag + 1 <= Step
      /\ Acked(g, Oldest, Len(acks), s, lostAcks, rest)
  BY Places, Zenon
<1>5. Behind(rcvLastRecvSequence)' = new /\ Oldest' = Oldest
  BY <1>1 DEF Behind, sndVars, Oldest
<1>6. DataBehind'
  <2>1. DataBack(data, sndLastSendSequence)' = DataBack(Tail(data), sndLastSendSequence)
    BY <1>1 DEF sndVars
  <2> HIDE DEF new, n
  <2> QED BY <1>1, <1>2, <1>5, <2>1 DEF DataBehind
<1>7. CASE rcvLastSendSequence' = next /\ acks' = Append(acks, ACK(next))
  <2> DEFINE left == n - 1 + lostData
  <2>1. /\ new <= s /\ new <= left /\ left \in Int
        /\ Lag + Len(data) + lostData <= left + Step
    <3> HIDE DEF new, r, s, next
    <3> QED BY <1>2, <1>3, <1>4
  <2>2. /\ Len(acks') = Len(acks) + 1
        /\ Acked(AcksBack(Oldest, sndLastRecvSequence, acks', sndLastSendSequence),
                 Oldest, Len(acks) + 1, new, lostAcks, left)
    <3> HIDE DEF next, left
    <3> QED BY <1>2, <1>7, <2>1, SendACKBack, Zenon
  <2>3. /\ Lag' = 0 /\ Behind(rcvLastSendSequence)' = new
        /\ AcksBack(Oldest, sndLastRecvSequence, acks, sndLastSendSequence)'
             = AcksBack(Oldest, sndLastRecvSequence, acks', sndLastSendSequence)
    <3>1. Distance(next, next) = 0
      BY <1>2, DistanceNat, Zenon
    <3> HIDE DEF next
    <3> QED BY <1>1, <1>5, <1>7, <3>1 DEF Lag, Behind, sndVars, AcksBack, AckSeq
  <2>4. new = new + 0 /\ 0 + (n - 1) + lostData = left
    BY <1>2, <1>3
  <2>5. AcksBehind'
    <3> HIDE DEF new, n, next, left
    <3> QED BY <1>1, <1>2, <1>5, <2>2, <2>3, <2>4 DEF AcksBehind
  <2> QED BY <1>6, <2>5
<1>8. CASE UNCHANGED <<rcvLastSendSequence, acks>>
  <2> DEFINE more == (s - new) + (n - 1) + lostData
  <2>1. s = new + (s - new) /\ rest <= more /\ more \in Int /\ s \in Int
    <3> HIDE DEF new, r, s, next, n
    <3> QED BY <1>2, <1>3, <1>4
  <2>2. Acked(g, Oldest, Len(acks), s, lostAcks, more)
    <3> HIDE DEF more, rest, s, g
    <3> QED BY <1>3, <1>4, <2>1, AckedMore, Zenon
  <2>3. /\ Lag' = s - new /\ Behind(rcvLastSendSequence)' = s
        /\ AcksBack(Oldest, sndLastRecvSequence, acks, sndLastSendSequence)' = g
        /\ Len(acks') = Len(acks)
    BY <1>1, <1>2, <1>5, <1>8 DEF Lag, Behind, sndVars, AcksBack, AckSeq
  <2>4. AcksBehind'
    <3> HIDE DEF new, n, next, s, g
    <3> QED BY <1>1, <1>2, <1>5, <2>1, <2>2, <2>3 DEF AcksBehind
  <2> QED BY <1>6, <2>4
<1> QED BY <1>1, <1>7, <1>8

(* A datagram lost on the way, or cut short, is no longer under way but    *)
(* lost: together they stay.                                               *)
LEMMA LostDatagramHeals ==
  ASSUME TypeOK, HealInv, NEW k \in DOMAIN data,
         data' = RemoveAt(data, k), lostData' = lostData + 1,
         UNCHANGED <<sndVars, rcvLastRecvSequence, rcvLastSendSequence, acks, lostAcks>>
  PROVE  DataBehind' /\ AcksBehind'
<1> DEFINE top == sndLastSendSequence
           n == Len(data)
           r == Behind(rcvLastRecvSequence)
           f == DataBack(data, top)
           ff == DataBack(data', top)
<1>1. /\ n \in Nat /\ r \in Int /\ lostData \in Nat /\ Lag \in Nat
      /\ top \in Seqs /\ data \in Seq(Datagrams) /\ k \in 1..n
  BY BehindType
<1>2. /\ f \in [1..n -> Int] /\ \A i \in 1..n : f[i] = Distance(data[i].seq, top)
      /\ InFlight(f, n, r, lostData)
  BY Places, Zenon DEF Behind
<1>3. /\ data' \in Seq(Datagrams) /\ Len(data') = n - 1
      /\ \A j \in 1..(n - 1) : data'[j] = IF j < k THEN data[j] ELSE data[j + 1]
  <2> HIDE DEF n
  <2> QED BY <1>1, RemoveAtValue DEF n
<1> HIDE DEF n, r, f, ff, top
<1>4. /\ ff \in [1..(n - 1) -> Int]
      /\ \A i \in 1..(n - 1) : ff[i] = Distance(data'[i].seq, top)
  <2>1. /\ ff \in [1..Len(data') -> Int]
        /\ \A i \in 1..Len(data') : ff[i] = Distance(data'[i].seq, top)
    BY <1>1, <1>3, DataBackType, Zenon DEF ff
  <2> QED BY <1>3, <2>1, Zenon
<1>5. \A i \in 1..(n - 1) : ff[i] = IF i < k THEN f[i] ELSE f[i + 1]
  <2> TAKE i \in 1..(n - 1)
  <2>1. i \in 1..n /\ i + 1 \in 1..n
    BY <1>1
  <2> QED BY <1>2, <1>3, <1>4, <2>1, Zenon
<1>6. InFlight(ff, n - 1, r, lostData + 1)
  BY <1>1, <1>2, <1>4, <1>5, FlightRemove, Zenon
<1>7. DataBehind'
  <2>1. Behind(rcvLastRecvSequence)' = r /\ DataBack(data, sndLastSendSequence)' = ff
    BY DEF Behind, sndVars, r, ff, top
  <2> QED BY <1>3, <1>6, <2>1 DEF DataBehind
<1>8. AcksBehind'
  <2>1. (Lag + Len(data) + lostData)' = Lag + Len(data) + lostData
    <3>1. Lag' = Lag /\ Lag + (n - 1) + (lostData + 1) = Lag + n + lostData
      BY <1>1 DEF Lag
    <3> QED BY <1>3, <3>1 DEF n
  <2>2. /\ Oldest' = Oldest /\ Lag' = Lag
        /\ Behind(rcvLastSendSequence)' = Behind(rcvLastSendSequence)
        /\ Behind(rcvLastRecvSequence)' = Behind(rcvLastRecvSequence)
        /\ AcksBack(Oldest, sndLastRecvSequence, acks, sndLastSendSequence)'
             = AcksBack(Oldest, sndLastRecvSequence, acks, sndLastSendSequence)
    BY DEF Oldest, Lag, Behind, sndVars, AcksBack, AckSeq
  <2> QED BY <2>1, <2>2, Zenon DEF HealInv, AcksBehind
<1> QED BY <1>7, <1>8

(* A lost ACK costs the step to the one after it.                          *)
LEMMA LoseACKHeals ==
  ASSUME TypeOK, HealInv, NEW k \in DOMAIN acks, LoseACK(k)
  PROVE  DataBehind' /\ AcksBehind'
<1> DEFINE top == sndLastSendSequence
           m == Len(acks)
           s == Behind(rcvLastSendSequence)
           first == sndLastRecvSequence
           rest == Lag + Len(data) + lostData
           g == AcksBack(Oldest, first, acks, top)
           gg == AcksBack(Oldest, first, acks', top)
<1>1. /\ UNCHANGED <<sndVars, rcvVars, data, lostData>>
      /\ acks' = RemoveAt(acks, k) /\ lostAcks' = lostAcks + 1
  BY DEF LoseACK
<1>2. /\ m \in Nat /\ s \in Int /\ lostAcks \in Nat /\ Oldest \in {0, 1} /\ top \in Seqs
      /\ acks \in Seq(Acks) /\ first \in Seqs /\ rest \in Int /\ k \in 1..m
  <2>1. Lag + Len(data) + lostData \in Int
    BY BehindType
  <2> QED BY <2>1, BehindType
<1>3. /\ g \in [Oldest..m -> Int]
      /\ \A i \in Oldest..m : g[i] = Distance(AckSeq(first, acks, i), top)
      /\ Acked(g, Oldest, m, s, lostAcks, rest)
  BY Places, Zenon DEF Behind
<1>4. /\ acks' \in Seq(Acks) /\ Len(acks') = m - 1
      /\ \A j \in 1..(m - 1) : acks'[j] = IF j < k THEN acks[j] ELSE acks[j + 1]
  <2> HIDE DEF m
  <2> QED BY <1>1, <1>2, RemoveAtValue DEF m
<1> HIDE DEF m, s, rest, g, gg, top, first
<1>5. /\ gg \in [Oldest..(m - 1) -> Int]
      /\ \A i \in Oldest..(m - 1) : gg[i] = Distance(AckSeq(first, acks', i), top)
  <2>1. /\ gg \in [Oldest..Len(acks') -> Int]
        /\ \A i \in Oldest..Len(acks') : gg[i] = Distance(AckSeq(first, acks', i), top)
    BY <1>2, <1>4, AcksBackType, Zenon DEF gg
  <2> QED BY <1>4, <2>1, Zenon
<1>6. \A i \in Oldest..(m - 1) : gg[i] = IF i < k THEN g[i] ELSE g[i + 1]
  <2> TAKE i \in Oldest..(m - 1)
  <2>1. i \in Oldest..m /\ i + 1 \in Oldest..m /\ i + 1 # 0
    BY <1>2
  <2>2. (i = 0 /\ i < k) \/ (i # 0 /\ i \in 1..(m - 1))
    BY <1>2
  <2>3. AckSeq(first, acks', i)
          = IF i < k THEN AckSeq(first, acks, i) ELSE AckSeq(first, acks, i + 1)
    BY <1>4, <2>1, <2>2, Zenon DEF AckSeq
  <2> QED BY <1>3, <1>5, <2>1, <2>3, Zenon
<1>7. Acked(gg, Oldest, m - 1, s, lostAcks + 1, rest)
  BY <1>2, <1>3, <1>5, <1>6, AckedRemove, Zenon
<1>8. /\ Oldest' = Oldest /\ Lag' = Lag /\ Behind(rcvLastSendSequence)' = s
      /\ Behind(rcvLastRecvSequence)' = Behind(rcvLastRecvSequence)
      /\ (Lag + Len(data) + lostData)' = rest
      /\ AcksBack(Oldest, sndLastRecvSequence, acks, sndLastSendSequence)' = gg
  BY <1>1 DEF Oldest, Lag, Behind, rest, s, gg, first, top, AcksBack, AckSeq,
              sndVars, rcvVars
<1>9. AcksBehind'
  <2>1. Behind(rcvLastSendSequence) = Behind(rcvLastRecvSequence) + Lag
    BY DEF HealInv, AcksBehind
  <2> QED BY <1>1, <1>4, <1>7, <1>8, <2>1, Zenon DEF AcksBehind, s
<1>10. DataBehind'
  BY <1>1, <1>8 DEF HealInv, DataBehind, sndVars
<1> QED BY <1>9, <1>10

-----------------------------------------------------------------------------
(* The channels and the losses stay within their bounds.                   *)
LEMMA BudgetsStep ==
  ASSUME TypeOK, Budgets, [Next]_vars
  PROVE  Budgets'
<1> USE DEF sndVars, rcvVars, netVars
<1>1. /\ data \in Seq(Datagrams) /\ acks \in Seq(Acks) /\ lostData \in Nat /\ lostAcks \in Nat
      /\ LossBudget \in Nat /\ AckCap \in Nat /\ DataCap \in Nat
      /\ Len(data) \in Nat /\ Len(acks) \in Nat
  BY BehindType, WindowAssumption
<1>2. ASSUME NEW s \in Seqs
      PROVE  Len(Append(acks, ACK(s))) = Len(acks) + 1
  BY <1>1, ACKType, AppendValue
<1>3. ASSUME NEW i \in DOMAIN data
      PROVE  Len(RemoveAt(data, i)) = Len(data) - 1
  BY <1>1, RemoveAtValue
<1>4. ASSUME NEW i \in DOMAIN acks
      PROVE  Len(RemoveAt(acks, i)) = Len(acks) - 1
  BY <1>1, RemoveAtValue
<1>5. CASE RecvACK
  <2>1. Len(acks') = Len(acks) - 1
    BY <1>1, <1>5, TailValue DEF RecvACK
  <2> QED BY <1>1, <1>5, <2>1 DEF RecvACK, Budgets
<1>6. ASSUME NEW h \in Handles, NEW err \in BOOLEAN, ReleaseSend(h, err)
      PROVE  Budgets'
  <2>1. Len(data') = Len(data) + 1
    <3>1. [seq |-> sndLastSendSequence, err |-> err] \in Datagrams
      BY DEF Datagrams, TypeOK
    <3> QED BY <1>1, <1>6, <3>1, AppendValue DEF ReleaseSend
  <2> QED BY <1>1, <1>6, <2>1 DEF ReleaseSend, Budgets
<1>7. CASE WaitRecvACK
  <2>1. Len(acks') = Len(acks) + 1
    BY <1>2, <1>7 DEF WaitRecvACK, TypeOK
  <2> QED BY <1>1, <1>7, <2>1 DEF WaitRecvACK, Budgets
<1>8. CASE AcquireRecv
  <2>1. Len(data') = Len(data) - 1
    BY <1>1, <1>8, TailValue DEF AcquireRecv
  <2>2. Len(acks') <= AckCap
    <3>1. NextSeq(Head(data).seq) \in Seqs
      <4>1. Head(data) \in Datagrams
        BY <1>1, <1>8, TailValue DEF AcquireRecv
      <4> QED BY <4>1, ChannelSeqs, NextSeqValue, Zenon
    <3>2. CASE /\ Len(acks) < AckCap
               /\ acks' = Append(acks, ACK(NextSeq(Head(data).seq)))
      BY <1>1, <1>2, <3>1, <3>2
    <3>3. CASE acks' = acks
      BY <3>3 DEF Budgets
    <3> QED BY <1>8, <3>2, <3>3 DEF AcquireRecv
  <2> QED BY <1>1, <1>8, <2>1, <2>2 DEF AcquireRecv, Budgets
<1>9. CASE AcquireRecvShort
  <2>1. Len(data') = Len(data) - 1
    BY <1>1, <1>9, TailValue DEF AcquireRecvShort
  <2> QED BY <1>1, <1>9, <2>1 DEF AcquireRecvShort, Budgets
<1>10. ASSUME NEW i \in DOMAIN data, LoseData(i)
       PROVE  Budgets'
  BY <1>1, <1>3, <1>10 DEF LoseData, Budgets
<1>11. ASSUME NEW i \in DOMAIN acks, LoseACK(i)
       PROVE  Budgets'
  BY <1>1, <1>4, <1>11 DEF LoseACK, Budgets
<1>12. CASE UNCHANGED netVars
  BY <1>12 DEF Budgets
<1> QED
  BY <1>5, <1>6, <1>7, <1>8, <1>9, <1>10, <1>11, <1>12
  DEF Next, Sender, Receiver, Network, RecvACKFailed, StopDraining, AcquireSend,
      ReleaseRecv, vars

(* Every ACK tells the window, and the sender has it from the last one.    *)
LEMMA WindowToldStep ==
  ASSUME TypeOK, WindowTold, TypeOK', [Next]_vars
  PROVE  WindowTold'
<1> USE DEF sndVars, rcvVars, netVars
<1>1. acks \in Seq(Acks) /\ Len(acks) \in Nat
  BY BehindType
<1>2. ASSUME NEW s \in Seqs, acks' = Append(acks, ACK(s)),
             sndAckRead' = sndAckRead, sndReceiveInitial' = sndReceiveInitial,
             sndMaxInFlightSeqs' = sndMaxInFlightSeqs
      PROVE  WindowTold'
  <2>1. /\ Len(acks') = Len(acks) + 1 /\ \A i \in 1..Len(acks) : acks'[i] = acks[i]
        /\ acks'[Len(acks) + 1].max = MaxInFlightSeqs
    BY <1>1, <1>2, ACKType, AppendValue
  <2>2. \A i \in 1..(Len(acks) + 1) : i \in 1..Len(acks) \/ i = Len(acks) + 1
    BY <1>1
  <2> QED BY <1>2, <2>1, <2>2, Zenon DEF WindowTold
<1>3. CASE RecvACK
  <2>1. /\ Head(acks) = acks[1] /\ Len(acks') = Len(acks) - 1
        /\ \A i \in 1..(Len(acks) - 1) : acks'[i] = acks[i + 1]
        /\ 1 \in 1..Len(acks) /\ \A i \in 1..(Len(acks) - 1) : i + 1 \in 1..Len(acks)
    BY <1>1, <1>3, TailValue, SMTT(30) DEF RecvACK
  <2>2. \A i \in 1..Len(acks') : acks'[i].max = MaxInFlightSeqs
    BY <2>1, Zenon DEF WindowTold
  <2>3. sndReceiveInitial' /\ sndMaxInFlightSeqs' = MaxInFlightSeqs
    BY <1>3, <2>1, Zenon DEF WindowTold, RecvACK
  <2> QED BY <2>2, <2>3, Zenon DEF WindowTold
<1>4. CASE RecvACKFailed
  BY <1>4 DEF RecvACKFailed, WindowTold
<1>5. CASE WaitRecvACK
  BY <1>2, <1>5 DEF WaitRecvACK, TypeOK
<1>6. CASE AcquireRecv
  <2>1. NextSeq(Head(data).seq) \in Seqs
    <3>1. Head(data) \in Datagrams
      BY <1>6, BehindType, TailValue DEF AcquireRecv
    <3> QED BY <3>1, ChannelSeqs, NextSeqValue, Zenon
  <2>2. CASE acks' = Append(acks, ACK(NextSeq(Head(data).seq)))
    BY <1>2, <1>6, <2>1, <2>2 DEF AcquireRecv
  <2>3. CASE acks' = acks
    BY <1>6, <2>3 DEF AcquireRecv, WindowTold
  <2> QED BY <1>6, <2>2, <2>3 DEF AcquireRecv
<1>7. ASSUME NEW k \in DOMAIN acks, LoseACK(k)
      PROVE  WindowTold'
  <2>1. /\ Len(acks') = Len(acks) - 1
        /\ \A j \in 1..(Len(acks) - 1) :
             acks'[j] = IF j < k THEN acks[j] ELSE acks[j + 1]
    BY <1>1, <1>7, RemoveAtValue DEF LoseACK
  <2>2. \A j \in 1..(Len(acks) - 1) : j \in 1..Len(acks) /\ j + 1 \in 1..Len(acks)
    BY <1>1
  <2>3. \A j \in 1..(Len(acks) - 1) : acks'[j] = acks[j] \/ acks'[j] = acks[j + 1]
    BY <2>1, Zenon
  <2>4. \A j \in 1..Len(acks') : acks'[j].max = MaxInFlightSeqs
    BY <2>1, <2>2, <2>3, Zenon DEF WindowTold
  <2> QED BY <1>7, <2>4 DEF LoseACK, WindowTold
<1>8. CASE UNCHANGED <<acks, sndAckRead, sndReceiveInitial, sndMaxInFlightSeqs>>
  BY <1>8 DEF WindowTold
<1> QED
  BY <1>3, <1>4, <1>5, <1>6, <1>7, <1>8
  DEF Next, Sender, Receiver, Network, StopDraining, AcquireSend, ReleaseSend,
      AcquireRecvShort, ReleaseRecv, LoseData, vars

(* Every step keeps the order of the places behind.                        *)
LEMMA HealStep ==
  ASSUME Reach < Modulus
  PROVE  TypeOK /\ HealInv /\ TypeOK' /\ [Next]_vars => HealInv'
<1> SUFFICES ASSUME TypeOK, HealInv, TypeOK', [Next]_vars
             PROVE  HealInv'
  OBVIOUS
<1> USE DEF sndVars, rcvVars, netVars
<1>1. AckLagBounded' /\ Budgets' /\ WindowTold'
  BY AckLagStep, BudgetsStep, WindowToldStep, Zenon DEF HealInv
<1> SUFFICES DataBehind' /\ AcksBehind'
  BY <1>1 DEF HealInv
<1>2. CASE RecvACK
  BY <1>2, RecvACKHeals
<1>3. CASE RecvACKFailed
  BY <1>3, RecvACKFailedHeals
<1>4. CASE StopDraining
  BY <1>4, QuietHeals DEF StopDraining
<1>5. CASE AcquireSend
  BY <1>5, QuietHeals DEF AcquireSend
<1>6. ASSUME NEW h \in Handles, NEW err \in BOOLEAN, ReleaseSend(h, err)
      PROVE  DataBehind' /\ AcksBehind'
  BY <1>1, <1>6, ReleaseSendHeals
<1>7. CASE WaitRecvACK
  BY <1>7, WaitRecvACKHeals
<1>8. CASE AcquireRecv
  BY <1>8, AcquireRecvHeals
<1>9. CASE AcquireRecvShort
  <2>1. data # <<>> /\ data \in Seq(Datagrams)
    BY <1>9 DEF AcquireRecvShort, TypeOK
  <2>2. 1 \in DOMAIN data /\ RemoveAt(data, 1) = Tail(data)
    BY <2>1, FirstRemoved
  <2> QED BY <1>9, <2>2, LostDatagramHeals DEF AcquireRecvShort
<1>10. ASSUME NEW h \in Handles, ReleaseRecv(h)
       PROVE  DataBehind' /\ AcksBehind'
  BY <1>10, QuietHeals DEF ReleaseRecv
<1>11. ASSUME NEW i \in DOMAIN data, LoseData(i)
       PROVE  DataBehind' /\ AcksBehind'
  BY <1>11, LostDatagramHeals DEF LoseData
<1>12. ASSUME NEW i \in DOMAIN acks, LoseACK(i)
       PROVE  DataBehind' /\ AcksBehind'
  BY <1>12, LoseACKHeals
<1>13. CASE UNCHANGED vars
  BY <1>13, QuietHeals DEF vars
<1> QED
  BY <1>2, <1>3, <1>4, <1>5, <1>6, <1>7, <1>8, <1>9, <1>10, <1>11, <1>12, <1>13
  DEF Next, Sender, Receiver, Network

LEMMA HealInit == Init => HealInv
<1> SUFFICES ASSUME Init PROVE HealInv
  OBVIOUS
<1>1. AckLagBounded
  BY FlowInit DEF LinkInv
<1>2. /\ data = <<>> /\ Len(data) = 0 /\ acks = <<ACK(0)>> /\ Len(acks) = 1
      /\ lostData = 0 /\ lostAcks = 0 /\ ~ sndAckRead
  BY DEF Init
<1>3. 0 \in Seqs
  BY WindowAssumption DEF Seqs
<1>4. Budgets /\ WindowTold
  <2>1. acks[1].max = MaxInFlightSeqs
    BY <1>2, <1>3, ACKType
  <2> QED BY <1>2, <2>1, WindowAssumption DEF Budgets, WindowTold
<1>5. Distance(0, 0) = 0
  BY <1>3, DistanceNat
<1>6. Behind(rcvLastRecvSequence) = 0 /\ Behind(rcvLastSendSequence) = 0 /\ Lag = 0
  BY <1>5 DEF Init, Behind, Lag
<1>7. DataBehind
  BY <1>2, <1>6 DEF DataBehind, InFlight
<1>8. AcksBehind
  <2> DEFINE g == AcksBack(1, sndLastRecvSequence, acks, sndLastSendSequence)
  <2>1. g[1] = 0
    <3>1. acks[1].seq = 0
      BY <1>2, <1>3, ACKType
    <3> QED BY <1>2, <1>5, <3>1 DEF AcksBack, AckSeq, Init
  <2>2. Steps(0) \in Nat
    BY StepsNat
  <2>3. Acked(g, 1, 1, 0, 0, 0)
    <3> HIDE DEF g
    <3>1. \A i \in 1..1 : i = 1 /\ 1 - i + 0 = 0
      OBVIOUS
    <3> QED BY <2>1, <2>2, <3>1 DEF Acked
  <2>4. Oldest = 1 /\ 0 + 0 = 0 /\ 0 + 0 + 0 = 0
    BY <1>2 DEF Oldest
  <2> QED BY <1>2, <1>6, <2>3, <2>4 DEF AcksBehind
<1> QED BY <1>1, <1>4, <1>7, <1>8 DEF HealInv

(* The inductive invariant of a link whose reads of ACKs may fail: ACKs,   *)
(* among them the last one read, the receiver and the datagrams lie in     *)
(* order behind the next sequence, and the losses account for every gap.   *)
THEOREM HealInvariant ==
  ASSUME Reach < Modulus
  PROVE  Spec => []HealInv
<1>1. Init => HealInv
  BY HealInit
<1>2. TypeOK /\ HealInv /\ TypeOK' /\ [Next]_vars => HealInv'
  BY HealStep
<1> QED BY <1>1, <1>2, TypeCorrect, PTL DEF Spec

(* With the next ACK that is read the window holds again: waitSend lets    *)
(* the sender on only while less than a window is under way, wherever a    *)
(* header that was never written had put it.                               *)
THEOREM WindowRegained ==
  ASSUME Reach < Modulus
  PROVE  Spec => []WindowHeals
<1>1. TypeOK /\ HealInv => WindowHeals
  <2> SUFFICES ASSUME TypeOK, HealInv, sndAckRead, WindowOpen
               PROVE  Len(data) < MaxInFlightSeqs
    BY DEF WindowHeals
  <2> DEFINE g == AcksBack(Oldest, sndLastRecvSequence, acks, sndLastSendSequence)
  <2>1. Oldest = 0 /\ 0 \in Oldest..Len(acks)
    BY BehindType DEF Oldest
  <2>2. g[0] = Behind(sndLastRecvSequence)
    <3>1. AckSeq(sndLastRecvSequence, acks, 0) = sndLastRecvSequence
      BY DEF AckSeq
    <3> QED BY <2>1, <3>1, Places, Zenon
  <2>3. Behind(rcvLastSendSequence) <= g[0]
    BY <2>1, Places, Zenon DEF Acked
  <2>4. Behind(sndLastRecvSequence) < MaxInFlightSeqs
    BY DEF WindowOpen, HealInv, WindowTold, Behind
  <2>5. /\ Len(data) <= Behind(rcvLastRecvSequence)
        /\ Behind(rcvLastSendSequence) = Behind(rcvLastRecvSequence) + Lag
    BY Places, Zenon DEF InFlight
  <2>6. Behind(sndLastRecvSequence) \in Nat
    BY BehindType, DistanceNat, Zenon DEF Behind
  <2> HIDE DEF g
  <2> QED BY <2>2, <2>3, <2>4, <2>5, <2>6, BehindType, WindowAssumption
<1> QED BY <1>1, HealInvariant, TypeCorrect, PTL

(* With the next ACK that is read the sender is where the receiver put it, *)
(* and waits in vain only after losses that account for its window, also   *)
(* where the window is so small that every datagram is acknowledged.       *)
THEOREM StallRegained ==
  ASSUME Reach < Modulus
  PROVE  Spec => []StallHeals
<1>1. TypeOK /\ HealInv => StallHeals
  <2> SUFFICES ASSUME TypeOK, HealInv, Idle, sndAckRead, ~ WindowOpen
               PROVE  lostData + Step * lostAcks + (Step - 1) >= MaxInFlightSeqs
    BY DEF StallHeals
  <2> DEFINE g == AcksBack(Oldest, sndLastRecvSequence, acks, sndLastSendSequence)
  <2>1. Oldest = 0 /\ Len(acks) = 0 /\ Len(data) = 0
    BY DEF Oldest, Idle
  <2>2. g[0] = Behind(sndLastRecvSequence)
    <3>1. AckSeq(sndLastRecvSequence, acks, 0) = sndLastRecvSequence /\ 0 \in 0..0
      BY DEF AckSeq
    <3> QED BY <2>1, <3>1, Places, Zenon
  <2>3. g[0] <= Steps(lostAcks) + (Lag + 0 + lostData)
    <3>1. Acked(g, 0, 0, Behind(rcvLastSendSequence), lostAcks, Lag + 0 + lostData)
      BY <2>1, Places, Zenon
    <3>2. 0 \in 0..0 /\ 0 - 0 + lostAcks = lostAcks
      BY BehindType
    <3> HIDE DEF g
    <3> QED BY <3>1, <3>2, Zenon DEF Acked
  <2>4. /\ Behind(sndLastRecvSequence) \in Nat
        /\ Behind(sndLastRecvSequence) >= MaxInFlightSeqs
    <3>1. Behind(sndLastRecvSequence) \in Nat
      BY BehindType, DistanceNat, Zenon DEF Behind
    <3>2. ~ (Behind(sndLastRecvSequence) < MaxInFlightSeqs)
      BY DEF WindowOpen, HealInv, WindowTold, Behind
    <3> QED BY <3>1, <3>2, WindowAssumption
  <2>5. Lag + 1 <= Step /\ Steps(lostAcks) = Step * lostAcks
    BY Places, Zenon DEF Steps
  <2>6. Steps(lostAcks) \in Nat
    BY BehindType, StepsNat, Zenon
  <2>7. Lag \in Nat /\ lostData \in Nat /\ Step \in Nat /\ MaxInFlightSeqs \in Nat
    BY BehindType, StepType, WindowAssumption
  <2>8. Behind(sndLastRecvSequence) <= Step * lostAcks + (Lag + 0 + lostData)
    BY <2>2, <2>3, <2>5, Zenon
  <2>9. Step * lostAcks \in Nat
    BY <2>5, <2>6, Zenon
  <2> HIDE DEF g
  <2> QED BY <2>4, <2>5, <2>7, <2>8, <2>9
<1> QED BY <1>1, HealInvariant, TypeCorrect, PTL

=============================================================================
