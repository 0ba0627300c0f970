----------------------------- MODULE HandleRing -----------------------------
(***************************************************************************)
(* The ring of buffer handles inside a SoapyStreamEndpoint, as operators   *)
(* on a record with the fields of the class.  Both directions of an        *)
(* endpoint use the same ring: acquireRecv/releaseRecv on the receiving    *)
(* side, acquireSend/releaseSend on the sending side.  Callers may release *)
(* handles in any order; the ring reclaims them in the order it gave them  *)
(* out.                                                                    *)
(***************************************************************************)
EXTENDS Integers, FiniteSets

CONSTANT NumBuffs   \* SOAPY_REMOTE_ENDPOINT_NUM_BUFFS, 8 in the code

ASSUME NumBuffsAssumption == NumBuffs \in Nat \ {0}

Handles == 0..(NumBuffs - 1)

Rings == [acquired : [Handles -> BOOLEAN],
          nextHandleAcquire : Handles,
          nextHandleRelease : Handles,
          numHandlesAcquired : 0..NumBuffs]

EmptyRing == [acquired |-> [h \in Handles |-> FALSE],
              nextHandleAcquire |-> 0,
              nextHandleRelease |-> 0,
              numHandlesAcquired |-> 0]

Held(r) == {h \in Handles : r.acquired[h]}

(* Position i of the ring, counted from the oldest handle not reclaimed.   *)
Slot(r, i) == (r.nextHandleRelease + i) % NumBuffs

(* A faulty variant: notices the full ring one handle late.                *)
RingFullLate(r) == r.numHandlesAcquired > NumBuffs

(* "all buffers acquired": the acquire calls return STREAM_ERROR.          *)
RingFull(r) == r.numHandlesAcquired = NumBuffs

(* A faulty variant: the acquire index does not wrap.                      *)
RingAcquireNoWrap(r) ==
  [acquired |-> [r.acquired EXCEPT ![r.nextHandleAcquire] = TRUE],
   nextHandleAcquire |-> r.nextHandleAcquire + 1,
   nextHandleRelease |-> r.nextHandleRelease,
   numHandlesAcquired |-> r.numHandlesAcquired + 1]

RingAcquire(r) ==
  [acquired |-> [r.acquired EXCEPT ![r.nextHandleAcquire] = TRUE],
   nextHandleAcquire |-> (r.nextHandleAcquire + 1) % NumBuffs,
   nextHandleRelease |-> r.nextHandleRelease,
   numHandlesAcquired |-> r.numHandlesAcquired + 1]

(* Faulty variants: the release gives back the oldest handle whether it is *)
(* still acquired or not; or looks at the oldest handle only.              *)
ReclaimableInOrder(r) == IF r.numHandlesAcquired = 0 THEN 0 ELSE 1

ReclaimableOne(r) ==
  IF r.numHandlesAcquired = 0 \/ r.acquired[Slot(r, 0)] THEN 0 ELSE 1

(* How many handles the release loop walks over: up to the first one that  *)
(* is still acquired, or all of them.                                      *)
Reclaimable(r) ==
  CHOOSE k \in 0..r.numHandlesAcquired :
    /\ \A i \in 0..(k - 1) : ~ r.acquired[Slot(r, i)]
    /\ k < r.numHandlesAcquired => r.acquired[Slot(r, k)]

(* The release loop "actually release in order of handle index".           *)
RingReclaim(r) ==
  [acquired |-> r.acquired,
   nextHandleAcquire |-> r.nextHandleAcquire,
   nextHandleRelease |-> Slot(r, Reclaimable(r)),
   numHandlesAcquired |-> r.numHandlesAcquired - Reclaimable(r)]

(* data.acquired = false, at the top of both release calls.                *)
Returned(r, h) ==
  [acquired |-> [r.acquired EXCEPT ![h] = FALSE],
   nextHandleAcquire |-> r.nextHandleAcquire,
   nextHandleRelease |-> r.nextHandleRelease,
   numHandlesAcquired |-> r.numHandlesAcquired]

RingRelease(r, h) == RingReclaim(Returned(r, h))

-----------------------------------------------------------------------------
(* What every ring that the calls can produce satisfies.  The three parts  *)
(* are stated of a ring so that they serve every module that keeps one.    *)

(* The acquire index is the release index plus the handles outstanding.    *)
IndexesAgree(r) == r.nextHandleAcquire = Slot(r, r.numHandlesAcquired)

(* Every held handle lies between the release and the acquire index.       *)
HeldAreOutstanding(r) ==
  \A h \in Held(r) : \E i \in 0..(r.numHandlesAcquired - 1) : h = Slot(r, i)

(* Something outstanding means that the oldest outstanding one is held: a  *)
(* ring is never full of handles that everybody gave back.                 *)
OldestIsHeld(r) ==
  r.numHandlesAcquired # 0 => r.acquired[r.nextHandleRelease]

RingOK(r) == IndexesAgree(r) /\ HeldAreOutstanding(r) /\ OldestIsHeld(r)
=============================================================================
