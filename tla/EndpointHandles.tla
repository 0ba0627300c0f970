--------------------------- MODULE EndpointHandles ---------------------------
(***************************************************************************)
(* One endpoint and a caller that acquires handles and releases them in    *)
(* any order (the direct buffer access of client/Streaming.cpp lets the    *)
(* user keep several and return them as it likes).                         *)
(***************************************************************************)
EXTENDS HandleRing, Sequences

VARIABLE ring

vars == <<ring>>

Init == ring = EmptyRing

(* acquireSend, and acquireRecv of a datagram that carries samples.        *)
Acquire ==
  /\ ~ RingFull(ring)
  /\ ring' = RingAcquire(ring)

(* releaseSend and releaseRecv; neither checks that the handle is held.    *)
Release(h) == ring' = RingRelease(ring, h)

Next == Acquire \/ \E h \in Handles : Release(h)

Spec == Init /\ [][Next]_vars

-----------------------------------------------------------------------------
TypeOK == ring \in Rings

(* No release order can break the ring: its two indexes and its counter    *)
(* agree, held handles are between the indexes, and the oldest outstanding *)
(* handle is one the caller still has, so "all buffers acquired" is never  *)
(* reported to a caller that gave everything back.                         *)
RingInv == RingOK(ring)

(* An acquire never hands out a buffer the caller still has: whenever the  *)
(* count of outstanding handles grows, one handle that was free is held.   *)
HandsOutFreeHandle ==
  [][ring'.numHandlesAcquired > ring.numHandlesAcquired
       => \E h \in Handles \ Held(ring) :
            Held(ring') = Held(ring) \cup {h}]_vars

(* The ring implements the pool: the list of outstanding buffers is the    *)
(* stretch of the ring between its two indexes.                            *)
Outstanding ==
  [i \in 1..ring.numHandlesAcquired |-> Slot(ring, i - 1)]

Pool == INSTANCE HandlePool
          WITH Buffers <- Handles, outstanding <- Outstanding, held <- Held(ring)

PoolSpec == Pool!Spec
=============================================================================
