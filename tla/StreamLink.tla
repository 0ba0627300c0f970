----------------------------- MODULE StreamLink -----------------------------
(***************************************************************************)
(* The windowed link between two SoapyStreamEndpoints: one sends datagrams *)
(* of samples, the other receives them and answers with flow control ACKs  *)
(* over the same socket pair.  Each datagram carries a sequence number;    *)
(* the sender may be at most a window of sequences ahead of the last ACK.  *)
(*                                                                         *)
(* Fields of the class become variables, with the prefix of the endpoint   *)
(* they belong to: snd for the sending end, rcv for the receiving end.     *)
(* The receiving end uses _lastSendSequence for the sequence of its last   *)
(* ACK; _maxInFlightSeqs of the receiving end never changes after its      *)
(* constructor and is the constant MaxInFlightSeqs.                        *)
(*                                                                         *)
(* Sequence numbers are modulo Modulus (2^32 in the code).  A channel is    *)
(* the network and the socket buffer at its end; it keeps the order, and   *)
(* loses at most LossBudget messages (0: a TCP stream).                    *)
(***************************************************************************)
EXTENDS HandleRing, Sequences, SequencesExt

CONSTANTS
  Modulus,          \* number of sequence numbers
  MaxInFlightSeqs,  \* actualWindow / mtu, at the receiving end
  MaxHeld,          \* handles the sending caller keeps at a time; a server
                    \* worker and writeStream keep one, direct access several
  LossBudget,       \* datagrams and ACKs the network may lose
  RecvErrors,       \* may recv() of an ACK fail
  AckCap,           \* bound: ACKs in the channel (the socket buffer)
  DataCap           \* bound: datagrams in the channel (the socket buffer)

ASSUME WindowAssumption ==
  /\ MaxInFlightSeqs \in Nat \ {0}
  /\ MaxHeld \in 1..NumBuffs
  /\ Modulus \in Nat
  /\ MaxInFlightSeqs + MaxHeld < Modulus
  /\ LossBudget \in Nat
  /\ RecvErrors \in BOOLEAN
  /\ AckCap \in Nat \ {0}
  /\ DataCap \in Nat \ {0}

VARIABLES
  sndRing,             \* handles of the sending end
  sndLastSendSequence, \* sequence of the next datagram
  sndLastRecvSequence, \* sequence of the last ACK received
  sndMaxInFlightSeqs,  \* window of the last ACK received
  sndReceiveInitial,   \* recvACK was called
  sndAckRead,          \* history: the last header it took was an ACK
  sndDraining,         \* in the inner loop of waitSend
  rcvRing,             \* handles of the receiving end
  rcvLastRecvSequence, \* one past the sequence of the last datagram
  rcvLastSendSequence, \* sequence of the last ACK sent
  rcvReceiveInitial,   \* a datagram was received
  data,                \* datagrams under way
  acks,                \* ACKs under way
  lostData, lostAcks   \* what the network lost so far

sndVars == <<sndRing, sndLastSendSequence, sndLastRecvSequence,
             sndMaxInFlightSeqs, sndReceiveInitial, sndAckRead, sndDraining>>
rcvVars == <<rcvRing, rcvLastRecvSequence, rcvLastSendSequence,
             rcvReceiveInitial>>
netVars == <<data, acks, lostData, lostAcks>>
vars == <<sndVars, rcvVars, netVars>>

Seqs == 0..(Modulus - 1)

(* uint32_t(b - a).                                                        *)
Distance(a, b) == (b - a) % Modulus

(* A faulty variant: a counter wider than the field on the wire.           *)
NextSeqWide(s) == s + 1

NextSeq(s) == (s + 1) % Modulus

(* A datagram: its sequence, and whether its elems field is an error code. *)
Datagrams == [seq : Seqs, err : BOOLEAN]
Acks == [seq : Seqs, max : 0..(Modulus - 1)]

(* _triggerAckWindow: ACK at least this often; 0 when the window is small. *)
TriggerAckWindow == MaxInFlightSeqs \div NumBuffs

(* A faulty variant: a trigger of 0 turns the ACKs off.                    *)
AckDueUnlessZero(next) ==
  /\ TriggerAckWindow # 0
  /\ Distance(rcvLastSendSequence, next) >= TriggerAckWindow

(* A faulty variant: ACKs one sequence late.                               *)
AckDueLate(next) == Distance(rcvLastSendSequence, next) > TriggerAckWindow

(* "has there been at least trigger window number of sequences since the   *)
(* last ACK?"                                                              *)
AckDue(next) == Distance(rcvLastSendSequence, next) >= TriggerAckWindow

ACK(s) == [seq |-> s, max |-> MaxInFlightSeqs]

(* The constructor of the receiving end sends the first, gratuitous ACK.   *)
Init ==
  /\ sndRing = EmptyRing
  /\ sndLastSendSequence = 0
  /\ sndLastRecvSequence = 0
  /\ sndMaxInFlightSeqs = 0
  /\ sndReceiveInitial = FALSE
  /\ sndAckRead = FALSE
  /\ sndDraining = FALSE
  /\ rcvRing = EmptyRing
  /\ rcvLastRecvSequence = 0
  /\ rcvLastSendSequence = 0
  /\ rcvReceiveInitial = FALSE
  /\ data = <<>>
  /\ acks = <<ACK(0)>>
  /\ lostData = 0
  /\ lostAcks = 0

-----------------------------------------------------------------------------
(* The sending end                                                         *)

(* A faulty variant: one sequence too many fits the window.                *)
WindowOpenInclusive ==
  /\ sndReceiveInitial
  /\ Distance(sndLastRecvSequence, sndLastSendSequence) <= sndMaxInFlightSeqs

(* The condition on which the outer loop of waitSend ends.                 *)
WindowOpen ==
  /\ sndReceiveInitial
  /\ Distance(sndLastRecvSequence, sndLastSendSequence) < sndMaxInFlightSeqs

(* waitSend reads ACKs only when the window is closed, and then goes on    *)
(* reading while there are more.                                           *)
Waiting == sndDraining \/ ~ WindowOpen

(* A faulty variant: takes the window from the ACK and not the sequence.   *)
RecvACKWindowOnly ==
  /\ Waiting
  /\ acks # <<>>
  /\ sndReceiveInitial' = TRUE
  /\ sndAckRead' = TRUE
  /\ sndMaxInFlightSeqs' = Head(acks).max
  /\ sndDraining' = TRUE
  /\ acks' = Tail(acks)
  /\ UNCHANGED <<sndRing, sndLastSendSequence, sndLastRecvSequence, rcvVars,
                 data, lostData, lostAcks>>

(* A faulty variant: takes the window from the first header only, since the *)
(* receiver never changes it.                                              *)
RecvACKFirstWindow ==
  /\ Waiting
  /\ acks # <<>>
  /\ sndReceiveInitial' = TRUE
  /\ sndAckRead' = TRUE
  /\ sndLastRecvSequence' = Head(acks).seq
  /\ sndMaxInFlightSeqs' = IF sndReceiveInitial THEN sndMaxInFlightSeqs
                           ELSE Head(acks).max
  /\ sndDraining' = TRUE
  /\ acks' = Tail(acks)
  /\ UNCHANGED <<sndRing, sndLastSendSequence, rcvVars, data, lostData, lostAcks>>

RecvACK ==
  /\ Waiting
  /\ acks # <<>>
  /\ sndReceiveInitial' = TRUE
  /\ sndAckRead' = TRUE
  /\ sndLastRecvSequence' = Head(acks).seq
  /\ sndMaxInFlightSeqs' = Head(acks).max
  /\ sndDraining' = TRUE
  /\ acks' = Tail(acks)
  /\ UNCHANGED <<sndRing, sndLastSendSequence, rcvVars, data, lostData, lostAcks>>

(* recvACK after a failed recv(): the header was never written, and the    *)
(* sequence and the window are taken from it all the same.                 *)
RecvACKFailed ==
  /\ RecvErrors
  /\ Waiting
  /\ sndReceiveInitial' = TRUE
  /\ sndAckRead' = FALSE
  /\ sndLastRecvSequence' \in Seqs
  /\ sndMaxInFlightSeqs' \in 0..(Modulus - 1)
  /\ sndDraining' = TRUE
  /\ UNCHANGED <<sndRing, sndLastSendSequence, rcvVars, netVars>>

(* The inner loop ends: no more ACKs at the socket just now.               *)
StopDraining ==
  /\ sndDraining
  /\ sndDraining' = FALSE
  /\ UNCHANGED <<sndRing, sndLastSendSequence, sndLastRecvSequence,
                 sndMaxInFlightSeqs, sndReceiveInitial, sndAckRead, rcvVars, netVars>>

(* waitSend returns true, then acquireSend.                                *)
AcquireSend ==
  /\ ~ Waiting
  /\ Cardinality(Held(sndRing)) < MaxHeld
  /\ ~ RingFull(sndRing)
  /\ sndRing' = RingAcquire(sndRing)
  /\ UNCHANGED <<sndLastSendSequence, sndLastRecvSequence, sndMaxInFlightSeqs,
                 sndReceiveInitial, sndAckRead, sndDraining, rcvVars, netVars>>

(* releaseSend: the datagram takes its sequence here, not at acquireSend.  *)
ReleaseSend(h, err) ==
  /\ ~ sndDraining
  /\ h \in Held(sndRing)
  /\ Len(data) < DataCap
  /\ data' = Append(data, [seq |-> sndLastSendSequence, err |-> err])
  /\ sndLastSendSequence' = NextSeq(sndLastSendSequence)
  /\ sndRing' = RingRelease(sndRing, h)
  /\ UNCHANGED <<sndLastRecvSequence, sndMaxInFlightSeqs, sndReceiveInitial,
                 sndAckRead, sndDraining, rcvVars, acks, lostData, lostAcks>>

-----------------------------------------------------------------------------
(* The receiving end                                                       *)

(* A faulty variant: the receiver never repeats its first ACK.             *)
WaitRecvACKSilent == UNCHANGED vars

(* waitRecv: "send gratuitous ack until something is received".            *)
WaitRecvACK ==
  /\ ~ rcvReceiveInitial
  /\ Len(acks) < AckCap
  /\ acks' = Append(acks, ACK(rcvLastRecvSequence))
  /\ rcvLastSendSequence' = rcvLastRecvSequence
  /\ UNCHANGED <<sndVars, rcvRing, rcvLastRecvSequence, rcvReceiveInitial,
                 data, lostData, lostAcks>>

(* acquireRecv of a whole datagram.                                        *)
AcquireRecv ==
  /\ ~ RingFull(rcvRing)
  /\ data # <<>>
  /\ LET next == NextSeq(Head(data).seq)
     IN  /\ rcvLastRecvSequence' = next
         /\ \/ /\ AckDue(next)
               /\ Len(acks) < AckCap
               /\ rcvLastSendSequence' = next
               /\ acks' = Append(acks, ACK(next))
            \/ /\ ~ AckDue(next)
               /\ UNCHANGED <<rcvLastSendSequence, acks>>
  /\ rcvReceiveInitial' = TRUE
  /\ rcvRing' = IF Head(data).err THEN rcvRing ELSE RingAcquire(rcvRing)
  /\ data' = Tail(data)
  /\ UNCHANGED <<sndVars, lostData, lostAcks>>

(* acquireRecv of a datagram that arrives cut short: STREAM_ERROR, after   *)
(* _receiveInitial was set and before any flow control.                    *)
AcquireRecvShort ==
  /\ ~ RingFull(rcvRing)
  /\ data # <<>>
  /\ lostData + lostAcks < LossBudget
  /\ lostData' = lostData + 1
  /\ rcvReceiveInitial' = TRUE
  /\ data' = Tail(data)
  /\ UNCHANGED <<sndVars, rcvRing, rcvLastRecvSequence, rcvLastSendSequence,
                 acks, lostAcks>>

ReleaseRecv(h) ==
  /\ h \in Held(rcvRing)
  /\ rcvRing' = RingRelease(rcvRing, h)
  /\ UNCHANGED <<sndVars, rcvLastRecvSequence, rcvLastSendSequence,
                 rcvReceiveInitial, netVars>>

-----------------------------------------------------------------------------
(* The network                                                             *)

LoseData(i) ==
  /\ lostData + lostAcks < LossBudget
  /\ data' = RemoveAt(data, i)
  /\ lostData' = lostData + 1
  /\ UNCHANGED <<sndVars, rcvVars, acks, lostAcks>>

LoseACK(i) ==
  /\ lostData + lostAcks < LossBudget
  /\ acks' = RemoveAt(acks, i)
  /\ lostAcks' = lostAcks + 1
  /\ UNCHANGED <<sndVars, rcvVars, data, lostData>>

Sender == RecvACK \/ RecvACKFailed \/ StopDraining \/ AcquireSend
            \/ \E h \in Handles, err \in BOOLEAN : ReleaseSend(h, err)

Receiver == WaitRecvACK \/ AcquireRecv \/ AcquireRecvShort
              \/ \E h \in Handles : ReleaseRecv(h)

Network == \/ \E i \in DOMAIN data : LoseData(i)
           \/ \E i \in DOMAIN acks : LoseACK(i)

Next == Sender \/ Receiver \/ Network

Spec == Init /\ [][Next]_vars

(* Both callers run loops: the sending one waits for the window, the       *)
(* receiving one reads and gives buffers back.  Every waitRecv that sees a *)
(* datagram is followed by an acquireRecv, however many ACKs go out.       *)
Fairness ==
  /\ WF_vars(RecvACK)
  /\ WF_vars(StopDraining)
  /\ WF_vars(WaitRecvACK)
  /\ SF_vars(AcquireRecv)
  /\ \A h \in Handles : WF_vars(ReleaseRecv(h))

FairSpec == Spec /\ Fairness

-----------------------------------------------------------------------------
TypeOK ==
  /\ sndRing \in Rings /\ rcvRing \in Rings
  /\ sndLastSendSequence \in Seqs /\ sndLastRecvSequence \in Seqs
  /\ sndMaxInFlightSeqs \in 0..(Modulus - 1)
  /\ sndReceiveInitial \in BOOLEAN /\ sndAckRead \in BOOLEAN /\ sndDraining \in BOOLEAN
  /\ rcvLastRecvSequence \in Seqs /\ rcvLastSendSequence \in Seqs
  /\ rcvReceiveInitial \in BOOLEAN
  /\ data \in Seq(Datagrams) /\ acks \in Seq(Acks)
  /\ lostData \in Nat /\ lostAcks \in Nat

(* Never more datagrams in the network and the socket buffer than the      *)
(* window, plus the handles beyond the first that the sending caller had   *)
(* acquired when waitSend last let it through.                             *)
InFlightBound == Len(data) <= MaxInFlightSeqs + MaxHeld - 1

(* Sequences between two ACKs of a link without losses.                   *)
Step == IF TriggerAckWindow = 0 THEN 1 ELSE TriggerAckWindow

(* The receiver never owes an ACK: it is less than the trigger behind.     *)
AckLagBounded ==
  Distance(rcvLastSendSequence, rcvLastRecvSequence) < Step

(* The window the sender works with is the one the receiver announced.     *)
LimitFromPacket == sndReceiveInitial => sndMaxInFlightSeqs = MaxInFlightSeqs

(* The link is idle: all that was sent was received or lost, and the       *)
(* receiver will send no ACK of its own accord.                            *)
Idle == data = <<>> /\ acks = <<>> /\ rcvReceiveInitial

(* The sender waits for an ACK that nobody will send only after losses     *)
(* worth the window less the sequences an ACK may lag: a lost datagram is  *)
(* worth one sequence, a lost ACK the sequences between two ACKs.  Without *)
(* losses the sender never waits in vain.                                  *)
StallNeedsLoss ==
  Idle /\ ~ WindowOpen
    => lostData + Step * lostAcks + (Step - 1) >= MaxInFlightSeqs

(* What a failed recvACK leaves behind is gone with the next ACK (both     *)
(* fields are taken from each one): however far a header that was never    *)
(* written let the sender run ahead, waitSend lets it on only while less   *)
(* than a window of datagrams is under way.                                *)
WindowHeals == sndAckRead /\ WindowOpen => Len(data) < MaxInFlightSeqs

(* Wherever such a header had put the sender, once an ACK was read it      *)
(* waits in vain only after losses as in StallNeedsLoss: the receiver      *)
(* acknowledges all that comes, also when its trigger is 0.  (With the     *)
(* header still in place the sender may stall without any loss.)           *)
StallHeals ==
  Idle /\ sndAckRead /\ ~ WindowOpen
    => lostData + Step * lostAcks + (Step - 1) >= MaxInFlightSeqs

(* How far the sender can get ahead of the oldest ACK under way when only  *)
(* the socket buffers hold it back.  In the code, 2^32 is far beyond it.   *)
Reach == Step * (AckCap + LossBudget + 1) + DataCap + LossBudget

(* Both rings keep their shape.                                            *)
RingsOK == RingOK(sndRing) /\ RingOK(rcvRing)

(* Why the two bounds hold.  Sequences are placed by their distance from   *)
(* the last ACK the sender received; seen from there the ACKs under way,   *)
(* the last ACK sent, the last datagram received, the datagrams under way  *)
(* and the next datagram follow one another.                               *)
Ahead(s) == Distance(sndLastRecvSequence, s)

DataPlaces == [i \in DOMAIN data |-> Ahead(data[i].seq)]
AckPlaces == [i \in DOMAIN acks |-> Ahead(acks[i].seq)]

(* f[1], ..., f[n] never fall and stay below top.                          *)
Rising(f, n, top) ==
  /\ \A i \in 1..n : f[i] <= top
  /\ \A i, j \in 1..n : i <= j => f[i] <= f[j]

(* f[1], ..., f[n] rise by one or more, from low on and below top.         *)
Spaced(f, n, low, top) ==
  /\ low + n <= top
  /\ \A i \in 1..n : low + i <= f[i] + 1 /\ f[i] + (n - i) + 1 <= top
  /\ \A i, j \in 1..n : i <= j => f[i] + (j - i) <= f[j]

AcksInOrder ==
  /\ Rising(AckPlaces, Len(acks), Ahead(rcvLastSendSequence))
  /\ Ahead(rcvLastSendSequence) <= Ahead(rcvLastRecvSequence)

DataInOrder ==
  Spaced(DataPlaces, Len(data),
         Ahead(rcvLastRecvSequence), Ahead(sndLastSendSequence))

(* A handle acquired is a sequence the sender will use: both together fit. *)
CreditsFit ==
  Ahead(sndLastSendSequence) + Cardinality(Held(sndRing))
    <= MaxInFlightSeqs + MaxHeld - 1

WindowKnown ==
  /\ \A i \in DOMAIN acks : acks[i].max = MaxInFlightSeqs
  /\ sndReceiveInitial => sndMaxInFlightSeqs = MaxInFlightSeqs

(* Sequences past the receiver that are neither received nor under way.    *)
Missing ==
  Ahead(sndLastSendSequence) - Ahead(rcvLastRecvSequence) - Len(data)

(* From zero and from every f[i] to top it is at most a step for each      *)
(* element after it, and the debt.                                         *)
Accounted(f, n, top, debt, step) ==
  /\ top <= step * n + debt
  /\ \A i \in 1..n : top <= f[i] + step * (n - i) + debt

(* From any ACK to the last one sent it is at most a step for every ACK    *)
(* after it, a step for every lost ACK, and the lost datagrams passed.     *)
LossAccounted ==
  Accounted(AckPlaces, Len(acks), Ahead(rcvLastSendSequence),
            Step * lostAcks + lostData - Missing, Step)

(* Before the first ACK the sender has sent nothing and holds no handle.    *)
QuietStart ==
  ~ sndReceiveInitial
    => Held(sndRing) = {} /\ data = <<>> /\ ~ rcvReceiveInitial

LinkInv ==
  /\ RingsOK
  /\ QuietStart
  /\ AckLagBounded
  /\ AcksInOrder
  /\ DataInOrder
  /\ CreditsFit
  /\ WindowKnown
  /\ LossAccounted

(* However often ACKs are lost, the sender learns its window in the end:   *)
(* the receiver repeats the first ACK until a datagram arrives.            *)
SenderStarts == <>sndReceiveInitial

(* A closed window opens again, for the receiver reads and ACKs and the    *)
(* sender reads the ACK; unless losses worth a window are in the way.      *)
WindowReopens ==
  ~ WindowOpen
    ~> \/ WindowOpen
       \/ lostData + Step * lostAcks + (Step - 1) >= MaxInFlightSeqs
=============================================================================
