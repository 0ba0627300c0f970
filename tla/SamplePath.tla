------------------------------ MODULE SamplePath ------------------------------
(***************************************************************************)
(* What becomes of the samples of a stream, of their flags and times, and  *)
(* of errors, on the way between device and application: the workers of    *)
(* the server (server/ServerStreamData.cpp), a link of datagrams, and      *)
(* readStream and writeStream of the client (client/Streaming.cpp).  The   *)
(* stream is received ("rx": device to application) or transmitted ("tx"). *)
(*                                                                         *)
(* Samples are numbered and come in bursts.  The time of a sample is its   *)
(* number.  ONE_PACKET and END_ABRUPT are treated as END_BURST is, and are *)
(* left out, as are timeouts, after which both sides just try again.  The  *)
(* flow control of the link is in StreamLink; here it is a queue.  How     *)
(* the samples are written as numbers is in SampleFormats.                 *)
(***************************************************************************)
EXTENDS Integers, Sequences, SequencesExt, SampleFormats

CONSTANTS
  NumSamples,  \* bound: samples of the stream
  Ends,        \* the samples that end a burst
  BuffSize,    \* elements of an endpoint's buffer
  DeviceMTU,   \* elements that the device hands out at once
  LinkCap,     \* datagrams on the link
  MaxErrors,   \* bound: errors of the device
  MaxLost      \* bound: datagrams that are lost

ASSUME SampleAssumption ==
  /\ NumSamples \in Nat /\ Ends \subseteq 1 .. NumSamples
  /\ BuffSize \in Nat \ {0} /\ DeviceMTU \in Nat \ {0} /\ LinkCap \in Nat \ {0}
  /\ MaxErrors \in Nat /\ MaxLost \in Nat

VARIABLES
  direction,  \* of the stream
  next,       \* the first sample that was not yet taken from its source
  worker,     \* what the worker of the server is at
  buffer,     \* the datagram in its hands
  link,       \* datagrams on their way
  rest,       \* rx: the remainder that the client keeps, with readElemsLeft > 0
  sink,       \* what application (rx) or device (tx) was given, call by call
  errors, lost

vars == << direction, next, worker, buffer, link, rest, sink, errors, lost >>

\* A datagram holds samples or an error; flags and time are those of the first sample.
Datagram(elems, flags, time) ==
  [elems |-> elems, err |-> FALSE, flags |-> flags, time |-> time]
Failure == [elems |-> << >>, err |-> TRUE, flags |-> {}, time |-> 0]
Empty == Datagram(<< >>, {}, 0)

\* A result: the samples of a call, out of those at hand, and whether they are the
\* first of a datagram.
Result(elems, flags, time, of, first) ==
  [elems |-> elems, err |-> FALSE, flags |-> flags, time |-> time, of |-> of, first |-> first]
Error == [elems |-> << >>, err |-> TRUE, flags |-> {}, time |-> 0, of |-> << >>, first |-> TRUE]

Init ==
  /\ direction \in {"rx", "tx"} /\ next = 1
  /\ worker = "wait" /\ buffer = Empty /\ link = << >> /\ rest = << >> /\ sink = << >>
  /\ errors = 0 /\ lost = 0

Least(a, b) == IF a < b THEN a ELSE b
Run(n) == [i \in 1 .. n |-> next + i - 1]
\* The next n samples are there, and of one burst.
Available(n) == next + n - 1 <= NumSamples /\ \A i \in 1 .. n - 1 : Run(n)[i] \notin Ends
\* END_BURST comes with the last sample of a burst.
Trailing(elems) == IF Last(elems) \in Ends THEN {"END_BURST"} ELSE {}
First(n, k) == SubSeq(n, 1, k)
After(n, k) == SubSeq(n, k + 1, Len(n))
-----------------------------------------------------------------------------
(* Receiving: sendEndpointWork() and readStream().                         *)

\* The first read; a buffer that has room is filled up, unless a burst has ended.
FirstRead(n) ==
  /\ direction = "rx" /\ worker = "wait" /\ Len(link) < LinkCap
  /\ n <= Least(DeviceMTU, BuffSize) /\ Available(n)
  /\ \E timed \in {{}, {"HAS_TIME"}} :
       buffer' = Datagram(Run(n), timed \cup Trailing(Run(n)), next)
  /\ worker' = IF n < BuffSize /\ Trailing(Run(n)) = {} THEN "fill" ELSE "send"
  /\ next' = next + n
  /\ UNCHANGED << direction, link, rest, sink, errors, lost >>

\* The device has lost a sample, and says so.
Overflow ==
  /\ errors < MaxErrors /\ next <= NumSamples
  /\ next' = next + 1 /\ errors' = errors + 1
  /\ worker' = "send"
  /\ UNCHANGED << direction, link, rest, sink, lost >>

FirstReadFails ==
  /\ direction = "rx" /\ worker = "wait" /\ Len(link) < LinkCap
  /\ Overflow /\ buffer' = Failure

\* The second read, without a timeout; only its trailing flags are kept.
SecondRead(n) ==
  /\ worker = "fill" /\ n <= BuffSize - Len(buffer.elems) /\ Available(n)
  /\ buffer' = [buffer EXCEPT !.elems = @ \o Run(n), !.flags = @ \cup Trailing(Run(n))]
  /\ next' = next + n /\ worker' = "send"
  /\ UNCHANGED << direction, link, rest, sink, errors, lost >>

\* A faulty variant: the worker waits until it can fill the buffer.
SecondReadWaits == FALSE /\ UNCHANGED vars

SecondReadEmpty ==
  /\ worker = "fill" /\ worker' = "send"
  /\ UNCHANGED << direction, next, buffer, link, rest, sink, errors, lost >>

\* A faulty variant: what was read before the error goes out without it.
SecondReadHides == worker = "fill" /\ Overflow /\ UNCHANGED buffer

\* The error takes the place of what was read before.
SecondReadFails == worker = "fill" /\ Overflow /\ buffer' = Failure

\* releaseSend().
SendBuffer ==
  /\ direction = "rx" /\ worker = "send" /\ worker' = "wait"
  /\ link' = Append(link, buffer) /\ buffer' = Empty
  /\ UNCHANGED << direction, next, rest, sink, errors, lost >>

\* The samples of a call of readStream, out of those at hand.
Hand(elems, n, flags, time, first) ==
  LET k == Least(n, Len(elems))
      more == IF k < Len(elems) THEN {"MORE_FRAGMENTS"} ELSE {}
  IN /\ sink' = Append(sink, Result(First(elems, k), flags \cup more, time, elems, first))
     /\ rest' = After(elems, k)

\* readStream without a remainder: a datagram, or its error.
ReadStream(n) ==
  /\ direction = "rx" /\ rest = << >> /\ link # << >> /\ link' = Tail(link)
  /\ LET d == Head(link)
     IN IF d.err THEN sink' = Append(sink, Error) /\ UNCHANGED rest
        ELSE Hand(d.elems, n, d.flags, d.time, TRUE)
  /\ UNCHANGED << direction, next, worker, buffer, errors, lost >>

\* readStream goes on with the remainder; flags and time are left as the caller set
\* them, which is cleared.
ReadRemainder(n) ==
  /\ rest # << >> /\ Hand(rest, n, {}, 0, FALSE)
  /\ UNCHANGED << direction, next, worker, buffer, link, errors, lost >>
-----------------------------------------------------------------------------
(* Transmitting: writeStream() and recvEndpointWork().                     *)

\* A faulty variant: the flags of the caller stay as they are.
KeptFlags(flags, k, n) == flags

\* The burst is ended only with the last sample of it.
SentFlags(flags, k, n) == IF k < n THEN flags \ {"END_BURST"} ELSE flags

\* writeStream takes as many samples as a buffer holds; the application comes back
\* with the others.
WriteStream(n) ==
  /\ direction = "tx" /\ Len(link) < LinkCap /\ Available(n)
  /\ LET k == Least(n, BuffSize)
     IN /\ \E timed \in {{}, {"HAS_TIME"}} :
             link' = Append(link, Datagram(Run(k),
                              SentFlags(timed \cup Trailing(Run(n)), k, n), next))
        /\ next' = next + k
  /\ UNCHANGED << direction, worker, buffer, rest, sink, errors, lost >>

\* acquireRecv().
RecvBuffer ==
  /\ direction = "tx" /\ worker = "wait" /\ link # << >>
  /\ worker' = "write" /\ buffer' = Head(link) /\ link' = Tail(link)
  /\ UNCHANGED << direction, next, rest, sink, errors, lost >>

\* The device takes k samples; the time is cleared for what is left.
Write(k, left) ==
  /\ sink' = Append(sink, Result(First(buffer.elems, k), buffer.flags, buffer.time,
                                 buffer.elems, TRUE))
  /\ IF k = Len(buffer.elems) THEN worker' = "wait" /\ buffer' = Empty
     ELSE worker' = "write" /\ buffer' = left
  /\ UNCHANGED << direction, next, link, rest, errors, lost >>

DeviceWrite(k) ==
  /\ worker = "write" /\ k <= Len(buffer.elems)
  /\ Write(k, [buffer EXCEPT !.elems = After(@, k), !.flags = @ \ {"HAS_TIME"}])

\* After an error, which goes to the status of the stream, what is left is discarded.
DeviceWriteFails ==
  /\ worker = "write" /\ errors < MaxErrors
  /\ sink' = Append(sink, Error) /\ errors' = errors + 1
  /\ worker' = "wait" /\ buffer' = Empty
  /\ UNCHANGED << direction, next, link, rest, lost >>
-----------------------------------------------------------------------------
\* A datagram is lost on its way.
Lose(i) ==
  /\ lost < MaxLost /\ lost' = lost + 1
  /\ link' = RemoveAt(link, i)
  /\ UNCHANGED << direction, next, worker, buffer, rest, sink, errors >>

Sizes == 1 .. BuffSize + 1

ServerRx == \/ \E n \in Sizes : FirstRead(n) \/ SecondRead(n)
            \/ FirstReadFails \/ SecondReadFails \/ SecondReadEmpty \/ SendBuffer
ServerTx == RecvBuffer \/ (\E k \in Sizes : DeviceWrite(k)) \/ DeviceWriteFails
Client == \E n \in Sizes : ReadStream(n) \/ ReadRemainder(n) \/ WriteStream(n)

Next == ServerRx \/ ServerTx \/ Client \/ \E i \in DOMAIN link : Lose(i)

Spec == Init /\ [][Next]_vars

\* The worker gets to run, the device has and takes samples, the application goes on
\* to read and write.
FairSpec == Spec /\ WF_vars(ServerRx) /\ WF_vars(ServerTx) /\ WF_vars(Client)
-----------------------------------------------------------------------------
(* Properties.                                                             *)

FlagsOf == {"HAS_TIME", "END_BURST", "MORE_FRAGMENTS"}
Held(elems) == elems \in Seq(1 .. NumSamples) /\ Len(elems) <= BuffSize
IsDatagram(d) == /\ Held(d.elems) /\ d.err \in BOOLEAN /\ d.flags \subseteq FlagsOf
                 /\ d.time \in 0 .. NumSamples /\ (d.err => d.elems = << >>)

\* Every variable has its type; no buffer is written beyond its size.
TypeOK ==
  /\ direction \in {"rx", "tx"} /\ next \in 1 .. NumSamples + 1
  /\ worker \in {"wait"} \cup IF direction = "rx" THEN {"fill", "send"} ELSE {"write"}
  /\ IsDatagram(buffer) /\ Len(link) <= LinkCap
  /\ \A i \in DOMAIN link : IsDatagram(link[i])
  /\ Held(rest) /\ (direction = "tx" => rest = << >>)
  /\ \A i \in DOMAIN sink : IsDatagram(sink[i]) /\ Held(sink[i].of)
  /\ errors \in 0 .. MaxErrors /\ lost \in 0 .. MaxLost

Ok(i) == ~ sink[i].err

\* Samples come in their order, and none twice, whatever is lost or fails.
InOrder ==
  \A i, j \in DOMAIN sink : i < j /\ Ok(i) /\ Ok(j) => Last(sink[i].elems) < sink[j].elems[1]

\* Where samples are missing an error was returned, unless the link lost something:
\* within a call, between two calls, and at the start.
GapsAnnounced ==
  lost = 0 =>
    \A i \in DOMAIN sink : Ok(i) =>
      /\ \A k \in 1 .. Len(sink[i].elems) - 1 : sink[i].elems[k + 1] = sink[i].elems[k] + 1
      /\ i = 1 => sink[i].elems[1] = 1
      /\ i > 1 /\ sink[i - 1].err = FALSE
           => sink[i].elems[1] = Last(sink[i - 1].elems) + 1

\* Buffers hold what they can; samples come in order, and gaps come with an error.
SampleInv == TypeOK /\ InOrder /\ GapsAnnounced

\* A time is that of the first sample it comes with.
TimeRight ==
  \A i \in DOMAIN sink : "HAS_TIME" \in sink[i].flags => sink[i].time = sink[i].elems[1]

\* No call mixes the samples of two bursts ("Preserve packet+burst boundaries",
\* Changelog.txt:99).
BurstsApart ==
  \A i \in DOMAIN sink : \A k \in 1 .. Len(sink[i].elems) - 1 : sink[i].elems[k] \notin Ends

\* The call that returned the first samples of the datagram.
FirstOf(i) == CHOOSE j \in 1 .. i : sink[j].first /\ \A k \in j + 1 .. i : ~ sink[k].first

\* The last sample of a burst comes with END_BURST ("apply second SOAPY_SDR_END_BURST
\* flag", Changelog.txt:80), or is the remainder of a datagram whose first samples came
\* with it; and END_BURST comes with no other samples.
EndRight ==
  \A i \in DOMAIN sink : Ok(i) =>
    /\ Last(sink[i].elems) \in Ends => "END_BURST" \in sink[FirstOf(i)].flags
    /\ "END_BURST" \in sink[i].flags => Last(sink[i].of) \in Ends

\* Times, ends of bursts and the samples between them belong together on both sides.
FlagsRight == TimeRight /\ BurstsApart /\ EndRight

\* Formats and conversions, of which the code has several lists and two directions written
\* by hand, agree with one another when a stream is set up: a receiver gets the levels
\* that were sampled, and what a transmitter got from a receiver goes out as it was.
FormatsAgree ==
  next = 1 => FormatsServed /\ IF direction = "rx" THEN SameLevel ELSE LoopbackExact

\* All samples come to the other side: nothing stays in a buffer, on the link or with
\* the client.
Drained == <>[](next > NumSamples /\ worker = "wait" /\ link = << >> /\ rest = << >>)
=============================================================================
