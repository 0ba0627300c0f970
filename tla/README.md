# SoapyRemote in TLA+

SoapyRemote lets an application use an SDR device that is attached to another
machine. A client library stands in for the device and forwards each call to a
server; samples flow beside the calls over a pair of sockets with a windowed
flow control; log messages of the server come back over a connection of their
own; and servers are found by SSDP and mDNS. This directory models the parts whose
correctness depends on the order of events or on two pieces of code that were written
apart and must agree, checks them with TLC, and proves the flow control, the transactions,
the discovery, the server's sessions and the log link with TLAPS.

Paths below are relative to `src/`.

## 1. Inventory

### Parts, state, operations

| Component | State | Operations | Interacts with |
| --- | --- | --- | --- |
| Stream endpoint, `common/SoapyStreamEndpoint` | ring of 8 buffer handles; sequence counters, window | `acquireRecv` `releaseRecv` `waitRecv` `waitSend` `acquireSend` `releaseSend` `sendACK` `recvACK`; status | its peer, over a UDP or a TCP socket pair |
| Server stream workers, `server/ServerStreamData` | `done`, two threads, the endpoint | start, loop, `stopThreads` | device stream, endpoint, the handler that joins them |
| Client handler, `server/ClientHandler` | device, `_streamData` by id, log forwarder | one case per remote call, destructor | client (RPC), workers, device factory |
| Listener, `server/ServerListener`, `SoapyServer` | `_handlers`: a thread, a socket and `done` per client | accept, clean-up, Ctrl+C | handler threads, which set `done`; joins them |
| Log forwarding, `server/LogForwarding` | set of subscribed sockets, its mutex | subscribe, unsubscribe, send | every thread that logs; the sockets of handlers |
| Log acceptor, `client/LogAcceptor` | per server: use count, `done`, thread, socket; one mutex | subscribe, unsubscribe, maintenance, relay | log forwarding |
| Client streams, `client/Streaming`, `ClientStreamData` | remainder of a buffer with its flags and time | `setupStream` `closeStream` `readStream` `writeStream`, direct access | endpoint, RPC |
| RPC, `common/SoapyRPC*` | a socket, one message | request, reply, timeout | both sides |
| Device proxy, `client/Settings` | RPC socket, mutex | about 110 calls | RPC, log acceptor |
| Discovery, `common/SoapySSDPEndpoint`, `SoapyMDNSEndpoint*`, `client/DiscoverServers` `Registration` | cache of server URLs with expiry | search, notify, expiry, merge | other hosts |
| Utilities (URL, HTTP, interfaces, thread priority) | none | | |

### What is hard, and what correctness means

* **Stream endpoint.** Callers release handles in any order, the ring hands out in
  order. The sender may be a window ahead of the last ACK; datagrams and ACKs get
  lost, sequences wrap, nothing is sent again. Correct: no buffer is given out
  twice; the window holds; the sender only stalls after losses worth a window; a
  sender that starts late still learns its window.
* **Server session.** Three kinds of threads end one another: workers see `done`,
  the handler joins workers, the listener joins handlers. A client may die at any
  step, a device call may throw. Correct: a worker never outlives what it works
  on, nothing is closed twice or left open, one client cannot stop the server.
* **Log link.** The log socket has two writers on the server (the handler's replies
  and any thread that logs, of which only the second takes the mutex) and is read
  by two threads on the client, one after the other. A full socket blocks with the
  mutex held. Correct: no deleted socket is written to, mutexes are given back,
  the relay thread lives exactly as long as somebody uses it.
* **Remote calls.** Some 110 methods are packed, unpacked, executed and answered by
  hand on both sides. Correct: a call of the remote device is the call of a local one.
* **Transactions.** Replies carry no request number, threads share the connection, calls
  time out, either end may go in the middle of a message. Correct: each call gets its own
  reply, messages stay whole, calls and handlers end.
* **Samples.** A datagram is filled by two reads and emptied by many; flags, times and
  errors belong to particular samples of it. Formats are converted by two sets of
  functions that must agree. Correct: order, announced gaps, bursts kept apart, same
  levels.
* **Discovery.** Several processes of several hosts, a lossy multicast, expiry, servers
  that come back. Correct: what is there is found, what is gone is forgotten, what is
  listed is one entry per server that can be reached.

`PROJECT.json` lists each hazard at its line with the properties that cover it.

## 2. Modules

| Module | Models | Stands on |
| --- | --- | --- |
| `HandleRing` | the ring of handles, as operators on a record with the fields of the class | |
| `HandlePool` | abstract specification: a pool that takes buffers back in the order it gave them out | |
| `EndpointHandles` | one endpoint whose caller acquires and releases in any order; implements `HandlePool` | `HandleRing`, `INSTANCE HandlePool` |
| `StreamLink` | two endpoints and the network between them | `HandleRing` |
| `ServerSession` | listener, handlers, workers, clients | |
| `LogLink` | log acceptor, log forwarding, the connections between them | |
| `RpcTypes` | packer and unpacker: every type on the wire, in both versions of the protocol | |
| `DeviceCalls` | every call of the library: what the client packs, the handler unpacks, calls and answers, and what the client expects | |
| `LocalCalls` | abstract specification: the call of a device of this process | `DeviceCalls` |
| `RemoteCall` | one call from the application to the device and back, with its greeting; implements `LocalCalls` | `RpcTypes`, `DeviceCalls`, `INSTANCE LocalCalls` |
| `MCRemoteCall` | values of each type for TLC | `RemoteCall` |
| `RpcTransaction` | the connection: threads, time-outs, ends that go | |
| `SampleFormats` | choice of formats and conversions of samples | |
| `SamplePath` | samples between device and application, both directions | `SampleFormats` |
| `Discovery` | merge, duplicates and translation of arguments, as operators | |
| `SsdpCache` | SSDP endpoints of a server and of several clients, and what they list | `Discovery` |
| `EndpointHandlesProofs` `StreamLinkProofs` `RemoteCallProofs` `RpcTransactionProofs` `SsdpCacheProofs` `ServerSessionProofs` `LogLinkProofs` `SamplePathProofs` | theorems | the modules they are named after |

What a later extension would add, most valuable first: the byte stream of TCP under
`StreamLink` (a `recvACK` in two pieces) and reordering of datagrams; `ServerSession`
composed with `StreamLink` at the level of "a worker is blocked in `waitSend`".

## 3. How the modules correspond to the code

`PROJECT.json` maps every definition to its lines. Operators called "a faulty
variant" are not part of any specification: each is a plausible bug, and the
property named for it in `PROJECT.json` fails when it takes the place of the
definition after it.

### HandleRing, EndpointHandles

A record has the four fields of the class: `acquired` (of `BufferData`),
`nextHandleAcquire`, `nextHandleRelease`, `numHandlesAcquired`. `RingAcquire` is the
end of `acquireRecv`/`acquireSend`, `RingRelease` the whole of `releaseRecv` and the
end of `releaseSend`, its loop included: `Reclaimable` is the number of turns the
loop takes. `Release(h)` accepts any handle, held or not, as the code does.

### StreamLink

Variables with `snd` and `rcv` are the fields of the sending and the receiving
endpoint. `RecvACK` and `StopDraining` are the two loops of `waitSend`, one `recvACK`
at a time; `AcquireSend` is a successful `waitSend` and the `acquireSend` after it;
the sequence is taken in `ReleaseSend`, as in the code. `AcquireRecv` is a whole
`acquireRecv` with its ACK. `WaitRecvACK` is the gratuitous ACK of `waitRecv`.
Payloads are left out, except whether the `elems` field is an error code (then no
handle is acquired). A channel keeps order and stands for the network and the
socket buffer at its end. `LoseData` and `LoseACK` remove any message while the
budget lasts; `AcquireRecvShort` is the early return for a datagram cut short;
`RecvACKFailed` is `recvACK` after a failed `recv()`, whose header is then anything.
`sndAckRead` is a history variable, read by properties only: whether the last header that
the sender took was one that came.

### ServerSession

Each handler has a program counter `pc`: `waiting` in `selectRecv`, `returned` at the
test of `done` in `handlerLoop`, `setup` and `accepting` inside SETUP_STREAM,
`closing`, `unmaking`, `leaving` in the three loops that stop threads and close
streams (`todo` are the ids left of the loop, which goes through the map in their order), `ended` when the thread function is
over, `joined` when the listener has deleted it. A stream's two workers are
`running`, `stuck` (in a loop or call that does not look at `done`), `exited` or
`joined`. The listener's loop over `_handlers` is `visit`; `Erase` finds a done entry,
`Join` is the destructor's `join` returning. Ctrl+C sets `serverDone` at any time.

A worker's turn is not modelled, only how it ends: it sees `done` (every wait in it
times out), quits after an error of the endpoint, or spins at the end of a TCP
stream. Clients make calls in the order of the library (`client/Settings.cpp`,
`client/Streaming.cpp`): one at a time, since all take the mutex. Device calls that
may throw are a constant. An exception in a destructor, or the join of a deleted
thread, ends the process (`Crash`): the second is undefined behaviour, of which this
is the mildest outcome.

### LogLink

`holder` is where the thread that holds `logMutex` is in `threadMaintenance` and what
it calls. The k-th connection, the k-th relay thread and the k-th handler belong
together. `link` is `broken` after a reset and `closed` once the client has closed it.
`pending` is what is left of the loop over `subscribers` in `handleLogMessage`: it is
empty exactly when `subscribersMutex` is free. The replies of handlers go to the same
queue without it. `MakeFails` is an exception in the constructor of
`SoapyRemoteDevice` after the acceptor was made.

### RpcTypes, DeviceCalls, LocalCalls, RemoteCall

A message is a sequence of items, each with the tag that `SoapyRPCPacker` writes before a
value; `RpcTypes` has a packing and an unpacking for each type, containers included, with
what depends on the version of the other side (the step of a range is only there from
version 0.4.0 on, `common/SoapyRPCPacker.cpp:136`). Integers have `IntBits` bits and doubles
`MantBits` bits of mantissa: both conversions are exercised at their edges. An operator& of
the code calls those of simpler types only, at most four deep, so the layers `Pack0`,
`Pack1`, ... `PackAs` (and `Unpack0` ... `UnpackAs`) take the place of recursion; each is the
same operator on top of the layer below. `Samples` gives the values that applications pass and
devices return: any that fit the wire (`SamplesAssumption`), where a map must leave room for
the entry that GET_HARDWARE_INFO adds. Values that do not fit, such as an `int` wider than
32 bits, cannot exist in the code, but a list of more than 2^31 elements can, and is left out.
`Calls` are the names that stand for the numbers of the calls.
`DeviceCalls` is one table: for each method its parameters as packed, the condition of the
`#ifdef` around it, what the handler unpacks, and the result. `RemoteCall` walks through
a call: greeting, packing, sending, unpacking in the handler, the device, the answer,
unpacking in the client. Its `INSTANCE LocalCalls` is the refinement: seen from application
and device, nothing but the call of a local device has happened, or an exception came
back. Default arguments, which the handler does not see, are those of the client.

Two facts that the table keeps: GET_REFERENCE_CLOCK_RATE's client reads its result into an
uninitialised double when unpacking throws; `ensureSpace` of the packer never updates
`_capacity`, which costs copies and nothing else.

### RpcTransaction

A message is a header and the rest, since these are the two `recv()` of the unpacker; a
peer may go between them. `Begin` is the mutex and `send`; `GetHeader`, `GetReply`,
`GetException` and `GetPort` the reply; `Connect` the two connections of a TCP stream
between two replies. Times are left out: a call may time out whenever nothing has
arrived (`GiveUp`). `Hang` is a device that does not return. `ServerGoes` and `ClientGoes` end a
process or a host, with or without a reset, and cut what is on its way. The payload loop
takes 0 bytes for progress (`common/SoapyRPCUnpacker.cpp:111`), so that after an end of
stream in the middle of a reply no action of the call is enabled: the call spins.

### SampleFormats, SamplePath

Samples are numbers, the time of a sample is its number. `FirstRead`, `SecondRead` and
their failures are the two `readStream` of `sendEndpointWork`, `SendBuffer` its
`releaseSend`; `ReadStream` and `ReadRemainder` are `readStream` of the client with
`readElemsLeft`; `WriteStream`, `RecvBuffer` and `DeviceWrite` the other direction, with the
loop over partial writes (`server/ServerStreamData.cpp:121`): a device that clears the
flags on a partial write, as it may, loses END_BURST there, and the model's device does
not. `readElemsLeft` is kept across a deactivation; activation is not modelled.

A conversion is the integer arithmetic of the code, with its widths. Floats are integers in
units of 1/`One`: with scales that are powers of two this is exact. What C++ leaves
undefined (a negative float that becomes `uint16_t`) has the outcomes of the processors the
code is built for. CS16 to CS8 divides by 1 for the default scale and by 0 for scales below
127; CU8 is read as signed, see the counterexamples below. CF32 is advertised whenever the
device lists a format that converts, although only the native format is converted.

### Discovery, SsdpCache

`Discovery` has the merge of `client/DiscoverServers.cpp` (SSDP and mDNS results, the
preference between IP versions, duplicates by process) and the translation of arguments
(`translateArgs`, and what `findRemote` makes of its results). Each is an operator on
functions. `SsdpCache` has one server at a time (a new process is a new UUID; the URL may
be the same) and clients, two of which may share a host and with it the port: a unicast
answer reaches one of them. Time is an integer; `Tick` waits until what was sent has
been handled or lost, the timing assumption of the module: the delays of a LAN and of the
handler thread are short against the 60 s and 120 s of the code. `Kill` ends a server without leave;
`ServerDeaf` and `ClientDeaf` are the end of the handler thread after an error of `recvfrom`.
The mask of IP versions never keeps 4 and 6 apart (a defect without effect: results are
told apart later).

## 4. Runs

Passing runs:

| Run | Question | Bounds, and why they are enough |
| --- | --- | --- |
| `endpoint_handles` | does the ring keep its shape, and is it the pool | the 8 buffers of the code; all states |
| `link` | window, start and stalls of the sender under losses; `LinkInv` | 2 buffers, window 4, 2 handles held, modulus 8, 3 losses: the trigger (2) differs from the window and from 1, sequences wrap several times, the rings fill, 3 losses stall the sender and 2 do not |
| `link_errors` | after reads of ACKs that failed, is the next ACK enough to give window and place back | any number of failed reads, every header value of modulus 8, 1 loss; a window of 1 is below the 2 buffers, so the trigger is 0 and the stall property is about a receiver that acknowledges each datagram. Channels of 2 are filled by a sender that runs away; `Reach` is 7 |
| `session_safety` | do threads, streams, entries and devices fit, also after an exception of any device call | 1 client, 2 streams, both protocols: the loops over streams stop half-way, the client dies anywhere. Clients share only the listener, see `session_live` |
| `session_live` | can a client block the server; is a lost one cleaned up; does Ctrl+C end | 2 clients, 1 UDP stream: one dies with a stream, the other waits in the backlog |
| `log_link` | safety and progress of log forwarding | 2 devices, 2 connections (one restart), 2 messages, 1 reset, 1 failed device, sockets of 2 messages, so that they fill |
| `calls` | is every remote call a local call | every method, either side of the older version (3) or not (4), with and without the optional methods; integers of 4 bits and mantissas of 3, so that signs, edges and rounding occur; the values of `MCRemoteCall` |
| `rpc` | who gets which reply, who waits for ever | 2 threads, 3 calls: one gives up, the next meets its late reply, and the second thread meets the rest; both directions cut anywhere |
| `samples` | order, gaps, flags, formats; is all delivered | 6 samples in 2 bursts, datagrams of 3, reads of 2: every datagram has a second read, remainders last several calls, a burst ends inside and at the end of one; 2 errors, 1 loss. Formats: all lists of formats, all numbers of a byte, edges of the wider ones |
| `ssdp` | caches, searches, listings | 2 clients of a host, 2 processes of a server, 3 ticks with a duration of 2 (entries expire and come again), 1 fault; clients are symmetric |

`CHECK_DEADLOCK FALSE` is set where the program really may stop: a UDP link that lost
its window, a sender with a window of 0, a server after Ctrl+C, calls that are all
made, a stream that is over, the end of time.

Fairness, and why the code gives it:

* `StreamLink`: the sending caller goes on waiting for its window (`RecvACK`,
  `StopDraining`) and the receiving caller goes on reading and giving buffers back
  (`WaitRecvACK`, `AcquireRecv`, `ReleaseRecv`). Both are loops of a thread
  (`server/ServerStreamData.cpp:108`, `:173`, and the application). `AcquireRecv` is
  strongly fair: the ACKs of `waitRecv` may fill the channel now and then, but each
  `waitRecv` that sees a datagram is followed by an `acquireRecv`. Nobody has to send.
* `ServerSession`: the listener's loop, every handler's step that waits for nobody,
  workers that see `done` (their waits time out), and a status thread whose peer is
  gone. Clients owe nothing, a blocked `accept` owes nothing, and `WorkerSpins` may
  always come first.
* `LogLink`: the holder of `logMutex`, relay threads, handlers and the one that logs.
  Nobody has to come, go or log, and connections need not break.
* `RpcTransaction`: a thread in a call goes on (its time-out included), so does the
  handler, and the listener cleans up. Devices may hang, nobody has to call, and
  processes need not go.
* `SamplePath`: the worker's turn, and an application that reads and writes on. Errors and
  losses are bounded, so they stop.

Runs that find a violation, each with a finding in `PROJECT.json`:

| Run | Property | What happens |
| --- | --- | --- |
| `session_tcp` | `ServesForever` | a client dies with a TCP stream; its worker spins, its handler waits for the worker, the listener waits for the handler, nobody is accepted |
| `ssdp_periodic` | `SearchesAgain` | the comparison of the periodic search and of the periodic notification is the wrong way round (`common/SoapySSDPEndpoint.cpp:311`, `:317`): neither is ever sent again |

### Counterexamples kept beside the runs

These configurations state what the code, a comment or a document promises, and TLC finds
each violated (`tlc -config <cfg> <module>`). They are kept to be looked at by hand and
are none of the routine runs.

| Configuration, module | Property | What happens |
| --- | --- | --- |
| `StreamLinkGarbage.cfg`, `StreamLink` | `LimitFromPacket` | after a failed `recv()` an unwritten header becomes the window |
| `ServerSessionLeak.cfg`, `ServerSession` | `NoLostStream` | SETUP_STREAM fails after the device's part; the device stream stays open |
| `LogLinkStopReply.cfg`, `LogLink` | `EndsOnStopReply` | a log message overtakes the reply to START, which then ends the relay |
| `LogLinkForwarding.cfg`, `LogLink` | `ForwardingStops` | the connection of a relay that was replaced stays subscribed |
| `LogLinkFailedMake.cfg`, `LogLink` | `LastDeviceErases` | a constructor that throws keeps its use of the log connection |
| `RpcTornDown.cfg`, `RpcTransaction` | `TornDown` | a server that closes in the middle of a reply leaves the call spinning, against `common/SoapyRPCUnpacker.cpp:42` |
| `SamplePathCu8.cfg`, `SamplePath` | `Cu8Level` | CU8 is read through `int8_t`: the upper half of its range comes out with the wrong sign |

More facts that the models contain and that have no run of their own: a caller
that holds several write handles passes one window test for each, which is why
`InFlightBound` has the term `MaxHeld - 1`; after a `closeStream` that throws, the next
`stopThreads` joins deleted threads (`StopDeleted`, which ends the process), and streams
already closed by UNMAKE are closed again, which is why `ClosedOnce` excepts those
handlers; a relay thread that ended by itself is replaced without `join` (`Started`); an
error of `recvfrom` ends the SSDP thread for good, which `SearchReaches` excepts; a call that
gave up shifts the replies of the calls after it, by at most `StaleBound`.

## 5. Proofs

### The flow control

TLAPS proves, for every number of buffers, every window and every modulus larger
than the window and the handles held (`NumBuffsAssumption`, `WindowAssumption`):

* `RingSafe`, `HandsOutFree` (`EndpointHandlesProofs`): the ring keeps its shape under
  releases in any order, also of handles not held; an acquire hands out a free buffer.
  `RingImplementsPool`: the ring is the pool. `ListingAfterRelease` is its core: the turns
  of the release loop (`Reclaimable`) leave exactly the suffix of the list of outstanding
  buffers that starts at the first one held. A release of a handle that is not held is a
  stutter (`ReleaseOfFree`), since the oldest outstanding handle is held.
  The lemmas at the start of `EndpointHandlesProofs` do the modular arithmetic once.
* `LinkEndsArePools` (`StreamLinkProofs`): both endpoints of a link, with all that the
  network does to them, implement `HandlePool`: each is an `INSTANCE` of
  `EndpointHandlesProofs` with its own ring, which also gives the link its lemmas.
* `TypeCorrect` (`StreamLinkProofs`): types and ring shapes, with losses and failed `recv()`.
* `LinkInvariant`, `WindowRespected`, `StallsOnlyAfterLoss` (`StreamLinkProofs`): under
  `~ RecvErrors`, `LinkInv` is inductive and gives `InFlightBound` and
  `StallNeedsLoss`.

Why `LinkInv`: `InFlightBound` is about the length of a queue and says nothing of the
sequences in it. Measured from the last ACK the sender has read, the ACKs under way,
the last ACK sent, the last datagram received, the datagrams under way and the next
datagram follow one another (`AcksInOrder`, `DataInOrder`), and the last of them plus
the handles held is below the window (`CreditsFit`). Since the datagrams are spaced
by at least one sequence, no more than the window fits. `StallNeedsLoss` needs
`LossAccounted` in addition: from any ACK under way to the last one sent it is at most
a trigger for each ACK after it, a trigger for each lost ACK, and the lost datagrams
the receiver has passed. `QuietStart` covers the time before the first ACK. Each
conjunct has its lemma per action; losses remove an element of a sequence
(`SpacedRemove`, `RisingRemove`, `AccountedRemove`), and reading an ACK moves the origin
of all distances (`RecvACKStep`).

`HealInvariant`, `WindowRegained` and `StallRegained` need no `~ RecvErrors`: they are about a
sender that took headers that were never written. Its last ACK is then no origin
to measure from, so `HealInv` measures back from its next sequence, which no header moves:
datagrams under way lie between receiver and sender with only lost ones missing (`InFlight`),
and ACKs under way, with the last one read if it was one, lie before the last one sent, each
a step at most behind for every ACK after it and every lost one (`Acked`). `RecvACKFailed` only
forgets the last one read. Sequences must not come round: a window does not bound a
sender that a garbage header lets run, but the socket buffers do (`AckCap`, `DataCap`), and
`Reach`, how far it can get by them, has to be below `Modulus`. In the code that is 2^32
against socket buffers of some thousand datagrams. Before its proof, TLC has checked `HealInv`
on the bounds of `link_errors`.

### The calls

`RemoteCallProofs` proves both properties of `calls`, `SpecCallInv` and the refinement
`SpecLocal`, and below them `RoundTrip`: whatever value of whatever type one side packs, the
other side unpacks, however long its lists, maps and strings are, and whatever follows it in the
message; all that is lost is the step of a range when one side is too old for it. The
assumptions: an `int` has at least two bits and a mantissa one (`WidthAssumption`), powers of
two are powers of two (`PowerAssumption`, of which the provers know nothing), the old version is
older (`VersionAssumption`), values fit the wire (`SamplesAssumption`), and every call has a
number (`CallsAssumption`). The argument has three parts.

* Values. `Right` says of a packing and an unpacking that they fit for one value, `Layer0` to
  `Layer4` that they do for all values as deep as a layer. A list takes as many
  steps as it has elements; in place of an induction, `Recursion` gives the sequence of states
  that any steps go through, `Readers` those of a reader, and `UpTo` takes the least number for
  which something fails. `DoubleBack` is `frexp` and `ldexp`. A reader that has failed stays failed, also
  through what was never sent (`Halt4`): this is what an exception in place of a reply does.
* Tables. For each method the client's parameters are those the handler unpacks, and each code
  has one case there (`CallsFit`, `CaseIs`). `RequestTrip`, `AnswerTrip` and `ExcuseTrip` follow
  the arguments, the values and the exception through both.
* Steps. `CallInv` and the refinement say nothing of a message under way. `Stage` does: before
  the handler, the request is the packing of what the application called; after it, the device
  was called with that and the reply is the packing of what it gave (`Answered`) or threw. TLC
  has checked `Stage` on the run before its proof.

### The transactions

For every number of threads and of calls (`CallsAssumption`), `RpcTransactionProofs` proves
`SpecFrame` (`RpcInv`: types, the mutex, and that what is read as a header is one),
`SpecOwnReply` (each call gets its own reply as long as none gave up), `SpecInStep`, and
`SpecRepliesMatch` (after calls that gave up, a reply is at most `2 * late` calls old).
`FrameInv` is inductive by itself: pieces of messages alternate on both streams, and the
first is a rest exactly when the reader is inside a message. It holds with time-outs and
lost ends; a writer that is up has sent whole messages. The second invariant, `InOrder`,
relates the thread that holds the mutex to the handler and to both streams (`Step`): what
each is at determines how many pieces are where, of which call and of which kind. A TCP
set-up is the hard case: an exception of the server may follow a port that nobody has
read yet (`Bound`).

`StaleBound` needs a third invariant, `LeftOver`, which counts pieces: those on their way to
the client, those that are due from the handler (`Due`) and those that the requests on
their way will bring (`Queued`, where a TCP set-up counts twice) are together no more than
`Room`: two messages for each call that gave up, and what the call under way may still read.
That alone bounds how many replies are left, not how old they are. So `Numbered` says that the
queued requests are the last calls, one each, and `Sorted` that replies come in the order of
the calls with none after the last one to a call; then each call between a reply and the
present has pieces of its own behind that reply, and `Sized` bounds them too once the server
has gone. A TCP set-up that gives up at once leaves two replies: hence two, not one.

### The discovery

`SsdpCacheProofs` begins with the operators of `Discovery`: whatever was found, no URL is
listed for two processes (`ListedApart`), and where any server has a URL one is listed
(`ListedSome`); arguments come back from their two translations (`ArgsRoundTrip`, for any set
of names without "remote", since a server that lists a device under that name has loaded this
module itself). Then follow `CacheInv`, `SearchReaches`, `ListedRight` and `ArgsReturn` for any set of
clients, all time-outs and any number of servers and faults (`SsdpAssumption`). `IInv` is
inductive: messages of a process that has gone were sent in this tick (`NetFresh`, which
rests on the timing assumption in `Tick`), entries of it were refreshed before it went
(`EntriesFresh`), and an answer that is owed is on its way or in the cache for long enough
(`Reaches`). Lemma `NeverTriggered` proves what `ssdp_periodic` shows: the periodic tests are
never true. The last two theorems follow from the types in `IInv` and the theorems about
`Discovery`.

### The server's sessions

`ServerSessionProofs` proves the four invariants of `session_safety` for every number of
clients and streams and every protocol, with devices that throw and clients that go at any
step (`SessionAssumption`). None of them is inductive: that a worker has its stream and its
entry depends on where the handler is in its loop. `IInv` has one conjunct `Sound(c)` per
client, and a step touches one client; `SameSound` settles the others once. Its parts: the
handler is at a point of the request the client waits for (`Asks`), a client that made a
device has one (`HasDevice`), a stream being set up is loaded and open (`SettingUp`), an
entry has a device, a live handler and an id below the next (`Mapped`), a busy worker has an
open stream and a ready entry (`Working`), and what the loop has closed (`Over`) has no busy
worker (`Joined`) and is the only entry without a stream (`Kept`). `Visits` keeps the
listener's iterator on a client.

### The log link

`LogLinkProofs` proves the four invariants of `log_link` for every number of users,
connections, messages and resets (`LogLinkAssumption`). What a message is still to be
written to is subscribed, and what is subscribed has a handler (`Forwards`, both under one
mutex). On the client, uses are counted (`Counted`), a thread that runs does so on the
connection of the entry and, once `done` is set, is being joined (`OneThread`, `Tends`), and
an entry is erased with its last use and with its fields (`Erased`).

### The samples

`SamplePathProofs` proves the three invariants of `samples` for streams of any length, any
bursts, any size of buffers and link, and any number of errors and losses
(`SampleAssumption`). What a call returned says nothing about the samples that still are in
the remainder, on the link or in the buffer of the worker, so `IInv` describes the whole path:

* `Typed`, and `Worker`: a worker that fills a buffer has kept room on the link, and the
  buffer ends with the sample before `next` and not with the end of a burst. Without that the
  second read would join two bursts.
* `Sounds`: the samples of a datagram follow one another in one burst (`Joined`), and flags
  and time are those of its samples. Of a datagram that is read in pieces, the end of the
  burst was told with the first piece (`EndTold`), which relates the remainder to calls that
  returned long ago.
* `Sorted`: samples grow along the path, in the order in which the path is left: `sink`,
  `rest`, then `link` and `buffer`, or `buffer` and `link` when the stream transmits.
* `Unbroken`: as long as nothing was lost, each part begins with the sample after the part
  before it (`Meets`, `Chain`), unless an error lies between them (`EndOf` is 0).

`SampleInv` follows from `Sorted` and `Unbroken`, `FlagsRight` from `Sounds`. The bounds on
samples, errors and losses are only those of the run: the theorems hold for every value.

`FormatsAgree` is constant. `LoopbackAll` and `SameLevelAll` prove its conversions for every
number that the width of a format can hold, where the run looks at edges, and `PackingExact`
says that the packing of twelve bits loses nothing for any three bytes; the rest is about
finitely many pairs of formats.

### Only model-checked

All invariants, action properties and refinements of the passing runs are proved. Liveness
under the fairness of section 4 (`SenderStarts`, `WindowReopens`, `Released`, `ServesForever`,
`ShutsDown`, `MutexReturned`, `LoggerHeldUpByUnread`, `CallsEnd`, `HandlerEnds`, `Drained`) is
beyond TLAPS and stays with TLC, as do the two violations.

## 6. Not modelled

* The status worker's turn and status datagrams: one way, no window, no handle.
* The byte stream under a TCP endpoint. Its end of file, which matters, is
  `WorkerSpins`; a header of `recvACK` that arrives in two pieces is not modelled.
* Reordering of UDP datagrams: the channel of `StreamLink` keeps the order.
* mDNS: the callbacks of Avahi and Apple's library decide everything; what they may answer
  is an input of `SsdpCache`. (The Avahi callback at `SoapyMDNSEndpointAvahi.cpp:192` is
  given `this` where others get a context, which a model without the library cannot judge.)
* URL and HTTP parsing, the lines of SSDP packets: one string at a time, no state.
* Sockets, thread priorities, interface lists, getopt, packaging: calls of the operating
  system.
* The futures in `client/Registration.cpp` that query all servers at once: they share nothing.
* The direct buffer access of bypass streams in the handler, which the client never asks for.
