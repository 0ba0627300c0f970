--------------------------- MODULE RpcTransaction ---------------------------
(***************************************************************************)
(* The transactions of one connection: the threads of an application call  *)
(* a SoapyRemoteDevice (client/Settings.cpp, client/Streaming.cpp), whose  *)
(* mutex lets one of them send a request and read the reply at a time, and *)
(* a handler thread of the server executes the requests                    *)
(* (server/ClientHandler.cpp).  The connection is a byte stream each way   *)
(* (common/SoapyRPCPacker.cpp, common/SoapyRPCUnpacker.cpp): a message is  *)
(* a header and the rest, and a process or its host may go at any moment,  *)
(* also between the two.                                                   *)
(*                                                                         *)
(* Calls are numbered in the order that they get the mutex.  Most are      *)
(* "plain": a request, a reply.  "tcp" is setupStream over TCP, with two   *)
(* replies and a connection of its own between them.  "hangup" is the last *)
(* call, made by the destructor.                                           *)
(***************************************************************************)
EXTENDS Integers, Sequences

CONSTANTS
  Threads,   \* the threads of the application
  MaxCalls   \* bound: calls that are made

ASSUME CallsAssumption == MaxCalls \in Nat

VARIABLES
  pc,        \* what a thread is at
  holder,    \* the thread that holds _mutex, if any, as a set
  asked,     \* calls made so far
  call,      \* the call a thread is in, or was last
  got,       \* the call whose reply a thread was given last; 0: an exception
  toServer, toClient,  \* the pieces of messages in the two directions
  handler,   \* what the handler's thread is at
  serving,   \* the request it has
  dialled,   \* the client has connected for a stream
  client, server,      \* "up", or how that end of the connection went
  late       \* calls that threw before their last reply had come

threadVars == << pc, holder, asked, call, got, late >>
handlerVars == << handler, serving >>
vars == << threadVars, toServer, toClient, handlerVars, dialled, client, server >>

Kinds == {"plain", "tcp", "hangup"}
NoCall == [id |-> 0, kind |-> "plain"]
\* How an end goes: closed, reset, or its host is no longer heard of.
Ways == {"fin", "rst", "silent"}

\* A message: its header, and all that follows.
Message(id, kind) ==
  << [id |-> id, kind |-> kind, part |-> "head"], [id |-> id, kind |-> kind, part |-> "rest"] >>

Init ==
  /\ pc = [t \in Threads |-> "idle"] /\ holder = {} /\ asked = 0
  /\ call = [t \in Threads |-> NoCall] /\ got = [t \in Threads |-> 0] /\ late = 0
  /\ toServer = << >> /\ toClient = << >>
  /\ handler = "select" /\ serving = NoCall /\ dialled = FALSE
  /\ client = "up" /\ server = "up"
-----------------------------------------------------------------------------
(* The client.                                                             *)

\* A thread packs a request and sends it; the destructor when nobody calls any more.
Send(t, kind) ==
  /\ pc[t] = "idle" /\ client = "up" /\ asked < MaxCalls
  /\ kind = "hangup" => \A u \in Threads : pc[u] = "idle"
  /\ asked' = asked + 1
  /\ call' = [call EXCEPT ![t] = [id |-> asked + 1, kind |-> kind]]
  /\ pc' = [pc EXCEPT ![t] = "waiting"]
  /\ toServer' = IF server = "up" THEN toServer \o Message(asked + 1, kind) ELSE toServer
  /\ UNCHANGED << got, late, toClient, handlerVars, dialled, client, server >>

\* A faulty variant: the mutex is not waited for.
BeginAnyway(t, kind) == Send(t, kind) /\ holder' = holder \cup {t}

\* lock_guard: the mutex is held until the method ends.
Begin(t, kind) == holder = {} /\ Send(t, kind) /\ holder' = {t}

\* A method ends with the reply to call n, or with an exception (0).  The destructor
\* catches it and the socket closes.
End(t, n) ==
  /\ pc' = [pc EXCEPT ![t] = "idle"] /\ holder' = {}
  /\ got' = [got EXCEPT ![t] = n]
  /\ client' = IF call[t].kind = "hangup" THEN "fin" ELSE client
  /\ UNCHANGED << asked, call >>

\* The socket to a server that has gone does not take the request, or nothing comes
\* back: the end of the stream is read in place of a header, or the test connection
\* to a silent server fails.
Disconnected(t) ==
  /\ pc[t] = "waiting" /\ toClient = << >> /\ server # "up"
  /\ End(t, 0)
  /\ UNCHANGED << late, toServer, toClient, handlerVars, dialled, server >>

\* A faulty variant: a reply is waited for without a limit.
GiveUpNever(t) == FALSE /\ UNCHANGED vars

\* No reply within the time; there is still a server.
GiveUp(t) ==
  /\ pc[t] = "waiting" /\ toClient = << >> /\ server = "up"
  /\ End(t, 0) /\ late' = late + 1
  /\ UNCHANGED << toServer, toClient, handlerVars, dialled, server >>

\* A faulty variant: a check of the version throws before the payload is read.
GetHeaderStrict(t) ==
  /\ pc[t] = "waiting" /\ toClient # << >>
  /\ End(t, 0) /\ toClient' = Tail(toClient)
  /\ UNCHANGED << late, toServer, handlerVars, dialled, server >>

\* recv(): the header.
GetHeader(t) ==
  /\ pc[t] = "waiting" /\ toClient # << >>
  /\ pc' = [pc EXCEPT ![t] = "payload"]
  /\ toClient' = Tail(toClient)
  /\ UNCHANGED << holder, asked, call, got, late, toServer, handlerVars, dialled,
                  client, server >>

\* recv() again, until the whole payload is there; an error ends the loop, a closed
\* connection (0 bytes) does not.
PayloadFails(t) ==
  /\ pc[t] = "payload" /\ toClient = << >> /\ server = "rst"
  /\ End(t, 0)
  /\ UNCHANGED << late, toServer, toClient, handlerVars, dialled, server >>

Payload(t, kinds) ==
  /\ pc[t] = "payload" /\ toClient # << >> /\ Head(toClient).kind \in kinds
  /\ toClient' = Tail(toClient)
  /\ UNCHANGED << toServer, handlerVars, dialled, server >>

\* A faulty variant: the first reply of a TCP setup is taken for its result.
GetReplyAny(t) ==
  Payload(t, {"value", "port"}) /\ End(t, Head(toClient).id) /\ UNCHANGED late

\* The payload of a result.  A port is taken for one if it has come in its place.
GetReply(t) ==
  /\ call[t].kind # "tcp" /\ Payload(t, {"value", "port"})
  /\ End(t, Head(toClient).id) /\ UNCHANGED late

\* An exception of the server; or a reply to another call is not of the expected types.
GetException(t) ==
  LET reply == Head(toClient)
  IN /\ Payload(t, {"exception", "value", "port"})
     /\ reply.kind = "exception" \/ reply.id # call[t].id
     /\ End(t, 0)
     /\ late' = IF reply.id = call[t].id THEN late ELSE late + 1

\* The port on which the server awaits the connections of a TCP stream.
GetPort(t) ==
  /\ Payload(t, {"port"}) /\ call[t].kind = "tcp"
  /\ pc' = [pc EXCEPT ![t] = "connecting"]
  /\ UNCHANGED << holder, asked, call, got, late, client >>

\* Both connections are made; what is left is to read the result.
Connect(t) ==
  /\ pc[t] = "connecting" /\ handler = "accepting" /\ server = "up"
  /\ pc' = [pc EXCEPT ![t] = "waiting"] /\ dialled' = TRUE
  /\ call' = [call EXCEPT ![t].kind = "plain"]
  /\ UNCHANGED << holder, asked, got, late, toServer, toClient, handlerVars,
                  client, server >>

\* setupStream throws: the second reply is not read.
ConnectFails(t) ==
  /\ pc[t] = "connecting"
  /\ End(t, 0) /\ late' = late + 1
  /\ UNCHANGED << toServer, toClient, handlerVars, dialled, server >>
-----------------------------------------------------------------------------
(* The handler.                                                            *)

\* handleOnce: something is there, recv() reads the header.
GetRequest ==
  /\ handler = "select" /\ toServer # << >>
  /\ handler' = "payload" /\ toServer' = Tail(toServer)
  /\ UNCHANGED << threadVars, serving, toClient, dialled, client, server >>

GetArguments ==
  /\ handler = "payload" /\ toServer # << >>
  /\ handler' = "running" /\ toServer' = Tail(toServer)
  /\ serving' = [id |-> Head(toServer).id, kind |-> Head(toServer).kind]
  /\ UNCHANGED << threadVars, toClient, dialled, client, server >>

\* A message to the client; once it has gone, send() throws and handlerLoop() ends.
Reply(kind, next) ==
  IF client = "up"
  THEN handler' = next /\ toClient' = toClient \o Message(serving.id, kind)
  ELSE handler' \in {next, "ended"} /\ UNCHANGED toClient

Answers == Reply("value", IF serving.kind = "hangup" THEN "ended" ELSE "select")
Excuses == Reply("exception", "select")

\* The call is executed, or it throws; the destructor's call just ends the loop.
Execute ==
  /\ handler = "running"
  /\ \/ serving.kind # "tcp" /\ Answers
     \/ serving.kind # "hangup" /\ Excuses
     \/ serving.kind = "tcp" /\ Reply("port", "accepting")
  /\ UNCHANGED << threadVars, serving, toServer, dialled, client, server >>

\* A device does not return from a call.
Hang ==
  /\ handler = "running" /\ serving.kind # "hangup" /\ handler' = "hung"
  /\ UNCHANGED << threadVars, serving, toServer, toClient, dialled, client, server >>

\* accept(), which waits for the connections of the stream as long as it takes.
Accept ==
  /\ handler = "accepting" /\ dialled /\ dialled' = FALSE
  /\ Answers
  /\ UNCHANGED << threadVars, serving, toServer, client, server >>

AcceptFails ==
  /\ handler = "accepting" /\ dialled' = FALSE
  /\ Excuses
  /\ UNCHANGED << threadVars, serving, toServer, client, server >>

\* A faulty variant: without data nothing is read.
LoseClientNever == FALSE /\ UNCHANGED vars

\* recv() gives an end of the stream in place of a header, or an error in the payload.
LoseClient ==
  /\ toServer = << >>
  /\ \/ handler = "select" /\ client \in {"fin", "rst"}
     \/ handler = "payload" /\ client = "rst"
  /\ handler' = "ended"
  /\ UNCHANGED << threadVars, serving, toServer, toClient, dialled, client, server >>

\* The listener erases a handler that is done, and with it the socket.
Cleanup ==
  /\ handler = "ended" /\ server = "up" /\ server' = "fin"
  /\ UNCHANGED << threadVars, toServer, toClient, handlerVars, dialled, client >>
-----------------------------------------------------------------------------
(* Processes and hosts.  What was on its way may be lost, the later first. *)

ServerGoes(way) ==
  /\ server = "up" /\ server' = way /\ handler' = "gone"
  /\ toServer' = << >> /\ \E n \in 0 .. Len(toClient) : toClient' = SubSeq(toClient, 1, n)
  /\ UNCHANGED << threadVars, serving, dialled, client >>

ClientGoes(way) ==
  /\ client = "up" /\ client' = way /\ pc' = [t \in Threads |-> "gone"]
  /\ toClient' = << >> /\ \E n \in 0 .. Len(toServer) : toServer' = SubSeq(toServer, 1, n)
  /\ UNCHANGED << holder, asked, call, got, late, handlerVars, dialled, server >>

Receive(t) == \/ GetHeader(t) \/ GetReply(t) \/ GetException(t) \/ GetPort(t)
              \/ Disconnected(t) \/ PayloadFails(t) \/ GiveUp(t)
Dial(t) == Connect(t) \/ ConnectFails(t)
Serve == GetRequest \/ GetArguments \/ Execute \/ Accept \/ LoseClient

Next == \/ \E t \in Threads : (\E kind \in Kinds : Begin(t, kind)) \/ Receive(t) \/ Dial(t)
        \/ Serve \/ Hang \/ AcceptFails \/ Cleanup
        \/ \E way \in Ways : ServerGoes(way) \/ ClientGoes(way)

Spec == Init /\ [][Next]_vars

\* The threads of both sides get to run, the timer of a call runs out, and connect()
\* comes to an end.  A device may hang, processes need not go.
Fairness == /\ \A t \in Threads : WF_vars(Receive(t)) /\ WF_vars(Dial(t))
            /\ WF_vars(Serve) /\ WF_vars(Cleanup)
FairSpec == Spec /\ Fairness
-----------------------------------------------------------------------------
(* Properties.                                                             *)

Pieces(kinds) == [id : 1 .. MaxCalls, kind : kinds, part : {"head", "rest"}]
Replies == {"value", "exception", "port"}

\* Every variable has its type; one thread at most holds the mutex.
TypeOK ==
  /\ pc \in [Threads -> {"idle", "waiting", "payload", "connecting", "gone"}]
  /\ holder \subseteq Threads /\ \A t, u \in holder : t = u
  /\ asked \in 0 .. MaxCalls
  /\ call \in [Threads -> [id : 0 .. MaxCalls, kind : Kinds]]
  /\ got \in [Threads -> 0 .. MaxCalls]
  /\ toServer \in Seq(Pieces(Kinds)) /\ toClient \in Seq(Pieces(Replies))
  /\ handler \in {"select", "payload", "running", "accepting", "hung", "ended", "gone"}
  /\ serving \in [id : 0 .. MaxCalls, kind : Kinds]
  /\ dialled \in BOOLEAN /\ client \in {"up"} \cup Ways /\ server \in {"up"} \cup Ways
  /\ late \in Nat

\* However the threads interleave, a method that returns has the reply to its own
\* call, as long as no call gave up on its reply.
OwnReply == late = 0 => \A t \in Threads : got[t] \in {0, call[t].id} \/ pc[t] # "idle"

\* After calls that gave up, replies are those of earlier calls (never of later ones),
\* and no more calls behind than replies were left over: two by a TCP setup.
StaleBound == \A t \in Threads : pc[t] = "idle" /\ got[t] # 0
                                   => call[t].id - got[t] \in 0 .. 2 * late

\* Each call gets its own reply, and after time-outs at most an earlier one.
RepliesMatch == OwnReply /\ StaleBound

\* Between two calls nothing is left of the first: no piece on its way, and the handler
\* awaits a request (unless a call gave up, or an end is gone).
InStep == late = 0 /\ holder = {} /\ client = "up" /\ server = "up"
            => /\ toServer = << >> /\ toClient = << >>
               /\ handler = "select" /\ ~ dialled

\* What is read as a header is one, and what is read as a payload is the rest of that
\* message, also after calls that gave up (SoapyRPCUnpacker.cpp:84).
InFrame ==
  /\ \A t \in Threads : \/ toClient = << >> \/ pc[t] \notin {"waiting", "payload"}
                        \/ Head(toClient).part = IF pc[t] = "waiting" THEN "head" ELSE "rest"
  /\ \/ toServer = << >> \/ handler \notin {"select", "payload"}
     \/ Head(toServer).part = IF handler = "select" THEN "head" ELSE "rest"

\* Messages are whole, and are read as such.
RpcInv == TypeOK /\ InFrame

\* A server that went in the middle of a reply, without a reset.
CutOff == toClient = << >> /\ server \in {"fin", "silent"}
\* A call comes to an end, whatever becomes of the device, the handler and the server;
\* except that a server goes in the middle of a reply, whose rest is read forever.
CallsEnd ==
  \A t \in Threads : pc[t] \in {"waiting", "payload", "connecting"}
                       ~> pc[t] \in {"idle", "gone"} \/ (pc[t] = "payload" /\ CutOff)

\* What the comment says of a server that goes: the call is torn down
\* (SoapyRPCUnpacker.cpp:42).  The exception of CallsEnd violates it.
TornDown ==
  \A t \in Threads : server \in Ways /\ pc[t] \in {"waiting", "payload", "connecting"}
                       ~> pc[t] \in {"idle", "gone"}

\* The handler of a client that has gone ends, except where it waits without a limit:
\* for the rest of a request, for a stream's connections, for the device.
HandlerEnds ==
  client \in {"fin", "rst"}
    ~> \/ handler \in {"ended", "gone", "hung", "accepting"}
       \/ handler = "payload" /\ toServer = << >>
=============================================================================
