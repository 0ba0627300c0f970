---------------------------- MODULE ServerSession ----------------------------
(***************************************************************************)
(* The life of clients at a server: the listener's loop accepts them and   *)
(* joins the threads that are done (server/ServerListener.cpp), a handler  *)
(* thread per client executes its requests (server/ClientHandler.cpp), and *)
(* each stream has two worker threads (server/ServerStreamData.cpp).       *)
(*                                                                         *)
(* A client sends one request at a time and waits for the reply, as        *)
(* client/Settings.cpp and client/Streaming.cpp do under their mutex; its  *)
(* process may die at any moment.  Requests that leave streams and device  *)
(* where they are make no difference here and are left out.                *)
(***************************************************************************)
EXTENDS Naturals, FiniteSets

CONSTANTS
  NumClients,  \* bound: connections, in the order they are accepted
  MaxStreams,  \* bound: streams a client sets up
  MaxSetups,   \* bound: streams set up by all clients
  Protocols,   \* of the streams: a subset of {"udp", "tcp"}
  DevThrows    \* device calls that may throw: a subset of
               \* {"make", "setupStream", "closeStream", "unmake"}

ASSUME SessionAssumption ==
  /\ NumClients \in Nat \ {0} /\ MaxStreams \in Nat \ {0} /\ MaxSetups \in Nat
  /\ Protocols \subseteq {"udp", "tcp"}
  /\ DevThrows \subseteq {"make", "setupStream", "closeStream", "unmake"}

Clients == 1..NumClients
Ids == 1..MaxStreams
Streams == Clients \X Ids

VARIABLES
  serverDone,  \* Ctrl+C was caught
  listener,    \* what the listener's thread is at
  visit,       \* the entry of _handlers its loop is at
  conn,        \* the clients' connections
  phase,       \* what a client did with its device
  call,        \* the request a client waits for
  pc,          \* what the handler threads are at
  threadDone,  \* SoapyServerThreadData::done
  dev,         \* handlers that hold a device
  nextId,      \* _nextStreamId, from 1
  todo,        \* streams the handler still has to close
  entry,       \* _streamData
  proto,       \* protocol of a stream
  devStream,   \* streams open at the device
  stopped,     \* ServerStreamData::done
  worker,      \* streamThread
  status,      \* statusThread
  closeFailed, \* handlers whose device threw from closeStream; for properties
  crashed      \* the process has ended early

listenVars == <<serverDone, listener, visit>>
clientVars == <<conn, phase, call>>
handlerVars == <<pc, threadDone, dev, nextId, todo>>
endVars == <<closeFailed, crashed>>
streamVars == <<entry, proto, devStream, stopped, worker, status>>
vars == <<listenVars, clientVars, handlerVars, streamVars, endVars>>

NoCall == [op |-> "none", id |-> 0]
Ops == {"none", "make", "setup", "bypass", "close", "unmake", "hangup"}
Threads == {"none", "running", "stuck", "exited", "joined"}

(* Entries of the map start with done set and without threads.             *)
Init ==
  /\ serverDone = FALSE
  /\ listener = "cleanup"
  /\ visit = 1
  /\ conn = [c \in Clients |-> "none"]
  /\ phase = [c \in Clients |-> "new"]
  /\ call = [c \in Clients |-> NoCall]
  /\ pc = [c \in Clients |-> "none"]
  /\ threadDone = [c \in Clients |-> FALSE]
  /\ dev = {}
  /\ nextId = [c \in Clients |-> 1]
  /\ todo = [c \in Clients |-> {}]
  /\ entry = [x \in Streams |-> "none"]
  /\ proto = [x \in Streams |-> "udp"]
  /\ devStream = {}
  /\ stopped = Streams
  /\ worker = [x \in Streams |-> "none"]
  /\ status = [x \in Streams |-> "none"]
  /\ closeFailed = {}
  /\ crashed = FALSE

Entries(c) == {s \in Ids : entry[<<c, s>>] # "none"}

-----------------------------------------------------------------------------
(* Clients                                                                 *)

Connect(c) ==
  /\ conn[c] = "none"
  /\ \A b \in 1..(c - 1) : conn[b] # "none"
  /\ conn' = [conn EXCEPT ![c] = "open"]
  /\ UNCHANGED <<listenVars, phase, call, handlerVars, streamVars, endVars>>

(* What the library asks for: a device first (or nothing, to see whether   *)
(* the server is there), then streams; a stream is closed by the id that   *)
(* its setup returned; hangup follows unmake.                              *)
Calls(c) ==
  CASE phase[c] = "new" -> [op : {"make", "hangup"}, id : {0}]
    [] phase[c] = "made" ->
         [op : {"unmake", "setup", "bypass"}, id : {0}]
           \cup {[op |-> "close", id |-> s] :
                   s \in {s \in Ids : entry[<<c, s>>] \in {"ready", "bypass"}}}
    [] phase[c] = "unmade" -> [op : {"hangup"}, id : {0}]

(* The bound on streams, where the client asks for one.                    *)
MaySetup(c) ==
  /\ nextId[c] \in Ids
  /\ Cardinality({x \in Streams : x[2] < nextId[x[1]]})
       + Cardinality({b \in Clients : call[b].op \in {"setup", "bypass"}})
       < MaxSetups

Send(c, what) ==
  /\ conn[c] = "open" /\ call[c] = NoCall
  /\ what.op \in {"setup", "bypass"} => MaySetup(c)
  /\ call' = [call EXCEPT ![c] = what]
  /\ UNCHANGED <<listenVars, conn, phase, handlerVars, streamVars, endVars>>

(* The process ends, or the client gives up, and its sockets close.        *)
Vanish(c) ==
  /\ conn[c] = "open"
  /\ conn' = [conn EXCEPT ![c] = "gone"]
  /\ UNCHANGED <<listenVars, phase, call, handlerVars, streamVars, endVars>>

-----------------------------------------------------------------------------
(* Handler threads                                                         *)

(* selectRecv of handleOnce reports the request of the client.             *)
Asked(c, op) == pc[c] = "waiting" /\ call[c].op = op

(* The reply goes out, handleOnce returns, and the client may ask again.   *)
Answer(c) ==
  /\ call' = [call EXCEPT ![c] = NoCall]
  /\ pc' = [pc EXCEPT ![c] = "returned"]

Make(c) ==
  /\ Asked(c, "make")
  /\ dev' = dev \cup {c}
  /\ phase' = [phase EXCEPT ![c] = "made"]
  /\ Answer(c)
  /\ UNCHANGED <<listenVars, conn, threadDone, nextId, todo, streamVars, endVars>>

(* The exception goes to the client's constructor, which throws it on; the *)
(* socket closes.                                                          *)
MakeThrows(c) ==
  /\ "make" \in DevThrows
  /\ Asked(c, "make")
  /\ conn' = [conn EXCEPT ![c] = "gone"]
  /\ Answer(c)
  /\ UNCHANGED <<listenVars, phase, threadDone, dev, nextId, todo, streamVars,
                 endVars>>

(* "create stream" and "load data structure".                              *)
OpenStream(c, kind) ==
  LET x == <<c, nextId[c]>>
  IN  /\ devStream' = devStream \cup {x}
      /\ entry' = [entry EXCEPT ![x] = kind]
      /\ nextId' = [nextId EXCEPT ![c] = @ + 1]
      /\ UNCHANGED <<stopped, worker, status>>

SetupStream(c, p) ==
  /\ Asked(c, "setup")
  /\ OpenStream(c, "loading")
  /\ proto' = [proto EXCEPT ![<<c, nextId[c]>>] = p]
  /\ pc' = [pc EXCEPT ![c] = "setup"]
  /\ UNCHANGED <<listenVars, clientVars, threadDone, dev, todo, endVars>>

SetupBypass(c) ==
  /\ Asked(c, "bypass")
  /\ OpenStream(c, "bypass")
  /\ Answer(c)
  /\ UNCHANGED <<listenVars, conn, phase, threadDone, dev, todo, proto, endVars>>

SetupThrows(c) ==
  /\ "setupStream" \in DevThrows
  /\ Asked(c, "setup") \/ Asked(c, "bypass")
  /\ Answer(c)
  /\ UNCHANGED <<listenVars, conn, phase, threadDone, dev, nextId, todo,
                 streamVars, endVars>>

(* The stream that is being set up.                                        *)
Loading(c) == <<c, nextId[c] - 1>>

(* A bind or a connect fails: the entry is erased, the exception answered. *)
SetupFails(c) ==
  /\ pc[c] = "setup"
  /\ entry' = [entry EXCEPT ![Loading(c)] = "none"]
  /\ Answer(c)
  /\ UNCHANGED <<listenVars, conn, phase, threadDone, dev, nextId, todo, proto,
                 devStream, stopped, worker, status, endVars>>

(* The endpoint is made and both workers start.                            *)
StartThreads(c) ==
  /\ entry' = [entry EXCEPT ![Loading(c)] = "ready"]
  /\ stopped' = stopped \ {Loading(c)}
  /\ worker' = [worker EXCEPT ![Loading(c)] = "running"]
  /\ status' = [status EXCEPT ![Loading(c)] = "running"]
  /\ Answer(c)
  /\ UNCHANGED <<listenVars, conn, phase, threadDone, dev, nextId, todo, proto,
                 devStream, endVars>>

SetupUdp(c) ==
  /\ pc[c] = "setup" /\ proto[Loading(c)] = "udp"
  /\ StartThreads(c)

(* "setup the server socket to listen, send the binding port back".        *)
SetupTcp(c) ==
  /\ pc[c] = "setup" /\ proto[Loading(c)] = "tcp"
  /\ pc' = [pc EXCEPT ![c] = "accepting"]
  /\ UNCHANGED <<listenVars, clientVars, threadDone, dev, nextId, todo,
                 streamVars, endVars>>

(* accept() blocks until the client has connected twice.                   *)
AcceptStream(c) ==
  /\ pc[c] = "accepting"
  /\ conn[c] = "open"
  /\ StartThreads(c)

(* accept() fails: here the entry stays as it is.                          *)
AcceptStreamFails(c) ==
  /\ pc[c] = "accepting"
  /\ Answer(c)
  /\ UNCHANGED <<listenVars, conn, phase, threadDone, dev, nextId, todo,
                 streamVars, endVars>>

(* Close one stream, or all before unmake; the destructor closes all too.  *)
CloseStreams(c, ids, at) ==
  /\ todo' = [todo EXCEPT ![c] = ids]
  /\ pc' = [pc EXCEPT ![c] = at]
  /\ UNCHANGED <<listenVars, clientVars, dev, nextId, streamVars, endVars>>

CloseStream(c) ==
  /\ Asked(c, "close")
  /\ CloseStreams(c, {call[c].id}, "closing")
  /\ UNCHANGED threadDone

Unmake(c) ==
  /\ Asked(c, "unmake")
  /\ CloseStreams(c, Entries(c), "unmaking")
  /\ UNCHANGED threadDone

(* The loop of handlerLoop looks at done after every turn.                 *)
NextTurn(c) ==
  /\ pc[c] = "returned" /\ ~ threadDone[c]
  /\ pc' = [pc EXCEPT ![c] = "waiting"]
  /\ UNCHANGED <<listenVars, clientVars, threadDone, dev, nextId, todo,
                 streamVars, endVars>>

(* The unpacker throws: there is nothing more to read.                     *)
LostClient(c) == pc[c] = "waiting" /\ call[c] = NoCall /\ conn[c] = "gone"

(* A faulty variant: done is not looked at.                                *)
LeaveByItself(c) ==
  /\ Asked(c, "hangup") \/ LostClient(c)
  /\ threadDone' = [threadDone EXCEPT ![c] = TRUE]
  /\ CloseStreams(c, Entries(c), "leaving")

(* A faulty variant: a lost connection is taken for a timeout.             *)
LeaveOnHangup(c) ==
  /\ \/ Asked(c, "hangup")
     \/ threadDone[c] /\ pc[c] \in {"waiting", "returned"}
  /\ threadDone' = [threadDone EXCEPT ![c] = TRUE]
  /\ CloseStreams(c, Entries(c), "leaving")

(* The loop of handlerLoop ends: after HANGUP, on the exception of a lost  *)
(* connection, or because the listener set done.                           *)
Leave(c) ==
  /\ \/ Asked(c, "hangup")
     \/ LostClient(c)
     \/ threadDone[c] /\ pc[c] \in {"waiting", "returned"}
  /\ threadDone' = [threadDone EXCEPT ![c] = TRUE]
  /\ CloseStreams(c, Entries(c), "leaving")

Closing(c) == pc[c] \in {"closing", "unmaking", "leaving"} /\ todo[c] # {}

(* The map is gone through in the order of the ids.                        *)
Current(c) == <<c, CHOOSE s \in todo[c] : \A r \in todo[c] : s <= r>>

(* stopThreads: "done = true".                                             *)
SignalStop(c) ==
  /\ Closing(c)
  /\ Current(c) \notin stopped
  /\ stopped' = stopped \cup {Current(c)}
  /\ UNCHANGED <<listenVars, clientVars, handlerVars, entry, proto, devStream,
                 worker, status, endVars>>

(* join() of the threads that there are would return.                      *)
ThreadsOver(c) ==
  Closing(c) /\ {worker[Current(c)], status[Current(c)]} \subseteq {"none", "exited"}

JoinedIfAny(t) == IF t = "exited" THEN "joined" ELSE t

JoinThreads(x) ==
  /\ worker' = [worker EXCEPT ![x] = JoinedIfAny(@)]
  /\ status' = [status EXCEPT ![x] = JoinedIfAny(@)]

(* stopThreads joins and deletes, and the device closes the stream.        *)
StopAndClose(c) ==
  LET x == Current(c)
  IN  /\ Closing(c)
      /\ x \in stopped
      /\ JoinThreads(x)
      /\ devStream' = devStream \ {x}
      /\ todo' = [todo EXCEPT ![c] = @ \ {x[2]}]
      /\ UNCHANGED <<listenVars, clientVars, pc, threadDone, dev, nextId, entry,
                     proto, stopped, endVars>>

(* A faulty variant: the stream is closed while its threads still run.     *)
CloseEarly(c) == StopAndClose(c)

CloseNext(c) == ThreadsOver(c) /\ StopAndClose(c)

(* closeStream throws: the exception is the reply, and the entry stays.    *)
CloseThrows(c) ==
  LET x == Current(c)
  IN  /\ "closeStream" \in DevThrows
      /\ ThreadsOver(c) /\ pc[c] # "leaving"
      /\ x \in stopped
      /\ JoinThreads(x)
      /\ todo' = [todo EXCEPT ![c] = {}]
      /\ conn' = IF pc[c] = "unmaking" THEN [conn EXCEPT ![c] = "gone"] ELSE conn
      /\ Answer(c)
      /\ closeFailed' = closeFailed \cup {c}
      /\ UNCHANGED <<listenVars, phase, threadDone, dev, nextId, entry, proto,
                     devStream, stopped, crashed>>

(* The process ends, with all its threads, sockets and devices.            *)
Crash ==
  /\ crashed' = TRUE
  /\ listener' = "ended"
  /\ conn' = [c \in Clients |-> "gone"]
  /\ pc' = [c \in Clients |-> "none"]
  /\ todo' = [c \in Clients |-> {}]
  /\ dev' = {}
  /\ devStream' = {}
  /\ entry' = [x \in Streams |-> "none"]
  /\ worker' = [x \in Streams |-> "none"]
  /\ status' = [x \in Streams |-> "none"]
  /\ UNCHANGED <<serverDone, visit, phase, call, threadDone, nextId, proto,
                 stopped, closeFailed>>

(* In the destructor an exception ends the process.                        *)
DestructorThrows(c) ==
  /\ pc[c] = "leaving"
  /\ \/ "closeStream" \in DevThrows /\ ThreadsOver(c) /\ Current(c) \in stopped
     \/ "unmake" \in DevThrows /\ todo[c] = {} /\ c \in dev
  /\ Crash

(* stopThreads once more for a stream whose threads it joined and deleted: *)
(* anything may follow, and the process is taken to end.                   *)
StopDeleted(c) ==
  /\ Closing(c)
  /\ Current(c) \in stopped
  /\ "joined" \in {worker[Current(c)], status[Current(c)]}
  /\ Crash

EraseEntries(c, ids) ==
  entry' = [x \in Streams |-> IF x[1] = c /\ x[2] \in ids THEN "none" ELSE entry[x]]

(* A faulty variant: the entry of the closed stream is kept.               *)
CloseKeeps(c) ==
  /\ pc[c] = "closing" /\ todo[c] = {}
  /\ Answer(c)
  /\ UNCHANGED <<listenVars, conn, phase, threadDone, dev, nextId, todo,
                 streamVars, endVars>>

CloseDone(c) ==
  /\ pc[c] = "closing" /\ todo[c] = {}
  /\ EraseEntries(c, {call[c].id})
  /\ Answer(c)
  /\ UNCHANGED <<listenVars, conn, phase, threadDone, dev, nextId, todo, proto,
                 devStream, stopped, worker, status, endVars>>

Unmade(c) ==
  /\ pc[c] = "unmaking" /\ todo[c] = {}
  /\ dev' = dev \ {c}
  /\ phase' = [phase EXCEPT ![c] = "unmade"]
  /\ Answer(c)
  /\ UNCHANGED <<listenVars, conn, threadDone, nextId, todo, proto, devStream,
                 stopped, worker, status, endVars>>

(* A faulty variant: the entries are kept when the device goes.            *)
UnmakeKeeps(c) == Unmade(c) /\ UNCHANGED entry

UnmakeDone(c) == Unmade(c) /\ EraseEntries(c, Ids)

UnmakeThrows(c) ==
  /\ "unmake" \in DevThrows
  /\ pc[c] = "unmaking" /\ todo[c] = {}
  /\ EraseEntries(c, Ids)
  /\ conn' = [conn EXCEPT ![c] = "gone"]
  /\ Answer(c)
  /\ UNCHANGED <<listenVars, phase, threadDone, dev, nextId, todo, proto,
                 devStream, stopped, worker, status, endVars>>

(* The rest of the destructor: the device is released, the map goes.       *)
Destroy(c) ==
  /\ pc[c] = "leaving" /\ todo[c] = {}
  /\ EraseEntries(c, Ids)
  /\ dev' = dev \ {c}
  /\ pc' = [pc EXCEPT ![c] = "ended"]
  /\ UNCHANGED <<listenVars, clientVars, threadDone, nextId, todo, proto,
                 devStream, stopped, worker, status, endVars>>

-----------------------------------------------------------------------------
(* Worker threads of a stream                                              *)

Gone(x) == conn[x[1]] = "gone"

OnlyThreads == UNCHANGED <<listenVars, clientVars, handlerVars, entry, proto,
                           devStream, stopped, endVars>>

(* A faulty variant: the waits have no timeout.                            *)
WorkerEndsIfFed(x) ==
  /\ worker[x] = "running"
  /\ x \in stopped
  /\ ~ Gone(x)
  /\ worker' = [worker EXCEPT ![x] = "exited"]
  /\ OnlyThreads /\ UNCHANGED status

(* All waits time out, and the loops look at done.                         *)
WorkerEnds(x) ==
  /\ worker[x] = "running"
  /\ x \in stopped
  /\ worker' = [worker EXCEPT ![x] = "exited"]
  /\ OnlyThreads /\ UNCHANGED status

(* "worker quitting...": the endpoint reports an error.                    *)
WorkerQuits(x) ==
  /\ worker[x] = "running"
  /\ worker' = [worker EXCEPT ![x] = "exited"]
  /\ OnlyThreads /\ UNCHANGED status

(* At the end of a TCP stream select() reports data and recv() returns 0:  *)
(* the byte loop of acquireRecv and the ACK loop of waitSend never end.    *)
WorkerSpins(x) ==
  /\ worker[x] = "running"
  /\ proto[x] = "tcp" /\ Gone(x)
  /\ worker' = [worker EXCEPT ![x] = "stuck"]
  /\ OnlyThreads /\ UNCHANGED status

(* The loop looks at done; without status support it ends by itself.       *)
StatusEnds(x) ==
  /\ status[x] = "running"
  /\ status' = [status EXCEPT ![x] = "exited"]
  /\ OnlyThreads /\ UNCHANGED worker

(* writeStatus blocks on a TCP socket the client does not read, until it   *)
(* reads or goes.                                                          *)
StatusBlocks(x) ==
  /\ status[x] = "running"
  /\ proto[x] = "tcp" /\ ~ Gone(x)
  /\ status' = [status EXCEPT ![x] = "stuck"]
  /\ OnlyThreads /\ UNCHANGED worker

StatusResumes(x) ==
  /\ status[x] = "stuck"
  /\ status' = [status EXCEPT ![x] = "running"]
  /\ OnlyThreads /\ UNCHANGED worker

-----------------------------------------------------------------------------
(* The listener's thread                                                   *)

HasHandler(c) == pc[c] \notin {"none", "joined"}

(* "cleanup completed threads": the destructor of a done entry sets done   *)
(* and joins; when the server ends every entry goes that way.              *)
Erase ==
  /\ listener \in {"cleanup", "ending"}
  /\ visit \in Clients
  /\ IF HasHandler(visit) /\ (threadDone[visit] \/ listener = "ending")
     THEN /\ threadDone' = [threadDone EXCEPT ![visit] = TRUE]
          /\ listener' = IF listener = "ending" THEN "last join" ELSE "join"
          /\ UNCHANGED visit
     ELSE visit' = visit + 1 /\ UNCHANGED <<threadDone, listener>>
  /\ UNCHANGED <<serverDone, clientVars, pc, dev, nextId, todo, streamVars,
                 endVars>>

Joining == listener \in {"join", "last join"}

(* The destructor returns, its socket is deleted, and the loop advances.   *)
Erased(by) ==
  /\ pc' = [pc EXCEPT ![visit] = "joined"]
  /\ conn' = [conn EXCEPT ![visit] = "gone"]
  /\ listener' = IF listener = "last join" THEN "ending" ELSE "cleanup"
  /\ visit' = visit + by
  /\ UNCHANGED <<serverDone, phase, call, threadDone, dev, nextId, todo,
                 streamVars, endVars>>

(* A faulty variant: the loop advances once more after the erase.          *)
JoinSkips == Joining /\ pc[visit] = "ended" /\ Erased(2)

(* The thread has ended.                                                   *)
Join == Joining /\ pc[visit] = "ended" /\ Erased(1)

CleanupDone ==
  /\ listener \in {"cleanup", "ending"}
  /\ visit \notin Clients
  /\ listener' = IF listener = "ending" THEN "ended" ELSE "select"
  /\ UNCHANGED <<serverDone, visit, clientVars, handlerVars, streamVars, endVars>>

(* In the backlog, of which accept() takes the first.                      *)
Backlog == {c \in Clients : conn[c] # "none" /\ pc[c] = "none"}

(* handleOnce is over; runServer looks at serverDone.                      *)
Turn ==
  /\ listener' = IF serverDone THEN "ending" ELSE "cleanup"
  /\ visit' = 1

AcceptClient ==
  /\ listener = "select"
  /\ \E c \in Backlog :
       /\ \A b \in Backlog : c <= b
       /\ pc' = [pc EXCEPT ![c] = "waiting"]
  /\ Turn
  /\ UNCHANGED <<serverDone, clientVars, threadDone, dev, nextId, todo,
                 streamVars, endVars>>

SelectTimeout ==
  /\ listener = "select"
  /\ Backlog = {}
  /\ Turn
  /\ UNCHANGED <<serverDone, clientVars, handlerVars, streamVars, endVars>>

(* Ctrl+C.                                                                 *)
Interrupt ==
  /\ ~ serverDone
  /\ serverDone' = TRUE
  /\ UNCHANGED <<listener, visit, clientVars, handlerVars, streamVars, endVars>>

-----------------------------------------------------------------------------
Client(c) == Connect(c) \/ Vanish(c) \/ \E what \in Calls(c) : Send(c, what)

(* What the handler does by itself.  The two outcomes of a blocked accept  *)
(* depend on the client and on the system.                                 *)
HandlerStep(c) ==
  \/ Make(c) \/ MakeThrows(c)
  \/ \E p \in Protocols : SetupStream(c, p)
  \/ SetupBypass(c) \/ SetupThrows(c) \/ SetupFails(c) \/ SetupUdp(c) \/ SetupTcp(c)
  \/ CloseStream(c) \/ Unmake(c) \/ NextTurn(c) \/ Leave(c)
  \/ SignalStop(c) \/ CloseNext(c) \/ CloseThrows(c)
  \/ DestructorThrows(c) \/ StopDeleted(c)
  \/ CloseDone(c) \/ UnmakeDone(c) \/ UnmakeThrows(c) \/ Destroy(c)

Handler(c) == HandlerStep(c) \/ AcceptStream(c) \/ AcceptStreamFails(c)

Worker(x) == \/ WorkerEnds(x) \/ WorkerQuits(x) \/ WorkerSpins(x)
             \/ StatusEnds(x) \/ StatusBlocks(x) \/ StatusResumes(x)

Listener == Erase \/ Join \/ CleanupDone \/ AcceptClient \/ SelectTimeout

Next == \/ Listener \/ Interrupt
        \/ \E c \in Clients : Client(c) \/ Handler(c)
        \/ \E x \in Streams : Worker(x)

Spec == Init /\ [][Next]_vars

(* Every thread of the server runs.  Clients need not do anything.         *)
Fairness ==
  /\ WF_vars(Listener)
  /\ \A c \in Clients : WF_vars(HandlerStep(c))
  /\ \A x \in Streams :
       /\ WF_vars(WorkerEnds(x))
       /\ WF_vars(x \in stopped /\ StatusEnds(x))
       /\ WF_vars(Gone(x) /\ StatusResumes(x))

FairSpec == Spec /\ Fairness

-----------------------------------------------------------------------------
TypeOK ==
  /\ serverDone \in BOOLEAN
  /\ listener \in {"cleanup", "join", "select", "ending", "last join", "ended"}
  /\ visit \in 1..(NumClients + 1)
  /\ conn \in [Clients -> {"none", "open", "gone"}]
  /\ phase \in [Clients -> {"new", "made", "unmade"}]
  /\ call \in [Clients -> [op : Ops, id : {0} \cup Ids]]
  /\ pc \in [Clients -> {"none", "waiting", "returned", "setup", "accepting",
                         "closing", "unmaking", "leaving", "ended", "joined"}]
  /\ threadDone \in [Clients -> BOOLEAN]
  /\ dev \subseteq Clients
  /\ nextId \in [Clients -> 1..(MaxStreams + 1)]
  /\ todo \in [Clients -> SUBSET Ids]
  /\ entry \in [Streams -> {"none", "loading", "ready", "bypass"}]
  /\ proto \in [Streams -> {"udp", "tcp"}]
  /\ devStream \subseteq Streams /\ stopped \subseteq Streams
  /\ worker \in [Streams -> Threads] /\ status \in [Streams -> Threads]
  /\ closeFailed \subseteq Clients /\ crashed \in BOOLEAN

Busy(x) == {worker[x], status[x]} \cap {"running", "stuck"} # {}

(* A worker thread never outlives what it works on: its stream is open at  *)
(* the device, its entry in the map, and the handler and its device there. *)
ThreadsHaveStreams ==
  \A x \in Streams :
    Busy(x) => /\ x \in devStream /\ entry[x] = "ready" /\ x[1] \in dev
               /\ pc[x[1]] \notin {"none", "ended", "joined"}

(* UNMAKE and the destructor go through _dev for every entry: there is an  *)
(* entry only while there is a device.                                     *)
EntriesHaveDevice == \A x \in Streams : entry[x] # "none" => x[1] \in dev

(* No stream is closed at the device twice: the entry of a closed stream   *)
(* is gone before the handler turns to anything else.  (After a closeStream *)
(* that throws the entries of closed streams do stay.)                     *)
ClosedOnce ==
  \A x \in Streams :
    entry[x] # "none" /\ x[1] \notin closeFailed
      => \/ x \in devStream
         \/ pc[x[1]] \in {"closing", "unmaking", "leaving"} /\ x[2] \notin todo[x[1]]

(* What SETUP_STREAM opened at the device is closed again: no stream stays *)
(* open there without an entry (ClientHandler.cpp:40).                     *)
NoLostStream == \A x \in devStream : entry[x] # "none"

(* Whatever other clients do or leave behind, a client in the backlog gets *)
(* a handler while the server runs (SoapyServer.cpp:25, "serve forever").  *)
ServesForever ==
  \A c \in Clients :
    conn[c] # "none" /\ pc[c] = "none" ~> pc[c] # "none" \/ serverDone

(* A client that is gone holds no device and no thread of the server.      *)
Released ==
  \A c \in Clients :
    conn[c] = "gone" ~> c \notin dev /\ \A s \in Ids : ~ Busy(<<c, s>>)

(* Ctrl+C ends the server: every handler is joined.                        *)
ShutsDown == serverDone ~> listener = "ended"
=============================================================================
