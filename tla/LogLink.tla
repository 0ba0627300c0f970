------------------------------- MODULE LogLink -------------------------------
(***************************************************************************)
(* Log messages of a server, relayed to a client process.                  *)
(*                                                                         *)
(* The client (client/LogAcceptor.cpp) keeps one entry per server: a use   *)
(* count, a connection of its own and a thread that relays what arrives.   *)
(* The entry is tended by whoever makes or drops a device, under logMutex. *)
(* The server (server/LogForwarding.cpp, ClientHandler, ServerListener)    *)
(* gives the connection a handler thread, and any thread that logs writes  *)
(* to all subscribed sockets under subscribersMutex, which it holds while  *)
(* a socket is full.  The handler's replies go to the same socket without  *)
(* that mutex.                                                             *)
(*                                                                         *)
(* There is one entry; other servers of the client show as Maintain, which *)
(* tends every entry.  The k-th connection and the thread that reads it    *)
(* are k.  Messages are whole: a payload cut short is not modelled.        *)
(***************************************************************************)
EXTENDS Naturals, Sequences, SequencesExt

CONSTANTS
  MaxUsers,   \* bound: devices the client has at a time
  MaxConns,   \* bound: connections that succeed
  MaxLogs,    \* bound: messages logged while somebody is subscribed
  MaxBreaks,  \* bound: connections reset by the network
  MaxFails,   \* bound: devices the server refuses to make
  SocketCap   \* messages a socket buffers before send() blocks

ASSUME LogLinkAssumption ==
  /\ MaxUsers \in Nat \ {0} /\ MaxConns \in Nat \ {0}
  /\ MaxLogs \in Nat /\ MaxBreaks \in Nat /\ MaxFails \in Nat
  /\ SocketCap \in Nat \ {0}

Conns == 1..MaxConns
None == 0

VARIABLES
  devices,   \* SoapyRemoteDevice objects that hold an acceptor
  fails,     \* constructors of them that threw
  useCount,  \* of the entry
  entry,     \* is the server in handlers
  done,      \* "first time, or error occurred"
  thread,    \* the thread pointer; None is nullptr
  client,    \* connection of the client member; None when not connected
  holder,    \* what the holder of logMutex is at, "idle" when it is free
  relay,     \* the log threads
  link,      \* the connections
  requests,  \* under way to the server
  replies,   \* under way to the client, log messages among them
  handler,   \* the handler threads of the server
  subscribers,  \* sockets log messages are sent to
  pending,   \* sockets the current message still goes to; subscribersMutex
             \* is held unless it is empty
  logs, breaks  \* how many of each so far

userVars == <<devices, fails, useCount>>
clientVars == <<userVars, entry, done, thread, client, holder, relay>>
netVars == <<link, requests, replies, breaks>>
serverVars == <<handler, subscribers, pending, logs>>
vars == <<clientVars, netVars, serverVars>>

Init ==
  /\ devices = 0
  /\ fails = 0
  /\ useCount = 0
  /\ entry = FALSE
  /\ done = TRUE
  /\ thread = None
  /\ client = None
  /\ holder = "idle"
  /\ relay = [k \in Conns |-> "none"]
  /\ link = [k \in Conns |-> "unused"]
  /\ requests = [k \in Conns |-> <<>>]
  /\ replies = [k \in Conns |-> <<>>]
  /\ handler = [k \in Conns |-> "none"]
  /\ subscribers = {}
  /\ pending = <<>>
  /\ logs = 0
  /\ breaks = 0

-----------------------------------------------------------------------------
(* The client: whoever holds logMutex                                      *)

(* SoapyLogAcceptor's constructor; a new entry is done and has no thread.  *)
Subscribe ==
  /\ holder = "idle"
  /\ useCount < MaxUsers
  /\ devices' = devices + 1
  /\ useCount' = useCount + 1
  /\ entry' = TRUE
  /\ holder' = "maintain"
  /\ UNCHANGED <<fails, done, thread, client, relay, netVars, serverVars>>

(* A faulty variant: a use that was never counted is given up.             *)
UnsubscribeAny ==
  /\ holder = "idle"
  /\ useCount' = useCount - 1
  /\ holder' = "maintain"
  /\ UNCHANGED <<devices, fails, entry, done, thread, client, relay, netVars,
                 serverVars>>

(* SoapyLogAcceptor's destructor.                                          *)
Unsubscribe ==
  /\ holder = "idle"
  /\ devices > 0
  /\ devices' = devices - 1
  /\ useCount' = useCount - 1
  /\ holder' = "maintain"
  /\ UNCHANGED <<fails, entry, done, thread, client, relay, netVars, serverVars>>

(* The server cannot make the device: the exception leaves the constructor *)
(* of SoapyRemoteDevice, whose destructor then does not run, and nobody    *)
(* deletes the acceptor.                                                   *)
MakeFails ==
  /\ holder = "idle"
  /\ devices > 0
  /\ fails < MaxFails
  /\ devices' = devices - 1
  /\ fails' = fails + 1
  /\ UNCHANGED <<useCount, entry, done, thread, client, holder, relay, netVars,
                 serverVars>>

(* A user of another server comes or goes: threadMaintenance tends all.    *)
Maintain ==
  /\ holder = "idle"
  /\ entry
  /\ holder' = "maintain"
  /\ UNCHANGED <<userVars, entry, done, thread, client, relay, netVars,
                 serverVars>>

(* "first time, or error occurred": the socket is made anew and connects.  *)
(* An old connection is dropped without being closed.                      *)
Activate(k) ==
  /\ holder = "maintain"
  /\ done
  /\ link[k] = "unused" /\ \A j \in 1..(k - 1) : link[j] # "unused"
  /\ client' = k
  /\ link' = [link EXCEPT ![k] = "open"]
  /\ requests' = [requests EXCEPT ![k] = <<"START">>]
  /\ holder' = "starting"
  /\ UNCHANGED <<userVars, entry, done, thread, relay, replies, breaks,
                 serverVars>>

ActivateFails ==
  /\ holder = "maintain"
  /\ done
  /\ client' = None
  /\ holder' = "tended"
  /\ UNCHANGED <<userVars, entry, done, thread, relay, netVars, serverVars>>

NeedNotActivate ==
  /\ holder = "maintain"
  /\ ~ done
  /\ holder' = "tended"
  /\ UNCHANGED <<userVars, entry, done, thread, client, relay, netVars,
                 serverVars>>

(* Something arrived: any message will do for the reply to START.          *)
Started ==
  /\ holder = "starting"
  /\ link[client] = "open" /\ replies[client] # <<>>
  /\ replies' = [replies EXCEPT ![client] = Tail(@)]
  /\ done' = FALSE
  /\ thread' = client
  /\ relay' = [relay EXCEPT ![client] = "looping"]
  /\ holder' = "tended"
  /\ UNCHANGED <<userVars, entry, client, link, requests, breaks, serverVars>>

(* Nothing arrived in time, or the connection broke.                       *)
StartFails ==
  /\ holder = "starting"
  /\ done' = TRUE
  /\ holder' = "tended"
  /\ UNCHANGED <<userVars, entry, thread, client, relay, netVars, serverVars>>

KeepEntry ==
  /\ holder = "tended"
  /\ useCount > 0
  /\ holder' = "idle"
  /\ UNCHANGED <<userVars, entry, done, thread, client, relay, netVars,
                 serverVars>>

(* The member socket closes; the other end learns of it, but what was sent *)
(* before may be dropped when something unread was left at this end.       *)
CloseClient ==
  IF client # None /\ link[client] = "open"
  THEN /\ link' = [link EXCEPT ![client] = "closed"]
       /\ requests' \in {requests} \cup
            (IF replies[client] # <<>>
             THEN {[requests EXCEPT ![client] = <<>>]} ELSE {})
       /\ replies' = [replies EXCEPT ![client] = <<>>]
       /\ UNCHANGED breaks
  ELSE UNCHANGED netVars

(* The entry goes, and with it its fields.                                 *)
EraseEntry ==
  /\ entry' = FALSE
  /\ done' = TRUE
  /\ thread' = None
  /\ client' = None
  /\ holder' = "idle"
  /\ CloseClient
  /\ UNCHANGED <<userVars, serverVars>>

(* "no subscribers, erase": the destructor shuts down only a thread.       *)
Erase ==
  /\ holder = "tended"
  /\ useCount = 0
  /\ thread = None
  /\ EraseEntry
  /\ UNCHANGED relay

(* shutdown: STOP and HANGUP, unless they cannot be sent.                  *)
SendStop ==
  /\ holder = "tended"
  /\ useCount = 0
  /\ thread # None
  /\ requests' = IF client # None /\ link[client] = "open"
                 THEN [requests EXCEPT ![client] = @ \o <<"STOP", "HANGUP">>]
                 ELSE requests
  /\ holder' = "joining"
  /\ UNCHANGED <<userVars, entry, thread, client, relay, link, replies, breaks,
                 serverVars>>

(* A faulty variant: shutdown relies on the reply to STOP alone.           *)
ShutdownByReply == SendStop /\ UNCHANGED done

Shutdown == SendStop /\ done' = TRUE

(* A faulty variant: the thread is detached.                               *)
JoinDetached ==
  /\ holder = "joining"
  /\ EraseEntry
  /\ UNCHANGED relay

Join ==
  /\ holder = "joining"
  /\ relay[thread] = "ended"
  /\ relay' = [relay EXCEPT ![thread] = "joined"]
  /\ EraseEntry

-----------------------------------------------------------------------------
(* The client: the log threads                                             *)

Running(k) == relay[k] \in {"looping", "reading"}

(* selectRecv reports a message, the end of the stream, or an error.       *)
Readable(k) == replies[k] # <<>> \/ link[k] = "broken" \/ handler[k] = "closed"

(* The loop condition, then selectRecv.                                    *)
PollLog(k) ==
  /\ relay[k] = "looping"
  /\ done \/ Readable(k)
  /\ relay' = [relay EXCEPT ![k] = IF done THEN "ended" ELSE "reading"]
  /\ UNCHANGED <<userVars, entry, done, thread, client, holder, netVars,
                 serverVars>>

RelayLog(k) ==
  /\ relay[k] = "reading"
  /\ replies[k] # <<>> /\ Head(replies[k]) = "log"
  /\ replies' = [replies EXCEPT ![k] = Tail(@)]
  /\ relay' = [relay EXCEPT ![k] = "looping"]
  /\ UNCHANGED <<userVars, entry, done, thread, client, holder, link, requests,
                 breaks, serverVars>>

(* Any reply without contents ends the thread: "got stop reply".           *)
EndOnVoid(k) ==
  /\ relay[k] = "reading"
  /\ replies[k] # <<>> /\ Head(replies[k]) = "void"
  /\ replies' = [replies EXCEPT ![k] = Tail(@)]
  /\ relay' = [relay EXCEPT ![k] = "ended"]
  /\ done' = TRUE
  /\ UNCHANGED <<userVars, entry, thread, client, holder, link, requests,
                 breaks, serverVars>>

(* A faulty variant: the thread that gives up does not say so.             *)
EndOnErrorSilent(k) ==
  /\ relay[k] = "reading"
  /\ replies[k] = <<>>
  /\ relay' = [relay EXCEPT ![k] = "ended"]
  /\ UNCHANGED <<userVars, entry, done, thread, client, holder, netVars,
                 serverVars>>

(* The exception of a broken connection is caught below the loop.          *)
EndOnError(k) ==
  /\ relay[k] = "reading"
  /\ replies[k] = <<>>
  /\ relay' = [relay EXCEPT ![k] = "ended"]
  /\ done' = TRUE
  /\ UNCHANGED <<userVars, entry, thread, client, holder, netVars, serverVars>>

-----------------------------------------------------------------------------
(* The server: handler threads                                             *)

SubscribersFree == pending = <<>>

Accept(k) ==
  /\ handler[k] = "none" /\ link[k] # "unused"
  /\ handler' = [handler EXCEPT ![k] = "up"]
  /\ UNCHANGED <<clientVars, netVars, subscribers, pending, logs>>

Request(k, call) ==
  /\ handler[k] = "up"
  /\ requests[k] # <<>> /\ Head(requests[k]) = call
  /\ requests' = [requests EXCEPT ![k] = Tail(@)]
  /\ UNCHANGED <<clientVars, link, replies, breaks, pending, logs>>

(* The socket is subscribed before the reply to START is sent.             *)
HandleStart(k) ==
  /\ Request(k, "START")
  /\ SubscribersFree
  /\ subscribers' = subscribers \cup {k}
  /\ handler' = [handler EXCEPT ![k] = "replying"]

HandleStop(k) ==
  /\ Request(k, "STOP")
  /\ k \in subscribers => SubscribersFree
  /\ subscribers' = subscribers \ {k}
  /\ handler' = [handler EXCEPT ![k] = "replying"]

HandleHangup(k) ==
  /\ Request(k, "HANGUP")
  /\ handler' = [handler EXCEPT ![k] = "parting"]
  /\ UNCHANGED subscribers

(* The reply goes out without subscribersMutex.  To a dead connection it   *)
(* may be sent, or it fails and the exception ends the handler's loop.     *)
SendReply(k) ==
  /\ handler[k] \in {"replying", "parting"}
  /\ LET next == IF handler[k] = "replying" THEN "up" ELSE "ending"
     IN  \/ /\ link[k] = "open"
            /\ Len(replies[k]) < SocketCap
            /\ replies' = [replies EXCEPT ![k] = Append(@, "void")]
            /\ handler' = [handler EXCEPT ![k] = next]
         \/ /\ link[k] # "open"
            /\ handler' \in {[handler EXCEPT ![k] = next],
                             [handler EXCEPT ![k] = "ending"]}
            /\ UNCHANGED replies
  /\ UNCHANGED <<clientVars, link, requests, breaks, subscribers, pending, logs>>

(* The end of the stream or an error throws out of the handler's loop.     *)
LoseClient(k) ==
  /\ handler[k] = "up"
  /\ requests[k] = <<>> /\ link[k] # "open"
  /\ handler' = [handler EXCEPT ![k] = "ending"]
  /\ UNCHANGED <<clientVars, netVars, subscribers, pending, logs>>

(* A faulty variant: the subscription is dropped without the mutex.        *)
DestroyUnlocked(k) ==
  /\ handler[k] = "ending"
  /\ subscribers' = subscribers \ {k}
  /\ handler' = [handler EXCEPT ![k] = "ended"]
  /\ UNCHANGED <<clientVars, netVars, pending, logs>>

(* The handler's destructor: "finally stop and cleanup log forwarding".    *)
Destroy(k) ==
  /\ handler[k] = "ending"
  /\ k \in subscribers => SubscribersFree
  /\ subscribers' = subscribers \ {k}
  /\ handler' = [handler EXCEPT ![k] = "ended"]
  /\ UNCHANGED <<clientVars, netVars, pending, logs>>

(* The listener has joined the thread and deletes the socket.              *)
DeleteSocket(k) ==
  /\ handler[k] = "ended"
  /\ handler' = [handler EXCEPT ![k] = "closed"]
  /\ UNCHANGED <<clientVars, netVars, subscribers, pending, logs>>

-----------------------------------------------------------------------------
(* The server: any thread that logs                                        *)

(* handleLogMessage takes the mutex and goes through the set.              *)
LogBegin ==
  /\ SubscribersFree
  /\ subscribers # {}
  /\ logs < MaxLogs
  /\ logs' = logs + 1
  /\ pending' \in SetToSeqs(subscribers)
  /\ UNCHANGED <<clientVars, netVars, handler, subscribers>>

(* A faulty variant: a send that fails is tried again.                     *)
LogSendAgain ==
  /\ pending # <<>>
  /\ LET k == Head(pending)
     IN  /\ link[k] = "open"
         /\ Len(replies[k]) < SocketCap
         /\ replies' = [replies EXCEPT ![k] = Append(@, "log")]
  /\ pending' = Tail(pending)
  /\ UNCHANGED <<clientVars, link, requests, breaks, handler, subscribers, logs>>

(* One send: it blocks while the socket is full, and failures are ignored. *)
LogSend ==
  /\ pending # <<>>
  /\ LET k == Head(pending)
     IN  \/ /\ link[k] = "open"
            /\ Len(replies[k]) < SocketCap
            /\ replies' = [replies EXCEPT ![k] = Append(@, "log")]
         \/ link[k] # "open" /\ UNCHANGED replies
  /\ pending' = Tail(pending)
  /\ UNCHANGED <<clientVars, link, requests, breaks, handler, subscribers, logs>>

(* The network resets a connection; both ends get errors.                  *)
Break(k) ==
  /\ link[k] = "open"
  /\ breaks < MaxBreaks
  /\ breaks' = breaks + 1
  /\ link' = [link EXCEPT ![k] = "broken"]
  /\ requests' = [requests EXCEPT ![k] = <<>>]
  /\ replies' = [replies EXCEPT ![k] = <<>>]
  /\ UNCHANGED <<clientVars, serverVars>>

-----------------------------------------------------------------------------
Tend == \/ \E k \in Conns : Activate(k)
        \/ ActivateFails \/ NeedNotActivate \/ Started \/ StartFails
        \/ KeepEntry \/ Erase \/ Shutdown \/ Join

LogThread(k) == PollLog(k) \/ RelayLog(k) \/ EndOnVoid(k) \/ EndOnError(k)

Handler(k) == \/ Accept(k) \/ HandleStart(k) \/ HandleStop(k) \/ HandleHangup(k)
              \/ SendReply(k) \/ LoseClient(k) \/ Destroy(k) \/ DeleteSocket(k)

Next == \/ Subscribe \/ Unsubscribe \/ MakeFails \/ Maintain \/ Tend
        \/ LogBegin \/ LogSend
        \/ \E k \in Conns : LogThread(k) \/ Handler(k) \/ Break(k)

Spec == Init /\ [][Next]_vars

(* Threads run: the one that holds logMutex, the log threads, the handlers *)
(* and the listener, and the one that logs.  Nobody has to come, go or log. *)
Fairness ==
  /\ WF_vars(Tend)
  /\ WF_vars(LogSend)
  /\ \A k \in Conns : WF_vars(LogThread(k)) /\ WF_vars(Handler(k))

FairSpec == Spec /\ Fairness

-----------------------------------------------------------------------------
TypeOK ==
  /\ devices \in 0..MaxUsers /\ useCount \in 0..MaxUsers /\ fails \in 0..MaxFails
  /\ entry \in BOOLEAN /\ done \in BOOLEAN
  /\ thread \in Conns \cup {None} /\ client \in Conns \cup {None}
  /\ holder \in {"idle", "maintain", "starting", "tended", "joining"}
  /\ relay \in [Conns -> {"none", "looping", "reading", "ended", "joined"}]
  /\ link \in [Conns -> {"unused", "open", "broken", "closed"}]
  /\ requests \in [Conns -> Seq({"START", "STOP", "HANGUP"})]
  /\ replies \in [Conns -> Seq({"void", "log"})]
  /\ handler \in [Conns -> {"none", "up", "replying", "parting", "ending",
                            "ended", "closed"}]
  /\ subscribers \subseteq Conns
  /\ pending \in Seq(Conns)
  /\ logs \in 0..MaxLogs /\ breaks \in 0..MaxBreaks

(* No thread that logs writes to a deleted socket: whatever is subscribed, *)
(* or still to be written, belongs to a handler whose destructor has not   *)
(* run.                                                                    *)
SubscribersLive ==
  \A k \in subscribers \cup {pending[i] : i \in DOMAIN pending} :
    handler[k] \in {"up", "replying", "parting", "ending"}

(* The client member is not replaced under a running thread, and an entry  *)
(* that is not done has a running thread, or it would never be restarted.  *)
ThreadOwnsClient ==
  /\ \A k \in Conns : Running(k) => thread = k /\ client = k
  /\ ~ done => thread # None /\ Running(thread)

(* When the last user is gone, no log thread runs and the entry is gone.   *)
StopsWithLastUser ==
  holder = "idle" /\ useCount = 0
    => ~ entry /\ \A k \in Conns : ~ Running(k)

(* When the last device is gone, so is the entry and its log thread        *)
(* (LogAcceptor.cpp:153, "no subscribers, erase").                         *)
LastDeviceErases == holder = "idle" /\ devices = 0 => ~ entry

(* Whoever takes logMutex gives it back, whatever state the server is in:  *)
(* the join of shutdown waits for the log thread only.                     *)
MutexReturned == holder # "idle" ~> holder = "idle"

(* A connection the client holds open and nobody reads.                    *)
Unread(k) == link[k] = "open" /\ ~ Running(k)

(* subscribersMutex is given back, unless a full socket that the client    *)
(* holds open without reading it is in the way.                            *)
LoggerHeldUpByUnread ==
  pending # <<>> ~> (pending = <<>> \/ Unread(Head(pending)))

(* The log thread takes a reply for the reply to STOP only when STOP was   *)
(* sent (LogAcceptor.cpp:118, "got stop reply").                           *)
EndsOnStopReply ==
  [][\A k \in Conns : EndOnVoid(k) => holder = "joining"]_vars

(* Once the last user is gone the server stops to forward (LogAcceptor.cpp *)
(* :86, "shutdown forwarding").                                            *)
ForwardingStops ==
  holder = "idle" /\ useCount = 0 ~> subscribers = {} \/ useCount > 0
=============================================================================
