---------------------------- MODULE LogLinkProofs ----------------------------
(***************************************************************************)
(* The safety of log forwarding, for every number of users, connections    *)
(* and messages and wherever connections break: the server writes to live  *)
(* sockets only, and the client keeps its log thread and the entry that    *)
(* owns it together.                                                       *)
(***************************************************************************)
EXTENDS LogLink, FiniteSetTheorems, TLAPS

Alive == {"up", "replying", "parting", "ending"}

(* What a message is still to be written to is subscribed, and what is     *)
(* subscribed has a handler: both change under subscribersMutex alone.     *)
Forwards ==
  /\ \A i \in DOMAIN pending : pending[i] \in subscribers
  /\ \A k \in subscribers : handler[k] \in Alive

(* Devices that were not made are counted for ever.                        *)
Counted == useCount = devices + fails

Tends ==
  /\ holder = "starting" => done /\ client \in Conns
  /\ holder = "joining" => done /\ thread \in Conns /\ useCount = 0

(* A log thread runs on the client's connection; once done is set it is    *)
(* only waited for.                                                        *)
OneThread ==
  /\ \A k \in Conns : Running(k) => /\ thread = k /\ client = k
                                    /\ done => holder = "joining"
  /\ ~ done => thread \in Conns /\ Running(thread)

(* An entry is erased with its last use only, and with its fields.         *)
Erased ==
  /\ ~ entry => holder = "idle" /\ useCount = 0 /\ done /\ thread = None
  /\ holder = "idle" /\ useCount = 0 => ~ entry

IInv == TypeOK /\ Forwards /\ Counted /\ Tends /\ OneThread /\ Erased

Calls == {"START", "STOP", "HANGUP"}
Answers == {"void", "log"}

-----------------------------------------------------------------------------
LEMMA InitIInv == Init => IInv
<1> SUFFICES ASSUME Init PROVE IInv
  OBVIOUS
<1>1. TypeOK
  <2>1. 0 \in 0 .. MaxUsers /\ 0 \in 0 .. MaxFails /\ 0 \in 0 .. MaxLogs /\ 0 \in 0 .. MaxBreaks
    BY LogLinkAssumption
  <2>2. << >> \in Seq(Calls) /\ << >> \in Seq(Answers) /\ << >> \in Seq(Conns)
    OBVIOUS
  <2> QED BY <2>1, <2>2 DEF Init, TypeOK, Calls, Answers
<1>2. Forwards /\ Counted /\ Tends /\ OneThread /\ Erased
  BY DEF Init, Forwards, Counted, Tends, OneThread, Erased, Running, None
<1> QED BY <1>1, <1>2 DEF IInv

-----------------------------------------------------------------------------
(* The server and the network.                                             *)

LEMMA ServerFrame ==
  ASSUME IInv, UNCHANGED clientVars, TypeOK', Forwards'  PROVE IInv'
<1> QED BY DEF IInv, clientVars, userVars, Counted, Tends, OneThread, Erased, Running

(* A message goes to every subscriber, in some order.                      *)
LEMMA SetToSeqsIs ==
  ASSUME NEW S \in SUBSET Conns, NEW s \in SetToSeqs(S)
  PROVE  s \in Seq(Conns) /\ \A i \in DOMAIN s : s[i] \in S
<1>1. Cardinality(S) \in Nat
  <2>1. IsFiniteSet(Conns)
    BY LogLinkAssumption, FS_Interval DEF Conns
  <2> QED BY <2>1, FS_Subset, FS_CardinalityType
<1>2. s \in [1 .. Cardinality(S) -> S]
  BY DEF SetToSeqs
<1> QED BY <1>1, <1>2

LEMMA HandlerStep == ASSUME IInv, NEW k \in Conns, Handler(k) PROVE IInv'
<1> USE DEF netVars
<1>1. UNCHANGED clientVars
  BY DEF Handler, Accept, HandleStart, HandleStop, HandleHangup, Request, SendReply, LoseClient,
         Destroy, DeleteSocket
<1>2. requests \in [Conns -> Seq(Calls)] /\ replies \in [Conns -> Seq(Answers)]
      /\ UNCHANGED <<link, breaks, pending, logs>>
  BY DEF IInv, TypeOK, Calls, Answers, Handler, Accept, HandleStart, HandleStop, HandleHangup,
         Request, SendReply, LoseClient, Destroy, DeleteSocket
<1>3. requests' \in [Conns -> Seq(Calls)]
  <2>1. \/ requests' = requests
        \/ requests[k] # << >> /\ requests' = [requests EXCEPT ![k] = Tail(requests[k])]
    BY DEF Handler, Accept, HandleStart, HandleStop, HandleHangup, Request, SendReply,
           LoseClient, Destroy, DeleteSocket
  <2>2. requests[k] # << >> => Tail(requests[k]) \in Seq(Calls)
    BY <1>2
  <2> QED BY <1>2, <2>1, <2>2
<1>4. replies' \in [Conns -> Seq(Answers)]
  <2>1. \/ replies' = replies
        \/ replies' = [replies EXCEPT ![k] = Append(replies[k], "void")]
    BY DEF Handler, Accept, HandleStart, HandleStop, HandleHangup, Request, SendReply,
           LoseClient, Destroy, DeleteSocket
  <2>2. Append(replies[k], "void") \in Seq(Answers)
    BY <1>2 DEF Answers
  <2> QED BY <1>2, <2>1, <2>2
(* The handler lives on, or is not subscribed and nothing is written to it. *)
<1>5. /\ subscribers' \in {subscribers, subscribers \cup {k}, subscribers \ {k}}
      /\ \E h \in Alive \cup {"ended", "closed"} :
           /\ handler' = [handler EXCEPT ![k] = h]
           /\ h \notin Alive => k \notin subscribers'
      /\ k \in subscribers' /\ k \notin subscribers => handler'[k] \in Alive
      /\ k \in subscribers /\ k \notin subscribers' => pending = << >>
  <2>1. handler \in [Conns -> Alive \cup {"none", "ended", "closed"}]
    BY DEF IInv, TypeOK, Alive
  <2>2. k \in subscribers => handler[k] \in Alive
    BY DEF IInv, Forwards
  <2>3. CASE Accept(k)
    BY <2>1, <2>2, <2>3 DEF Accept, Alive
  <2>4. CASE HandleStart(k)
    BY <2>1, <2>4 DEF HandleStart, Request, Alive
  <2>5. CASE HandleStop(k)
    BY <2>1, <2>5 DEF HandleStop, SubscribersFree, Request, Alive
  <2>6. CASE HandleHangup(k)
    BY <2>1, <2>6 DEF HandleHangup, Request, Alive
  <2>7. CASE SendReply(k)
    BY <2>1, <2>7 DEF SendReply, Alive
  <2>8. CASE LoseClient(k)
    BY <2>1, <2>8 DEF LoseClient, Alive
  <2>9. CASE Destroy(k)
    BY <2>1, <2>9 DEF Destroy, SubscribersFree, Alive
  <2>10. CASE DeleteSocket(k)
    BY <2>1, <2>2, <2>10 DEF DeleteSocket, Alive
  <2> QED BY <2>3, <2>4, <2>5, <2>6, <2>7, <2>8, <2>9, <2>10 DEF Handler
<1>6. TypeOK'
  <2>1. handler' \in [Conns -> {"none", "up", "replying", "parting", "ending", "ended", "closed"}]
        /\ subscribers' \subseteq Conns
    BY <1>5 DEF IInv, TypeOK, Alive
  <2> QED BY <1>1, <1>2, <1>3, <1>4, <2>1 DEF IInv, TypeOK, clientVars, userVars, Calls, Answers
<1>7. Forwards'
  <2>1. ASSUME NEW i \in DOMAIN pending PROVE pending[i] \in subscribers'
    <3>1. pending[i] \in subscribers /\ pending # << >>
      BY DEF IInv, Forwards
    <3> QED BY <1>5, <3>1
  <2>2. ASSUME NEW j \in subscribers' PROVE handler'[j] \in Alive
    <3>1. handler \in [Conns -> Alive \cup {"none", "ended", "closed"}]
      BY DEF IInv, TypeOK, Alive
    <3>2. CASE j = k
      BY <1>5, <3>1, <3>2
    <3>3. CASE j # k
      <4>1. j \in subscribers /\ handler[j] \in Alive /\ j \in Conns
        BY <1>5, <3>3 DEF IInv, Forwards, TypeOK
      <4> QED BY <1>5, <3>1, <3>3, <4>1
    <3> QED BY <3>2, <3>3
  <2> QED BY <1>2, <2>1, <2>2 DEF Forwards
<1> QED BY <1>1, <1>6, <1>7, ServerFrame

LEMMA LogBeginStep == ASSUME IInv, LogBegin PROVE IInv'
<1> USE DEF netVars
<1>1. /\ UNCHANGED <<clientVars, netVars, handler, subscribers>>
      /\ pending' \in SetToSeqs(subscribers) /\ logs' = logs + 1 /\ logs < MaxLogs
  BY DEF LogBegin
<1>2. pending' \in Seq(Conns) /\ \A i \in DOMAIN pending' : pending'[i] \in subscribers
  BY <1>1, SetToSeqsIs DEF IInv, TypeOK
<1>3. logs' \in 0 .. MaxLogs
  BY <1>1, LogLinkAssumption DEF IInv, TypeOK
<1>4. TypeOK' /\ Forwards'
  BY <1>1, <1>2, <1>3 DEF IInv, TypeOK, Forwards, clientVars, userVars
<1> QED BY <1>1, <1>4, ServerFrame

LEMMA LogSendStep == ASSUME IInv, LogSend PROVE IInv'
<1>1. /\ pending \in Seq(Conns) /\ pending # << >> /\ pending' = Tail(pending)
      /\ UNCHANGED <<clientVars, link, requests, breaks, handler, subscribers, logs>>
      /\ replies \in [Conns -> Seq(Answers)]
      /\ \/ replies' = replies
         \/ replies' = [replies EXCEPT ![Head(pending)] = Append(replies[Head(pending)], "log")]
  BY DEF IInv, TypeOK, LogSend, Answers
<1>2. Head(pending) \in Conns /\ pending' \in Seq(Conns)
  BY <1>1
<1>3. replies' \in [Conns -> Seq(Answers)]
  <2>1. Append(replies[Head(pending)], "log") \in Seq(Answers)
    BY <1>1, <1>2 DEF Answers
  <2> QED BY <1>1, <2>1
<1>4. ASSUME NEW i \in DOMAIN pending' PROVE pending'[i] \in subscribers
  <2>1. i + 1 \in DOMAIN pending /\ pending'[i] = pending[i + 1]
    BY <1>1
  <2> QED BY <2>1 DEF IInv, Forwards
<1>5. TypeOK' /\ Forwards'
  BY <1>1, <1>2, <1>3, <1>4 DEF IInv, TypeOK, Forwards, clientVars, userVars, Answers
<1> QED BY <1>1, <1>5, ServerFrame

LEMMA BreakStep == ASSUME IInv, NEW k \in Conns, Break(k) PROVE IInv'
<1>1. TypeOK'
  <2>1. /\ requests' \in [Conns -> Seq({"START", "STOP", "HANGUP"})]
        /\ replies' \in [Conns -> Seq({"void", "log"})]
    <3>1. << >> \in Seq({"START", "STOP", "HANGUP"}) /\ << >> \in Seq({"void", "log"})
      OBVIOUS
    <3> QED BY <3>1 DEF IInv, TypeOK, Break
  <2>2. breaks' \in 0 .. MaxBreaks
    BY LogLinkAssumption DEF IInv, TypeOK, Break
  <2>3. link' \in [Conns -> {"unused", "open", "broken", "closed"}]
    BY DEF IInv, TypeOK, Break
  <2> QED BY <2>1, <2>2, <2>3 DEF IInv, TypeOK, Break, clientVars, userVars, serverVars
<1>2. Forwards' /\ UNCHANGED clientVars
  BY DEF IInv, Forwards, Break, serverVars
<1> QED BY <1>1, <1>2, ServerFrame

-----------------------------------------------------------------------------
(* The client: users come and go, and the log threads read.                *)

LEMMA ClientFrame == ASSUME IInv, UNCHANGED serverVars PROVE Forwards'
<1> QED BY DEF IInv, Forwards, serverVars

(* A use is counted before logMutex is free again, and the entry tended.   *)
LEMMA UserStep == ASSUME IInv, Subscribe \/ Unsubscribe \/ MakeFails \/ Maintain PROVE IInv'
<1> USE DEF netVars
<1>1. /\ holder = "idle"
      /\ UNCHANGED <<done, thread, client, relay, netVars, serverVars>>
  BY DEF Subscribe, Unsubscribe, MakeFails, Maintain
<1>2. /\ devices \in Nat /\ useCount \in Nat /\ fails \in Nat /\ useCount = devices + fails
      /\ useCount <= MaxUsers /\ fails <= MaxFails /\ MaxUsers \in Nat /\ MaxFails \in Nat
  BY LogLinkAssumption DEF IInv, TypeOK, Counted
<1>3. /\ devices' \in 0 .. MaxUsers /\ useCount' \in 0 .. MaxUsers /\ fails' \in 0 .. MaxFails
      /\ useCount' = devices' + fails'
  <2>1. CASE Subscribe
    BY <1>2, <2>1 DEF Subscribe
  <2>2. CASE Unsubscribe
    BY <1>2, <2>2 DEF Unsubscribe
  <2>3. CASE MakeFails
    BY <1>2, <2>3 DEF MakeFails
  <2>4. CASE Maintain
    BY <1>2, <2>4 DEF Maintain, userVars
  <2> QED BY <2>1, <2>2, <2>3, <2>4
<1>4. \/ holder' = "maintain" /\ entry'
      \/ holder' = "idle" /\ entry' = entry /\ useCount' = useCount
  <2>1. CASE Unsubscribe
    <3>1. devices \in Nat \ {0}
      BY <1>2, <2>1 DEF Unsubscribe
    <3>2. useCount # 0
      BY <1>2, <3>1
    <3> QED BY <1>1, <2>1, <3>2 DEF Unsubscribe, IInv, Erased
  <2>2. CASE Subscribe \/ MakeFails \/ Maintain
    BY <1>1, <2>2 DEF Subscribe, MakeFails, Maintain
  <2> QED BY <2>1, <2>2 DEF Subscribe, Unsubscribe, MakeFails, Maintain
<1>5. entry' \in BOOLEAN
  BY DEF IInv, TypeOK, Subscribe, Unsubscribe, MakeFails, Maintain
<1>6. TypeOK'
  BY <1>1, <1>3, <1>4, <1>5 DEF IInv, TypeOK, serverVars
<1>7. Counted' /\ Tends' /\ Erased'
  <2>1. Counted'
    BY <1>3 DEF Counted
  <2>2. Tends'
    BY <1>4 DEF Tends
  <2>3. CASE holder' = "maintain" /\ entry'
    BY <2>1, <2>2, <2>3 DEF Erased
  <2>4. CASE holder' = "idle" /\ entry' = entry /\ useCount' = useCount
    BY <1>1, <2>1, <2>2, <2>4 DEF IInv, Erased
  <2> QED BY <1>4, <2>3, <2>4
<1>8. OneThread'
  <2>1. \A k \in Conns : Running(k)' <=> Running(k)
    BY <1>1 DEF Running
  <2>2. \A k \in Conns : Running(k) => thread = k /\ client = k /\ ~ done
    BY <1>1 DEF IInv, OneThread
  <2> QED BY <1>1, <2>1, <2>2 DEF IInv, OneThread, Running
<1> QED BY <1>1, <1>6, <1>7, <1>8, ClientFrame DEF IInv

LEMMA LogThreadStep == ASSUME IInv, NEW k \in Conns, LogThread(k) PROVE IInv'
<1> USE DEF netVars
<1>1. /\ Running(k)
      /\ UNCHANGED <<userVars, entry, thread, client, holder, link, requests, breaks, serverVars>>
      /\ \/ relay' = [relay EXCEPT ![k] = "ended"] /\ done' = TRUE
         \/ /\ done' = done
            /\ \E r \in {"looping", "reading"} : relay' = [relay EXCEPT ![k] = r]
  <2>1. done \in BOOLEAN
    BY DEF IInv, TypeOK
  <2>2. CASE PollLog(k)
    BY <2>1, <2>2 DEF PollLog, Running
  <2>3. CASE RelayLog(k)
    BY <2>3 DEF RelayLog, Running
  <2>4. CASE EndOnVoid(k) \/ EndOnError(k)
    BY <2>4 DEF EndOnVoid, EndOnError, Running
  <2> QED BY <2>2, <2>3, <2>4 DEF LogThread
<1>2. replies' \in [Conns -> Seq(Answers)]
  <2>1. replies \in [Conns -> Seq(Answers)]
    BY DEF IInv, TypeOK, Answers
  <2>2. \/ replies' = replies
        \/ replies[k] # << >> /\ replies' = [replies EXCEPT ![k] = Tail(replies[k])]
    BY DEF LogThread, PollLog, RelayLog, EndOnVoid, EndOnError
  <2>3. replies[k] # << >> => Tail(replies[k]) \in Seq(Answers)
    BY <2>1
  <2> QED BY <2>1, <2>2, <2>3
<1>3. relay' \in [Conns -> {"none", "looping", "reading", "ended", "joined"}]
      /\ done' \in BOOLEAN
  BY <1>1 DEF IInv, TypeOK
<1>4. TypeOK'
  BY <1>1, <1>2, <1>3 DEF IInv, TypeOK, userVars, serverVars, Answers
<1>5. thread = k /\ client = k
  BY <1>1 DEF IInv, OneThread
<1>6. \A j \in Conns \ {k} : relay'[j] = relay[j] /\ ~ Running(j)
  BY <1>1, <1>5 DEF IInv, TypeOK, OneThread
<1>7. OneThread'
  <2>1. CASE relay' = [relay EXCEPT ![k] = "ended"] /\ done' = TRUE
    <3>1. \A j \in Conns : ~ Running(j)'
      BY <1>6, <2>1 DEF IInv, TypeOK, Running
    <3> QED BY <2>1, <3>1 DEF OneThread
  <2>2. CASE /\ done' = done
             /\ \E r \in {"looping", "reading"} : relay' = [relay EXCEPT ![k] = r]
    <3>1. Running(k)' /\ \A j \in Conns \ {k} : ~ Running(j)'
      BY <1>6, <2>2 DEF IInv, TypeOK, Running
    <3>2. done => holder = "joining"
      BY <1>1 DEF IInv, OneThread
    <3> QED BY <1>1, <1>5, <2>2, <3>1, <3>2 DEF OneThread
  <2> QED BY <1>1, <2>1, <2>2
<1>8. Counted' /\ Tends' /\ Erased'
  <2>1. done => done'
    BY <1>1
  <2> QED BY <1>1, <1>5, <2>1 DEF IInv, Counted, Tends, Erased, userVars, None
<1> QED BY <1>1, <1>4, <1>7, <1>8, ClientFrame DEF IInv

-----------------------------------------------------------------------------
(* The client: the entry is tended.                                        *)

(* While the entry is looked at with done set, no log thread runs.         *)
LEMMA NobodyRuns ==
  ASSUME IInv, done, holder # "joining"  PROVE \A k \in Conns : ~ Running(k)
<1> QED BY DEF IInv, OneThread

LEMMA ActivateStep ==
  ASSUME IInv, ActivateFails \/ \E k \in Conns : Activate(k)  PROVE IInv'
<1> USE DEF netVars
<1>1. /\ holder = "maintain" /\ done /\ holder' \in {"starting", "tended"}
      /\ client' \in Conns \cup {None}
      /\ holder' = "starting" => client' \in Conns
      /\ UNCHANGED <<userVars, entry, done, thread, relay, replies, breaks, serverVars>>
  BY DEF Activate, ActivateFails
<1>2. /\ link' \in [Conns -> {"unused", "open", "broken", "closed"}]
      /\ requests' \in [Conns -> Seq({"START", "STOP", "HANGUP"})]
  <2>1. <<"START">> \in Seq({"START", "STOP", "HANGUP"})
    OBVIOUS
  <2>2. ASSUME NEW k \in Conns, Activate(k)
        PROVE  /\ link' \in [Conns -> {"unused", "open", "broken", "closed"}]
               /\ requests' \in [Conns -> Seq({"START", "STOP", "HANGUP"})]
    BY <2>1, <2>2 DEF IInv, TypeOK, Activate
  <2>3. CASE ActivateFails
    BY <2>3 DEF IInv, TypeOK, ActivateFails
  <2> QED BY <2>2, <2>3
<1>3. TypeOK'
  <2>1. holder' \in {"idle", "maintain", "starting", "tended", "joining"}
    BY <1>1
  <2>2. done' \in BOOLEAN
    BY <1>1 DEF IInv, TypeOK
  <2> QED BY <1>1, <1>2, <2>1, <2>2 DEF IInv, TypeOK, userVars, serverVars
<1>4. OneThread'
  <2>1. \A k \in Conns : ~ Running(k)'
    BY <1>1, NobodyRuns DEF Running
  <2> QED BY <1>1, <2>1 DEF OneThread
<1>5. Counted' /\ Tends' /\ Erased'
  <2>1. Counted'
    BY <1>1 DEF IInv, Counted, userVars
  <2>2. Tends'
    BY <1>1 DEF Tends
  <2>3. entry'
    BY <1>1 DEF IInv, Erased
  <2>4. Erased'
    BY <1>1, <2>3 DEF Erased
  <2> QED BY <2>1, <2>2, <2>4
<1> QED BY <1>1, <1>3, <1>4, <1>5, ClientFrame DEF IInv

LEMMA StartedStep == ASSUME IInv, Started PROVE IInv'
<1>1. client \in Conns /\ \A k \in Conns : ~ Running(k)
  BY NobodyRuns DEF IInv, Tends, Started
<1>2. /\ holder = "starting" /\ replies[client] # << >>
      /\ replies' = [replies EXCEPT ![client] = Tail(replies[client])]
      /\ done' = FALSE /\ thread' = client /\ holder' = "tended"
      /\ relay' = [relay EXCEPT ![client] = "looping"]
      /\ UNCHANGED <<userVars, entry, client, link, requests, breaks, serverVars>>
  BY DEF Started
<1>3. TypeOK'
  <2>1. replies \in [Conns -> Seq(Answers)]
    BY DEF IInv, TypeOK, Answers
  <2>2. Tail(replies[client]) \in Seq(Answers)
    BY <1>1, <1>2, <2>1
  <2>3. replies' \in [Conns -> Seq(Answers)]
    BY <1>2, <2>1, <2>2
  <2>4. relay' \in [Conns -> {"none", "looping", "reading", "ended", "joined"}]
    BY <1>2 DEF IInv, TypeOK
  <2> QED BY <1>1, <1>2, <2>3, <2>4 DEF IInv, TypeOK, userVars, serverVars, Answers
<1>4. OneThread'
  <2>1. Running(client)' /\ \A k \in Conns \ {client} : ~ Running(k)'
    BY <1>1, <1>2 DEF IInv, TypeOK, Running
  <2>2. \A k \in Conns : Running(k)' => k = client
    BY <2>1
  <2> QED BY <1>1, <1>2, <2>1, <2>2 DEF OneThread
<1>5. Counted' /\ Tends' /\ Erased'
  BY <1>2 DEF IInv, Counted, Tends, Erased, userVars
<1> QED BY <1>2, <1>3, <1>4, <1>5, ClientFrame DEF IInv

LEMMA TendedStep == ASSUME IInv, NeedNotActivate \/ StartFails \/ KeepEntry PROVE IInv'
<1> USE DEF netVars
<1>1. /\ UNCHANGED <<userVars, entry, thread, client, relay, netVars, serverVars>>
      /\ \/ holder \in {"maintain", "tended"} /\ done' = done
         \/ holder = "starting" /\ done' = TRUE
      /\ \/ holder' = "tended"
         \/ holder' = "idle" /\ useCount > 0
  BY DEF NeedNotActivate, StartFails, KeepEntry
<1>2. TypeOK'
  BY <1>1 DEF IInv, TypeOK, userVars, serverVars
<1>3. OneThread'
  <2>1. \A k \in Conns : Running(k)' <=> Running(k)
    BY <1>1 DEF Running
  <2>2. CASE done
    <3>1. \A k \in Conns : ~ Running(k)
      BY <1>1, <2>2, NobodyRuns
    <3> QED BY <1>1, <2>1, <2>2, <3>1 DEF OneThread
  <2>3. CASE ~ done
    <3>1. done' = done
      BY <1>1, <2>3 DEF IInv, Tends
    <3> QED BY <1>1, <2>1, <2>3, <3>1 DEF IInv, OneThread, Running
  <2> QED BY <2>2, <2>3
<1>4. Counted' /\ Tends' /\ Erased'
  <2>1. useCount > 0 => useCount # 0
    BY DEF IInv, TypeOK
  <2> QED BY <1>1, <2>1 DEF IInv, Counted, Tends, Erased, userVars
<1> QED BY <1>1, <1>2, <1>3, <1>4, ClientFrame DEF IInv

LEMMA ShutdownStep == ASSUME IInv, Shutdown PROVE IInv'
<1>1. /\ holder = "tended" /\ thread \in Conns /\ done' = TRUE /\ holder' = "joining"
      /\ UNCHANGED <<userVars, entry, thread, client, relay, link, replies, breaks, serverVars>>
  BY DEF IInv, TypeOK, Shutdown, SendStop
<1>2. requests' \in [Conns -> Seq(Calls)]
  <2>1. requests \in [Conns -> Seq(Calls)] /\ client \in Conns \cup {None}
    BY DEF IInv, TypeOK, Calls
  <2>2. \/ requests' = requests
        \/ client # None
           /\ requests' = [requests EXCEPT ![client] = requests[client] \o <<"STOP", "HANGUP">>]
    BY DEF Shutdown, SendStop
  <2>3. client # None => requests[client] \o <<"STOP", "HANGUP">> \in Seq(Calls)
    <3>1. <<"STOP", "HANGUP">> \in Seq(Calls)
      BY DEF Calls
    <3> QED BY <2>1, <3>1
  <2> QED BY <2>1, <2>2, <2>3
<1>3. TypeOK'
  BY <1>1, <1>2 DEF IInv, TypeOK, userVars, serverVars, Calls
<1>4. Counted' /\ Tends' /\ Erased'
  <2>1. entry /\ useCount = 0
    BY <1>1 DEF IInv, Erased, Shutdown, SendStop
  <2> QED BY <1>1, <2>1 DEF IInv, Counted, Tends, Erased, userVars
<1>5. OneThread'
  BY <1>1 DEF IInv, OneThread, Running
<1> QED BY <1>1, <1>3, <1>4, <1>5, ClientFrame DEF IInv

LEMMA EraseStep == ASSUME IInv, Erase \/ Join PROVE IInv'
<1>1. /\ entry' = FALSE /\ done' = TRUE /\ thread' = None /\ client' = None
      /\ holder' = "idle" /\ CloseClient /\ UNCHANGED <<userVars, serverVars>>
  BY DEF Erase, Join, EraseEntry
<1>2. /\ relay' \in [Conns -> {"none", "looping", "reading", "ended", "joined"}]
      /\ \A k \in Conns : ~ Running(k)'
  <2>1. CASE Erase
    <3>1. \A k \in Conns : ~ Running(k)
      BY <2>1 DEF IInv, OneThread, Erase, None, Conns
    <3> QED BY <2>1, <3>1 DEF IInv, TypeOK, Erase, Running
  <2>2. CASE Join
    <3>1. thread \in Conns /\ relay' = [relay EXCEPT ![thread] = "joined"]
      BY <2>2 DEF IInv, Tends, Join
    <3>2. \A k \in Conns : Running(k) => k = thread
      BY DEF IInv, OneThread
    <3> QED BY <3>1, <3>2 DEF IInv, TypeOK, Running
  <2> QED BY <2>1, <2>2
<1>3. /\ link' \in [Conns -> {"unused", "open", "broken", "closed"}]
      /\ requests' \in [Conns -> Seq({"START", "STOP", "HANGUP"})]
      /\ replies' \in [Conns -> Seq({"void", "log"})] /\ breaks' = breaks
  <2>1. << >> \in Seq({"START", "STOP", "HANGUP"}) /\ << >> \in Seq({"void", "log"})
    OBVIOUS
  <2>2. CASE client # None /\ link[client] = "open"
    <3>1. requests' = requests \/ requests' = [requests EXCEPT ![client] = << >>]
      BY <1>1, <2>2 DEF CloseClient
    <3>2. requests' \in [Conns -> Seq({"START", "STOP", "HANGUP"})]
      BY <2>1, <3>1 DEF IInv, TypeOK
    <3> QED BY <1>1, <2>1, <2>2, <3>2 DEF IInv, TypeOK, CloseClient
  <2>3. CASE ~ (client # None /\ link[client] = "open")
    BY <1>1, <2>3 DEF IInv, TypeOK, CloseClient, netVars
  <2> QED BY <2>2, <2>3
<1>4. TypeOK'
  BY <1>1, <1>2, <1>3 DEF IInv, TypeOK, userVars, serverVars
<1>5. Counted' /\ Tends' /\ OneThread' /\ Erased'
  <2>1. useCount = 0
    BY DEF IInv, Tends, Erase, Join
  <2> QED BY <1>1, <1>2, <2>1 DEF IInv, Counted, Tends, OneThread, Erased, userVars
<1> QED BY <1>1, <1>4, <1>5, ClientFrame DEF IInv

-----------------------------------------------------------------------------
LEMMA StepIInv == ASSUME IInv, [Next]_vars PROVE IInv'
<1>1. CASE UNCHANGED vars
  <2>1. TypeOK' /\ Forwards'
    BY <1>1 DEF IInv, TypeOK, Forwards, vars, clientVars, userVars, netVars, serverVars
  <2> QED BY <1>1, <2>1, ServerFrame DEF vars
<1>2. CASE Tend
  BY <1>2, ActivateStep, StartedStep, TendedStep, ShutdownStep, EraseStep DEF Tend
<1>3. CASE Subscribe \/ Unsubscribe \/ MakeFails \/ Maintain \/ LogBegin \/ LogSend
  BY <1>3, UserStep, LogBeginStep, LogSendStep
<1>4. ASSUME NEW k \in Conns, LogThread(k) \/ Handler(k) \/ Break(k) PROVE IInv'
  BY <1>4, LogThreadStep, HandlerStep, BreakStep
<1> QED BY <1>1, <1>2, <1>3, <1>4 DEF Next

\* The invariant of the theorems below holds, wherever connections break.
THEOREM SpecIInv == Spec => []IInv
<1> QED BY InitIInv, StepIInv, PTL DEF Spec

\* Every variable keeps its type; the use count stays within the devices that were ever
\* asked for.
THEOREM SpecTypeOK == Spec => []TypeOK
<1>1. IInv => TypeOK
  BY DEF IInv
<1> QED BY <1>1, SpecIInv, PTL

\* The thread that logs never writes to a deleted socket: ~SoapyClientHandler takes the
\* mutex to unsubscribe before its socket goes.
THEOREM SpecSubscribersLive == Spec => []SubscribersLive
<1>1. IInv => SubscribersLive
  BY DEF IInv, Forwards, SubscribersLive, Alive
<1> QED BY <1>1, SpecIInv, PTL

\* The client member is not replaced under a running log thread, and an entry that is
\* not done has one.
THEOREM SpecThreadOwnsClient == Spec => []ThreadOwnsClient
<1>1. None \notin Conns
  BY DEF None, Conns
<1>2. IInv => ThreadOwnsClient
  BY <1>1 DEF IInv, OneThread, ThreadOwnsClient
<1> QED BY <1>2, SpecIInv, PTL

\* When the last use is given up, the log thread and the entry are gone.
THEOREM SpecStopsWithLastUser == Spec => []StopsWithLastUser
<1>1. IInv => StopsWithLastUser
  <2> SUFFICES ASSUME IInv, holder = "idle", useCount = 0
               PROVE  ~ entry /\ \A k \in Conns : ~ Running(k)
    BY DEF StopsWithLastUser
  <2>1. ~ entry /\ done
    BY DEF IInv, Erased
  <2> QED BY <2>1, NobodyRuns
<1> QED BY <1>1, SpecIInv, PTL
=============================================================================
