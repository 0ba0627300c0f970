------------------------- MODULE ServerSessionProofs -------------------------
(***************************************************************************)
(* The safety of a server's sessions, for every number of clients and      *)
(* streams, every protocol and whatever the device throws: no thread works *)
(* on a stream that is closed or a device that is gone.  The inductive     *)
(* invariant says, client by client, what its request, the point its       *)
(* handler is at, its map of streams and their threads have to do with     *)
(* each other.                                                             *)
(***************************************************************************)
EXTENDS ServerSession, FiniteSetTheorems, TLAPS

(* There is a handler thread, and it has not destroyed its state.          *)
Served(c) == pc[c] \notin {"none", "ended", "joined"}

(* The handler is at a point of the request that the client waits for, and *)
(* only a client with a device asks for streams.                           *)
Asks(c) ==
  /\ pc[c] \in {"setup", "accepting"} => call[c].op = "setup"
  /\ pc[c] = "closing" => call[c].op = "close" /\ todo[c] \subseteq {call[c].id}
  /\ pc[c] = "unmaking" => call[c].op = "unmake"
  /\ call[c].op \in {"setup", "bypass", "close", "unmake"} => phase[c] = "made"
  /\ call[c].op = "close" => call[c].id \in Ids
  /\ call[c].op \in {"setup", "bypass"} /\ pc[c] \in {"waiting", "returned"}
       => nextId[c] \in Ids

HasDevice(c) ==
  /\ phase[c] = "made" /\ Served(c) => c \in dev
  /\ pc[c] = "none" /\ listener # "ended" => phase[c] = "new"

SettingUp(c) ==
  pc[c] \in {"setup", "accepting"}
    => nextId[c] # 1 /\ entry[Loading(c)] = "loading" /\ Loading(c) \in devStream

(* An entry is younger than the next id.                                   *)
Mapped(c) ==
  \A s \in Ids : entry[<<c, s>>] # "none" => c \in dev /\ Served(c) /\ s < nextId[c]

Working(c) ==
  \A s \in Ids : Busy(<<c, s>>) => <<c, s>> \in devStream /\ entry[<<c, s>>] = "ready"

(* The handler has closed the stream and not yet erased its entry.         *)
Over(c, s) ==
  /\ \/ pc[c] = "closing" /\ s = call[c].id
     \/ pc[c] \in {"unmaking", "leaving"}
  /\ s \notin todo[c]

Joined(c) == \A s \in Ids : Over(c, s) => ~ Busy(<<c, s>>)

Kept(c) ==
  \A s \in Ids : entry[<<c, s>>] # "none" /\ c \notin closeFailed
                   => <<c, s>> \in devStream \/ Over(c, s)

Sound(c) == /\ Asks(c) /\ HasDevice(c) /\ SettingUp(c)
            /\ Mapped(c) /\ Working(c) /\ Joined(c) /\ Kept(c)

Visits == listener \in {"join", "last join"} => visit \in Clients

IInv == TypeOK /\ Visits /\ \A c \in Clients : Sound(c)

(* A step leaves what the invariant says of client d, but for threads that *)
(* may end.                                                                *)
StreamsSame(d) ==
  \A s \in Ids : /\ entry'[<<d, s>>] = entry[<<d, s>>]
                 /\ <<d, s>> \in devStream' <=> <<d, s>> \in devStream
                 /\ Busy(<<d, s>>)' => Busy(<<d, s>>)

HandlerSame(d) ==
  /\ phase'[d] = phase[d] /\ nextId'[d] = nextId[d]
  /\ d \in dev' <=> d \in dev
  /\ d \in closeFailed' <=> d \in closeFailed

Same(d) ==
  /\ HandlerSame(d) /\ StreamsSame(d)
  /\ call'[d] = call[d] /\ pc'[d] = pc[d] /\ todo'[d] = todo[d]
  /\ listener = "ended" => listener' = "ended"

-----------------------------------------------------------------------------
LEMMA SameSound == ASSUME TypeOK, NEW d \in Clients, Sound(d), Same(d) PROVE Sound(d)'
<1> USE DEF Same, HandlerSame, StreamsSame
<1>1. Served(d)' <=> Served(d)
  BY DEF Served
<1>2. \A s \in Ids : Over(d, s)' <=> Over(d, s)
  BY DEF Over
<1>3. Asks(d)' /\ HasDevice(d)'
  BY <1>1 DEF Sound, Asks, HasDevice
<1>4. Mapped(d)' /\ Working(d)' /\ Joined(d)' /\ Kept(d)'
  BY <1>1, <1>2 DEF Sound, Mapped, Working, Joined, Kept
<1>5. SettingUp(d)'
  <2>1. nextId[d] \in 1 .. (MaxStreams + 1) /\ MaxStreams \in Nat
    BY SessionAssumption DEF TypeOK
  <2>2. nextId[d] # 1 => nextId[d] - 1 \in Ids
    BY <2>1 DEF Ids
  <2> QED BY <2>2 DEF Sound, SettingUp, Loading
<1> QED BY <1>3, <1>4, <1>5 DEF Sound

LEMMA InitIInv == Init => IInv
<1> SUFFICES ASSUME Init PROVE IInv
  OBVIOUS
<1>1. TypeOK
  <2>1. /\ 1 \in 1 .. (NumClients + 1) /\ 1 \in 1 .. (MaxStreams + 1)
    BY SessionAssumption
  <2>2. NoCall \in [op : Ops, id : {0} \cup Ids]
    BY DEF NoCall, Ops
  <2>3. /\ call \in [Clients -> [op : Ops, id : {0} \cup Ids]]
        /\ nextId \in [Clients -> 1 .. (MaxStreams + 1)]
    BY <2>1, <2>2 DEF Init
  <2> QED BY <2>1, <2>3 DEF Init, TypeOK, Threads
<1>2. ASSUME NEW c \in Clients PROVE Sound(c)
  BY DEF Init, Sound, Asks, HasDevice, SettingUp, Mapped, Working, Joined, Kept, Over, Served,
         Busy, NoCall, Streams
<1>3. Visits
  BY DEF Init, Visits
<1> QED BY <1>1, <1>2, <1>3 DEF IInv

-----------------------------------------------------------------------------
(* The handler closes a stream that it has still to close.                 *)

LEMMA Least ==
  ASSUME NEW N \in Nat, NEW S \in SUBSET (1 .. N), S # {}
  PROVE  \E s \in S : \A r \in S : s <= r
<1> DEFINE below == {1 .. s : s \in S}
<1>1. below \subseteq FiniteSubsetsOf(1 .. N) /\ below # {}
  <2>1. IsFiniteSet(1 .. N)
    BY FS_Interval
  <2>2. ASSUME NEW s \in S PROVE 1 .. s \in FiniteSubsetsOf(1 .. N)
    <3>1. 1 .. s \in SUBSET (1 .. N)
      OBVIOUS
    <3>2. IsFiniteSet(1 .. s)
      BY FS_Interval
    <3> QED BY <3>1, <3>2 DEF FiniteSubsetsOf
  <2> QED BY <2>2
<1>2. PICK b \in below : \A d \in below : <<d, b>> \notin StrictSubsetOrdering(1 .. N)
  BY <1>1, FS_StrictSubsetOrderingWellFounded, WFMin
<1>3. PICK s \in S : b = 1 .. s
  OBVIOUS
<1>4. ASSUME NEW r \in S, r < s PROVE FALSE
  <2> DEFINE d == 1 .. r
  <2>1. d \in below /\ d \subseteq b /\ d # b
    <3>1. s \in b /\ s \notin d
      BY <1>3, <1>4
    <3>2. d \subseteq b
      BY <1>3, <1>4
    <3> QED BY <3>1, <3>2
  <2>2. d \in SUBSET (1 .. N) /\ b \in SUBSET (1 .. N)
    BY <1>3
  <2>3. <<d, b>> \in StrictSubsetOrdering(1 .. N)
    <3> HIDE DEF d, below
    <3> QED BY <2>1, <2>2 DEF StrictSubsetOrdering
  <2> QED BY <1>2, <2>1, <2>3
<1> QED BY <1>4

LEMMA CurrentIs ==
  ASSUME TypeOK, NEW c \in Clients, todo[c] # {}
  PROVE  \E s \in todo[c] : s \in Ids /\ Current(c) = <<c, s>> /\ Current(c) \in Streams
<1>1. todo[c] \in SUBSET (1 .. MaxStreams) /\ MaxStreams \in Nat
  BY SessionAssumption DEF TypeOK, Ids
<1>2. \E s \in todo[c] : \A r \in todo[c] : s <= r
  BY <1>1, Least
<1>3. (CHOOSE s \in todo[c] : \A r \in todo[c] : s <= r) \in todo[c]
  BY <1>2
<1>4. PICK s \in todo[c] : s = CHOOSE q \in todo[c] : \A r \in todo[c] : q <= r
  BY <1>3
<1>5. Current(c) = <<c, s>>
  BY <1>4 DEF Current
<1> QED BY <1>1, <1>5 DEF Streams, Ids

-----------------------------------------------------------------------------
(* Steps that leave every handler where it is.                             *)

LEMMA AllSame ==
  ASSUME IInv, TypeOK', Visits', \A d \in Clients : Same(d)  PROVE IInv'
<1> QED BY SameSound DEF IInv

LEMMA ClientQuiet == ASSUME IInv, NEW c \in Clients, Connect(c) \/ Vanish(c) PROVE IInv'
<1> USE DEF listenVars, handlerVars, streamVars, endVars
<1>1. TypeOK' /\ Visits'
  BY DEF IInv, TypeOK, Visits, Connect, Vanish
<1>2. \A d \in Clients : Same(d)
  BY DEF Same, HandlerSame, StreamsSame, Busy, Connect, Vanish
<1> QED BY <1>1, <1>2, AllSame

LEMMA WorkerQuiet == ASSUME IInv, NEW x \in Streams, Worker(x) PROVE IInv'
<1> USE DEF listenVars, clientVars, handlerVars, endVars
<1>1. /\ OnlyThreads
      /\ \/ worker[x] = "running" /\ UNCHANGED status
            /\ \E t \in {"exited", "stuck"} : worker' = [worker EXCEPT ![x] = t]
         \/ status[x] \in {"running", "stuck"} /\ UNCHANGED worker
            /\ \E t \in {"exited", "stuck", "running"} : status' = [status EXCEPT ![x] = t]
  BY DEF Worker, WorkerEnds, WorkerQuits, WorkerSpins, StatusEnds, StatusBlocks, StatusResumes
<1>2. TypeOK' /\ Visits'
  <2>1. worker' \in [Streams -> Threads] /\ status' \in [Streams -> Threads]
    <3>1. worker \in [Streams -> Threads] /\ status \in [Streams -> Threads]
      BY DEF IInv, TypeOK
    <3>2. {"running", "exited", "stuck"} \subseteq Threads
      BY DEF Threads
    <3> QED BY <1>1, <3>1, <3>2
  <2> QED BY <1>1, <2>1 DEF IInv, TypeOK, Visits, OnlyThreads
<1>3. ASSUME NEW y \in Streams, Busy(y)' PROVE Busy(y)
  BY <1>1, <1>3 DEF IInv, TypeOK, Busy
<1>4. ASSUME NEW d \in Clients PROVE Same(d)
  <2>1. \A s \in Ids : Busy(<<d, s>>)' => Busy(<<d, s>>)
    BY <1>3 DEF Streams
  <2> QED BY <1>1, <2>1 DEF Same, HandlerSame, StreamsSame, OnlyThreads
<1> QED BY <1>2, <1>4, AllSame

LEMMA SignalStopQuiet == ASSUME IInv, NEW c \in Clients, SignalStop(c) PROVE IInv'
<1> USE DEF listenVars, clientVars, handlerVars, endVars
<1>1. Current(c) \in Streams
  BY CurrentIs DEF IInv, SignalStop, Closing
<1>2. TypeOK' /\ Visits'
  BY <1>1 DEF IInv, TypeOK, Visits, SignalStop
<1>3. \A d \in Clients : Same(d)
  BY DEF Same, HandlerSame, StreamsSame, Busy, SignalStop
<1> QED BY <1>2, <1>3, AllSame

LEMMA ListenerQuiet ==
  ASSUME IInv, Erase \/ CleanupDone \/ SelectTimeout \/ Interrupt  PROVE IInv'
<1> USE DEF clientVars, handlerVars, streamVars, endVars
<1>1. TypeOK' /\ Visits'
  <2>1. CASE Erase
    <3>1. /\ visit \in Clients /\ visit' \in {visit, visit + 1}
          /\ listener' \in {"join", "last join"} => visit' = visit
          /\ threadDone' \in [Clients -> BOOLEAN]
          /\ listener' \in {"cleanup", "ending", "join", "last join"}
      <4>1. threadDone' \in [Clients -> BOOLEAN]
        BY <2>1 DEF IInv, TypeOK, Erase
      <4>2. listener' \in {"cleanup", "ending", "join", "last join"}
        BY <2>1 DEF Erase
      <4> QED BY <2>1, <4>1, <4>2 DEF Erase
    <3>2. visit' \in 1 .. (NumClients + 1)
      <4>1. visit \in 1 .. NumClients /\ NumClients \in Nat
        BY <3>1, SessionAssumption DEF Clients
      <4>2. visit' = visit \/ visit' = visit + 1
        BY <3>1
      <4> HIDE <2>1
      <4> QED BY <4>1, <4>2
    <3> QED BY <2>1, <3>1, <3>2 DEF IInv, TypeOK, Visits, Erase
  <2>2. CASE CleanupDone \/ SelectTimeout \/ Interrupt
    <3>1. 1 \in 1 .. (NumClients + 1)
      BY SessionAssumption
    <3> QED BY <2>2, <3>1 DEF IInv, TypeOK, Visits, CleanupDone, SelectTimeout, Turn, Interrupt
  <2> QED BY <2>1, <2>2
<1>2. /\ listener = "ended" => listener' = "ended"
      /\ UNCHANGED <<clientVars, pc, dev, nextId, todo, streamVars, endVars>>
  BY DEF Erase, CleanupDone, SelectTimeout, Turn, Interrupt
<1>3. \A d \in Clients : Same(d)
  BY <1>2 DEF Same, HandlerSame, StreamsSame, Busy
<1> QED BY <1>1, <1>3, AllSame

-----------------------------------------------------------------------------
(* Steps for one client.                                                   *)

LEMMA OneChanges ==
  ASSUME IInv, TypeOK', Visits', NEW c \in Clients, Sound(c)',
         \A d \in Clients \ {c} : Same(d)
  PROVE  IInv'
<1>1. ASSUME NEW d \in Clients PROVE Sound(d)'
  <2>1. CASE d = c
    BY <2>1
  <2>2. CASE d # c
    BY <2>2, SameSound DEF IInv
  <2> QED BY <2>1, <2>2
<1> QED BY <1>1 DEF IInv

LEMMA SendStep ==
  ASSUME IInv, NEW c \in Clients, NEW what \in Calls(c), Send(c, what)  PROVE IInv'
<1> USE DEF listenVars, handlerVars, streamVars, endVars
<1>1. /\ call[c] = NoCall /\ call' = [call EXCEPT ![c] = what]
      /\ what.op \in {"setup", "bypass"} => nextId[c] \in Ids
      /\ UNCHANGED <<listenVars, conn, phase, handlerVars, streamVars, endVars>>
  BY DEF Send, MaySetup
<1>2. phase[c] \in {"new", "made", "unmade"}
  BY DEF IInv, TypeOK
<1>3. /\ what \in [op : Ops, id : {0} \cup Ids]
      /\ what.op \in {"setup", "bypass", "close", "unmake"} => phase[c] = "made"
      /\ what.op = "close" => what.id \in Ids
  <2>1. CASE phase[c] = "new"
    <3>1. what \in [op : {"make", "hangup"}, id : {0}]
      BY <2>1 DEF Calls
    <3> QED BY <3>1 DEF Ops
  <2>2. CASE phase[c] = "unmade"
    <3>1. what \in [op : {"hangup"}, id : {0}]
      BY <2>2 DEF Calls
    <3> QED BY <3>1 DEF Ops
  <2>3. CASE phase[c] = "made"
    <3>1. \/ what \in [op : {"unmake", "setup", "bypass"}, id : {0}]
          \/ \E s \in Ids : what = [op |-> "close", id |-> s]
      BY <2>3 DEF Calls
    <3>2. CASE what \in [op : {"unmake", "setup", "bypass"}, id : {0}]
      BY <2>3, <3>2 DEF Ops
    <3>3. CASE \E s \in Ids : what = [op |-> "close", id |-> s]
      BY <2>3, <3>3 DEF Ops
    <3> QED BY <3>1, <3>2, <3>3
  <2> QED BY <1>2, <2>1, <2>2, <2>3
<1>4. TypeOK' /\ Visits'
  <2>1. call' \in [Clients -> [op : Ops, id : {0} \cup Ids]]
    BY <1>1, <1>3 DEF IInv, TypeOK
  <2> QED BY <1>1, <2>1 DEF IInv, TypeOK, Visits
<1>5. \A d \in Clients \ {c} : Same(d)
  BY <1>1 DEF IInv, TypeOK, Same, HandlerSame, StreamsSame, Busy
<1>6. Sound(c)'
  <2>1. call'[c] = what /\ Sound(c)
    BY <1>1 DEF IInv, TypeOK
  <2>2. pc[c] \notin {"setup", "accepting", "closing", "unmaking"}
    BY <1>1, <2>1 DEF Sound, Asks, NoCall
  <2>3. Asks(c)' /\ HasDevice(c)' /\ SettingUp(c)'
    BY <1>1, <1>3, <2>1, <2>2 DEF Sound, Asks, HasDevice, SettingUp, Served
  <2>4. Mapped(c)' /\ Working(c)'
    BY <1>1, <2>1 DEF Sound, Mapped, Working, Served, Busy
  <2>5. Joined(c)' /\ Kept(c)'
    BY <1>1, <2>1, <2>2 DEF Sound, Joined, Kept, Over, Busy
  <2> QED BY <2>3, <2>4, <2>5 DEF Sound
<1> QED BY <1>4, <1>5, <1>6, OneChanges

(* A handler starts or has ended: it holds nothing.                        *)
LEMMA NothingHeld ==
  ASSUME NEW c \in Clients, Sound(c), pc[c] \in {"none", "ended"},
         pc'[c] \in {"waiting", "joined"}, pc'[c] = "waiting" => phase[c] = "new",
         UNCHANGED <<phase, call, dev, nextId, todo, entry, devStream, worker, status,
                     closeFailed>>
  PROVE  Sound(c)'
<1>1. \A s \in Ids : entry[<<c, s>>] = "none" /\ ~ Busy(<<c, s>>)
  BY DEF Sound, Mapped, Working, Served
<1>2. Mapped(c)' /\ Working(c)' /\ Joined(c)' /\ Kept(c)'
  BY <1>1 DEF Mapped, Working, Joined, Kept, Busy
<1>3. Asks(c)' /\ HasDevice(c)' /\ SettingUp(c)'
  BY DEF Sound, Asks, HasDevice, SettingUp, Served
<1> QED BY <1>2, <1>3 DEF Sound

LEMMA JoinStep == ASSUME IInv, Join PROVE IInv'
<1> USE DEF streamVars, endVars
<1>1. PICK c \in Clients : c = visit
  BY DEF IInv, Visits, Join, Joining
<1>2. /\ pc[c] = "ended" /\ pc' = [pc EXCEPT ![c] = "joined"] /\ visit' = c + 1
      /\ conn' = [conn EXCEPT ![c] = "gone"]
      /\ listener # "ended" /\ listener' \in {"ending", "cleanup"}
      /\ UNCHANGED <<serverDone, phase, call, threadDone, dev, nextId, todo, streamVars, endVars>>
  BY <1>1 DEF Join, Joining, Erased
<1>3. TypeOK' /\ Visits'
  <2>1. visit' \in 1 .. (NumClients + 1)
    <3>1. c \in 1 .. NumClients /\ NumClients \in Nat /\ visit' = c + 1
      BY <1>2, SessionAssumption DEF Clients
    <3> QED BY <3>1
  <2> QED BY <1>2, <2>1 DEF IInv, TypeOK, Visits
<1>4. \A d \in Clients \ {c} : Same(d)
  BY <1>2 DEF IInv, TypeOK, Same, HandlerSame, StreamsSame, Busy
<1>5. Sound(c)'
  <2>1. pc'[c] = "joined" /\ Sound(c)
    BY <1>2 DEF IInv, TypeOK
  <2> QED BY <1>2, <2>1, NothingHeld
<1> QED BY <1>3, <1>4, <1>5, OneChanges

LEMMA AcceptClientStep == ASSUME IInv, AcceptClient PROVE IInv'
<1> USE DEF clientVars, streamVars, endVars
<1>1. PICK c \in Clients : pc[c] = "none" /\ pc' = [pc EXCEPT ![c] = "waiting"]
  BY DEF AcceptClient, Backlog
<1>2. /\ listener = "select" /\ listener' \in {"ending", "cleanup"} /\ visit' = 1
      /\ UNCHANGED <<serverDone, clientVars, threadDone, dev, nextId, todo, streamVars, endVars>>
  BY DEF AcceptClient, Turn
<1>3. TypeOK' /\ Visits'
  <2>1. 1 \in 1 .. (NumClients + 1)
    BY SessionAssumption
  <2> QED BY <1>1, <1>2, <2>1 DEF IInv, TypeOK, Visits
<1>4. \A d \in Clients \ {c} : Same(d)
  BY <1>1, <1>2 DEF IInv, TypeOK, Same, HandlerSame, StreamsSame, Busy
<1>5. Sound(c)'
  <2>1. pc'[c] = "waiting" /\ Sound(c)
    BY <1>1 DEF IInv, TypeOK
  <2>2. phase[c] = "new"
    BY <1>1, <1>2, <2>1 DEF Sound, HasDevice
  <2> QED BY <1>1, <1>2, <2>1, <2>2, NothingHeld
<1> QED BY <1>3, <1>4, <1>5, OneChanges

LEMMA CrashStep == ASSUME IInv, Crash PROVE IInv'
<1>1. TypeOK' /\ Visits'
  BY DEF IInv, TypeOK, Visits, Crash, Threads
<1>2. ASSUME NEW c \in Clients PROVE Sound(c)'
  <2>1. /\ pc'[c] = "none" /\ listener' = "ended" /\ call' = call /\ phase' = phase
        /\ \A s \in Ids : entry'[<<c, s>>] = "none"
                        /\ worker'[<<c, s>>] = "none" /\ status'[<<c, s>>] = "none"
    BY DEF Crash, Streams
  <2>2. Asks(c)' /\ HasDevice(c)' /\ SettingUp(c)'
    BY <2>1 DEF IInv, Sound, Asks, HasDevice, SettingUp, Served
  <2>3. Mapped(c)' /\ Working(c)' /\ Joined(c)' /\ Kept(c)'
    BY <2>1 DEF Mapped, Working, Joined, Kept, Busy
  <2> QED BY <2>2, <2>3 DEF Sound
<1> QED BY <1>1, <1>2 DEF IInv

-----------------------------------------------------------------------------
(* Requests that are answered at once.                                     *)

LEMMA Answered ==
  ASSUME NEW c \in Clients, call'[c] = NoCall, pc'[c] = "returned",
         phase'[c] = "made" => c \in dev',
         \A s \in Ids :
           /\ entry'[<<c, s>>] # "none" => c \in dev' /\ s < nextId'[c]
           /\ Busy(<<c, s>>)' => <<c, s>> \in devStream' /\ entry'[<<c, s>>] = "ready"
           /\ entry'[<<c, s>>] # "none" /\ c \notin closeFailed' => <<c, s>> \in devStream'
  PROVE  Sound(c)'
<1>1. Asks(c)' /\ HasDevice(c)' /\ SettingUp(c)'
  BY DEF Asks, HasDevice, SettingUp, NoCall
<1>2. Mapped(c)' /\ Working(c)' /\ Joined(c)' /\ Kept(c)'
  BY DEF Mapped, Working, Joined, Kept, Over, Served
<1> QED BY <1>1, <1>2 DEF Sound

LEMMA AnswerTypes ==
  ASSUME TypeOK, NEW c \in Clients, Answer(c)
  PROVE  /\ call' \in [Clients -> [op : Ops, id : {0} \cup Ids]]
         /\ pc' \in [Clients -> {"none", "waiting", "returned", "setup", "accepting",
                                 "closing", "unmaking", "leaving", "ended", "joined"}]
         /\ call'[c] = NoCall /\ pc'[c] = "returned"
         /\ \A d \in Clients \ {c} : call'[d] = call[d] /\ pc'[d] = pc[d]
<1>1. NoCall \in [op : Ops, id : {0} \cup Ids]
  BY DEF NoCall, Ops
<1> QED BY <1>1 DEF TypeOK, Answer

(* The device is made, or refuses to be or to set up a stream, or the      *)
(* client never connected: the streams stay as they are.                   *)
LEMMA PlainAnswer ==
  ASSUME IInv, NEW c \in Clients,
         Make(c) \/ MakeThrows(c) \/ SetupThrows(c) \/ AcceptStreamFails(c)
  PROVE  IInv'
<1> USE DEF listenVars, streamVars, endVars
<1>1. /\ Answer(c)
      /\ UNCHANGED <<listenVars, threadDone, nextId, todo, streamVars, endVars>>
      /\ \/ phase' = [phase EXCEPT ![c] = "made"] /\ dev' = dev \cup {c}
         \/ phase' = phase /\ dev' = dev
      /\ conn' \in {conn, [conn EXCEPT ![c] = "gone"]}
      /\ pc[c] \in {"waiting", "accepting"}
  BY DEF Make, MakeThrows, SetupThrows, AcceptStreamFails, Asked
<1>2. TypeOK /\ Sound(c)
  BY DEF IInv
<1>3. TypeOK' /\ Visits'
  <2>1. phase' \in [Clients -> {"new", "made", "unmade"}] /\ dev' \subseteq Clients
    BY <1>1, <1>2 DEF TypeOK
  <2>2. conn' \in [Clients -> {"none", "open", "gone"}]
    BY <1>1, <1>2 DEF TypeOK
  <2> QED BY <1>1, <1>2, <2>1, <2>2, AnswerTypes DEF IInv, TypeOK, Visits
<1>4. \A d \in Clients \ {c} : Same(d)
  <2> SUFFICES ASSUME NEW d \in Clients \ {c} PROVE Same(d)
    OBVIOUS
  <2>1. phase'[d] = phase[d] /\ (d \in dev' <=> d \in dev)
    BY <1>1, <1>2 DEF TypeOK
  <2>2. call'[d] = call[d] /\ pc'[d] = pc[d]
    BY <1>1, <1>2, AnswerTypes
  <2> QED BY <1>1, <2>1, <2>2 DEF Same, HandlerSame, StreamsSame, Busy
<1>5. Sound(c)'
  <2>1. phase'[c] = "made" => c \in dev'
    BY <1>1, <1>2 DEF Sound, HasDevice, Served, TypeOK
  <2>2. ASSUME NEW s \in Ids
        PROVE  /\ entry'[<<c, s>>] # "none" => c \in dev' /\ s < nextId'[c]
               /\ Busy(<<c, s>>)' => <<c, s>> \in devStream' /\ entry'[<<c, s>>] = "ready"
               /\ entry'[<<c, s>>] # "none" /\ c \notin closeFailed' => <<c, s>> \in devStream'
    BY <1>1, <1>2 DEF Sound, Mapped, Working, Kept, Over, Busy
  <2> QED BY <1>1, <1>2, <2>1, <2>2, AnswerTypes, Answered
<1> QED BY <1>3, <1>4, <1>5, OneChanges

LEMMA NextTurnStep == ASSUME IInv, NEW c \in Clients, NextTurn(c) PROVE IInv'
<1> USE DEF listenVars, clientVars, streamVars, endVars
<1>1. TypeOK' /\ Visits'
  BY DEF IInv, TypeOK, Visits, NextTurn
<1>2. \A d \in Clients \ {c} : Same(d)
  BY DEF IInv, TypeOK, Same, HandlerSame, StreamsSame, Busy, NextTurn
<1>3. Sound(c)'
  <2>1. pc[c] = "returned" /\ pc'[c] = "waiting" /\ Sound(c)
        /\ UNCHANGED <<listenVars, clientVars, threadDone, dev, nextId, todo, streamVars, endVars>>
    BY DEF IInv, TypeOK, NextTurn
  <2>2. Asks(c)' /\ HasDevice(c)' /\ SettingUp(c)'
    BY <2>1 DEF Sound, Asks, HasDevice, SettingUp, Served
  <2>3. Mapped(c)' /\ Working(c)' /\ Joined(c)' /\ Kept(c)'
    BY <2>1 DEF Sound, Mapped, Working, Joined, Kept, Over, Served, Busy
  <2> QED BY <2>2, <2>3 DEF Sound
<1> QED BY <1>1, <1>2, <1>3, OneChanges

-----------------------------------------------------------------------------
(* The setup of a stream.                                                  *)

(* SETUP_STREAM found a device, and the id of the stream is new.           *)
LEMMA Asking ==
  ASSUME IInv, NEW c \in Clients, Asked(c, "setup") \/ Asked(c, "bypass")
  PROVE  /\ TypeOK /\ Sound(c) /\ pc[c] = "waiting" /\ call[c].op \in {"setup", "bypass"}
         /\ phase[c] = "made" /\ c \in dev /\ nextId[c] \in Ids
         /\ nextId[c] \in Nat \ {0} /\ nextId[c] + 1 \in 1 .. (MaxStreams + 1)
<1>1. /\ TypeOK /\ Sound(c) /\ pc[c] = "waiting" /\ call[c].op \in {"setup", "bypass"}
  BY DEF IInv, Asked
<1>2. phase[c] = "made" /\ nextId[c] \in Ids
  BY <1>1 DEF Sound, Asks
<1>3. c \in dev
  BY <1>1, <1>2 DEF Sound, HasDevice, Served
<1>4. nextId[c] \in Nat \ {0} /\ nextId[c] + 1 \in 1 .. (MaxStreams + 1)
  <2>1. nextId[c] \in 1 .. MaxStreams /\ MaxStreams \in Nat
    BY <1>2, SessionAssumption DEF Ids
  <2> QED BY <2>1
<1> QED BY <1>1, <1>2, <1>3, <1>4

LEMMA OpenTypes ==
  ASSUME TypeOK, NEW c \in Clients, NEW kind \in {"loading", "bypass"}, OpenStream(c, kind),
         nextId[c] \in Ids, nextId[c] + 1 \in 1 .. (MaxStreams + 1)
  PROVE  /\ devStream' \subseteq Streams
         /\ entry' \in [Streams -> {"none", "loading", "ready", "bypass"}]
         /\ nextId' \in [Clients -> 1 .. (MaxStreams + 1)]
         /\ UNCHANGED <<stopped, worker, status>>
         /\ nextId'[c] = nextId[c] + 1
         /\ entry'[<<c, nextId[c]>>] = kind /\ <<c, nextId[c]>> \in devStream'
         /\ \A s \in Ids \ {nextId[c]} :
              /\ entry'[<<c, s>>] = entry[<<c, s>>]
              /\ <<c, s>> \in devStream' <=> <<c, s>> \in devStream
         /\ \A d \in Clients \ {c} : nextId'[d] = nextId[d] /\ StreamsSame(d)
<1>1. <<c, nextId[c]>> \in Streams
  BY DEF Streams
<1>2. /\ devStream' = devStream \cup {<<c, nextId[c]>>}
      /\ entry' = [entry EXCEPT ![<<c, nextId[c]>>] = kind]
      /\ nextId' = [nextId EXCEPT ![c] = nextId[c] + 1]
      /\ UNCHANGED <<stopped, worker, status>>
  BY DEF OpenStream
<1>3. /\ devStream' \subseteq Streams
      /\ entry' \in [Streams -> {"none", "loading", "ready", "bypass"}]
  BY <1>1, <1>2 DEF TypeOK
<1>4. nextId' \in [Clients -> 1 .. (MaxStreams + 1)] /\ nextId'[c] = nextId[c] + 1
      /\ \A d \in Clients \ {c} : nextId'[d] = nextId[d]
  BY <1>2 DEF TypeOK
<1>5. /\ entry'[<<c, nextId[c]>>] = kind /\ <<c, nextId[c]>> \in devStream'
      /\ \A s \in Ids \ {nextId[c]} : /\ entry'[<<c, s>>] = entry[<<c, s>>]
                                     /\ <<c, s>> \in devStream' <=> <<c, s>> \in devStream
  BY <1>1, <1>2 DEF TypeOK, Streams
<1>6. \A d \in Clients \ {c} : StreamsSame(d)
  BY <1>1, <1>2 DEF TypeOK, Streams, StreamsSame, Busy
<1> QED BY <1>2, <1>3, <1>4, <1>5, <1>6

LEMMA SetupBypassStep == ASSUME IInv, NEW c \in Clients, SetupBypass(c) PROVE IInv'
<1> USE DEF listenVars, endVars
<1>1. Asked(c, "bypass") /\ OpenStream(c, "bypass") /\ Answer(c)
      /\ UNCHANGED <<listenVars, conn, phase, threadDone, dev, todo, proto, endVars>>
  BY DEF SetupBypass
<1>2. /\ TypeOK /\ Sound(c) /\ pc[c] = "waiting"
      /\ c \in dev /\ nextId[c] \in Ids /\ nextId[c] \in Nat
      /\ nextId[c] + 1 \in 1 .. (MaxStreams + 1)
  BY <1>1, Asking
<1>3. TypeOK' /\ Visits'
  <2>1. /\ devStream' \subseteq Streams
        /\ entry' \in [Streams -> {"none", "loading", "ready", "bypass"}]
        /\ nextId' \in [Clients -> 1 .. (MaxStreams + 1)]
        /\ UNCHANGED <<stopped, worker, status>>
    BY <1>1, <1>2, OpenTypes
  <2> QED BY <1>1, <1>2, <2>1, AnswerTypes DEF IInv, TypeOK, Visits
<1>4. \A d \in Clients \ {c} : Same(d)
  BY <1>1, <1>2, AnswerTypes, OpenTypes DEF Same, HandlerSame
<1>5. ASSUME NEW s \in Ids
      PROVE  /\ entry'[<<c, s>>] # "none" => c \in dev' /\ s < nextId'[c]
             /\ Busy(<<c, s>>)' => <<c, s>> \in devStream' /\ entry'[<<c, s>>] = "ready"
             /\ entry'[<<c, s>>] # "none" /\ c \notin closeFailed' => <<c, s>> \in devStream'
  <2>1. nextId'[c] = nextId[c] + 1 /\ UNCHANGED <<worker, status>>
    BY <1>1, <1>2, OpenTypes
  <2>2. /\ entry[<<c, s>>] # "none" => s < nextId[c]
        /\ Busy(<<c, s>>) => <<c, s>> \in devStream /\ entry[<<c, s>>] = "ready"
        /\ entry[<<c, s>>] # "none" /\ c \notin closeFailed => <<c, s>> \in devStream
    BY <1>2 DEF Sound, Mapped, Working, Kept, Over
  <2>3. s \in Nat
    BY DEF Ids
  <2>4. CASE s = nextId[c]
    <3>1. ~ Busy(<<c, s>>)
      BY <1>2, <2>2, <2>4
    <3>2. <<c, s>> \in devStream'
      BY <1>1, <1>2, <2>4, OpenTypes
    <3> QED BY <1>1, <1>2, <2>1, <2>4, <3>1, <3>2 DEF Busy
  <2>5. CASE s # nextId[c]
    <3>1. /\ entry'[<<c, s>>] = entry[<<c, s>>]
          /\ <<c, s>> \in devStream' <=> <<c, s>> \in devStream
      BY <1>1, <1>2, <2>5, OpenTypes
    <3> QED BY <1>1, <1>2, <2>1, <2>2, <2>3, <3>1 DEF Busy
  <2> QED BY <2>4, <2>5
<1>6. Sound(c)'
  BY <1>1, <1>2, <1>5, AnswerTypes, Answered
<1> QED BY <1>3, <1>4, <1>6, OneChanges

LEMMA SetupStreamStep ==
  ASSUME IInv, NEW c \in Clients, NEW p \in Protocols, SetupStream(c, p)  PROVE IInv'
<1> USE DEF listenVars, clientVars, endVars
<1>1. /\ Asked(c, "setup") /\ OpenStream(c, "loading")
      /\ proto' = [proto EXCEPT ![<<c, nextId[c]>>] = p]
      /\ pc' = [pc EXCEPT ![c] = "setup"]
      /\ UNCHANGED <<listenVars, clientVars, threadDone, dev, todo, endVars>>
  BY DEF SetupStream
<1>2. /\ TypeOK /\ Sound(c) /\ pc[c] = "waiting" /\ phase[c] = "made"
      /\ c \in dev /\ nextId[c] \in Ids /\ nextId[c] \in Nat \ {0}
      /\ nextId[c] + 1 \in 1 .. (MaxStreams + 1)
  BY <1>1, Asking
<1>3. TypeOK' /\ Visits'
  <2>1. /\ devStream' \subseteq Streams
        /\ entry' \in [Streams -> {"none", "loading", "ready", "bypass"}]
        /\ nextId' \in [Clients -> 1 .. (MaxStreams + 1)]
        /\ UNCHANGED <<stopped, worker, status>>
    BY <1>1, <1>2, OpenTypes
  <2>2. p \in {"udp", "tcp"}
    BY SessionAssumption
  <2>3. proto' \in [Streams -> {"udp", "tcp"}]
    BY <1>1, <1>2, <2>2 DEF TypeOK
  <2> QED BY <1>1, <1>2, <2>1, <2>3 DEF IInv, TypeOK, Visits
<1>4. \A d \in Clients \ {c} : Same(d)
  <2> SUFFICES ASSUME NEW d \in Clients \ {c} PROVE Same(d)
    OBVIOUS
  <2>1. nextId'[d] = nextId[d] /\ StreamsSame(d)
    BY <1>1, <1>2, OpenTypes
  <2>2. pc'[d] = pc[d]
    BY <1>1, <1>2 DEF TypeOK
  <2> QED BY <1>1, <2>1, <2>2 DEF Same, HandlerSame
<1>5. pc'[c] = "setup" /\ nextId'[c] = nextId[c] + 1 /\ call'[c].op = "setup"
  BY <1>1, <1>2, OpenTypes DEF TypeOK, Asked
<1>6. ASSUME NEW s \in Ids
      PROVE  /\ entry'[<<c, s>>] # "none" => s < nextId'[c]
             /\ Busy(<<c, s>>)' => <<c, s>> \in devStream' /\ entry'[<<c, s>>] = "ready"
             /\ entry'[<<c, s>>] # "none" /\ c \notin closeFailed' => <<c, s>> \in devStream'
  <2>1. nextId'[c] = nextId[c] + 1 /\ UNCHANGED <<worker, status>>
    BY <1>1, <1>2, OpenTypes
  <2>2. /\ entry[<<c, s>>] # "none" => s < nextId[c]
        /\ Busy(<<c, s>>) => <<c, s>> \in devStream /\ entry[<<c, s>>] = "ready"
        /\ entry[<<c, s>>] # "none" /\ c \notin closeFailed => <<c, s>> \in devStream
    BY <1>2 DEF Sound, Mapped, Working, Kept, Over
  <2>3. s \in Nat
    BY DEF Ids
  <2>4. CASE s = nextId[c]
    <3>1. ~ Busy(<<c, s>>)
      BY <1>2, <2>2, <2>4
    <3>2. <<c, s>> \in devStream'
      BY <1>1, <1>2, <2>4, OpenTypes
    <3> QED BY <1>1, <1>2, <2>1, <2>4, <3>1, <3>2 DEF Busy
  <2>5. CASE s # nextId[c]
    <3>1. /\ entry'[<<c, s>>] = entry[<<c, s>>]
          /\ <<c, s>> \in devStream' <=> <<c, s>> \in devStream
      BY <1>1, <1>2, <2>5, OpenTypes
    <3> QED BY <1>1, <1>2, <2>1, <2>2, <2>3, <3>1 DEF Busy
  <2> QED BY <2>4, <2>5
<1>7. Sound(c)'
  <2>1. Asks(c)' /\ HasDevice(c)'
    BY <1>1, <1>2, <1>5 DEF Asks, HasDevice
  <2>2. SettingUp(c)'
    <3>1. Loading(c)' = <<c, nextId[c]>>
      BY <1>2, <1>5 DEF Loading
    <3>2. entry'[<<c, nextId[c]>>] = "loading" /\ <<c, nextId[c]>> \in devStream'
      BY <1>1, <1>2, OpenTypes
    <3> QED BY <1>2, <1>5, <3>1, <3>2 DEF SettingUp
  <2>3. Mapped(c)' /\ Working(c)' /\ Joined(c)' /\ Kept(c)'
    BY <1>1, <1>2, <1>5, <1>6 DEF Mapped, Working, Joined, Kept, Over, Served
  <2> QED BY <2>1, <2>2, <2>3 DEF Sound
<1> QED BY <1>3, <1>4, <1>7, OneChanges

LEMMA SetupTcpStep == ASSUME IInv, NEW c \in Clients, SetupTcp(c) PROVE IInv'
<1> USE DEF listenVars, clientVars, streamVars, endVars
<1>1. /\ pc[c] = "setup" /\ pc' = [pc EXCEPT ![c] = "accepting"]
      /\ UNCHANGED <<listenVars, clientVars, threadDone, dev, nextId, todo, streamVars, endVars>>
  BY DEF SetupTcp
<1>2. TypeOK' /\ Visits'
  BY <1>1 DEF IInv, TypeOK, Visits
<1>3. \A d \in Clients \ {c} : Same(d)
  BY <1>1 DEF IInv, TypeOK, Same, HandlerSame, StreamsSame, Busy
<1>4. Sound(c)'
  <2>1. pc'[c] = "accepting" /\ Sound(c)
    BY <1>1 DEF IInv, TypeOK
  <2>2. Asks(c)' /\ HasDevice(c)' /\ SettingUp(c)'
    BY <1>1, <2>1 DEF Sound, Asks, HasDevice, SettingUp, Loading, Served
  <2>3. Mapped(c)' /\ Working(c)' /\ Joined(c)' /\ Kept(c)'
    BY <1>1, <2>1 DEF Sound, Mapped, Working, Joined, Kept, Over, Served, Busy
  <2> QED BY <2>2, <2>3 DEF Sound
<1> QED BY <1>2, <1>3, <1>4, OneChanges

(* The stream that is being set up is the last entry.                      *)
LEMMA LoadingIs ==
  ASSUME IInv, NEW c \in Clients, pc[c] \in {"setup", "accepting"}
  PROVE  \E s \in Ids : /\ Loading(c) = <<c, s>> /\ <<c, s>> \in Streams
                        /\ entry[<<c, s>>] = "loading" /\ <<c, s>> \in devStream
                        /\ phase[c] = "made" /\ c \in dev /\ s < nextId[c]
                        /\ ~ Busy(<<c, s>>)
<1>1. nextId[c] # 1 /\ entry[Loading(c)] = "loading" /\ Loading(c) \in devStream
  BY DEF IInv, Sound, SettingUp
<1>2. nextId[c] - 1 \in Ids /\ nextId[c] - 1 < nextId[c]
  <2>1. nextId[c] \in 1 .. (MaxStreams + 1) /\ MaxStreams \in Nat
    BY SessionAssumption DEF IInv, TypeOK
  <2> QED BY <1>1, <2>1 DEF Ids
<1>3. PICK s \in Ids : s = nextId[c] - 1
  BY <1>2
<1>4. Loading(c) = <<c, s>> /\ <<c, s>> \in Streams
  BY <1>3 DEF Loading, Streams
<1>5. phase[c] = "made" /\ c \in dev
  BY DEF IInv, Sound, Asks, HasDevice, Served
<1>6. ~ Busy(<<c, s>>)
  BY <1>1, <1>4 DEF IInv, Sound, Working
<1> QED BY <1>1, <1>2, <1>3, <1>4, <1>5, <1>6

LEMMA SetupFailsStep == ASSUME IInv, NEW c \in Clients, SetupFails(c) PROVE IInv'
<1> USE DEF listenVars, endVars
<1>1. PICK n \in Ids : /\ Loading(c) = <<c, n>> /\ <<c, n>> \in Streams
                      /\ phase[c] = "made" /\ c \in dev /\ ~ Busy(<<c, n>>)
  BY LoadingIs DEF SetupFails
<1>2. /\ pc[c] = "setup" /\ entry' = [entry EXCEPT ![<<c, n>>] = "none"] /\ Answer(c)
      /\ UNCHANGED <<listenVars, conn, phase, threadDone, dev, nextId, todo, proto,
                     devStream, stopped, worker, status, endVars>>
      /\ TypeOK /\ Sound(c)
  BY <1>1 DEF IInv, SetupFails
<1>3. TypeOK' /\ Visits'
  <2>1. entry' \in [Streams -> {"none", "loading", "ready", "bypass"}]
    BY <1>2 DEF TypeOK
  <2> QED BY <1>2, <2>1, AnswerTypes DEF IInv, TypeOK, Visits
<1>4. \A d \in Clients \ {c} : Same(d)
  <2> SUFFICES ASSUME NEW d \in Clients \ {c} PROVE Same(d)
    OBVIOUS
  <2>1. \A s \in Ids : entry'[<<d, s>>] = entry[<<d, s>>]
    BY <1>2 DEF TypeOK, Streams
  <2> QED BY <1>2, <2>1, AnswerTypes DEF Same, HandlerSame, StreamsSame, Busy
<1>5. ASSUME NEW s \in Ids
      PROVE  /\ entry'[<<c, s>>] # "none" => c \in dev' /\ s < nextId'[c]
             /\ Busy(<<c, s>>)' => <<c, s>> \in devStream' /\ entry'[<<c, s>>] = "ready"
             /\ entry'[<<c, s>>] # "none" /\ c \notin closeFailed' => <<c, s>> \in devStream'
  <2>1. IF s = n THEN entry'[<<c, s>>] = "none" /\ ~ Busy(<<c, s>>)
                 ELSE entry'[<<c, s>>] = entry[<<c, s>>]
    BY <1>1, <1>2 DEF TypeOK, Streams
  <2> QED BY <1>2, <2>1 DEF Sound, Mapped, Working, Kept, Over, Busy
<1>6. Sound(c)'
  BY <1>1, <1>2, <1>5, AnswerTypes, Answered
<1> QED BY <1>3, <1>4, <1>6, OneChanges

LEMMA StartThreadsStep ==
  ASSUME IInv, NEW c \in Clients, SetupUdp(c) \/ AcceptStream(c)  PROVE IInv'
<1> USE DEF listenVars, endVars
<1>1. pc[c] \in {"setup", "accepting"} /\ StartThreads(c) /\ TypeOK /\ Sound(c)
  BY DEF IInv, SetupUdp, AcceptStream
<1>2. PICK n \in Ids : /\ Loading(c) = <<c, n>> /\ <<c, n>> \in Streams
                      /\ <<c, n>> \in devStream
                      /\ phase[c] = "made" /\ c \in dev /\ n < nextId[c]
  BY <1>1, LoadingIs
<1>3. /\ entry' = [entry EXCEPT ![<<c, n>>] = "ready"] /\ Answer(c)
      /\ stopped' = stopped \ {<<c, n>>}
      /\ worker' = [worker EXCEPT ![<<c, n>>] = "running"]
      /\ status' = [status EXCEPT ![<<c, n>>] = "running"]
      /\ UNCHANGED <<listenVars, conn, phase, threadDone, dev, nextId, todo, proto,
                     devStream, endVars>>
  BY <1>1, <1>2 DEF StartThreads
<1>4. TypeOK' /\ Visits'
  <2>1. entry' \in [Streams -> {"none", "loading", "ready", "bypass"}]
    BY <1>1, <1>3 DEF TypeOK
  <2>2. worker' \in [Streams -> Threads] /\ status' \in [Streams -> Threads]
    BY <1>1, <1>3 DEF TypeOK, Threads
  <2>3. stopped' \subseteq Streams
    BY <1>1, <1>3 DEF TypeOK
  <2> QED BY <1>1, <1>3, <2>1, <2>2, <2>3, AnswerTypes DEF IInv, TypeOK, Visits
<1>5. \A d \in Clients \ {c} : Same(d)
  <2> SUFFICES ASSUME NEW d \in Clients \ {c} PROVE Same(d)
    OBVIOUS
  <2>1. \A s \in Ids : /\ entry'[<<d, s>>] = entry[<<d, s>>]
                       /\ worker'[<<d, s>>] = worker[<<d, s>>]
                       /\ status'[<<d, s>>] = status[<<d, s>>]
    BY <1>1, <1>3 DEF TypeOK, Streams
  <2> QED BY <1>1, <1>3, <2>1, AnswerTypes DEF Same, HandlerSame, StreamsSame, Busy
<1>6. ASSUME NEW s \in Ids
      PROVE  /\ entry'[<<c, s>>] # "none" => c \in dev' /\ s < nextId'[c]
             /\ Busy(<<c, s>>)' => <<c, s>> \in devStream' /\ entry'[<<c, s>>] = "ready"
             /\ entry'[<<c, s>>] # "none" /\ c \notin closeFailed' => <<c, s>> \in devStream'
  <2>1. CASE s = n
    <3>1. entry'[<<c, s>>] = "ready"
      BY <1>1, <1>2, <1>3, <2>1 DEF TypeOK
    <3> QED BY <1>2, <1>3, <2>1, <3>1
  <2>2. CASE s # n
    <3>1. /\ entry'[<<c, s>>] = entry[<<c, s>>]
          /\ worker'[<<c, s>>] = worker[<<c, s>>] /\ status'[<<c, s>>] = status[<<c, s>>]
      BY <1>1, <1>2, <1>3, <2>2 DEF TypeOK, Streams
    <3> QED BY <1>1, <1>3, <3>1 DEF Sound, Mapped, Working, Kept, Over, Busy
  <2> QED BY <2>1, <2>2
<1>7. Sound(c)'
  BY <1>1, <1>2, <1>3, <1>6, AnswerTypes, Answered
<1> QED BY <1>4, <1>5, <1>7, OneChanges

-----------------------------------------------------------------------------
(* Closing streams: one, all before the device goes, all in the destructor. *)

LEMMA CloseStarts ==
  ASSUME IInv, NEW c \in Clients, CloseStream(c) \/ Unmake(c) \/ Leave(c)  PROVE IInv'
<1> USE DEF listenVars, clientVars, streamVars, endVars
<1>1. \E ids \in SUBSET Ids, at \in {"closing", "unmaking", "leaving"} :
        /\ CloseStreams(c, ids, at) /\ threadDone' \in [Clients -> BOOLEAN]
        /\ pc[c] \in {"waiting", "returned"}
        /\ at = "closing" => call[c].op = "close" /\ ids = {call[c].id}
        /\ at = "unmaking" => call[c].op = "unmake"
        /\ at # "closing" => ids = Entries(c)
  <2>1. /\ TypeOK /\ Entries(c) \in SUBSET Ids
        /\ pc[c] = "waiting" /\ call[c].op = "close" => {call[c].id} \in SUBSET Ids
    BY DEF IInv, Entries, Sound, Asks
  <2>2. CASE CloseStream(c)
    <3>1. /\ CloseStreams(c, {call[c].id}, "closing") /\ threadDone' \in [Clients -> BOOLEAN]
          /\ pc[c] = "waiting" /\ call[c].op = "close"
      BY <2>1, <2>2 DEF TypeOK, CloseStream, Asked
    <3> QED BY <2>1, <3>1
  <2>3. CASE Unmake(c)
    <3>1. /\ CloseStreams(c, Entries(c), "unmaking") /\ threadDone' \in [Clients -> BOOLEAN]
          /\ pc[c] = "waiting" /\ call[c].op = "unmake"
      BY <2>1, <2>3 DEF TypeOK, Unmake, Asked
    <3> QED BY <2>1, <3>1
  <2>4. CASE Leave(c)
    <3>1. /\ CloseStreams(c, Entries(c), "leaving") /\ threadDone' \in [Clients -> BOOLEAN]
          /\ pc[c] \in {"waiting", "returned"}
      BY <2>1, <2>4 DEF TypeOK, Leave, Asked, LostClient
    <3> QED BY <2>1, <3>1
  <2> QED BY <2>2, <2>3, <2>4
<1>2. PICK ids \in SUBSET Ids, at \in {"closing", "unmaking", "leaving"} :
        /\ CloseStreams(c, ids, at) /\ threadDone' \in [Clients -> BOOLEAN]
        /\ pc[c] \in {"waiting", "returned"}
        /\ at = "closing" => call[c].op = "close" /\ ids = {call[c].id}
        /\ at = "unmaking" => call[c].op = "unmake"
        /\ at # "closing" => ids = Entries(c)
  BY <1>1
<1>3. /\ todo' = [todo EXCEPT ![c] = ids] /\ pc' = [pc EXCEPT ![c] = at]
      /\ UNCHANGED <<listenVars, clientVars, dev, nextId, streamVars, endVars>>
      /\ TypeOK /\ Sound(c)
  BY <1>2 DEF IInv, CloseStreams
<1>4. TypeOK' /\ Visits'
  <2>1. todo' \in [Clients -> SUBSET Ids]
    BY <1>3 DEF TypeOK
  <2> QED BY <1>2, <1>3, <2>1 DEF IInv, TypeOK, Visits
<1>5. \A d \in Clients \ {c} : Same(d)
  BY <1>3 DEF TypeOK, Same, HandlerSame, StreamsSame, Busy
<1>6. pc'[c] = at /\ todo'[c] = ids
  BY <1>3 DEF TypeOK
<1>7. Sound(c)'
  <2>1. Asks(c)' /\ HasDevice(c)' /\ SettingUp(c)'
    BY <1>2, <1>3, <1>6 DEF Sound, Asks, HasDevice, SettingUp, Served
  <2>2. Mapped(c)' /\ Working(c)'
    BY <1>2, <1>3, <1>6 DEF Sound, Mapped, Working, Served, Busy
  <2>3. Joined(c)'
    <3>1. ASSUME NEW s \in Ids, Over(c, s)' PROVE ~ Busy(<<c, s>>)
      <4>1. s \notin ids /\ (at = "closing" => s = call[c].id)
        BY <1>3, <1>6, <3>1 DEF Over
      <4>2. at # "closing" /\ s \notin Entries(c)
        BY <1>2, <4>1
      <4> QED BY <1>3, <4>2 DEF Entries, Sound, Working
    <3> QED BY <1>3, <3>1 DEF Joined, Busy
  <2>4. Kept(c)'
    BY <1>2, <1>3 DEF Sound, Kept, Over
  <2> QED BY <2>1, <2>2, <2>3, <2>4 DEF Sound
<1> QED BY <1>4, <1>5, <1>7, OneChanges

(* stopThreads has joined the threads of a stream.                         *)
LEMMA JoinedThreads ==
  ASSUME TypeOK, NEW x \in Streams, JoinThreads(x)
  PROVE  /\ worker' \in [Streams -> Threads] /\ status' \in [Streams -> Threads]
         /\ \A y \in Streams : Busy(y)' => Busy(y)
<1>1. worker' \in [Streams -> Threads] /\ status' \in [Streams -> Threads]
  BY DEF TypeOK, JoinThreads, JoinedIfAny, Threads
<1>2. ASSUME NEW y \in Streams
      PROVE  /\ worker'[y] = worker[y] \/ worker'[y] = "joined"
             /\ status'[y] = status[y] \/ status'[y] = "joined"
  BY DEF TypeOK, JoinThreads, JoinedIfAny
<1> QED BY <1>1, <1>2 DEF Busy

LEMMA CloseNextStep == ASSUME IInv, NEW c \in Clients, CloseNext(c) PROVE IInv'
<1> USE DEF listenVars, clientVars, endVars
<1>1. TypeOK /\ Sound(c) /\ Closing(c)
  BY DEF IInv, CloseNext, StopAndClose
<1>2. PICK n \in todo[c] : n \in Ids /\ Current(c) = <<c, n>> /\ <<c, n>> \in Streams
  BY <1>1, CurrentIs DEF Closing
<1>3. /\ JoinThreads(<<c, n>>) /\ ~ Busy(<<c, n>>)
      /\ devStream' = devStream \ {<<c, n>>}
      /\ todo' = [todo EXCEPT ![c] = todo[c] \ {n}]
      /\ UNCHANGED <<listenVars, clientVars, pc, threadDone, dev, nextId, entry,
                     proto, stopped, endVars>>
  <2>1. ~ Busy(<<c, n>>)
    BY <1>2 DEF CloseNext, ThreadsOver, Busy
  <2> QED BY <1>2, <2>1 DEF CloseNext, StopAndClose
<1>4. /\ worker' \in [Streams -> Threads] /\ status' \in [Streams -> Threads]
      /\ \A y \in Streams : Busy(y)' => Busy(y)
  BY <1>1, <1>2, <1>3, JoinedThreads
<1>5. TypeOK' /\ Visits'
  <2>1. todo' \in [Clients -> SUBSET Ids]
    BY <1>1, <1>3 DEF TypeOK
  <2>2. devStream' \subseteq Streams
    BY <1>1, <1>3 DEF TypeOK
  <2> QED BY <1>1, <1>3, <1>4, <2>1, <2>2 DEF IInv, TypeOK, Visits
<1>6. \A d \in Clients \ {c} : Same(d)
  <2> SUFFICES ASSUME NEW d \in Clients \ {c} PROVE Same(d)
    OBVIOUS
  <2>1. \A s \in Ids : /\ <<d, s>> \in devStream' <=> <<d, s>> \in devStream
                       /\ Busy(<<d, s>>)' => Busy(<<d, s>>)
    BY <1>3, <1>4 DEF Streams
  <2>2. todo'[d] = todo[d]
    BY <1>1, <1>3 DEF TypeOK
  <2> QED BY <1>3, <2>1, <2>2 DEF Same, HandlerSame, StreamsSame
<1>7. todo'[c] = todo[c] \ {n} /\ pc[c] \in {"closing", "unmaking", "leaving"}
  BY <1>1, <1>3 DEF TypeOK, Closing
<1>8. /\ ~ Busy(<<c, n>>)' /\ Over(c, n)'
      /\ \A s \in Ids \ {n} : /\ Over(c, s)' <=> Over(c, s)
                             /\ <<c, s>> \in devStream' <=> <<c, s>> \in devStream
      /\ \A s \in Ids : Busy(<<c, s>>)' => Busy(<<c, s>>)
  <2>1. pc[c] = "closing" => n = call[c].id
    BY <1>1, <1>2 DEF Sound, Asks
  <2>2. Over(c, n)' /\ \A s \in Ids \ {n} : Over(c, s)' <=> Over(c, s)
    BY <1>3, <1>7, <2>1 DEF Over
  <2> QED BY <1>2, <1>3, <1>4, <2>2 DEF Streams
<1>9. Sound(c)'
  <2>1. Asks(c)' /\ HasDevice(c)' /\ SettingUp(c)'
    BY <1>1, <1>3, <1>7 DEF Sound, Asks, HasDevice, SettingUp, Served
  <2>2. Mapped(c)'
    BY <1>1, <1>3 DEF Sound, Mapped, Served
  <2>3. Working(c)'
    <3> SUFFICES ASSUME NEW s \in Ids, Busy(<<c, s>>)'
                 PROVE  <<c, s>> \in devStream' /\ entry'[<<c, s>>] = "ready"
      BY DEF Working
    <3>1. s # n /\ Busy(<<c, s>>)
      BY <1>8
    <3>2. <<c, s>> \in devStream /\ entry[<<c, s>>] = "ready"
      BY <1>1, <3>1 DEF Sound, Working
    <3> QED BY <1>3, <1>8, <3>1, <3>2
  <2>4. Joined(c)'
    <3> SUFFICES ASSUME NEW s \in Ids, Over(c, s)' PROVE ~ Busy(<<c, s>>)'
      BY DEF Joined
    <3>1. CASE s = n
      BY <1>8, <3>1
    <3>2. CASE s # n
      <4>1. Over(c, s)
        BY <1>3, <1>7, <3>2 DEF Over
      <4>2. ~ Busy(<<c, s>>)
        BY <1>1, <4>1 DEF Sound, Joined
      <4> QED BY <1>8, <4>2
    <3> QED BY <3>1, <3>2
  <2>5. Kept(c)'
    <3> SUFFICES ASSUME NEW s \in Ids, entry'[<<c, s>>] # "none", c \notin closeFailed'
                 PROVE  <<c, s>> \in devStream' \/ Over(c, s)'
      BY DEF Kept
    <3>1. CASE s = n
      BY <1>8, <3>1
    <3>2. CASE s # n
      <4>1. <<c, s>> \in devStream \/ Over(c, s)
        BY <1>1, <1>3 DEF Sound, Kept
      <4>2. Over(c, s) => Over(c, s)'
        BY <1>3, <1>7, <3>2 DEF Over
      <4> QED BY <1>8, <3>2, <4>1, <4>2
    <3> QED BY <3>1, <3>2
  <2> QED BY <2>1, <2>2, <2>3, <2>4, <2>5 DEF Sound
<1> QED BY <1>5, <1>6, <1>9, OneChanges

LEMMA CloseThrowsStep == ASSUME IInv, NEW c \in Clients, CloseThrows(c) PROVE IInv'
<1> USE DEF listenVars
<1>1. TypeOK /\ Sound(c) /\ Closing(c)
  BY DEF IInv, CloseThrows, ThreadsOver
<1>2. PICK n \in todo[c] : n \in Ids /\ Current(c) = <<c, n>> /\ <<c, n>> \in Streams
  BY <1>1, CurrentIs DEF Closing
<1>3. /\ JoinThreads(<<c, n>>) /\ Answer(c)
      /\ todo' = [todo EXCEPT ![c] = {}]
      /\ conn' \in {conn, [conn EXCEPT ![c] = "gone"]}
      /\ closeFailed' = closeFailed \cup {c}
      /\ UNCHANGED <<listenVars, phase, threadDone, dev, nextId, entry, proto,
                     devStream, stopped, crashed>>
  BY <1>2 DEF CloseThrows
<1>4. /\ worker' \in [Streams -> Threads] /\ status' \in [Streams -> Threads]
      /\ \A y \in Streams : Busy(y)' => Busy(y)
  BY <1>1, <1>2, <1>3, JoinedThreads
<1>5. TypeOK' /\ Visits'
  <2>1. todo' \in [Clients -> SUBSET Ids]
    BY <1>1, <1>3 DEF TypeOK
  <2>2. conn' \in [Clients -> {"none", "open", "gone"}] /\ closeFailed' \subseteq Clients
    BY <1>1, <1>3 DEF TypeOK
  <2> QED BY <1>1, <1>3, <1>4, <2>1, <2>2, AnswerTypes DEF IInv, TypeOK, Visits
<1>6. \A d \in Clients \ {c} : Same(d)
  <2> SUFFICES ASSUME NEW d \in Clients \ {c} PROVE Same(d)
    OBVIOUS
  <2>1. \A s \in Ids : Busy(<<d, s>>)' => Busy(<<d, s>>)
    BY <1>4 DEF Streams
  <2>2. todo'[d] = todo[d] /\ call'[d] = call[d] /\ pc'[d] = pc[d]
    BY <1>1, <1>3, AnswerTypes DEF TypeOK
  <2> QED BY <1>3, <2>1, <2>2 DEF Same, HandlerSame, StreamsSame
<1>7. Sound(c)'
  <2>1. call'[c] = NoCall /\ pc'[c] = "returned" /\ c \in closeFailed'
    BY <1>1, <1>3, AnswerTypes
  <2>2. phase'[c] = "made" => c \in dev'
    BY <1>1, <1>3 DEF Sound, HasDevice, Served, Closing
  <2>3. ASSUME NEW s \in Ids
        PROVE  /\ entry'[<<c, s>>] # "none" => c \in dev' /\ s < nextId'[c]
               /\ Busy(<<c, s>>)' => <<c, s>> \in devStream' /\ entry'[<<c, s>>] = "ready"
    <3>1. Busy(<<c, s>>)' => Busy(<<c, s>>)
      BY <1>4 DEF Streams
    <3> QED BY <1>1, <1>3, <3>1 DEF Sound, Mapped, Working
  <2> QED BY <2>1, <2>2, <2>3, Answered
<1> QED BY <1>5, <1>6, <1>7, OneChanges

(* The request ends, with or without an exception, and its entries go.     *)
LEMMA EraseAndAnswer ==
  ASSUME IInv, NEW c \in Clients, CloseDone(c) \/ UnmakeDone(c) \/ UnmakeThrows(c)
  PROVE  IInv'
<1> USE DEF listenVars, endVars
<1>1. TypeOK /\ Sound(c)
  BY DEF IInv
<1>2. ASSUME NEW ids \in SUBSET Ids, EraseEntries(c, ids), Answer(c), todo[c] = {},
             \/ pc[c] = "closing" /\ ids = {call[c].id}
             \/ pc[c] = "unmaking" /\ ids = Ids,
             conn' \in {conn, [conn EXCEPT ![c] = "gone"]},
             \/ phase' = phase /\ dev' = dev
             \/ phase' = [phase EXCEPT ![c] = "unmade"] /\ dev' = dev \ {c} /\ ids = Ids,
             UNCHANGED <<listenVars, threadDone, nextId, todo, proto, devStream, stopped,
                         worker, status, endVars>>
      PROVE  IInv'
  <2>1. Answer(c) /\ call'[c] = NoCall /\ pc'[c] = "returned"
    BY <1>1, <1>2, AnswerTypes
  <2>2. \A d \in Clients, s \in Ids :
          entry'[<<d, s>>] = IF d = c /\ s \in ids THEN "none" ELSE entry[<<d, s>>]
    BY <1>2 DEF EraseEntries, Streams
  <2>3. TypeOK' /\ Visits'
    <3>1. entry' \in [Streams -> {"none", "loading", "ready", "bypass"}]
      BY <1>1, <1>2 DEF EraseEntries, TypeOK
    <3>2. phase' \in [Clients -> {"new", "made", "unmade"}] /\ dev' \subseteq Clients
      BY <1>1, <1>2 DEF TypeOK
    <3>3. conn' \in [Clients -> {"none", "open", "gone"}]
      BY <1>1, <1>2 DEF TypeOK
    <3> QED BY <1>1, <1>2, <3>1, <3>2, <3>3, AnswerTypes DEF IInv, TypeOK, Visits
  <2>4. ASSUME NEW d \in Clients \ {c} PROVE Same(d)
    <3>1. \A s \in Ids : entry'[<<d, s>>] = entry[<<d, s>>]
      BY <2>2
    <3>2. phase'[d] = phase[d] /\ (d \in dev' <=> d \in dev)
      BY <1>1, <1>2 DEF TypeOK
    <3>3. call'[d] = call[d] /\ pc'[d] = pc[d]
      BY <1>1, <1>2, AnswerTypes
    <3> QED BY <1>2, <3>1, <3>2, <3>3 DEF Same, HandlerSame, StreamsSame, Busy
  <2>5. phase'[c] = "made" => c \in dev' /\ phase' = phase /\ dev' = dev
    BY <1>1, <1>2 DEF Sound, HasDevice, Served, TypeOK
  <2>6. ASSUME NEW s \in Ids
        PROVE  /\ entry'[<<c, s>>] # "none" => c \in dev' /\ s < nextId'[c]
               /\ Busy(<<c, s>>)' => <<c, s>> \in devStream' /\ entry'[<<c, s>>] = "ready"
               /\ entry'[<<c, s>>] # "none" /\ c \notin closeFailed' => <<c, s>> \in devStream'
    <3>1. IF s \in ids THEN entry'[<<c, s>>] = "none" ELSE entry'[<<c, s>>] = entry[<<c, s>>]
      BY <2>2
    <3>2. s \in ids => ~ Busy(<<c, s>>)
      BY <1>1, <1>2 DEF Sound, Joined, Over
    <3>3. s \notin ids => dev' = dev /\ ~ Over(c, s)
      BY <1>2 DEF Over
    <3> QED BY <1>1, <1>2, <3>1, <3>2, <3>3 DEF Sound, Mapped, Working, Kept, Busy
  <2>7. Sound(c)'
    BY <2>1, <2>5, <2>6, Answered
  <2> QED BY <2>3, <2>4, <2>7, OneChanges
<1>3. CASE CloseDone(c)
  <2>1. {call[c].id} \in SUBSET Ids
    BY <1>1, <1>3 DEF Sound, Asks, CloseDone
  <2> QED BY <1>2, <1>3, <2>1 DEF CloseDone
<1>4. CASE UnmakeDone(c) \/ UnmakeThrows(c)
  BY <1>2, <1>4 DEF UnmakeDone, Unmade, UnmakeThrows
<1> QED BY <1>3, <1>4

LEMMA DestroyStep == ASSUME IInv, NEW c \in Clients, Destroy(c) PROVE IInv'
<1> USE DEF listenVars, clientVars, endVars
<1>1. /\ pc[c] = "leaving" /\ todo[c] = {} /\ EraseEntries(c, Ids)
      /\ dev' = dev \ {c} /\ pc' = [pc EXCEPT ![c] = "ended"]
      /\ UNCHANGED <<listenVars, clientVars, threadDone, nextId, todo, proto,
                     devStream, stopped, worker, status, endVars>>
      /\ TypeOK /\ Sound(c)
  BY DEF IInv, Destroy
<1>2. TypeOK' /\ Visits'
  <2>1. entry' \in [Streams -> {"none", "loading", "ready", "bypass"}]
    BY <1>1 DEF EraseEntries, TypeOK
  <2> QED BY <1>1, <2>1 DEF IInv, TypeOK, Visits
<1>3. ASSUME NEW d \in Clients \ {c} PROVE Same(d)
  <2>1. \A s \in Ids : entry'[<<d, s>>] = entry[<<d, s>>]
    BY <1>1 DEF EraseEntries, Streams
  <2> QED BY <1>1, <2>1 DEF TypeOK, Same, HandlerSame, StreamsSame, Busy
<1>4. Sound(c)'
  <2>1. pc'[c] = "ended"
    BY <1>1 DEF TypeOK
  <2>2. \A s \in Ids : entry'[<<c, s>>] = "none" /\ ~ Busy(<<c, s>>)'
    BY <1>1 DEF EraseEntries, Streams, Sound, Joined, Over, Busy
  <2>3. Asks(c)' /\ HasDevice(c)' /\ SettingUp(c)'
    BY <1>1, <2>1 DEF Sound, Asks, HasDevice, SettingUp, Served
  <2>4. Mapped(c)' /\ Working(c)' /\ Joined(c)' /\ Kept(c)'
    BY <2>2 DEF Mapped, Working, Joined, Kept
  <2> QED BY <2>3, <2>4 DEF Sound
<1> QED BY <1>2, <1>3, <1>4, OneChanges

-----------------------------------------------------------------------------
LEMMA StepIInv == ASSUME IInv, [Next]_vars PROVE IInv'
<1>1. CASE UNCHANGED vars
  <2>1. TypeOK' /\ Visits'
    BY <1>1 DEF IInv, TypeOK, Visits, vars, listenVars, clientVars, handlerVars, streamVars,
                endVars
  <2>2. \A d \in Clients : Same(d)
    BY <1>1 DEF Same, HandlerSame, StreamsSame, Busy, vars, listenVars, clientVars, handlerVars,
                streamVars, endVars
  <2> QED BY <2>1, <2>2, AllSame
<1>2. CASE Listener \/ Interrupt
  BY <1>2, ListenerQuiet, JoinStep, AcceptClientStep DEF Listener
<1>3. ASSUME NEW c \in Clients, Client(c) PROVE IInv'
  BY <1>3, ClientQuiet, SendStep DEF Client
<1>4. ASSUME NEW c \in Clients, Handler(c) PROVE IInv'
  <2>1. CASE AcceptStream(c) \/ AcceptStreamFails(c)
    BY <2>1, StartThreadsStep, PlainAnswer
  <2>2. CASE HandlerStep(c)
    BY <2>2, PlainAnswer, SetupStreamStep, SetupBypassStep, SetupFailsStep, SetupTcpStep,
       StartThreadsStep, CloseStarts, NextTurnStep, SignalStopQuiet, CloseNextStep,
       CloseThrowsStep, CrashStep, EraseAndAnswer, DestroyStep
       DEF HandlerStep, DestructorThrows, StopDeleted
  <2> QED BY <1>4, <2>1, <2>2 DEF Handler
<1>5. ASSUME NEW x \in Streams, Worker(x) PROVE IInv'
  BY <1>5, WorkerQuiet
<1> QED BY <1>1, <1>2, <1>3, <1>4, <1>5 DEF Next

\* The invariant of the theorems below holds, whatever the clients, the device and
\* the operating system do.
THEOREM SpecIInv == Spec => []IInv
<1> QED BY InitIInv, StepIInv, PTL DEF Spec

\* Every variable keeps its type: the listener's loop stays within the clients it has,
\* and ids of streams within their bound.
THEOREM SpecTypeOK == Spec => []TypeOK
<1>1. IInv => TypeOK
  BY DEF IInv
<1> QED BY <1>1, SpecIInv, PTL

\* A worker thread never outlives the stream, the entry and the device it works on
\* (~ServerStreamData, stopThreads before closeStream in ClientHandler.cpp).
THEOREM SpecThreadsHaveStreams == Spec => []ThreadsHaveStreams
<1>1. ASSUME IInv, NEW x \in Streams, Busy(x)
      PROVE  /\ x \in devStream /\ entry[x] = "ready" /\ x[1] \in dev
             /\ pc[x[1]] \notin {"none", "ended", "joined"}
  <2>1. PICK c \in Clients, s \in Ids : x = <<c, s>>
    BY DEF Streams
  <2>2. x \in devStream /\ entry[x] = "ready"
    BY <1>1, <2>1 DEF IInv, Sound, Working
  <2> QED BY <1>1, <2>1, <2>2 DEF IInv, Sound, Mapped, Served
<1>2. IInv => ThreadsHaveStreams
  BY <1>1 DEF ThreadsHaveStreams
<1> QED BY <1>2, SpecIInv, PTL

\* UNMAKE and the destructor find a device for every entry they close.
THEOREM SpecEntriesHaveDevice == Spec => []EntriesHaveDevice
<1>1. ASSUME IInv, NEW x \in Streams, entry[x] # "none" PROVE x[1] \in dev
  <2>1. PICK c \in Clients, s \in Ids : x = <<c, s>>
    BY DEF Streams
  <2> QED BY <1>1, <2>1 DEF IInv, Sound, Mapped
<1>2. IInv => EntriesHaveDevice
  BY <1>1 DEF EntriesHaveDevice
<1> QED BY <1>2, SpecIInv, PTL

\* No stream is closed at the device twice, unless the device threw from closeStream.
THEOREM SpecClosedOnce == Spec => []ClosedOnce
<1>1. ASSUME IInv, NEW x \in Streams, entry[x] # "none", x[1] \notin closeFailed
      PROVE  \/ x \in devStream
             \/ pc[x[1]] \in {"closing", "unmaking", "leaving"} /\ x[2] \notin todo[x[1]]
  <2>1. PICK c \in Clients, s \in Ids : x = <<c, s>>
    BY DEF Streams
  <2> QED BY <1>1, <2>1 DEF IInv, Sound, Kept, Over
<1>2. IInv => ClosedOnce
  BY <1>1 DEF ClosedOnce
<1> QED BY <1>2, SpecIInv, PTL
=============================================================================
