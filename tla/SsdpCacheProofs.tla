---------------------------- MODULE SsdpCacheProofs ----------------------------
(***************************************************************************)
(* What the caches of SsdpCache hold, for any number of clients and        *)
(* servers and all time-outs; what getServerURLs lists from them; and what *)
(* becomes of the arguments of a device, for all arguments.                *)
(***************************************************************************)
EXTENDS SsdpCache, TLAPS, WellFoundedInduction

USE DEF Uuids

-----------------------------------------------------------------------------
(* The inductive invariant.                                                *)

Live(u) == u = uuid /\ server # "off"

\* The shape of the cache, which TypeOK does not give.
Shape == DOMAIN cache = Clients /\ \A c \in Clients : DOMAIN cache[c] = IpVers

\* A server that runs has a number, and no search is owed one that has not started.
Numbered == (server # "off" => uuid # 0) /\ \A c \in Clients : owed[c] <= uuid

\* Of a server that has gone there is only what was sent in the present tick, and no
\* leave of one that runs.
NetFresh ==
  \A m \in net :
    /\ m.kind # "search" => m.uuid \in 1 .. uuid
    /\ m.kind = "alive" => Live(m.uuid) \/ wentAt[m.uuid] = now
    /\ m.kind = "byebye" => ~ Live(m.uuid)

\* An entry that is over was taken out in the tick before; one of a server that has gone
\* was refreshed before it went.
EntriesFresh ==
  \A c \in Clients, v \in IpVers : handling[c] =>
    \A u \in DOMAIN cache[c][v] :
      /\ now <= cache[c][v][u]
      /\ Live(u) \/ cache[c][v][u] <= wentAt[u] + Duration

\* The answer to a search is on its way, or in the cache for long enough.
Reached(c, v) ==
  \/ Search(c, v) \in net \/ Alive(c, v, uuid) \in net
  \/ uuid \in DOMAIN cache[c][v] /\ cache[c][v][uuid] >= lastSearch[c] + Duration

Reaches ==
  \A c \in Clients : server = "up" /\ owed[c] = uuid =>
    /\ handling[c]
    /\ now < lastSearch[c] + Duration => \A v \in IpVers : Reached(c, v)

IInv == TypeOK /\ Shape /\ Numbered /\ NetFresh /\ EntriesFresh /\ Reaches
-----------------------------------------------------------------------------
(* What the periodic tests and the messages are.                           *)

\* Nothing was sent later than now: the periodic messages are never due (lines 311, 317).
LEMMA NeverTriggered ==
  ASSUME TypeOK
  PROVE  /\ \A v \in IpVers : ~ Triggered(lastNotify[v])
         /\ \A c \in Clients : ~ Triggered(lastSearch[c])
BY SsdpAssumption DEF TypeOK, Triggered

LEMMA Messages ==
  /\ \A c, v : Search(c, v).kind = "search" /\ Search(c, v).client = c
  /\ \A c, v, u : /\ Alive(c, v, u).kind = "alive" /\ Alive(c, v, u).client = c
                  /\ Alive(c, v, u).ver = v /\ Alive(c, v, u).uuid = u
  /\ \A c, v, u : /\ Byebye(c, v, u).kind = "byebye" /\ Byebye(c, v, u).client = c
                  /\ Byebye(c, v, u).ver = v /\ Byebye(c, v, u).uuid = u
  /\ \A c \in Clients, v \in IpVers : Search(c, v) \in Datagrams
  /\ \A c \in Clients, v \in IpVers, u \in 0 .. MaxServers :
       Alive(c, v, u) \in Datagrams /\ Byebye(c, v, u) \in Datagrams
BY SsdpAssumption DEF Search, Alive, Byebye, Datagrams

LEMMA InitIInv == Init => IInv
<1> SUFFICES ASSUME Init PROVE IInv
  OBVIOUS
<1>1. TypeOK
  BY SsdpAssumption DEF Init, TypeOK, NoEntries
<1>2. Shape
  BY DEF Init, Shape, NoEntries
<1>3. EntriesFresh
  BY DEF Init, EntriesFresh, NoEntries
<1> QED BY <1>1, <1>2, <1>3 DEF Init, IInv, Numbered, NetFresh, Reaches

-----------------------------------------------------------------------------
(* The server's steps.                                                     *)

\* A step that leaves the caches, the clock and the clients' variables alone, and adds
\* to the net only what belongs there.
LEMMA BootStep == ASSUME IInv, Boot PROVE IInv'
<1> USE SsdpAssumption
<1> DEFINE sent == UNION {NotifyAlive(v, uuid + 1) : v \in IpVers}
<1>1. /\ server = "off" /\ uuid < MaxServers /\ uuid' = uuid + 1 /\ server' = "up"
      /\ lastNotify' = [v \in IpVers |-> now] /\ net' = net \cup sent
      /\ UNCHANGED << now, wentAt, searching, lastSearch, handling, cache, owed, faults >>
      /\ uuid \in Nat
  BY DEF Boot, callVars, IInv, TypeOK
<1>2. \A m \in sent : m \in Datagrams /\ m.kind = "alive" /\ m.uuid = uuid + 1
  BY <1>1, Messages DEF NotifyAlive
<1> HIDE DEF sent
<1>3. TypeOK'
  <2>1. net' \subseteq Datagrams
    BY <1>1, <1>2 DEF IInv, TypeOK
  <2>2. uuid' \in 0 .. MaxServers /\ 1 .. uuid \subseteq 1 .. uuid'
    BY <1>1
  <2>3. \A c \in Clients, v \in IpVers : DOMAIN cache'[c][v] \subseteq 1 .. uuid'
    BY <1>1, <2>2 DEF IInv, TypeOK
  <2>4. lastNotify' \in [IpVers -> 0 .. now]
    BY <1>1 DEF IInv, TypeOK
  <2> QED BY <1>1, <2>1, <2>2, <2>3, <2>4 DEF IInv, TypeOK
<1>4. Shape' /\ Numbered'
  BY <1>1 DEF IInv, Shape, Numbered, TypeOK
<1>5. NetFresh'
  BY <1>1, <1>2 DEF IInv, TypeOK, NetFresh, Live
<1>6. EntriesFresh'
  BY <1>1 DEF IInv, TypeOK, EntriesFresh, Live
<1>7. Reaches'
  BY <1>1 DEF IInv, TypeOK, Numbered, Reaches
<1> QED BY <1>3, <1>4, <1>5, <1>6, <1>7 DEF IInv

LEMMA ServerTurnStep == ASSUME IInv, ServerTurn PROVE IInv'
<1> USE SsdpAssumption
<1>1. PICK got \in SUBSET {m \in net : m.kind = "search"}, receiver \in Clients :
        LET asked == {m.ver : m \in got}
            due == {v \in IpVers \ asked : Triggered(lastNotify[v])}
        IN /\ OneEach(got)
           /\ net' = (net \ got) \cup UNION {Answers(v, uuid, receiver) : v \in asked}
                                \cup UNION {NotifyAlive(v, uuid) : v \in due}
           /\ lastNotify' = [v \in IpVers |-> IF v \in asked \cup due THEN now ELSE lastNotify[v]]
  BY DEF ServerTurn
<1> DEFINE asked == {m.ver : m \in got}
           sent == UNION {Answers(v, uuid, receiver) : v \in asked}
<1>2. {v \in IpVers \ asked : Triggered(lastNotify[v])} = {}
  BY NeverTriggered DEF IInv
<1>3. /\ server \in {"up", "done"}
      /\ UNCHANGED << now, uuid, server, wentAt, searching, lastSearch, handling, cache, owed, faults >>
      /\ net' = (net \ got) \cup sent
      /\ lastNotify' = [v \in IpVers |-> IF v \in asked THEN now ELSE lastNotify[v]]
      /\ uuid \in 1 .. uuid /\ uuid \in 0 .. MaxServers
  <2>1. uuid \in 1 .. uuid /\ uuid \in 0 .. MaxServers
    BY DEF ServerTurn, IInv, TypeOK, Numbered
  <2>2. /\ server \in {"up", "done"}
        /\ UNCHANGED << now, uuid, server, wentAt, searching, lastSearch, handling, cache, owed, faults >>
    BY DEF ServerTurn, callVars
  <2>3. lastNotify' = [v \in IpVers |-> IF v \in asked THEN now ELSE lastNotify[v]]
    BY <1>1, <1>2
  <2>4. net' = (net \ got) \cup sent
    BY <1>1, <1>2
  <2> QED BY <2>1, <2>2, <2>3, <2>4
<1>4. asked \subseteq IpVers
  BY DEF IInv, TypeOK, Datagrams
<1>5. \A m \in sent : m \in Datagrams /\ m.kind = "alive" /\ m.uuid = uuid
  <2> SUFFICES ASSUME NEW v \in asked, NEW m \in Answers(v, uuid, receiver)
               PROVE  m \in Datagrams /\ m.kind = "alive" /\ m.uuid = uuid
    OBVIOUS
  <2>1. PICK c \in Clients : m = Alive(c, v, uuid)
    BY DEF Answers, Response, NotifyAlive
  <2>2. v \in IpVers
    BY <1>4
  <2> HIDE DEF asked
  <2> QED BY <1>3, <2>1, <2>2, Messages
<1>6. \A v \in asked, c \in Clients : handling[c] => Alive(c, v, uuid) \in sent
  BY DEF Answers, Response, NotifyAlive
<1>7. \A c \in Clients, v \in IpVers : Search(c, v) \in got => v \in asked
  <2>1. \A c \in Clients, v \in IpVers : Search(c, v).ver = v
    BY DEF Search
  <2> QED BY <2>1
<1> HIDE DEF asked, sent
<1>8. TypeOK'
  <2>1. net' \subseteq Datagrams
    BY <1>3, <1>5 DEF IInv, TypeOK
  <2>2. lastNotify' \in [IpVers -> 0 .. now]
    <3>1. now \in 0 .. now /\ lastNotify \in [IpVers -> 0 .. now]
      BY DEF IInv, TypeOK
    <3> QED BY <1>3, <3>1
  <2>3. \A c \in Clients, v \in IpVers :
          /\ DOMAIN cache'[c][v] \subseteq 1 .. uuid'
          /\ \A u \in DOMAIN cache'[c][v] : cache'[c][v][u] \in 0 .. now' + Duration
    BY <1>3 DEF IInv, TypeOK
  <2> QED BY <1>3, <2>1, <2>2, <2>3 DEF IInv, TypeOK
<1>9. Shape' /\ Numbered' /\ EntriesFresh'
  BY <1>3 DEF IInv, Shape, Numbered, EntriesFresh, Live
<1>10. NetFresh'
  BY <1>3, <1>5 DEF IInv, NetFresh, Live
<1>11. Reaches'
  <2> SUFFICES ASSUME NEW c \in Clients, server = "up", owed[c] = uuid,
                      now < lastSearch[c] + Duration, NEW v \in IpVers
               PROVE  Reached(c, v)'
    BY <1>3 DEF IInv, Reaches
  <2>1. handling[c] /\ Reached(c, v)
    BY DEF IInv, Reaches
  <2>2. Alive(c, v, uuid) \notin got
    BY Messages
  <2> QED BY <1>3, <1>6, <1>7, <2>1, <2>2 DEF Reached
<1> QED BY <1>8, <1>9, <1>10, <1>11 DEF IInv

\* The steps with which a server ends.
LEMMA GoneStep == ASSUME IInv, Stop \/ Leave \/ Killed \/ ServerDeaf PROVE IInv'
<1> USE SsdpAssumption
<1> DEFINE left == UNION {NotifyByebye(v, uuid) : v \in IpVers}
<1>1. uuid \in Uuids /\ uuid \in 1 .. uuid /\ uuid \in 0 .. MaxServers
  BY DEF Stop, Leave, Killed, ServerDeaf, IInv, TypeOK, Numbered
<1>2. \A m \in left : m \in Datagrams /\ m.kind = "byebye" /\ m.uuid = uuid
  BY <1>1, Messages DEF NotifyByebye
<1>3. CASE Stop \/ ServerDeaf
  <2>1. /\ server \in {"up", "done"} /\ server' \in {"done", "deaf"}
        /\ net' \subseteq net /\ faults' \in 0 .. MaxFaults
        /\ owed' \in [Clients -> 0 .. MaxServers] /\ \A c \in Clients : owed'[c] <= uuid
        /\ UNCHANGED << now, uuid, wentAt, lastNotify, searching, lastSearch, handling, cache >>
    <3>1. owed \in [Clients -> 0 .. MaxServers] /\ \A c \in Clients : owed[c] <= uuid
      BY DEF IInv, TypeOK, Numbered
    <3>2. faults \in 0 .. MaxFaults /\ uuid \in Nat /\ 0 \in 0 .. MaxServers
      BY <1>1 DEF IInv, TypeOK
    <3>3. CASE Stop
      BY <3>1, <3>2, <3>3 DEF Stop, callVars
    <3>4. CASE ServerDeaf
      <4>1. owed' = [c \in Clients |-> 0]
        BY <3>4 DEF ServerDeaf
      <4>2. owed' \in [Clients -> 0 .. MaxServers] /\ \A c \in Clients : owed'[c] <= uuid
        BY <3>2, <4>1
      <4> QED BY <3>2, <3>4, <4>2 DEF ServerDeaf, Unread, callVars
    <3> QED BY <1>3, <3>3, <3>4
  <2>2. TypeOK'
    BY <2>1 DEF IInv, TypeOK
  <2> QED BY <1>1, <2>1, <2>2
          DEF IInv, Shape, Numbered, NetFresh, EntriesFresh, Live, Reaches
<1>4. CASE Leave \/ Killed
  <2>1. /\ server # "off" /\ server' = "off" /\ wentAt' = [wentAt EXCEPT ![uuid] = now]
        /\ net' \subseteq net \cup left /\ lastNotify' \in [IpVers -> 0 .. now]
        /\ UNCHANGED << now, uuid, searching, lastSearch, handling, cache, owed, faults >>
    <3>1. now \in 0 .. now /\ lastNotify \in [IpVers -> 0 .. now]
      BY DEF IInv, TypeOK
    <3>2. CASE Leave
      BY <3>1, <3>2 DEF Leave, Gone, Unread, callVars
    <3>3. CASE Killed
      BY <3>1, <3>3 DEF Killed, Gone, Unread, callVars
    <3> QED BY <1>4, <3>2, <3>3
  <2> HIDE DEF left
  <2>2. TypeOK'
    <3>1. net' \subseteq Datagrams
      BY <1>2, <2>1 DEF IInv, TypeOK
    <3>2. wentAt' \in [Uuids -> 0 .. now]
      <4>1. now \in 0 .. now /\ wentAt \in [Uuids -> 0 .. now]
        BY DEF IInv, TypeOK
      <4> QED BY <2>1, <4>1
    <3>3. \A c \in Clients, v \in IpVers :
            /\ DOMAIN cache'[c][v] \subseteq 1 .. uuid'
            /\ \A u \in DOMAIN cache'[c][v] : cache'[c][v][u] \in 0 .. now' + Duration
      BY <2>1 DEF IInv, TypeOK
    <3> QED BY <2>1, <3>1, <3>2, <3>3 DEF IInv, TypeOK
  <2>3. NetFresh'
    BY <1>1, <1>2, <2>1 DEF IInv, TypeOK, NetFresh, Live
  <2>4. EntriesFresh'
    <3> SUFFICES ASSUME NEW c \in Clients, NEW v \in IpVers, handling[c],
                        NEW u \in DOMAIN cache[c][v]
                 PROVE  now <= cache[c][v][u] /\ cache[c][v][u] <= wentAt'[u] + Duration
      BY <2>1 DEF EntriesFresh
    <3>1. /\ now <= cache[c][v][u]
          /\ (u = uuid /\ server # "off") \/ cache[c][v][u] <= wentAt[u] + Duration
      BY DEF IInv, EntriesFresh, Live
    <3>2. u \in 1 .. uuid /\ cache[c][v][u] \in 0 .. now + Duration
      BY DEF IInv, TypeOK
    <3>3. now \in Nat /\ wentAt \in [Uuids -> 0 .. now] /\ u \in Uuids
      <4>1. now \in 0 .. MaxTime /\ wentAt \in [Uuids -> 0 .. now] /\ uuid \in 0 .. MaxServers
        BY DEF IInv, TypeOK
      <4>2. MaxTime \in Nat /\ MaxServers \in Nat
        BY SsdpAssumption
      <4> QED BY <3>2, <4>1, <4>2
    <3>4. CASE u = uuid
      <4>1. wentAt'[u] = now
        BY <2>1, <3>3, <3>4
      <4> QED BY <3>1, <3>2, <3>3, <4>1
    <3>5. CASE u # uuid
      <4>1. wentAt'[u] = wentAt[u]
        BY <2>1, <3>3, <3>5
      <4> QED BY <3>1, <3>5, <4>1
    <3> QED BY <3>4, <3>5
  <2> QED BY <2>1, <2>2, <2>3, <2>4 DEF IInv, Shape, Numbered, Reaches
<1> QED BY <1>3, <1>4
-----------------------------------------------------------------------------
(* The steps of the environment and of the clients.                        *)

LEMMA LoseStep == ASSUME IInv, Lose PROVE IInv'
<1> USE SsdpAssumption
<1>1. PICK m \in net : net' = net \ {m} /\ owed' = [owed EXCEPT ![m.client] = 0]
  BY DEF Lose
<1>2. /\ faults' \in 0 .. MaxFaults /\ net' \subseteq net /\ m.client \in Clients
      /\ UNCHANGED << now, uuid, server, wentAt, lastNotify, searching, lastSearch, handling, cache >>
  BY <1>1 DEF Lose, serverVars, callVars, IInv, TypeOK, Datagrams
<1>3. /\ owed' \in [Clients -> 0 .. MaxServers]
      /\ \A c \in Clients : owed'[c] = owed[c] \/ owed'[c] = 0
      /\ owed'[m.client] = 0
  BY <1>1, <1>2 DEF IInv, TypeOK
<1>4. TypeOK'
  BY <1>2, <1>3 DEF IInv, TypeOK
<1>5. Shape' /\ Numbered' /\ NetFresh' /\ EntriesFresh'
  <2>1. Shape' /\ NetFresh' /\ EntriesFresh'
    BY <1>2 DEF IInv, Shape, NetFresh, EntriesFresh, Live
  <2>2. Numbered'
    <3>1. uuid \in Nat /\ (server # "off" => uuid # 0) /\ \A c \in Clients : owed[c] <= uuid
      BY DEF IInv, TypeOK, Numbered
    <3>2. \A c \in Clients : owed'[c] <= uuid
      BY <1>3, <3>1
    <3> QED BY <1>2, <3>1, <3>2 DEF Numbered
  <2> QED BY <2>1, <2>2
<1>6. Reaches'
  <2> SUFFICES ASSUME NEW c \in Clients, server = "up", owed'[c] = uuid
               PROVE  /\ handling[c]
                      /\ now < lastSearch[c] + Duration => \A v \in IpVers : Reached(c, v)'
    BY <1>2 DEF Reaches
  <2>1. c # m.client /\ owed[c] = uuid
    <3>1. uuid # 0
      BY DEF IInv, Numbered
    <3> QED BY <1>3, <3>1
  <2>2. \A v \in IpVers : Search(c, v) # m /\ Alive(c, v, uuid) # m
    <3> SUFFICES ASSUME NEW v \in IpVers
                 PROVE  Search(c, v) # m /\ Alive(c, v, uuid) # m
      OBVIOUS
    <3>1. Search(c, v).client = c /\ Alive(c, v, uuid).client = c
      BY DEF Search, Alive
    <3> QED BY <2>1, <3>1
  <2>3. \A v \in IpVers : Reached(c, v) => Reached(c, v)'
    <3> SUFFICES ASSUME NEW v \in IpVers, Reached(c, v) PROVE Reached(c, v)'
      OBVIOUS
    <3>1. /\ Search(c, v) \in net => Search(c, v) \in net'
          /\ Alive(c, v, uuid) \in net => Alive(c, v, uuid) \in net'
      BY <1>1, <2>2
    <3> QED BY <1>2, <3>1 DEF Reached
  <2> QED BY <2>1, <2>3 DEF IInv, Reaches
<1> QED BY <1>4, <1>5, <1>6 DEF IInv

\* Of what is kept nothing is over.
LEMMA UnexpiredIs ==
  ASSUME NEW e
  PROVE  /\ \A u \in DOMAIN Unexpired(e) :
              u \in DOMAIN e /\ Unexpired(e)[u] = e[u] /\ e[u] > now
         /\ \A u \in DOMAIN e : e[u] > now => u \in DOMAIN Unexpired(e)
BY DEF Unexpired

LEMMA TickStep == ASSUME IInv, Tick PROVE IInv'
<1> USE SsdpAssumption
<1>1. /\ net = {} /\ now' = now + 1 /\ now' \in 0 .. MaxTime
      /\ UNCHANGED << uuid, server, wentAt, lastNotify, net, searching, lastSearch, handling, cache, owed, faults >>
      /\ now \in Nat
  BY DEF Tick, Quiet, serverVars, callVars, IInv, TypeOK
<1>2. \A c \in Clients, v \in IpVers : handling[c] =>
        \A u \in DOMAIN cache[c][v] : cache[c][v][u] > now
  BY UnexpiredIs DEF Tick, Quiet
<1>3. TypeOK'
  <2>1. 0 .. now \subseteq 0 .. now' /\ 0 .. now + Duration \subseteq 0 .. now' + Duration
    BY <1>1
  <2>2. /\ wentAt' \in [Uuids -> 0 .. now'] /\ lastNotify' \in [IpVers -> 0 .. now']
        /\ lastSearch' \in [Clients -> 0 .. now']
    BY <1>1, <2>1 DEF IInv, TypeOK
  <2>3. \A c \in Clients, v \in IpVers :
          /\ DOMAIN cache'[c][v] \subseteq 1 .. uuid'
          /\ \A u \in DOMAIN cache'[c][v] : cache'[c][v][u] \in 0 .. now' + Duration
    BY <1>1, <2>1 DEF IInv, TypeOK
  <2> QED BY <1>1, <2>2, <2>3 DEF IInv, TypeOK
<1>4. Shape' /\ Numbered' /\ NetFresh'
  BY <1>1 DEF IInv, Shape, Numbered, NetFresh
<1>5. EntriesFresh'
  <2> SUFFICES ASSUME NEW c \in Clients, NEW v \in IpVers, handling[c],
                      NEW u \in DOMAIN cache[c][v]
               PROVE  now + 1 <= cache[c][v][u] /\ (Live(u) \/ cache[c][v][u] <= wentAt[u] + Duration)
    BY <1>1 DEF EntriesFresh, Live
  <2>1. Live(u) \/ cache[c][v][u] <= wentAt[u] + Duration
    BY DEF IInv, EntriesFresh
  <2>2. cache[c][v][u] \in 0 .. now + Duration /\ cache[c][v][u] > now
    BY <1>2 DEF IInv, TypeOK
  <2> QED BY <1>1, <2>1, <2>2
<1>6. Reaches'
  <2> SUFFICES ASSUME NEW c \in Clients, server = "up", owed[c] = uuid
               PROVE  /\ handling[c]
                      /\ now' < lastSearch[c] + Duration => \A v \in IpVers : Reached(c, v)'
    BY <1>1 DEF Reaches
  <2>1. lastSearch[c] \in Nat
    BY <1>1 DEF IInv, TypeOK
  <2>2. now' < lastSearch[c] + Duration => now < lastSearch[c] + Duration
    BY <1>1, <2>1
  <2>3. \A v \in IpVers : Reached(c, v) => Reached(c, v)'
    BY <1>1 DEF Reached
  <2> QED BY <2>2, <2>3 DEF IInv, Reaches
<1> QED BY <1>3, <1>4, <1>5, <1>6 DEF IInv

LEMMA FirstCallStep == ASSUME IInv, NEW c \in Clients, FirstCall(c) PROVE IInv'
<1> USE SsdpAssumption
<1> DEFINE sent == UNION {SearchHeader(c, v) : v \in IpVers}
<1>1. /\ searching' = [searching EXCEPT ![c] = TRUE] /\ net' = net \cup sent
      /\ lastSearch' = [lastSearch EXCEPT ![c] = now]
      /\ owed' = [owed EXCEPT ![c] = IF handling[c] /\ server = "up" THEN uuid ELSE 0]
      /\ UNCHANGED << now, uuid, server, wentAt, lastNotify, handling, cache, faults >>
  BY DEF FirstCall, serverVars
<1>2. \A m \in sent : m \in Datagrams /\ m.kind = "search"
  BY Messages DEF SearchHeader
<1>3. server = "up" => \A v \in IpVers : Search(c, v) \in sent
  BY DEF SearchHeader
<1> HIDE DEF sent
<1>4. TypeOK'
  <2>1. /\ searching' \in [Clients -> BOOLEAN] /\ lastSearch' \in [Clients -> 0 .. now]
        /\ owed' \in [Clients -> 0 .. MaxServers] /\ net' \subseteq Datagrams
    BY <1>1, <1>2 DEF IInv, TypeOK
  <2> QED BY <1>1, <2>1 DEF IInv, TypeOK
<1>5. Shape' /\ Numbered' /\ NetFresh' /\ EntriesFresh'
  BY <1>1, <1>2 DEF IInv, TypeOK, Shape, Numbered, NetFresh, EntriesFresh, Live
<1>6. Reaches'
  <2> SUFFICES ASSUME NEW d \in Clients, server = "up", owed'[d] = uuid
               PROVE  /\ handling[d]
                      /\ now < lastSearch'[d] + Duration => \A v \in IpVers : Reached(d, v)'
    BY <1>1 DEF Reaches
  <2>1. CASE d = c
    BY <1>1, <1>3, <2>1 DEF IInv, TypeOK, Numbered, Reached
  <2>2. CASE d # c
    <3>1. owed[d] = uuid /\ lastSearch'[d] = lastSearch[d]
      BY <1>1, <2>2 DEF IInv, TypeOK
    <3>2. \A v \in IpVers : Reached(d, v) => Reached(d, v)'
      BY <1>1, <3>1 DEF Reached
    <3> QED BY <3>1, <3>2 DEF IInv, Reaches
  <2> QED BY <2>1, <2>2
<1> QED BY <1>4, <1>5, <1>6 DEF IInv

LEMMA ClientDeafStep == ASSUME IInv, NEW c \in Clients, ClientDeaf(c) PROVE IInv'
<1> USE SsdpAssumption
<1>1. /\ handling' = [handling EXCEPT ![c] = FALSE] /\ net' = {m \in net : m.client # c \/ m.kind = "search"}
      /\ owed' = [owed EXCEPT ![c] = 0] /\ faults' \in 0 .. MaxFaults
      /\ UNCHANGED << now, uuid, server, wentAt, lastNotify, searching, lastSearch, cache >>
  BY DEF ClientDeaf, serverVars, callVars, IInv, TypeOK
<1>2. TypeOK'
  <2>1. /\ handling' \in [Clients -> BOOLEAN] /\ net' \subseteq Datagrams
        /\ owed' \in [Clients -> 0 .. MaxServers]
    BY <1>1 DEF IInv, TypeOK
  <2> QED BY <1>1, <2>1 DEF IInv, TypeOK
<1>3. Shape' /\ Numbered' /\ NetFresh' /\ EntriesFresh'
  <2>1. Shape' /\ NetFresh'
    BY <1>1 DEF IInv, Shape, NetFresh, Live
  <2>2. Numbered'
    BY <1>1 DEF IInv, TypeOK, Numbered
  <2>3. EntriesFresh'
    BY <1>1 DEF IInv, TypeOK, EntriesFresh, Live
  <2> QED BY <2>1, <2>2, <2>3
<1>4. Reaches'
  <2> SUFFICES ASSUME NEW d \in Clients, server = "up", owed'[d] = uuid
               PROVE  /\ handling'[d]
                      /\ now < lastSearch[d] + Duration => \A v \in IpVers : Reached(d, v)'
    BY <1>1 DEF Reaches
  <2>1. d # c /\ owed[d] = uuid /\ handling'[d] = handling[d]
    BY <1>1 DEF IInv, TypeOK, Numbered
  <2>2. \A v \in IpVers : Search(d, v).client # c /\ Alive(d, v, uuid).client # c
    BY <2>1, Messages
  <2>3. \A v \in IpVers : Reached(d, v) => Reached(d, v)'
    BY <1>1, <2>2 DEF Reached
  <2> QED BY <2>1, <2>3 DEF IInv, Reaches
<1> QED BY <1>2, <1>3, <1>4 DEF IInv
\* What a turn makes of one interface's entries, by the datagram that was read.
LEMMA TurnStep == ASSUME IInv, NEW c \in Clients, Turn(c) PROVE IInv'
<1> USE SsdpAssumption
<1> DEFINE mine == {m \in net : m.client = c /\ m.kind # "search"}
<1>1. PICK got \in SUBSET mine :
        /\ OneEach(got)
        /\ cache' = [cache EXCEPT ![c] = [v \in IpVers |-> Unexpired(
             IF \E m \in got : m.ver = v
               THEN Registered(cache[c][v], CHOOSE m \in got : m.ver = v)
               ELSE cache[c][v])]]
        /\ IF searching[c] /\ Triggered(lastSearch[c])
             THEN /\ net' = (net \ got) \cup UNION {SearchHeader(c, v) : v \in IpVers}
                  /\ lastSearch' = [lastSearch EXCEPT ![c] = now]
             ELSE net' = net \ got /\ UNCHANGED lastSearch
  BY DEF Turn
<1>2. /\ handling[c] /\ net' = net \ got
      /\ UNCHANGED << now, uuid, server, wentAt, lastNotify, searching, lastSearch, handling, owed, faults >>
  <2>1. ~ Triggered(lastSearch[c])
    BY NeverTriggered DEF IInv
  <2> QED BY <1>1, <2>1 DEF Turn, serverVars
<1>3. /\ DOMAIN cache' = Clients /\ DOMAIN cache'[c] = IpVers
      /\ \A d \in Clients \ {c} : cache'[d] = cache[d]
  BY <1>1 DEF IInv, Shape
<1> DEFINE read(v) == IF \E m \in got : m.ver = v
                      THEN Registered(cache[c][v], CHOOSE m \in got : m.ver = v)
                      ELSE cache[c][v]
<1>4. \A v \in IpVers : cache'[c][v] = Unexpired(read(v))
  BY <1>1 DEF IInv, Shape
<1>5. now \in Nat /\ uuid \in 0 .. MaxServers /\ now + Duration \in Nat /\ now <= now + Duration
  BY DEF IInv, TypeOK
<1>14. \A v \in IpVers : \A u \in DOMAIN cache[c][v] :
         u \in 1 .. uuid /\ cache[c][v][u] \in 0 .. now + Duration
  BY DEF IInv, TypeOK
\* Every entry was there, or is of an alive message just read.
<1>6. ASSUME NEW v \in IpVers, NEW u \in DOMAIN cache'[c][v]
      PROVE  /\ now <= cache'[c][v][u]
             /\ \/ u \in DOMAIN cache[c][v] /\ cache'[c][v][u] = cache[c][v][u]
                \/ /\ cache'[c][v][u] = now + Duration /\ u \in 1 .. uuid
                   /\ Live(u) \/ wentAt[u] = now
  <2>1. u \in DOMAIN read(v) /\ cache'[c][v][u] = read(v)[u] /\ read(v)[u] > now
    BY <1>4, UnexpiredIs
  <2>2. CASE \E m \in got : m.ver = v
    <3> DEFINE n == CHOOSE m \in got : m.ver = v
    <3>1. n \in got /\ n.ver = v /\ read(v) = Registered(cache[c][v], n)
      BY <2>2
    <3>2. n \in net /\ n.kind \in {"alive", "byebye"} /\ n.uuid \in 1 .. uuid
      <4>1. n \in net /\ n.kind # "search"
        BY <3>1
      <4>2. n \in Datagrams
        BY <4>1 DEF IInv, TypeOK
      <4> HIDE DEF n
      <4> QED BY <4>1, <4>2 DEF IInv, NetFresh, Datagrams
    <3>3. n.kind = "alive" => Live(n.uuid) \/ wentAt[n.uuid] = now
      BY <3>2 DEF IInv, NetFresh
    <3> HIDE DEF n
    <3>4. CASE n.kind = "byebye"
      <4>1. /\ DOMAIN read(v) = DOMAIN cache[c][v] \ {n.uuid}
            /\ u \in DOMAIN cache[c][v] /\ read(v)[u] = cache[c][v][u]
        <5>1. read(v) = Without(cache[c][v], n.uuid)
          BY <3>1, <3>4 DEF Registered
        <5> HIDE DEF read
        <5> QED BY <2>1, <5>1 DEF Without
      <4> HIDE DEF read
      <4> QED BY <1>5, <1>14, <2>1, <4>1
    <3>5. CASE n.kind = "alive"
      <4>1. /\ DOMAIN read(v) = {n.uuid} \cup DOMAIN cache[c][v]
            /\ read(v)[u] = IF u = n.uuid THEN now + Duration ELSE cache[c][v][u]
        <5>1. read(v) = [w \in {n.uuid} \cup DOMAIN cache[c][v] |->
                           IF w = n.uuid THEN now + Duration ELSE cache[c][v][w]]
          BY <3>1, <3>5 DEF Registered
        <5> HIDE DEF read
        <5> QED BY <2>1, <5>1
      <4> HIDE DEF read
      <4>2. CASE u = n.uuid
        BY <1>5, <2>1, <3>2, <3>3, <3>5, <4>1, <4>2
      <4>3. CASE u # n.uuid
        <5>1. u \in DOMAIN cache[c][v] /\ cache'[c][v][u] = cache[c][v][u]
          BY <2>1, <4>1, <4>3
        <5>2. cache[c][v][u] > now /\ cache[c][v][u] \in 0 .. now + Duration
          BY <1>14, <2>1, <5>1
        <5> QED BY <1>5, <5>1, <5>2
      <4> QED BY <4>2, <4>3
    <3> QED BY <3>2, <3>4, <3>5
  <2>3. CASE ~ \E m \in got : m.ver = v
    <3>1. read(v) = cache[c][v]
      BY <2>3
    <3> HIDE DEF read
    <3> QED BY <1>5, <1>14, <2>1, <3>1
  <2> QED BY <2>2, <2>3
\* No leave of the present server was read: it stays, where it lasts.
<1>7. ASSUME NEW v \in IpVers, server # "off",
             uuid \in DOMAIN cache[c][v], cache[c][v][uuid] > now
      PROVE  uuid \in DOMAIN cache'[c][v] /\ cache'[c][v][uuid] >= cache[c][v][uuid]
  <2>1. uuid \in DOMAIN read(v) /\ read(v)[uuid] >= cache[c][v][uuid]
    <3>1. cache[c][v][uuid] \in 0 .. now + Duration
      BY <1>7 DEF IInv, TypeOK
    <3>2. CASE \E m \in got : m.ver = v
      <4> DEFINE n == CHOOSE m \in got : m.ver = v
      <4>1. n \in got /\ n.ver = v /\ read(v) = Registered(cache[c][v], n)
        BY <3>2
      <4>2. n \in net
        BY <4>1
      <4>3. n.kind = "byebye" => n.uuid # uuid
        BY <1>7, <4>2 DEF IInv, NetFresh, Live
      <4> HIDE DEF n
      <4> QED BY <1>5, <1>7, <3>1, <4>1, <4>3 DEF Registered, Without
    <3>3. CASE ~ \E m \in got : m.ver = v
      <4>1. read(v) = cache[c][v]
        BY <3>3
      <4> QED BY <1>5, <1>7, <3>1, <4>1
    <3> QED BY <3>2, <3>3
  <2>2. cache[c][v][uuid] \in Nat
    BY <1>7, <1>5 DEF IInv, TypeOK
  <2> HIDE DEF read
  <2>3. uuid \in DOMAIN Unexpired(read(v)) /\ Unexpired(read(v))[uuid] = read(v)[uuid]
    <3>1. read(v)[uuid] > now
      <4>1. read(v)[uuid] \in Nat
        <5>1. uuid \in DOMAIN read(v) /\ read(v)[uuid] \in {now + Duration, cache[c][v][uuid]}
          BY <2>1 DEF read, Registered, Without
        <5> QED BY <1>5, <2>2, <5>1
      <4> QED BY <1>5, <1>7, <2>1, <2>2, <4>1
    <3> QED BY <2>1, <3>1 DEF Unexpired
  <2> QED BY <1>4, <2>1, <2>3
<1> HIDE DEF read
\* An alive message of the present server was read: it is there for a cache duration.
<1>8. ASSUME NEW v \in IpVers, Alive(c, v, uuid) \in got, Duration # 0
      PROVE  uuid \in DOMAIN cache'[c][v] /\ cache'[c][v][uuid] = now + Duration
  <2>1. Alive(c, v, uuid).ver = v /\ Alive(c, v, uuid).uuid = uuid /\ Alive(c, v, uuid).kind = "alive"
    BY DEF Alive
  <2>2. (CHOOSE m \in got : m.ver = v) = Alive(c, v, uuid)
    BY <1>1, <1>8, <2>1 DEF OneEach
  <2>3. read(v) = Registered(cache[c][v], Alive(c, v, uuid))
    BY <1>8, <2>1, <2>2 DEF read
  <2>4. uuid \in DOMAIN read(v) /\ read(v)[uuid] = now + Duration
    BY <2>1, <2>3 DEF Registered
  <2>5. now + Duration > now
    BY <1>5, <1>8
  <2>6. /\ uuid \in DOMAIN Unexpired(read(v))
        /\ Unexpired(read(v))[uuid] = read(v)[uuid]
    BY <2>4, <2>5 DEF Unexpired
  <2> QED BY <1>4, <2>4, <2>6
<1>9. TypeOK'
  <2>1. ASSUME NEW d \in Clients, NEW v \in IpVers
        PROVE  /\ DOMAIN cache'[d][v] \subseteq 1 .. uuid
               /\ \A u \in DOMAIN cache'[d][v] : cache'[d][v][u] \in 0 .. now + Duration
    <3>1. CASE d = c
      <4> SUFFICES ASSUME NEW u \in DOMAIN cache'[c][v]
                   PROVE  u \in 1 .. uuid /\ cache'[c][v][u] \in 0 .. now + Duration
        BY <3>1
      <4>1. CASE u \in DOMAIN cache[c][v] /\ cache'[c][v][u] = cache[c][v][u]
        BY <1>14, <4>1
      <4>2. CASE cache'[c][v][u] = now + Duration /\ u \in 1 .. uuid
        <5>1. now + Duration \in 0 .. now + Duration
          BY <1>5
        <5> QED BY <4>2, <5>1
      <4> QED BY <1>6, <4>1, <4>2
    <3>2. CASE d # c
      BY <1>3, <3>2 DEF IInv, TypeOK
    <3> QED BY <3>1, <3>2
  <2> QED BY <1>2, <2>1 DEF IInv, TypeOK
<1>10. Shape' /\ Numbered' /\ NetFresh'
  BY <1>2, <1>3 DEF IInv, Shape, Numbered, NetFresh, Live
<1>11. EntriesFresh'
  <2> SUFFICES ASSUME NEW d \in Clients, NEW v \in IpVers, handling[d],
                      NEW u \in DOMAIN cache'[d][v]
               PROVE  /\ now <= cache'[d][v][u]
                      /\ Live(u) \/ cache'[d][v][u] <= wentAt[u] + Duration
    BY <1>2 DEF EntriesFresh, Live
  <2>1. CASE d = c
    <3>1. u \in DOMAIN cache[c][v] => Live(u) \/ cache[c][v][u] <= wentAt[u] + Duration
      BY <1>2 DEF IInv, EntriesFresh
    <3> QED BY <1>5, <1>6, <2>1, <3>1
  <2>2. CASE d # c
    BY <1>3, <2>2 DEF IInv, EntriesFresh
  <2> QED BY <2>1, <2>2
<1>12. Reaches'
  <2> SUFFICES ASSUME NEW d \in Clients, server = "up", owed[d] = uuid,
                      now < lastSearch[d] + Duration, NEW v \in IpVers
               PROVE  Reached(d, v)'
    BY <1>2 DEF IInv, Reaches
  <2>1. Reached(d, v)
    BY DEF IInv, Reaches
  <2>2. Search(d, v) \notin got
    BY Messages
  <2>3. lastSearch[d] \in 0 .. now
    BY DEF IInv, TypeOK
  <2>4. CASE d # c
    <3>1. Alive(d, v, uuid) \notin got
      BY <2>4, Messages
    <3> QED BY <1>2, <1>3, <2>1, <2>2, <2>4, <3>1 DEF Reached
  <2>5. CASE d = c /\ Alive(c, v, uuid) \in got
    <3>1. Duration # 0
      BY <1>5, <2>3
    <3>2. uuid \in DOMAIN cache'[c][v] /\ cache'[c][v][uuid] = now + Duration
      BY <1>8, <2>5, <3>1
    <3>3. now + Duration >= lastSearch[c] + Duration
      BY <1>5, <2>3, <2>5
    <3> QED BY <1>2, <2>5, <3>2, <3>3 DEF Reached
  <2>6. CASE d = c /\ Alive(c, v, uuid) \notin got
    <3>1. CASE uuid \in DOMAIN cache[c][v] /\ cache[c][v][uuid] >= lastSearch[c] + Duration
      <4>0. cache[c][v][uuid] \in 0 .. now + Duration
        BY <3>1 DEF IInv, TypeOK
      <4>1. cache[c][v][uuid] \in Nat /\ cache[c][v][uuid] > now
        BY <1>5, <2>3, <2>6, <3>1, <4>0
      <4>2. uuid \in DOMAIN cache'[c][v] /\ cache'[c][v][uuid] >= cache[c][v][uuid]
        BY <1>7, <3>1, <4>1
      <4>3. cache'[c][v][uuid] \in Nat
        BY <1>5, <1>9, <4>2, <1>2 DEF TypeOK
      <4>4. cache'[c][v][uuid] >= lastSearch[c] + Duration
        BY <2>3, <2>6, <3>1, <4>1, <4>2, <4>3
      <4> QED BY <1>2, <2>6, <4>2, <4>4 DEF Reached
    <3>2. CASE Search(c, v) \in net \/ Alive(c, v, uuid) \in net
      BY <1>2, <2>2, <2>6, <3>2 DEF Reached
    <3> QED BY <2>1, <2>6, <3>1, <3>2 DEF Reached
  <2> QED BY <2>4, <2>5, <2>6
<1> QED BY <1>9, <1>10, <1>11, <1>12 DEF IInv
-----------------------------------------------------------------------------
(* The theorems.                                                           *)

LEMMA StepIInv == ASSUME IInv, [Next]_vars PROVE IInv'
<1>1. CASE Next
  BY <1>1, BootStep, ServerTurnStep, GoneStep, LoseStep, TickStep, FirstCallStep, TurnStep,
     ClientDeafStep, Zenon DEF Next
<1>2. CASE UNCHANGED vars
  BY <1>2 DEF vars, IInv, TypeOK, Shape, Numbered, NetFresh, EntriesFresh, Reaches, Reached, Live
<1> QED BY <1>1, <1>2

\* The invariant of all theorems below holds, with every loss, error and expiry.
THEOREM SpecIInv == Spec => []IInv
<1> QED BY InitIInv, StepIInv, PTL DEF Spec

LEMMA InvForgotten == IInv => CacheInv
<1> SUFFICES ASSUME IInv, NEW c \in Clients, NEW v \in IpVers, handling[c],
                    NEW u \in DOMAIN cache[c][v], ~ Live(u)
             PROVE  now <= wentAt[u] + Duration
  BY DEF CacheInv, GoneForgotten, IInv, Live
<1>1. now <= cache[c][v][u] /\ cache[c][v][u] <= wentAt[u] + Duration
  BY DEF IInv, EntriesFresh
<1>2. /\ now \in Nat /\ cache[c][v][u] \in 0 .. now + Duration /\ now + Duration \in Nat
      /\ u \in 1 .. uuid /\ uuid \in 0 .. MaxServers
  <2>1. /\ now \in Nat /\ uuid \in 0 .. MaxServers /\ cache[c][v][u] \in 0 .. now + Duration
        /\ DOMAIN cache[c][v] \subseteq 1 .. uuid
    BY DEF IInv, TypeOK
  <2> QED BY <2>1, SsdpAssumption
<1>3. wentAt[u] \in Nat
  BY <1>2, SsdpAssumption DEF IInv, TypeOK
<1> QED BY <1>1, <1>2, <1>3, SsdpAssumption

\* The caches hold the server that runs and, for a cache duration at the most, those
\* that have gone, whatever was lost or overtaken, in any number of processes
\* (handlerLoop and handleRegisterService).
THEOREM SpecCacheInv == Spec => []CacheInv
BY SpecIInv, InvForgotten, PTL

\* A search that was not lost finds the server that answers it, though the response
\* reaches only one process of the host (handleSearchRequest).
THEOREM SpecSearchReaches == Spec => []SearchReaches
<1>1. IInv => SearchReaches
  BY DEF IInv, Reaches, Reached, SearchReaches
<1> QED BY <1>1, SpecIInv, PTL

-----------------------------------------------------------------------------
(* What is listed.                                                         *)

LEMMA LeastOf ==
  ASSUME NEW S \in SUBSET Nat, S # {}
  PROVE  \E n \in S : \A m \in S : n <= m
<1>1. PICK n \in S : \A m \in S : ~ (<< m, n >> \in OpToRel(<, Nat))
  BY NatLessThanWellFounded, WFMin
<1>2. ASSUME NEW m \in S PROVE n <= m
  <2>1. ~ (<< m, n >> \in {p \in Nat \X Nat : p[1] < p[2]})
    BY <1>1, Zenon DEF OpToRel
  <2>2. m \in Nat /\ n \in Nat
    OBVIOUS
  <2> QED BY <2>1, <2>2
<1> QED BY <1>2

\* The URL of a server that has one, chosen by the preference.
LEMMA PreferredIs ==
  ASSUME NEW urls, DOMAIN urls \in SUBSET Nat, DOMAIN urls # {}, NEW ver
  PROVE  \E v \in DOMAIN urls : D!Preferred(urls, ver) = urls[v]
<1>1. CASE ver \in DOMAIN urls
  BY <1>1 DEF D!Preferred
<1>2. CASE ver \notin DOMAIN urls
  <2>1. \E v \in DOMAIN urls : \A w \in DOMAIN urls : v <= w
    BY LeastOf, Zenon
  <2> QED BY <1>2, <2>1, Zenon DEF D!Preferred
<1> QED BY <1>1, <1>2

\* No URL is listed for two server processes, whatever was found, as long as the URLs of
\* different IP versions differ: the loop over the map in getServerURLs erases all but
\* the first of those that share one (DiscoverServers.cpp:51-62).
THEOREM ListedApart ==
  ASSUME NEW found, DOMAIN found \in SUBSET Nat, NEW ver,
         \A u \in DOMAIN found : DOMAIN found[u] \in SUBSET Nat,
         \A u, w \in DOMAIN found : \A x \in DOMAIN found[u], y \in DOMAIN found[w] :
           found[u][x] = found[w][y] => x = y
  PROVE  \A u, w \in DOMAIN D!Listed(found, ver) :
           D!Listed(found, ver)[u] = D!Listed(found, ver)[w] => u = w
<1> SUFFICES ASSUME NEW u \in DOMAIN D!Listed(found, ver), NEW w \in DOMAIN D!Listed(found, ver),
                    D!Listed(found, ver)[u] = D!Listed(found, ver)[w], u # w
             PROVE  FALSE
  OBVIOUS
<1>1. /\ u \in D!Kept(found) /\ w \in D!Kept(found)
      /\ DOMAIN found[u] # {} /\ DOMAIN found[w] # {}
      /\ D!Preferred(found[u], ver) = D!Preferred(found[w], ver)
  BY DEF D!Listed
<1>2. u \in DOMAIN found /\ w \in DOMAIN found
  BY <1>1 DEF D!Kept
<1>3. PICK x \in DOMAIN found[u] : D!Preferred(found[u], ver) = found[u][x]
  BY <1>1, <1>2, PreferredIs
<1>4. PICK y \in DOMAIN found[w] : D!Preferred(found[w], ver) = found[w][y]
  BY <1>1, <1>2, PreferredIs
<1>5. x = y /\ found[u][x] = found[w][x]
  BY <1>1, <1>2, <1>3, <1>4
<1>6. D!Share(found, u, w) /\ D!Share(found, w, u)
  BY <1>3, <1>4, <1>5 DEF D!Share
<1>7. u \in Nat /\ w \in Nat /\ (u < w \/ w < u)
  BY <1>2
<1> QED BY <1>1, <1>2, <1>6, <1>7 DEF D!Kept

\* Where a server has a URL one is listed: the first of those that have any is not erased.
THEOREM ListedSome ==
  ASSUME NEW found, DOMAIN found \in SUBSET Nat, NEW ver,
         \A u \in DOMAIN found : DOMAIN found[u] \in SUBSET Nat,
         \E u \in DOMAIN found : DOMAIN found[u] # {}
  PROVE  \E u \in DOMAIN found : \E v \in DOMAIN found[u] :
           u \in DOMAIN D!Listed(found, ver) /\ D!Listed(found, ver)[u] = found[u][v]
<1> DEFINE some == {u \in DOMAIN found : DOMAIN found[u] # {}}
<1>1. PICK u \in some : \A w \in some : u <= w
  <2>1. some \in SUBSET Nat /\ some # {}
    OBVIOUS
  <2> HIDE DEF some
  <2> QED BY <2>1, LeastOf
<1>2. ASSUME NEW w \in DOMAIN found, w < u PROVE ~ D!Share(found, u, w)
  <2>1. w \notin some
    <3>1. u \in Nat /\ w \in Nat
      OBVIOUS
    <3> HIDE DEF some
    <3> QED BY <1>1, <1>2, <3>1
  <2>2. DOMAIN found[w] = {}
    BY <2>1
  <2> QED BY <2>2 DEF D!Share
<1>3. u \in DOMAIN D!Listed(found, ver) /\ D!Listed(found, ver)[u] = D!Preferred(found[u], ver)
  BY <1>2 DEF D!Listed, D!Kept
<1>4. PICK v \in DOMAIN found[u] : D!Preferred(found[u], ver) = found[u][v]
  BY PreferredIs
<1> QED BY <1>3, <1>4

\* Whatever both protocols know, the merge maps servers to the URLs of their versions.
LEMMA MergedIs ==
  ASSUME TypeOK, NEW c \in Clients, NEW mdns \in MdnsURLs
  PROVE  LET found == D!Merged(ServerURLs(c), mdns)
         IN /\ DOMAIN found \in SUBSET Nat
            /\ DOMAIN ServerURLs(c) \subseteq DOMAIN found
            /\ \A u \in DOMAIN found :
                 /\ DOMAIN found[u] \in SUBSET IpVers /\ DOMAIN found[u] # {}
                 /\ \A v \in DOMAIN found[u] : found[u][v] = Url(v)
<1> USE SsdpAssumption
<1> DEFINE ssdp == ServerURLs(c)
           found == D!Merged(ssdp, mdns)
<1>1. /\ DOMAIN ssdp \subseteq 1 .. uuid
      /\ \A u \in DOMAIN ssdp :
           /\ DOMAIN ssdp[u] \in SUBSET IpVers /\ DOMAIN ssdp[u] # {}
           /\ \A v \in DOMAIN ssdp[u] : ssdp[u][v] = Url(v)
  <2>1. \A v \in IpVers : DOMAIN cache[c][v] \subseteq 1 .. uuid
    BY DEF TypeOK
  <2>2. /\ DOMAIN ssdp = UNION {DOMAIN cache[c][v] : v \in IpVers}
        /\ \A u \in DOMAIN ssdp : ssdp[u] = [v \in {w \in IpVers : u \in DOMAIN cache[c][w]} |-> Url(v)]
    BY DEF ServerURLs
  <2> HIDE DEF ssdp
  <2>3. DOMAIN ssdp \subseteq 1 .. uuid
    BY <2>1, <2>2
  <2>4. ASSUME NEW u \in DOMAIN ssdp
        PROVE  /\ DOMAIN ssdp[u] \in SUBSET IpVers /\ DOMAIN ssdp[u] # {}
               /\ \A v \in DOMAIN ssdp[u] : ssdp[u][v] = Url(v)
    <3> DEFINE versions == {w \in IpVers : u \in DOMAIN cache[c][w]}
    <3>1. versions # {} /\ versions \in SUBSET IpVers
      BY <2>2
    <3>2. ssdp[u] = [v \in versions |-> Url(v)]
      BY <2>2
    <3> HIDE DEF versions
    <3> QED BY <3>1, <3>2
  <2> QED BY <2>3, <2>4
<1>2. /\ DOMAIN mdns \subseteq 1 .. uuid
      /\ \A u \in DOMAIN mdns : /\ DOMAIN mdns[u] = IpVers
                                /\ \A v \in DOMAIN mdns[u] : mdns[u][v] = Url(v)
  <2> PICK remembered \in SUBSET (1 .. uuid) :
         mdns = [u \in remembered |-> [v \in IpVers |-> Url(v)]]
    BY DEF MdnsURLs
  <2> QED OBVIOUS
<1> HIDE DEF ssdp
<1>3. /\ DOMAIN found = DOMAIN ssdp \cup DOMAIN mdns
      /\ \A u \in DOMAIN found :
           found[u] = IF u \notin DOMAIN mdns THEN ssdp[u]
                      ELSE IF u \notin DOMAIN ssdp THEN mdns[u] ELSE D!Over(mdns[u], ssdp[u])
  BY DEF D!Merged
<1>4. ASSUME NEW u \in DOMAIN found
      PROVE  /\ DOMAIN found[u] \in SUBSET IpVers /\ DOMAIN found[u] # {}
             /\ \A v \in DOMAIN found[u] : found[u][v] = Url(v)
  <2>1. CASE u \in DOMAIN mdns /\ u \in DOMAIN ssdp
    <3>1. /\ DOMAIN found[u] = DOMAIN mdns[u] \cup DOMAIN ssdp[u]
          /\ \A v \in DOMAIN found[u] :
               found[u][v] = IF v \in DOMAIN mdns[u] THEN mdns[u][v] ELSE ssdp[u][v]
      <4>1. found[u] = D!Over(mdns[u], ssdp[u])
        BY <1>3, <2>1
      <4> HIDE DEF found
      <4> QED BY <4>1 DEF D!Over
    <3> QED BY <1>1, <1>2, <2>1, <3>1
  <2>2. CASE ~ (u \in DOMAIN mdns /\ u \in DOMAIN ssdp)
    BY <1>1, <1>2, <1>3, <2>2
  <2> QED BY <2>1, <2>2
<1>5. uuid \in Nat
  BY DEF TypeOK
<1> QED BY <1>1, <1>2, <1>3, <1>4, <1>5 DEF ssdp

\* No URL is listed for two server processes, and each server that a cache knows is
\* listed (getServerURLs, DiscoverServers.cpp).
THEOREM SpecListedRight == Spec => []ListedRight
<1>1. ASSUME IInv, NEW c \in Clients, NEW result \in Results(c)
      PROVE  /\ \A u, w \in DOMAIN result : result[u] = result[w] => u = w
             /\ (\E v \in IpVers : uuid \in DOMAIN cache[c][v]) =>
                  \E u \in DOMAIN result, v \in IpVers : result[u] = Url(v)
  <2> PICK mdns \in MdnsURLs, ver \in IpVers :
        result = D!Listed(D!Merged(ServerURLs(c), mdns), ver)
    BY DEF Results
  <2> DEFINE found == D!Merged(ServerURLs(c), mdns)
  <2>1. /\ DOMAIN found \in SUBSET Nat /\ DOMAIN ServerURLs(c) \subseteq DOMAIN found
        /\ \A u \in DOMAIN found :
             /\ DOMAIN found[u] \in SUBSET IpVers /\ DOMAIN found[u] # {}
             /\ \A v \in DOMAIN found[u] : found[u][v] = Url(v)
    BY <1>1, MergedIs DEF IInv
  <2>2. result = D!Listed(found, ver)
    OBVIOUS
  <2>3. DOMAIN ServerURLs(c) = UNION {DOMAIN cache[c][v] : v \in IpVers}
    BY DEF ServerURLs
  <2>4. \A v, w : Url(v) = Url(w) => v = w
    BY DEF Url
  <2>5. \A u \in DOMAIN found : DOMAIN found[u] \in SUBSET Nat
    <3>1. IpVers \in SUBSET Nat
      BY SsdpAssumption
    <3> HIDE DEF found
    <3> QED BY <2>1, <3>1
  <2> HIDE DEF found
  <2>6. \A u, w \in DOMAIN result : result[u] = result[w] => u = w
    <3>1. \A u, w \in DOMAIN found : \A x \in DOMAIN found[u], y \in DOMAIN found[w] :
            found[u][x] = found[w][y] => x = y
      BY <2>1, <2>4
    <3> QED BY <2>1, <2>2, <2>5, <3>1, ListedApart
  <2>7. ASSUME \E v \in IpVers : uuid \in DOMAIN cache[c][v]
        PROVE  \E u \in DOMAIN result, v \in IpVers : result[u] = Url(v)
    <3>1. uuid \in DOMAIN found
      BY <2>1, <2>3, <2>7
    <3>2. \E u \in DOMAIN found : \E v \in DOMAIN found[u] :
            u \in DOMAIN result /\ result[u] = found[u][v]
      BY <2>1, <2>2, <2>5, <3>1, ListedSome
    <3> QED BY <2>1, <3>2
  <2> QED BY <2>6, <2>7
<1>2. IInv => ListedRight
  BY <1>1 DEF ListedRight, ListedOnce, KnownListed
<1> QED BY <1>2, SpecIInv, PTL

-----------------------------------------------------------------------------
(* Arguments.                                                              *)

\* Keys of a device's arguments as a server that loads no remote module lists them.
PlainKeys(names) == {D!Key(0, n) : n \in names}

\* The arguments of every device come back to its server as it listed them, with the stop
\* key (Registration.cpp:17-46 and 139-156).
THEOREM ArgsRoundTrip ==
  ASSUME NEW names, "remote" \notin names,
         NEW args, DOMAIN args \in SUBSET PlainKeys(names), NEW url
  PROVE  D!RoundTrip(args, url)
<1> DEFINE renamed == D!Renamed(args, url)
           found == D!Found(args, url)
           back == D!translateArgs(found)
<1>1. ASSUME NEW k \in DOMAIN args
      PROVE  /\ k.depth = 0 /\ k = D!Key(0, k.name) /\ k # D!Remote
             /\ D!Prefixed(k) = D!Key(1, k.name) /\ D!Stripped(D!Prefixed(k)) = k
  BY DEF PlainKeys, D!Key, D!Remote, D!Prefixed, D!Stripped
<1>2. /\ DOMAIN found = DOMAIN renamed \cup {D!Driver}
      /\ \A k \in DOMAIN renamed : found[k] = renamed[k]
  BY DEF D!Found, D!Over
<1>3. /\ DOMAIN renamed = (DOMAIN args \ {D!Driver, D!Type, D!Stop})
                           \cup {D!Prefixed(m) : m \in {D!Driver, D!Type} \cap DOMAIN args}
                           \cup {D!Remote}
      /\ \A k \in DOMAIN args \ {D!Driver, D!Type, D!Stop} : renamed[k] = args[k]
      /\ \A m \in {D!Driver, D!Type} \cap DOMAIN args : renamed[D!Prefixed(m)] = args[m]
  <2> DEFINE moved == {D!Driver, D!Type} \cap DOMAIN args
             stays == DOMAIN args \ ({D!Driver, D!Type, D!Stop} \cup {D!Prefixed(k) : k \in moved})
             value(k) == IF k = D!Remote THEN url
                         ELSE IF \E m \in moved : k = D!Prefixed(m) THEN args[D!Key(0, k.name)]
                         ELSE args[k]
  <2>1. renamed = [k \in stays \cup {D!Prefixed(m) : m \in moved} \cup {D!Remote} |-> value(k)]
    BY DEF D!Renamed
  <2>2. \A m \in moved : D!Prefixed(m) # D!Remote /\ D!Prefixed(m) \notin DOMAIN args
                         /\ D!Key(0, D!Prefixed(m).name) = m
    <3> SUFFICES ASSUME NEW m \in moved
                 PROVE  D!Prefixed(m) # D!Remote /\ D!Prefixed(m) \notin DOMAIN args
                        /\ D!Key(0, D!Prefixed(m).name) = m
      OBVIOUS
    <3>1. m \in DOMAIN args
      BY DEF moved
    <3>2. D!Prefixed(m).depth = 1 /\ D!Prefixed(m).name = m.name /\ D!Key(0, m.name) = m
      BY <1>1, <3>1 DEF D!Key
    <3>3. D!Remote.depth = 0
      BY DEF D!Remote, D!Key
    <3> HIDE DEF moved
    <3> QED BY <1>1, <3>2, <3>3
  <2>3. stays = DOMAIN args \ {D!Driver, D!Type, D!Stop}
    BY <2>2
  <2>4. \A k \in stays : value(k) = args[k]
    BY <1>1, <2>2, <2>3
  <2>5. \A m \in moved : value(D!Prefixed(m)) = args[m]
    BY <2>2
  <2> HIDE DEF moved, stays, value, renamed
  <2>6. /\ DOMAIN renamed = stays \cup {D!Prefixed(m) : m \in moved} \cup {D!Remote}
        /\ \A k \in stays : renamed[k] = args[k]
        /\ \A m \in moved : renamed[D!Prefixed(m)] = args[m]
    BY <2>1, <2>4, <2>5
  <2> QED BY <2>3, <2>6 DEF moved
<1>4. /\ D!Stop \in DOMAIN back
      /\ \A k \in DOMAIN found \ {D!Driver, D!Type} :
           k.depth = 0 /\ D!Prefixed(k) \notin DOMAIN found
             => k \in DOMAIN back /\ back[k] = found[k]
      /\ \A k \in {D!Driver, D!Type} : D!Prefixed(k) \in DOMAIN found
             => k \in DOMAIN back /\ back[k] = found[D!Prefixed(k)]
  <2> DEFINE nested == {k \in DOMAIN found : k.depth > 0}
             plain == {k \in DOMAIN found : k.depth = 0} \ {D!Driver, D!Type}
             keys == {D!Stop} \cup plain \cup {D!Stripped(n) : n \in nested}
             value(k) == IF D!Prefixed(k) \in nested THEN found[D!Prefixed(k)]
                         ELSE IF k \in plain THEN found[k] ELSE ""
  <2>1. back = [k \in keys |-> value(k)]
    BY Zenon DEF D!translateArgs
  <2>2. \A k \in {D!Driver, D!Type} : D!Prefixed(k).depth = 1 /\ D!Stripped(D!Prefixed(k)) = k
    BY DEF D!Key, D!Prefixed, D!Stripped, D!Driver, D!Type
  <2>3. \A k \in {D!Driver, D!Type} :
          D!Prefixed(k) \in DOMAIN found => D!Prefixed(k) \in nested /\ k \in keys
    BY <2>2
  <2> HIDE DEF found, back
  <2> QED BY <2>1, <2>3
<1>5. ASSUME NEW k \in DOMAIN args \ {D!Stop}
      PROVE  k \in DOMAIN back /\ back[k] = args[k]
  <2>1. CASE k \in {D!Driver, D!Type}
    BY <1>2, <1>3, <1>4, <2>1
  <2>2. CASE k \notin {D!Driver, D!Type}
    <3>1. k \in DOMAIN found /\ found[k] = args[k] /\ k.depth = 0
      BY <1>1, <1>2, <1>3, <2>2
    <3>2. D!Prefixed(k) \notin DOMAIN found
      <4>1. /\ D!Prefixed(k) \notin DOMAIN args /\ D!Prefixed(k) # D!Remote
            /\ D!Prefixed(k) # D!Driver
        BY <1>1 DEF D!Key, D!Remote, D!Driver
      <4>2. \A m \in DOMAIN args : D!Prefixed(k) = D!Prefixed(m) => k = m
        BY <1>1, Zenon
      <4> HIDE DEF renamed, found
      <4> QED BY <1>2, <1>3, <2>2, <4>1, <4>2
    <3> QED BY <1>4, <2>2, <3>1, <3>2
  <2> QED BY <2>1, <2>2
<1> QED BY <1>4, <1>5 DEF D!RoundTrip, D!FindsNothing

\* The arguments of a device come back to its server (findRemote, translateArgs).
THEOREM SpecArgsReturn == Spec => []ArgsReturn
<1> DEFINE names == {"driver", "type", "soapy_remote_no_deeper", "serial"}
<1>1. ASSUME NEW args \in DeviceArgs PROVE DOMAIN args \in SUBSET PlainKeys(names)
  <2>1. DOMAIN args \subseteq {D!Driver, D!Type, D!Stop, D!Key(0, "serial")}
    BY DEF DeviceArgs
  <2>2. \A n \in names : D!Key(0, n) \in PlainKeys(names)
    BY DEF PlainKeys
  <2>3. /\ D!Driver = D!Key(0, "driver") /\ D!Type = D!Key(0, "type")
        /\ D!Stop = D!Key(0, "soapy_remote_no_deeper")
    BY DEF D!Driver, D!Type, D!Stop
  <2> QED BY <2>1, <2>2, <2>3
<1>2. ASSUME NEW args \in DeviceArgs, NEW url PROVE D!RoundTrip(args, url)
  <2>1. DOMAIN args \in SUBSET PlainKeys(names) /\ "remote" \notin names
    BY <1>1
  <2> HIDE DEF names
  <2> QED BY <2>1, ArgsRoundTrip
<1>3. ArgsReturn
  BY <1>2 DEF ArgsReturn
<1> QED BY <1>3, PTL
=============================================================================
