------------------------------- MODULE SsdpCache -------------------------------
(***************************************************************************)
(* Discovery with SSDP (common/SoapySSDPEndpoint.cpp): the endpoints of a  *)
(* server and of some client processes, the multicast between them, the    *)
(* cache of each client, and the answers that the client's                 *)
(* SoapyRemoteDevice::getServerURLs builds from it.                        *)
(*                                                                         *)
(* All clients run on one host and the server on another, where it may be  *)
(* stopped, killed and started again: each server process has a UUID of    *)
(* its own, and all have the same URLs.  Datagrams may be lost and may     *)
(* overtake each other.  Time advances in ticks that are long compared     *)
(* with the 100 ms of a turn of handlerLoop and with the network.          *)
(***************************************************************************)
EXTENDS Naturals, TLC

CONSTANTS
  Clients,    \* processes of one host that look for servers
  IpVers,     \* the IP versions, each with an interface on both hosts
  Trigger,    \* TRIGGER_TIMEOUT_SECONDS
  Duration,   \* CACHE_DURATION_SECONDS
  MaxTime,    \* bound: of the clock
  MaxServers, \* bound: server processes
  MaxFaults   \* bound: datagrams lost and handler threads that end on an error

ASSUME SsdpAssumption ==
  /\ IpVers # {} /\ IpVers \subseteq {4, 6}
  /\ Trigger \in Nat /\ Duration \in Nat /\ MaxTime \in Nat
  /\ MaxServers \in Nat /\ MaxFaults \in Nat

VARIABLES
  now,          \* the clock
  uuid,         \* of the latest server process: how many there were
  server,       \* "off", "up", "done": told to stop, "deaf": its handler has ended
  wentAt,       \* [uuid -> when that process went]
  lastNotify,   \* [version -> lastTimeNotify of the server's interface]
  net,          \* datagrams on their way or in the buffer of a socket
  searching,    \* [client -> periodicSearchEnabled]
  lastSearch,   \* [client -> lastTimeSearch of its interfaces]
  handling,     \* [client -> its handler thread runs]
  cache,        \* [client -> usnToURL: [version -> [uuid -> when the entry expires]]]
  owed,         \* history: [client -> the server that its search is to find, or 0]
  faults

vars == << now, uuid, server, wentAt, lastNotify, net, searching, lastSearch,
           handling, cache, owed, faults >>
serverVars == << uuid, server, wentAt, lastNotify >>
callVars == << searching, lastSearch >>

D == INSTANCE Discovery

Uuids == 1 .. MaxServers
Host == "server"
NoEntries == [v \in IpVers |-> << >>]
Url(ver) == << ver, Host >>

Search(c, ver) == [kind |-> "search", client |-> c, ver |-> ver, uuid |-> 0]
Alive(c, ver, u) == [kind |-> "alive", client |-> c, ver |-> ver, uuid |-> u]
Byebye(c, ver, u) == [kind |-> "byebye", client |-> c, ver |-> ver, uuid |-> u]
Datagrams == [kind : {"search", "alive", "byebye"}, client : Clients,
              ver : IpVers, uuid : 0 .. MaxServers]

Init ==
  /\ now = 0 /\ uuid = 0 /\ server = "off" /\ wentAt = [u \in Uuids |-> 0]
  /\ lastNotify = [v \in IpVers |-> 0] /\ net = {}
  /\ searching = [c \in Clients |-> FALSE]
  /\ lastSearch = [c \in Clients |-> 0] /\ handling = [c \in Clients |-> TRUE]
  /\ cache = [c \in Clients |-> NoEntries] /\ owed = [c \in Clients |-> 0] /\ faults = 0

-----------------------------------------------------------------------------
(* Sending.  A multicast reaches every process with a handler that reads.  *)

\* sendNotifyHeader on one interface.
NotifyAlive(ver, u) == {Alive(c, ver, u) : c \in {x \in Clients : handling[x]}}
NotifyByebye(ver, u) == {Byebye(c, ver, u) : c \in {x \in Clients : handling[x]}}

\* sendSearchHeader on one interface: only a server answers it.
SearchHeader(c, ver) == IF server \in {"up", "done"} THEN {Search(c, ver)} ELSE {}

\* The response, at a process whose handler may have ended.
Response(ver, u, receiver) == IF handling[receiver] THEN {Alive(receiver, ver, u)} ELSE {}

\* A faulty variant: only the response is sent.
AnswersUnicast(ver, u, receiver) == Response(ver, u, receiver)

\* handleSearchRequest: the response goes to one process of the client's host, which
\* need not be the one that asked; the notification goes to all.
Answers(ver, u, receiver) == Response(ver, u, receiver) \cup NotifyAlive(ver, u)

\* A faulty variant, and perhaps what was meant: a period has passed since the last.
TriggeredSince(last) == now >= last + Trigger

\* The periodic messages are due when the last was sent later than a whole period
\* from now: the tests of lines 311 and 317 as they are written.
Triggered(last) == last > now + Trigger

-----------------------------------------------------------------------------
(* The server.                                                             *)

\* A server starts: registerService notifies at once.
Boot ==
  /\ server = "off" /\ uuid < MaxServers
  /\ uuid' = uuid + 1 /\ server' = "up" /\ lastNotify' = [v \in IpVers |-> now]
  /\ net' = net \cup UNION {NotifyAlive(v, uuid + 1) : v \in IpVers}
  /\ UNCHANGED << now, wentAt, callVars, handling, cache, owed, faults >>

\* At most one datagram of each interface.
OneEach(got) == \A m, n \in got : m.ver = n.ver => m = n

\* A turn of handlerLoop: one search of each interface that has some, then the
\* periodic notification where it is due.
ServerTurn ==
  /\ server \in {"up", "done"}
  /\ \E got \in SUBSET {m \in net : m.kind = "search"}, receiver \in Clients :
       LET asked == {m.ver : m \in got}
           due == {v \in IpVers \ asked : Triggered(lastNotify[v])}
       IN /\ OneEach(got)
          /\ net' = (net \ got) \cup UNION {Answers(v, uuid, receiver) : v \in asked}
                               \cup UNION {NotifyAlive(v, uuid) : v \in due}
          /\ lastNotify' = [v \in IpVers |-> IF v \in asked \cup due THEN now ELSE lastNotify[v]]
  /\ UNCHANGED << now, uuid, server, wentAt, callVars, handling, cache, owed, faults >>

\* The destructor sets done; the thread may be in its last turn.
Stop ==
  /\ server = "up" /\ server' = "done"
  /\ UNCHANGED << now, uuid, wentAt, lastNotify, net, callVars, handling, cache, owed, faults >>

\* What is left at a server that goes is read by nobody.
Unread == {m \in net : m.kind = "search"}
Gone == server' = "off" /\ wentAt' = [wentAt EXCEPT ![uuid] = now] /\ UNCHANGED uuid

\* The thread leaves its loop and takes leave on every interface.
Leave ==
  /\ server = "done" /\ Gone
  /\ net' = (net \ Unread) \cup UNION {NotifyByebye(v, uuid) : v \in IpVers}
  /\ lastNotify' = [v \in IpVers |-> now]
  /\ UNCHANGED << now, callVars, handling, cache, owed, faults >>

\* The process is killed, or ends after its handler has.
Killed ==
  /\ server # "off" /\ Gone /\ net' = net \ Unread
  /\ UNCHANGED << now, lastNotify, callVars, handling, cache, owed, faults >>

\* An error of select or recvfrom ends the handler without a leave.
ServerDeaf ==
  /\ server \in {"up", "done"} /\ faults < MaxFaults /\ faults' = faults + 1
  /\ server' = "deaf" /\ net' = net \ Unread /\ owed' = [c \in Clients |-> 0]
  /\ UNCHANGED << now, uuid, wentAt, lastNotify, callVars, handling, cache >>

-----------------------------------------------------------------------------
(* A client.                                                               *)

\* The first call of getServerURLs sends a search, and sleeps with the lock released.
\* What it does then, and what later calls do at once, is to read the cache: Results.
FirstCall(c) ==
  /\ ~searching[c] /\ searching' = [searching EXCEPT ![c] = TRUE]
  /\ net' = net \cup UNION {SearchHeader(c, v) : v \in IpVers}
  /\ lastSearch' = [lastSearch EXCEPT ![c] = now]
  /\ owed' = [owed EXCEPT ![c] = IF handling[c] /\ server = "up" THEN uuid ELSE 0]
  /\ UNCHANGED << now, serverVars, handling, cache, faults >>

Without(entries, u) == [w \in DOMAIN entries \ {u} |-> entries[w]]

\* handleRegisterService.
Registered(entries, m) ==
  IF m.kind = "byebye" THEN Without(entries, m.uuid)
  ELSE [u \in {m.uuid} \cup DOMAIN entries |->
          IF u = m.uuid THEN now + Duration ELSE entries[u]]

\* A faulty variant: entries of servers do not expire.
UnexpiredAll(entries) == entries

\* The entries that a turn keeps.
Unexpired(entries) == [u \in {w \in DOMAIN entries : entries[w] > now} |-> entries[u]]

\* A turn of handlerLoop: one datagram of each interface that has some, in any order,
\* then the entries that are over, then the periodic search.
Turn(c) ==
  /\ handling[c]
  /\ \E got \in SUBSET {m \in net : m.client = c /\ m.kind # "search"} :
       /\ OneEach(got)
       /\ cache' = [cache EXCEPT ![c] = [v \in IpVers |-> Unexpired(
            IF \E m \in got : m.ver = v
              THEN Registered(cache[c][v], CHOOSE m \in got : m.ver = v)
              ELSE cache[c][v])]]
       /\ IF searching[c] /\ Triggered(lastSearch[c])
            THEN /\ net' = (net \ got) \cup UNION {SearchHeader(c, v) : v \in IpVers}
                 /\ lastSearch' = [lastSearch EXCEPT ![c] = now]
            ELSE net' = net \ got /\ UNCHANGED lastSearch
  /\ UNCHANGED << now, serverVars, searching, handling, owed, faults >>

\* An error of select or recvfrom ends the handler; the cache stays as it is, and what
\* the client has sent is on its way all the same.
ClientDeaf(c) ==
  /\ handling[c] /\ faults < MaxFaults /\ faults' = faults + 1
  /\ handling' = [handling EXCEPT ![c] = FALSE]
  /\ net' = {m \in net : m.client # c \/ m.kind = "search"}
  /\ owed' = [owed EXCEPT ![c] = 0]
  /\ UNCHANGED << now, serverVars, callVars, cache >>

-----------------------------------------------------------------------------
(* The environment.                                                        *)

\* A datagram is lost, and with it what it was to tell.
Lose ==
  /\ faults < MaxFaults /\ faults' = faults + 1
  /\ \E m \in net : net' = net \ {m} /\ owed' = [owed EXCEPT ![m.client] = 0]
  /\ UNCHANGED << now, serverVars, callVars, handling, cache >>

\* A tick is longer than anything that is under way: every datagram was read, and
\* every handler has had a turn at this time, with nothing left for it to do.
Quiet ==
  /\ net = {} /\ server # "done"
  /\ server = "up" => \A v \in IpVers : ~Triggered(lastNotify[v])
  /\ \A c \in Clients : handling[c] =>
       /\ searching[c] => ~Triggered(lastSearch[c])
       /\ \A v \in IpVers : Unexpired(cache[c][v]) = cache[c][v]

Tick ==
  /\ Quiet /\ now < MaxTime /\ now' = now + 1
  /\ UNCHANGED << serverVars, net, callVars, handling, cache, owed, faults >>

Next ==
  \/ Boot \/ ServerTurn \/ Stop \/ Leave \/ Killed \/ ServerDeaf
  \/ Lose \/ Tick
  \/ \E c \in Clients : FirstCall(c) \/ Turn(c) \/ ClientDeaf(c)

Spec == Init /\ [][Next]_vars

\* The clients are interchangeable.
ClientSymmetry == Permutations(Clients)

-----------------------------------------------------------------------------
(* What a call returns.                                                    *)

\* getServerURLs of the endpoint: the cache as it is.
ServerURLs(c) ==
  [u \in UNION {DOMAIN cache[c][v] : v \in IpVers} |->
     [v \in {w \in IpVers : u \in DOMAIN cache[c][w]} |-> Url(v)]]

\* What mDNS may answer: server processes of now and before, that it still remembers.
MdnsURLs ==
  {[u \in remembered |-> [v \in IpVers |-> Url(v)]] : remembered \in SUBSET (1 .. uuid)}

\* getServerURLs of the device.
Results(c) ==
  {D!Listed(D!Merged(ServerURLs(c), mdns), ver) : mdns \in MdnsURLs, ver \in IpVers}

\* Devices as a server may list them, with little and with much; each value stands for any.
DeviceArgs ==
  {[k \in {D!Driver} \cup keys |-> k.name] :
     keys \in {{D!Key(0, "serial")}, {D!Type, D!Stop, D!Key(0, "serial")}}}

-----------------------------------------------------------------------------
(* Properties.                                                             *)

\* Every variable has its type: entries are of server processes that have been, and
\* expire a cache duration from now at the latest.
TypeOK ==
  /\ now \in 0 .. MaxTime /\ uuid \in 0 .. MaxServers
  /\ server \in {"off", "up", "done", "deaf"}
  /\ wentAt \in [Uuids -> 0 .. now] /\ lastNotify \in [IpVers -> 0 .. now]
  /\ net \subseteq Datagrams
  /\ searching \in [Clients -> BOOLEAN]
  /\ lastSearch \in [Clients -> 0 .. now] /\ handling \in [Clients -> BOOLEAN]
  /\ \A c \in Clients, v \in IpVers :
       /\ DOMAIN cache[c][v] \subseteq 1 .. uuid
       /\ \A u \in DOMAIN cache[c][v] : cache[c][v][u] \in 0 .. now + Duration
  /\ owed \in [Clients -> 0 .. MaxServers]
  /\ faults \in 0 .. MaxFaults

\* A server process that has gone, with or without a leave, and whatever was lost or
\* overtaken, is in no cache any more when a cache duration is over, unless the handler
\* of the client has ended on an error: then nobody clears the cache.
GoneForgotten ==
  \A c \in Clients, v \in IpVers : handling[c] =>
    \A u \in DOMAIN cache[c][v] : (u = uuid /\ server # "off") \/ now <= wentAt[u] + Duration

\* The cache holds server processes of now and, for a cache duration, those of before.
CacheInv == TypeOK /\ GoneForgotten

\* A search finds: when no datagram of the client was lost, the server process that ran
\* when it was sent and still does is in the cache under every IP version, or on the
\* way there, and stays for a cache duration, also when the response went to another
\* process of the host.
SearchReaches ==
  \A c \in Clients, v \in IpVers :
    server = "up" /\ owed[c] = uuid /\ now < lastSearch[c] + Duration =>
      uuid \in DOMAIN cache[c][v] \/ Search(c, v) \in net \/ Alive(c, v, uuid) \in net

\* Whatever mDNS still remembers and the cache still holds, no URL is listed for two
\* server processes: devices of one server are not found twice under the same URL.
ListedOnce ==
  \A c \in Clients : \A result \in Results(c) :
    \A u, w \in DOMAIN result : result[u] = result[w] => u = w

\* A server that the cache knows is listed, under the UUID of its process or of one
\* that was there before it: the filter of duplicates drops all but one.
KnownListed ==
  \A c \in Clients : (\E v \in IpVers : uuid \in DOMAIN cache[c][v]) =>
    \A result \in Results(c) : \E u \in DOMAIN result, v \in IpVers : result[u] = Url(v)

\* Each server is listed, and once.
ListedRight == ListedOnce /\ KnownListed

\* What an application got from find it can give to make: after both translations the
\* server gets every argument of the device that it listed, at each URL that is known.
ArgsReturn ==
  \A v \in IpVers : (\E c \in Clients : DOMAIN cache[c][v] # {}) =>
    \A args \in DeviceArgs : D!RoundTrip(args, Url(v))

\* Line 42: "How often search and notify packets are triggered": a client that searches
\* does so again when the trigger timeout is over.
SearchesAgain ==
  \A c \in Clients : searching[c] /\ handling[c] => now <= lastSearch[c] + Trigger
=============================================================================
