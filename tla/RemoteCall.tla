----------------------------- MODULE RemoteCall -----------------------------
(***************************************************************************)
(* One call of a remote device from end to end: the client packs it        *)
(* (client/Settings.cpp, client/Streaming.cpp), the handler unpacks it,    *)
(* calls the device and packs what that gives                              *)
(* (server/ClientHandler.cpp), and the client unpacks the reply.  The      *)
(* calls are those of DeviceCalls, the operators & those of RpcTypes.      *)
(*                                                                         *)
(* Either side may be older than the step of ranges: such a side neither   *)
(* sends nor expects it, as this code when it talks to such a side.  The   *)
(* SoapySDR of the server may lack all the methods behind an #ifdef.       *)
(* Shown to implement LocalCalls.                                          *)
(***************************************************************************)
EXTENDS RpcTypes, DeviceCalls

CONSTANTS OldVersion,  \* a version without the step
          Samples(_)   \* Samples(type): the values that are passed and given

ASSUME VersionAssumption == OldVersion \in Int /\ OldVersion < SoapyRPCVersion
\* A map leaves room for the entry that GET_HARDWARE_INFO adds.
ASSUME SamplesAssumption ==
  /\ \A type \in DOMAIN TypeBytes : \A v \in Samples(type) : IsA(type, v)
  /\ \A v \in Samples("kwargs") : Cardinality(DOMAIN v) + 1 \in Ints

ASSUME CallsAssumption == {c.code : c \in ClientCalls} \subseteq Calls

VARIABLES at, method, args, device, outcome, build,   \* as in LocalCalls
          request,  \* the message of the client: << >> or one record
          replies,  \* the messages of the server
          unread    \* tokens of a payload left when its unpacker was deleted

vars == << at, method, args, device, outcome, build, request, replies, unread >>

\* This code on both sides, or one side older, or a server without the methods.
Builds == LET This == [client |-> SoapyRPCVersion, server |-> SoapyRPCVersion, full |-> TRUE]
          IN {This, [This EXCEPT !.client = OldVersion], [This EXCEPT !.server = OldVersion],
              [This EXCEPT !.full = FALSE]}

Methods == {c.method : c \in ClientCalls}
CallOf  == [m \in Methods |-> CHOOSE c \in ClientCalls : c.method = m]
\* remote:prot is among the packed arguments and selects the branch of the handler.
Tcp(m) == m = "setupStream/tcp"
Codes == {c.code : c \in ClientCalls}
CasesFor(tcp, code) == {c \in HandlerCases(tcp) : c.code = code}
CaseOf == [tcp \in BOOLEAN |-> [code \in Codes |-> CasesFor(tcp, code)]]

Types(params) == [i \in DOMAIN params |-> params[i][2]]
-----------------------------------------------------------------------------
(* Values.                                                                 *)

\* What the handler packs when the device is not called; a double that is left
\* uninitialised (GET_REF_CLOCK_RATE) may be anything.
Default(code, type) ==
  CASE type = "bool" -> {FALSE}
    [] type = "double" -> IF code = "GET_REF_CLOCK_RATE" THEN Samples("double") ELSE {Double(0, 0)}
    [] type = "unsigned" -> {0}
    [] OTHER -> {<< >>}

\* The sequences with an element of each set.
Products(sets) ==
  LET first[n \in 0 .. Len(sets)] ==
        IF n = 0 THEN {<< >>} ELSE {Append(s, v) : s \in first[n - 1], v \in sets[n]}
  IN first[Len(sets)]
ValuesOf(types) == Products([i \in DOMAIN types |-> Samples(types[i])])

AllTypes(packs) == FlattenSeq(packs)

Named(params, values) ==
  [n \in {params[i][1] : i \in DOMAIN params} |->
     values[CHOOSE i \in DOMAIN params : params[i][1] = n]]

\* What a caller may pass, and what the device (or the handler, for the ports and
\* ids of a stream) may give.
Passed == [m \in Methods |->
             LET sends == CallOf[m].sends IN {Named(sends, v) : v \in ValuesOf(Types(sends))}]
Values(v) == [threw |-> FALSE, values |-> v]
Threw == [threw |-> TRUE, values |-> << >>]
Given == [m \in Methods |->
            {Threw} \cup {Values(v) : v \in ValuesOf(AllTypes(CallOf[m].replies))}]

\* What is given for a method that the server's SoapySDR does not have.
Stand ==
  [m \in Methods |->
     LET types == AllTypes(CallOf[m].replies)
     IN {Values(v) : v \in Products([i \in DOMAIN types |-> Default(CallOf[m].code, types[i])])}]
-----------------------------------------------------------------------------
Init == /\ build \in Builds
        /\ at = "idle" /\ method = "none" /\ args = << >> /\ device = << >> /\ outcome = << >>
        /\ request = << >> /\ replies = << >> /\ unread = 0

\* A method of SoapyRemoteDevice packs its call and sends it.
Ask(m) ==
  /\ at = "idle" /\ at' = "asked" /\ method' = m
  /\ args' \in Passed[m]
  /\ LET c == CallOf[m]
     IN request' =
          << [version |-> build.client,
              tokens |-> PackAs("call", c.code, SoapyRPCVersion)
                         \o PackAll(Types(c.sends),
                                    [i \in DOMAIN c.sends |-> args'[c.sends[i][1]]],
                                    SoapyRPCVersion)] >>
  /\ UNCHANGED << device, outcome, build, replies, unread >>

\* The version that decides on the step: an old side never has it.
Agreed(own, remote) == IF own < SoapyRPCVersion THEN own ELSE remote

\* The reply messages of a case for the values that the device gave.
Replies(packs, values) ==
  LET From(i) == Len(AllTypes(SubSeq(packs, 1, i - 1))) + 1
      Body(i) == IF packs[i] = << >> THEN PackAs("void", 0, build.server)
                 ELSE PackAll(packs[i], SubSeq(values, From(i), From(i) + Len(packs[i]) - 1),
                              Agreed(build.server, request[1].version))
  IN [i \in DOMAIN packs |-> [version |-> build.server, tokens |-> Body(i)]]

Excuse == << [version |-> build.server, 
             tokens |-> PackAs("exception", << 1 >>, build.server)] >>

\* GET_HARDWARE_INFO adds the version of the server to what the device gave.
WithVersion(info) ==
  [key \in DOMAIN info \cup {<< 9 >>} |-> IF key = << 9 >> THEN << 9 >> ELSE info[key]]
Amended(code, values) ==
  IF code = "GET_HARDWARE_INFO" THEN << WithVersion(values[1]) >> ELSE values

\* handleOnce: the call, then what its case does.  An exception of an unpacker, of the
\* device or of the default case is packed instead of the result.
Answer ==
  /\ at = "asked" /\ at' = "answered"
  /\ LET code  == UnpackAs("call", Received(request[1].tokens), request[1].version)
         cases == IF code.ok THEN CaseOf[Tcp(method)][code.got] ELSE {}
         case  == CHOOSE c \in cases : TRUE
         read  == UnpackAll(Types(case.reads), code, request[1].version)
     IN IF cases = {} \/ ~ read.ok
        THEN device' = << >> /\ replies' = Excuse /\ unread' = Len(code.in)
        ELSE /\ unread' = Len(read.in)
             /\ \/ /\ case.feature = "always" \/ build.full
                   /\ \E g \in Given[case.method] :
                        /\ device' = << [method |-> case.method,
                                         args |-> Named(case.reads, read.got), gave |-> g] >>
                        /\ replies' = IF g.threw THEN Excuse
                                      ELSE Replies(case.packs, Amended(case.code, g.values))
                \/ /\ case.feature # "always" /\ ~ build.full
                   /\ device' = << >>
                   /\ \E v \in Stand[case.method] : replies' = Replies(case.packs, v.values)
  /\ UNCHANGED << method, args, outcome, build, request >>

\* The unpackers of the client, one for each reply that the method reads.
Return ==
  /\ at = "answered" /\ at' = "done"
  /\ LET awaits == CallOf[method].replies
         Read(i) == IF i > Len(replies) THEN [Reader(<< >>) EXCEPT !.ok = FALSE]
                    ELSE UnpackAll(awaits[i], Received(replies[i].tokens),
                                   Agreed(build.client, replies[i].version))
         fine == \A i \in DOMAIN awaits : Read(i).ok
     IN /\ outcome' = << IF fine THEN Values(FlattenSeq([i \in DOMAIN awaits |-> Read(i).got]))
                         ELSE Threw >>
        /\ unread' = unread + IF fine THEN Len(FlattenSeq([i \in DOMAIN awaits |-> Read(i).in]))
                              ELSE Len(Read(1).in)
  /\ UNCHANGED << method, args, device, build, request, replies >>

Rest == /\ at = "done" /\ at' = "idle"
        /\ method' = "none" /\ args' = << >> /\ device' = << >> /\ outcome' = << >>
        /\ request' = << >> /\ replies' = << >> /\ unread' = 0
        /\ UNCHANGED build

Next == (\E m \in Methods : Ask(m)) \/ Answer \/ Return \/ Rest

Spec == Init /\ [][Next]_vars
-----------------------------------------------------------------------------
(* Properties.                                                             *)

Messages(of) == IF of = "request" THEN request ELSE replies
\* The number of a call is left out: calls have their names here.
IntsFit(tokens) ==
  \A k \in 4 .. Len(tokens) :
    tokens[k - 1].kind = "tag" /\ tokens[k - 1].of = "INT32"
      => tokens[k].of \in -2^(IntBits - 1) .. 2^(IntBits - 1) - 1

\* Ints fit their width on the wire, messages are there when they are read, and the
\* caller has an outcome exactly at the end of a call.
TypeOK ==
  /\ at \in {"idle", "asked", "answered", "done"}
  /\ method \in Methods \cup {"none"} /\ build \in Builds /\ unread \in Nat
  /\ \A msgs \in {"request", "replies"} :
       \A i \in DOMAIN Messages(msgs) : IntsFit(Messages(msgs)[i].tokens)
  /\ Len(outcome) = IF at = "done" THEN 1 ELSE 0

\* Both sides take every message apart to its end: no "Unconsumed payload bytes" and
\* nothing that a later value would be read from (SoapyRPCUnpacker.cpp:69).
AllConsumed == unread = 0

\* Messages are well formed and fit their readers.
CallInv == TypeOK /\ AllConsumed

Optional == {m \in Methods : \E c \in CaseOf[Tcp(m)][CallOf[m].code] : c.feature # "always"}
Absent(m, b) == ~ b.full /\ m \in Optional

Delivered(m, b, g) ==
  LET types == AllTypes(CallOf[m].replies)
      known == Amended(CallOf[m].code, g.values)
  IN IF g.threw THEN Threw
     ELSE Values([i \in DOMAIN types |->
                    IF {b.client, b.server} = {SoapyRPCVersion} THEN known[i]
                    ELSE Stepless(types[i], known[i])])

Local == INSTANCE LocalCalls
\* A call of the remote device is a call of a local one: the same method with the same
\* arguments, and the same values or an exception, with every build of both sides.
LocalSpec == Local!Spec
=============================================================================
