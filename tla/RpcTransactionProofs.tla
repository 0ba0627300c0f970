------------------------- MODULE RpcTransactionProofs -------------------------
(***************************************************************************)
(* Messages stay whole and replies go to their own calls: theorems about   *)
(* RpcTransaction for any number of threads and calls.                     *)
(***************************************************************************)
EXTENDS RpcTransaction, FiniteSets, FiniteSetTheorems, TLAPS

Busy == {"waiting", "payload", "connecting"}

-----------------------------------------------------------------------------
(* The frame: heads and rests of messages alternate.                       *)

\* The threads that are in a call hold the mutex, and none is when the client has gone.
Mutex ==
  /\ \A t \in Threads : pc[t] \in Busy => t \in holder /\ client = "up"
  /\ client = "up" => \A t \in holder : pc[t] \in Busy

\* The handler has the number of a call when it answers, and is over when the server is.
Serving ==
  /\ handler \in {"running", "accepting"} => serving.id \in 1 .. MaxCalls
  /\ IF server = "up" THEN handler # "gone" ELSE handler \in {"ended", "gone"}

\* Pieces on their way alternate; the first is a rest when the reader is in a message.
Alternates(seq, inside) ==
  /\ seq # << >> => seq[1].part = IF inside THEN "rest" ELSE "head"
  /\ \A i \in 1 .. Len(seq) - 1 : seq[i].part # seq[i + 1].part

\* A writer that is there has sent whole messages.
Whole(seq, inside) == IF seq = << >> THEN ~ inside ELSE seq[Len(seq)].part = "rest"

Reading == \E t \in Threads : pc[t] = "payload"

Framed ==
  /\ Alternates(toClient, Reading) /\ (server = "up" => Whole(toClient, Reading))
  /\ Alternates(toServer, handler = "payload")
  /\ client = "up" => Whole(toServer, handler = "payload")

FrameInv == TypeOK /\ Mutex /\ Serving /\ Framed

-----------------------------------------------------------------------------
(* What the steps do to the pieces on their way.                           *)

\* Reading a piece takes the reader into a message, or out of it.
LEMMA TailFramed ==
  ASSUME NEW kinds, NEW seq \in Seq(Pieces(kinds)), seq # << >>,
         NEW inside \in BOOLEAN, Alternates(seq, inside)
  PROVE  /\ Tail(seq) \in Seq(Pieces(kinds)) /\ Alternates(Tail(seq), ~ inside)
         /\ Whole(seq, inside) => Whole(Tail(seq), ~ inside)
         /\ seq[1] \in Pieces(kinds) /\ Head(seq) = seq[1]
         /\ Len(Tail(seq)) = Len(seq) - 1
         /\ \A i \in 1 .. Len(Tail(seq)) : Tail(seq)[i] = seq[i + 1]
<1> DEFINE rest == Tail(seq)
<1>1. /\ rest \in Seq(Pieces(kinds)) /\ Len(rest) = Len(seq) - 1 /\ Len(seq) \in Nat \ {0}
      /\ \A i \in 1 .. Len(rest) : rest[i] = seq[i + 1]
      /\ Head(seq) = seq[1] /\ seq[1] \in Pieces(kinds)
  OBVIOUS
<1>2. \A i \in 1 .. Len(seq) : seq[i].part \in {"head", "rest"}
  <2> TAKE i \in 1 .. Len(seq)
  <2>1. seq[i] \in Pieces(kinds)
    OBVIOUS
  <2> QED BY <2>1 DEF Pieces
<1>3. rest # << >> => rest[1].part = IF ~ inside THEN "rest" ELSE "head"
  <2> SUFFICES ASSUME rest # << >>
               PROVE  rest[1].part = IF ~ inside THEN "rest" ELSE "head"
    OBVIOUS
  <2>1. Len(rest) > 0 /\ 1 \in 1 .. Len(seq) - 1 /\ 2 \in 1 .. Len(seq)
    BY <1>1
  <2>2. rest[1] = seq[2] /\ seq[1].part # seq[2].part
    BY <1>1, <2>1 DEF Alternates
  <2> QED BY <1>2, <2>1, <2>2 DEF Alternates
<1>4. \A i \in 1 .. Len(rest) - 1 : rest[i].part # rest[i + 1].part
  <2> TAKE i \in 1 .. Len(rest) - 1
  <2>1. rest[i] = seq[i + 1] /\ rest[i + 1] = seq[i + 2] /\ i + 1 \in 1 .. Len(seq) - 1
    BY <1>1
  <2>2. seq[i + 1].part # seq[(i + 1) + 1].part
    BY <2>1 DEF Alternates
  <2> QED BY <2>1, <2>2
<1> HIDE DEF rest
<1>5. Whole(seq, inside) => Whole(rest, ~ inside)
  <2>1. CASE rest = << >>
    <3>1. Len(seq) = 1
      BY <1>1, <2>1
    <3> QED BY <2>1, <3>1 DEF Alternates, Whole
  <2>2. CASE rest # << >>
    <3>1. rest[Len(rest)] = seq[Len(seq)]
      BY <1>1, <2>2
    <3> QED BY <2>2, <3>1 DEF Whole
  <2> QED BY <2>1, <2>2
<1>6. Alternates(rest, ~ inside)
  BY <1>3, <1>4 DEF Alternates
<1> QED BY <1>1, <1>5, <1>6 DEF rest

\* A message is sent behind what is on its way,
LEMMA MessageSent ==
  ASSUME NEW kinds, NEW seq \in Seq(Pieces(kinds)), NEW id \in 1 .. MaxCalls, NEW kind \in kinds
  PROVE  LET longer == seq \o Message(id, kind)
             n == Len(seq)
         IN /\ longer \in Seq(Pieces(kinds)) /\ n \in Nat /\ Len(longer) = n + 2
            /\ \A i \in 1 .. n : longer[i] = seq[i]
            /\ longer[n + 1].id = id /\ longer[n + 1].kind = kind
            /\ longer[n + 2].id = id /\ longer[n + 2].kind = kind
            /\ longer[n + 1].part = "head" /\ longer[n + 2].part = "rest"
<1> DEFINE longer == seq \o Message(id, kind)
           n == Len(seq)
           head == [id |-> id, kind |-> kind, part |-> "head"]
           rest == [id |-> id, kind |-> kind, part |-> "rest"]
<1>1. head \in Pieces(kinds) /\ rest \in Pieces(kinds)
  BY DEF Pieces
<1>2. /\ Message(id, kind) = << head, rest >>
      /\ head.id = id /\ head.kind = kind /\ head.part = "head"
      /\ rest.id = id /\ rest.kind = kind /\ rest.part = "rest"
  BY DEF Message
<1> HIDE DEF head, rest
<1>3. /\ longer \in Seq(Pieces(kinds)) /\ n \in Nat /\ Len(longer) = n + 2
      /\ \A i \in 1 .. n : longer[i] = seq[i]
      /\ longer[n + 1] = head /\ longer[n + 2] = rest
  BY <1>1, <1>2
<1> HIDE DEF longer, n
<1>4. /\ longer[n + 1].id = id /\ longer[n + 1].kind = kind
      /\ longer[n + 2].id = id /\ longer[n + 2].kind = kind
      /\ longer[n + 1].part = "head" /\ longer[n + 2].part = "rest"
  BY <1>2, <1>3
<1> QED BY <1>3, <1>4 DEF longer, n

\* and is sent whole.
LEMMA MessageFramed ==
  ASSUME NEW kinds, NEW seq \in Seq(Pieces(kinds)), NEW inside \in BOOLEAN,
         NEW id \in 1 .. MaxCalls, NEW kind \in kinds,
         Alternates(seq, inside), Whole(seq, inside)
  PROVE  LET longer == seq \o Message(id, kind)
         IN /\ longer \in Seq(Pieces(kinds)) /\ Alternates(longer, inside)
            /\ Whole(longer, inside)
<1> DEFINE longer == seq \o Message(id, kind)
           n == Len(seq)
<1>1. /\ longer \in Seq(Pieces(kinds)) /\ n \in Nat /\ Len(longer) = n + 2
      /\ \A i \in 1 .. n : longer[i] = seq[i]
      /\ longer[n + 1].part = "head" /\ longer[n + 2].part = "rest"
  BY MessageSent
<1> HIDE DEF longer
<1>2. n > 0 => seq[n].part = "rest"
  BY <1>1 DEF Whole
<1>3. n = 0 => ~ inside
  <2> SUFFICES ASSUME n = 0 PROVE ~ inside
    OBVIOUS
  <2>1. seq = << >>
    OBVIOUS
  <2> QED BY <2>1 DEF Whole
<1>4. longer[1].part = IF inside THEN "rest" ELSE "head"
  <2>1. CASE n = 0
    BY <1>1, <1>3, <2>1
  <2>2. CASE n > 0
    <3>1. longer[1] = seq[1] /\ seq # << >>
      BY <1>1, <2>2
    <3> QED BY <3>1 DEF Alternates
  <2> QED BY <1>1, <2>1, <2>2
<1>5. \A i \in 1 .. Len(longer) - 1 : longer[i].part # longer[i + 1].part
  <2> TAKE i \in 1 .. Len(longer) - 1
  <2>1. CASE i < n
    <3>1. longer[i] = seq[i] /\ longer[i + 1] = seq[i + 1] /\ i \in 1 .. Len(seq) - 1
      BY <1>1, <2>1
    <3> QED BY <3>1 DEF Alternates
  <2>2. CASE i = n
    BY <1>1, <1>2, <2>2
  <2>3. CASE i = n + 1
    BY <1>1, <2>3
  <2> QED BY <1>1, <2>1, <2>2, <2>3
<1>6. Alternates(longer, inside)
  BY <1>4, <1>5 DEF Alternates
<1>7. Whole(longer, inside)
  <2>1. longer # << >> /\ Len(longer) = n + 2
    BY <1>1
  <2> QED BY <1>1, <2>1 DEF Whole
<1> QED BY <1>1, <1>6, <1>7 DEF longer

\* What is left of a stream whose writer has gone.
LEMMA PrefixFramed ==
  ASSUME NEW kinds, NEW seq \in Seq(Pieces(kinds)), NEW inside \in BOOLEAN,
         Alternates(seq, inside), NEW n \in 0 .. Len(seq)
  PROVE  /\ SubSeq(seq, 1, n) \in Seq(Pieces(kinds)) /\ Alternates(SubSeq(seq, 1, n), inside)
         /\ Len(SubSeq(seq, 1, n)) = n
         /\ \A i \in 1 .. n : SubSeq(seq, 1, n)[i] = seq[i]
<1> DEFINE left == SubSeq(seq, 1, n)
<1>1. /\ left \in Seq(Pieces(kinds)) /\ Len(left) = n /\ Len(seq) \in Nat
      /\ \A i \in 1 .. n : left[i] = seq[i]
  OBVIOUS
<1> HIDE DEF left
<1>2. left # << >> => left[1] = seq[1] /\ seq # << >>
  BY <1>1
<1>3. \A i \in 1 .. Len(left) - 1 : left[i].part # left[i + 1].part
  <2> TAKE i \in 1 .. Len(left) - 1
  <2>1. left[i] = seq[i] /\ left[i + 1] = seq[i + 1] /\ i \in 1 .. Len(seq) - 1
    BY <1>1
  <2> QED BY <2>1 DEF Alternates
<1> QED BY <1>1, <1>2, <1>3 DEF Alternates, left

\* Nothing on its way is in order.
LEMMA EmptyFramed ==
  ASSUME NEW kinds
  PROVE  /\ << >> \in Seq(Pieces(kinds))
         /\ \A inside \in BOOLEAN : Alternates(<< >>, inside)
         /\ Whole(<< >>, FALSE)
BY DEF Alternates, Whole

\* The thread that is in a call is the only one, and it is what reads.
LEMMA OneBusy ==
  ASSUME FrameInv, NEW t \in Threads, pc[t] \in Busy
  PROVE  holder = {t} /\ client = "up" /\ (Reading <=> pc[t] = "payload")
<1>1. t \in holder /\ client = "up" /\ holder = {t}
  BY DEF FrameInv, TypeOK, Mutex
<1>2. \A u \in Threads : pc[u] = "payload" => u = t
  BY <1>1 DEF FrameInv, TypeOK, Mutex, Busy
<1> QED BY <1>1, <1>2 DEF Reading

\* A method that ends gives the mutex back, and nobody reads any more.
LEMMA EndFrames ==
  ASSUME FrameInv, NEW t \in Threads, pc[t] \in Busy, NEW n \in 0 .. MaxCalls, End(t, n)
  PROVE  /\ pc' \in [Threads -> {"idle", "waiting", "payload", "connecting", "gone"}]
         /\ holder' = {} /\ asked' \in 0 .. MaxCalls
         /\ call' \in [Threads -> [id : 0 .. MaxCalls, kind : Kinds]]
         /\ got' \in [Threads -> 0 .. MaxCalls]
         /\ client' \in {"up"} \cup Ways
         /\ Mutex' /\ Reading' = FALSE
<1>1. holder = {t} /\ client = "up" /\ (Reading <=> pc[t] = "payload")
  BY OneBusy
<1>2. \A u \in Threads : pc'[u] \notin Busy
  <2> TAKE u \in Threads
  <2>1. CASE u = t
    BY <2>1 DEF End, FrameInv, TypeOK, Busy
  <2>2. CASE u # t
    <3>1. pc'[u] = pc[u]
      BY <2>2 DEF End, FrameInv, TypeOK
    <3> QED BY <1>1, <2>2, <3>1 DEF FrameInv, Mutex
  <2> QED BY <2>1, <2>2
<1>3. Reading' = FALSE
  BY <1>2 DEF Reading, Busy
<1>4. Mutex'
  BY <1>2 DEF Mutex, End
<1>5. client' \in {"up"} \cup Ways
  BY <1>1 DEF End, Ways
<1> QED BY <1>3, <1>4, <1>5 DEF End, FrameInv, TypeOK

\* What is read of the client's stream.
LEMMA TailRead ==
  ASSUME FrameInv, NEW t \in Threads, pc[t] \in {"waiting", "payload"}, toClient # << >>,
         toClient' = Tail(toClient), Reading' = (pc[t] = "waiting"), UNCHANGED server
  PROVE  /\ toClient' \in Seq(Pieces(Replies)) /\ Alternates(toClient, Reading)'
         /\ (server = "up" => Whole(toClient, Reading))'
<1>1. Reading = (pc[t] = "payload") /\ Reading \in BOOLEAN
  BY OneBusy DEF Busy, Reading
<1>2. Reading' = ~ Reading
  BY <1>1
<1>3. toClient \in Seq(Pieces(Replies)) /\ Alternates(toClient, Reading)
  BY DEF FrameInv, TypeOK, Framed
<1>4. /\ Tail(toClient) \in Seq(Pieces(Replies)) /\ Alternates(Tail(toClient), ~ Reading)
      /\ Whole(toClient, Reading) => Whole(Tail(toClient), ~ Reading)
  BY <1>1, <1>3, TailFramed
<1>5. server = "up" => Whole(toClient, Reading)
  BY DEF FrameInv, Framed
<1>6. Alternates(toClient', Reading') /\ (server' = "up" => Whole(toClient', Reading'))
  BY <1>2, <1>4, <1>5
<1> QED BY <1>4, <1>6

LEMMA SendFrames ==
  ASSUME CallsAssumption, FrameInv, NEW t \in Threads, NEW kind \in Kinds, Begin(t, kind)
  PROVE  FrameInv'
<1> USE DEF Begin, Send
<1>1. holder = {} /\ holder' = {t} /\ client = "up" /\ asked + 1 \in 1 .. MaxCalls
  BY CallsAssumption DEF FrameInv, TypeOK, CallsAssumption
<1>2. \A u \in Threads : pc[u] \notin Busy
  BY <1>1 DEF FrameInv, Mutex
<1>3. \A u \in Threads : pc'[u] = IF u = t THEN "waiting" ELSE pc[u]
  BY DEF FrameInv, TypeOK
<1>4. Mutex'
  BY <1>1, <1>2, <1>3 DEF Mutex, Busy
<1>5. Reading' = Reading
  BY <1>2, <1>3 DEF Reading, Busy
<1>6. toServer \in Seq(Pieces(Kinds)) /\ Alternates(toServer, handler = "payload")
      /\ Whole(toServer, handler = "payload")
  BY <1>1 DEF FrameInv, TypeOK, Framed
<1>7. /\ toServer' \in Seq(Pieces(Kinds)) /\ Alternates(toServer', handler = "payload")
      /\ Whole(toServer', handler = "payload")
  <2>1. CASE server = "up"
    <3> DEFINE inside == handler = "payload"
    <3>1. inside \in BOOLEAN /\ toServer \in Seq(Pieces(Kinds)) /\ asked + 1 \in 1 .. MaxCalls
          /\ Alternates(toServer, inside) /\ Whole(toServer, inside)
      BY <1>1, <1>6
    <3> HIDE DEF inside
    <3>2. /\ toServer \o Message(asked + 1, kind) \in Seq(Pieces(Kinds))
          /\ Alternates(toServer \o Message(asked + 1, kind), inside)
          /\ Whole(toServer \o Message(asked + 1, kind), inside)
      BY <3>1, MessageFramed
    <3> QED BY <2>1, <3>2 DEF inside
  <2>2. CASE server # "up"
    BY <1>6, <2>2
  <2> QED BY <2>1, <2>2
<1>8. Framed'
  <2>1. handler' = handler /\ toClient' = toClient /\ server' = server
    BY DEF handlerVars
  <2>2. Alternates(toServer', handler' = "payload") /\ Whole(toServer', handler' = "payload")
    BY <1>7, <2>1
  <2>3. Alternates(toClient', Reading') /\ (server' = "up" => Whole(toClient', Reading'))
    BY <1>5, <2>1 DEF FrameInv, Framed
  <2> QED BY <2>2, <2>3 DEF Framed
<1>9. TypeOK'
  BY <1>1, <1>7 DEF FrameInv, TypeOK, handlerVars
<1>10. Serving'
  BY DEF FrameInv, Serving, handlerVars
<1> QED BY <1>4, <1>8, <1>9, <1>10 DEF FrameInv

\* The client's stream is only read, or left as it is.
LEMMA ReceiveFrames ==
  ASSUME CallsAssumption, FrameInv, NEW t \in Threads, Receive(t) \/ Dial(t)
  PROVE  FrameInv'
<1> USE DEF Busy
<1>1. /\ toServer' = toServer /\ handler' = handler /\ serving' = serving /\ server' = server
      /\ pc[t] \in Busy /\ (late' = late \/ late' = late + 1)
      /\ (dialled' = dialled \/ dialled' = TRUE)
  BY DEF Receive, Dial, GetHeader, GetReply, GetException, GetPort, Disconnected, PayloadFails,
         GiveUp, Connect, ConnectFails, Payload, End, handlerVars
<1>2. holder = {t} /\ client = "up" /\ Reading = (pc[t] = "payload")
  BY <1>1, OneBusy DEF Reading
<1>types. late' \in Nat /\ dialled' \in BOOLEAN
  <2>1. late' \in Nat
    BY <1>1 DEF FrameInv, TypeOK
  <2>2. dialled' \in BOOLEAN
    BY <1>1 DEF FrameInv, TypeOK
  <2> QED BY <2>1, <2>2
<1>3. ASSUME NEW n \in 0 .. MaxCalls, End(t, n),
             \/ toClient' = toClient /\ (pc[t] # "payload" \/ (toClient = << >> /\ server # "up"))
             \/ pc[t] = "payload" /\ toClient # << >> /\ toClient' = Tail(toClient)
      PROVE  FrameInv'
  <2>1. /\ pc' \in [Threads -> {"idle", "waiting", "payload", "connecting", "gone"}]
        /\ holder' = {} /\ asked' \in 0 .. MaxCalls
        /\ call' \in [Threads -> [id : 0 .. MaxCalls, kind : Kinds]]
        /\ got' \in [Threads -> 0 .. MaxCalls]
        /\ client' \in {"up"} \cup Ways
        /\ Mutex' /\ Reading' = FALSE
    BY <1>1, <1>3, EndFrames
  <2>2. /\ toClient' \in Seq(Pieces(Replies)) /\ Alternates(toClient', Reading')
        /\ (server' = "up" => Whole(toClient', Reading'))
    <3>1. CASE toClient' = toClient /\ pc[t] # "payload"
      <4>1. Reading' = Reading
        BY <1>2, <2>1, <3>1
      <4> QED BY <1>1, <3>1, <4>1 DEF FrameInv, TypeOK, Framed
    <3>2. CASE toClient' = toClient /\ toClient = << >> /\ server # "up"
      BY <1>1, <2>1, <3>2, EmptyFramed
    <3>3. CASE pc[t] = "payload" /\ toClient # << >> /\ toClient' = Tail(toClient)
      <4>1. Reading' = (pc[t] = "waiting")
        BY <2>1, <3>3
      <4> QED BY <1>1, <3>3, <4>1, TailRead
    <3> QED BY <1>3, <3>1, <3>2, <3>3
  <2>3. TypeOK'
    BY <1>1, <1>types, <2>1, <2>2 DEF FrameInv, TypeOK
  <2>4. Serving'
    BY <1>1 DEF FrameInv, Serving
  <2>5. Framed'
    <3>1. Alternates(toServer', handler' = "payload")
          /\ (client' = "up" => Whole(toServer', handler' = "payload"))
      BY <1>1, <1>2 DEF FrameInv, Framed
    <3> QED BY <2>2, <3>1 DEF Framed
  <2> QED BY <2>1, <2>3, <2>4, <2>5 DEF FrameInv
<1>4. ASSUME NEW at \in {"waiting", "payload", "connecting"},
             pc' = [pc EXCEPT ![t] = at],
             UNCHANGED << holder, asked, got, late, client >>,
             call' \in [Threads -> [id : 0 .. MaxCalls, kind : Kinds]],
             \/ toClient' = toClient /\ (pc[t] = "payload" <=> at = "payload")
             \/ /\ pc[t] \in {"waiting", "payload"} /\ (pc[t] = "waiting" <=> at = "payload")
                /\ toClient # << >> /\ toClient' = Tail(toClient)
      PROVE  FrameInv'
  <2>1. /\ \A u \in Threads : pc'[u] = IF u = t THEN at ELSE pc[u]
        /\ pc' \in [Threads -> {"idle", "waiting", "payload", "connecting", "gone"}]
    BY <1>4 DEF FrameInv, TypeOK
  <2>2. Mutex'
    BY <1>2, <1>4, <2>1 DEF FrameInv, Mutex
  <2>3. \A u \in Threads : u # t => pc'[u] # "payload"
    BY <1>2, <2>1 DEF FrameInv, Mutex
  <2>4. Reading' = (at = "payload")
    BY <2>1, <2>3 DEF Reading
  <2>5. /\ toClient' \in Seq(Pieces(Replies)) /\ Alternates(toClient', Reading')
        /\ (server' = "up" => Whole(toClient', Reading'))
    <3>1. CASE toClient' = toClient /\ (pc[t] = "payload" <=> at = "payload")
      <4>1. Reading' = Reading
        BY <1>2, <2>4, <3>1
      <4> QED BY <1>1, <3>1, <4>1 DEF FrameInv, TypeOK, Framed
    <3>2. CASE /\ pc[t] \in {"waiting", "payload"} /\ (pc[t] = "waiting" <=> at = "payload")
               /\ toClient # << >> /\ toClient' = Tail(toClient)
      <4>1. Reading' = (pc[t] = "waiting")
        BY <2>4, <3>2
      <4> QED BY <1>1, <3>2, <4>1, TailRead
    <3> QED BY <1>4, <3>1, <3>2
  <2>6. TypeOK'
    BY <1>1, <1>types, <1>4, <2>1, <2>5 DEF FrameInv, TypeOK
  <2>7. Serving'
    BY <1>1 DEF FrameInv, Serving
  <2>8. Framed'
    <3>1. Alternates(toServer', handler' = "payload")
          /\ (client' = "up" => Whole(toServer', handler' = "payload"))
      BY <1>1, <1>2 DEF FrameInv, Framed
    <3> QED BY <2>5, <3>1 DEF Framed
  <2> QED BY <2>2, <2>6, <2>7, <2>8 DEF FrameInv
<1>5. 0 \in 0 .. MaxCalls /\ call \in [Threads -> [id : 0 .. MaxCalls, kind : Kinds]]
  BY DEF FrameInv, TypeOK, CallsAssumption
<1>6. CASE GetHeader(t)
  BY <1>4, <1>5, <1>6 DEF GetHeader
<1>7. CASE GetReply(t)
  <2>1. Head(toClient).id \in 0 .. MaxCalls
    <3>1. toClient # << >> /\ toClient \in Seq(Pieces(Replies))
      BY <1>7 DEF GetReply, Payload, FrameInv, TypeOK
    <3>2. Head(toClient) \in Pieces(Replies)
      BY <3>1
    <3> QED BY <3>2 DEF Pieces
  <2> QED BY <1>3, <1>7, <2>1 DEF GetReply, Payload
<1>8. CASE GetException(t)
  BY <1>3, <1>5, <1>8 DEF GetException, Payload
<1>9. CASE GetPort(t)
  BY <1>4, <1>5, <1>9 DEF GetPort, Payload
<1>10. CASE Disconnected(t) \/ GiveUp(t) \/ ConnectFails(t)
  BY <1>3, <1>5, <1>10 DEF Disconnected, GiveUp, ConnectFails
<1>11. CASE PayloadFails(t)
  BY <1>3, <1>5, <1>11 DEF PayloadFails
<1>12. CASE Connect(t)
  <2>1. call' \in [Threads -> [id : 0 .. MaxCalls, kind : Kinds]]
    <3>1. call[t].id \in 0 .. MaxCalls /\ "plain" \in Kinds
      BY <1>5 DEF Kinds
    <3> QED BY <1>5, <1>12, <3>1 DEF Connect
  <2> QED BY <1>4, <1>12, <2>1 DEF Connect
<1> QED BY <1>6, <1>7, <1>8, <1>9, <1>10, <1>11, <1>12 DEF Receive, Dial

\* A reply is sent whole, or not at all.
LEMMA ReplyFrames ==
  ASSUME FrameInv, handler \in {"running", "accepting"}, NEW kind \in Replies, NEW next,
         Reply(kind, next)
  PROVE  /\ toClient' \in Seq(Pieces(Replies)) /\ Alternates(toClient', Reading)
         /\ Whole(toClient', Reading)
<1>1. server = "up" /\ serving.id \in 1 .. MaxCalls
  BY DEF FrameInv, Serving
<1> DEFINE inside == Reading
<1>2. /\ inside \in BOOLEAN /\ toClient \in Seq(Pieces(Replies))
      /\ Alternates(toClient, inside) /\ Whole(toClient, inside)
  BY <1>1 DEF FrameInv, TypeOK, Framed, Reading
<1> HIDE DEF inside
<1>3. /\ toClient \o Message(serving.id, kind) \in Seq(Pieces(Replies))
      /\ Alternates(toClient \o Message(serving.id, kind), inside)
      /\ Whole(toClient \o Message(serving.id, kind), inside)
  BY <1>1, <1>2, MessageFramed
<1> QED BY <1>2, <1>3 DEF Reply, inside

\* The request that the handler reads, and what it makes of it.
LEMMA HandlerFrames ==
  ASSUME FrameInv,
         Serve \/ Hang \/ AcceptFails \/ Cleanup \/ \E way \in Ways : ServerGoes(way)
  PROVE  FrameInv'
<1>1. UNCHANGED threadVars /\ client' = client /\ Reading' = Reading
  BY DEF Serve, GetRequest, GetArguments, Execute, Accept, LoseClient, Hang, AcceptFails,
         Cleanup, ServerGoes, threadVars, Reading
<1>2. Mutex'
  BY <1>1 DEF FrameInv, Mutex, threadVars
<1>3. /\ pc' \in [Threads -> {"idle", "waiting", "payload", "connecting", "gone"}]
      /\ holder' \subseteq Threads /\ (\A t, u \in holder' : t = u)
      /\ asked' \in 0 .. MaxCalls
      /\ call' \in [Threads -> [id : 0 .. MaxCalls, kind : Kinds]]
      /\ got' \in [Threads -> 0 .. MaxCalls]
      /\ client' \in {"up"} \cup Ways /\ late' \in Nat
  BY <1>1 DEF FrameInv, TypeOK, threadVars
<1>4. /\ toClient \in Seq(Pieces(Replies)) /\ toServer \in Seq(Pieces(Kinds))
      /\ Alternates(toClient, Reading) /\ (server = "up" => Whole(toClient, Reading))
      /\ Alternates(toServer, handler = "payload")
      /\ (client = "up" => Whole(toServer, handler = "payload"))
  BY DEF FrameInv, TypeOK, Framed
<1>5. ASSUME handler' \in {"select", "payload", "running", "accepting", "hung", "ended", "gone"},
             serving' \in [id : 0 .. MaxCalls, kind : Kinds], dialled' \in BOOLEAN,
             server' \in {"up"} \cup Ways, Serving',
             toClient' \in Seq(Pieces(Replies)), toServer' \in Seq(Pieces(Kinds)),
             Alternates(toClient', Reading), server' = "up" => Whole(toClient', Reading),
             Alternates(toServer', handler' = "payload"),
             client = "up" => Whole(toServer', handler' = "payload")
      PROVE  FrameInv'
  <2>1. TypeOK'
    BY <1>3, <1>5 DEF TypeOK
  <2>2. Framed'
    <3>1. Alternates(toClient', Reading') /\ (server' = "up" => Whole(toClient', Reading'))
      BY <1>1, <1>5
    <3> QED BY <1>1, <1>5, <3>1 DEF Framed
  <2> QED BY <1>2, <1>5, <2>1, <2>2 DEF FrameInv
<1>6. CASE GetRequest \/ GetArguments
  <2>1. /\ toServer # << >> /\ toServer' = Tail(toServer) /\ handler \in {"select", "payload"}
        /\ handler' = IF handler = "select" THEN "payload" ELSE "running"
        /\ UNCHANGED << toClient, dialled, server >>
        /\ serving' = IF handler = "select" THEN serving
                      ELSE [id |-> Head(toServer).id, kind |-> Head(toServer).kind]
    BY <1>6 DEF GetRequest, GetArguments
  <2> DEFINE inside == handler = "payload"
  <2>2. /\ inside \in BOOLEAN /\ Alternates(toServer, inside)
        /\ (client = "up" => Whole(toServer, inside))
    BY <1>4
  <2>3. (~ inside) = (handler' = "payload")
    BY <2>1
  <2> HIDE DEF inside
  <2>4. /\ toServer' \in Seq(Pieces(Kinds)) /\ Alternates(toServer', ~ inside)
        /\ (client = "up" => Whole(toServer', ~ inside))
        /\ Head(toServer) \in Pieces(Kinds)
    BY <1>4, <2>1, <2>2, TailFramed
  <2>5. Head(toServer).id \in 1 .. MaxCalls /\ Head(toServer).kind \in Kinds
    BY <2>4 DEF Pieces
  <2>6. serving' \in [id : 0 .. MaxCalls, kind : Kinds] /\ Serving'
    BY <2>1, <2>5 DEF FrameInv, TypeOK, Serving
  <2>7. dialled' \in BOOLEAN /\ server' \in {"up"} \cup Ways
    BY <2>1 DEF FrameInv, TypeOK
  <2>8. /\ Alternates(toServer', handler' = "payload")
        /\ (client = "up" => Whole(toServer', handler' = "payload"))
    BY <2>3, <2>4
  <2> QED BY <1>4, <1>5, <2>1, <2>4, <2>6, <2>7, <2>8
<1>7. CASE Execute \/ Accept \/ AcceptFails
  <2>1. /\ handler \in {"running", "accepting"} /\ UNCHANGED << serving, toServer, server >>
        /\ dialled' = dialled \/ dialled' = FALSE
        /\ \E kind \in Replies : \E next \in {"select", "accepting", "ended"} : Reply(kind, next)
    BY <1>7 DEF Execute, Accept, AcceptFails, Answers, Excuses, Replies
  <2>2. PICK kind \in Replies : \E next \in {"select", "accepting", "ended"} : Reply(kind, next)
    BY <2>1
  <2>3. PICK next \in {"select", "accepting", "ended"} : Reply(kind, next)
    BY <2>2
  <2>4. /\ toClient' \in Seq(Pieces(Replies)) /\ Alternates(toClient', Reading)
        /\ Whole(toClient', Reading)
    BY <2>1, <2>3, ReplyFrames
  <2>5. handler' \in {"select", "accepting", "ended"}
    BY <2>3 DEF Reply
  <2>6. Serving' /\ serving' \in [id : 0 .. MaxCalls, kind : Kinds]
        /\ server' \in {"up"} \cup Ways
    BY <2>1, <2>5 DEF FrameInv, TypeOK, Serving
  <2>7. dialled' \in BOOLEAN
    BY <2>1 DEF FrameInv, TypeOK
  <2>8. (handler' = "payload") = (handler = "payload") /\ toServer' = toServer
    BY <2>1, <2>5
  <2>9. /\ Alternates(toServer', handler' = "payload")
        /\ (client = "up" => Whole(toServer', handler' = "payload"))
    BY <1>4, <2>8
  <2> QED BY <1>4, <1>5, <2>4, <2>5, <2>6, <2>7, <2>8, <2>9
<1>8. CASE LoseClient
  <2>1. /\ toServer = << >> /\ client # "up" /\ handler \in {"select", "payload"}
        /\ handler' = "ended" /\ UNCHANGED << serving, toServer, toClient, dialled, server >>
    BY <1>8 DEF LoseClient
  <2>2. Serving' /\ serving' \in [id : 0 .. MaxCalls, kind : Kinds]
        /\ server' \in {"up"} \cup Ways /\ dialled' \in BOOLEAN
    BY <2>1 DEF FrameInv, TypeOK, Serving
  <2>3. Alternates(toServer', handler' = "payload")
    BY <2>1, EmptyFramed
  <2> QED BY <1>4, <1>5, <2>1, <2>2, <2>3
<1>9. CASE Hang \/ Cleanup
  <2>1. /\ UNCHANGED << serving, toServer, toClient, dialled >>
        /\ handler # "payload" /\ handler' # "payload"
        /\ \/ handler' = "hung" /\ server' = server /\ handler = "running"
           \/ server = "up" /\ handler' = "ended" /\ handler = "ended" /\ server' = "fin"
    BY <1>9 DEF Hang, Cleanup, handlerVars
  <2>2. Serving' /\ serving' \in [id : 0 .. MaxCalls, kind : Kinds]
        /\ server' \in {"up"} \cup Ways /\ dialled' \in BOOLEAN
    BY <2>1 DEF FrameInv, TypeOK, Serving, Ways
  <2>3. (handler' = "payload") = (handler = "payload")
    BY <2>1
  <2> QED BY <1>4, <1>5, <2>1, <2>2, <2>3
<1>10. CASE \E way \in Ways : ServerGoes(way)
  <2>1. PICK way \in Ways : ServerGoes(way)
    BY <1>10
  <2>2. PICK n \in 0 .. Len(toClient) : toClient' = SubSeq(toClient, 1, n)
    BY <2>1 DEF ServerGoes
  <2>3. toClient' \in Seq(Pieces(Replies)) /\ Alternates(toClient', Reading)
    <3> DEFINE inside == Reading
    <3>1. inside \in BOOLEAN
      BY DEF Reading
    <3> HIDE DEF inside
    <3>2. Alternates(toClient, inside)
      BY <1>4 DEF inside
    <3>3. /\ SubSeq(toClient, 1, n) \in Seq(Pieces(Replies))
          /\ Alternates(SubSeq(toClient, 1, n), inside)
      BY <1>4, <3>1, <3>2, PrefixFramed
    <3> QED BY <2>2, <3>3 DEF inside
  <2>4. /\ handler' = "gone" /\ toServer' = << >> /\ server' = way /\ server' # "up"
        /\ UNCHANGED << serving, dialled >>
    BY <2>1 DEF ServerGoes, Ways
  <2>5. Serving' /\ serving' \in [id : 0 .. MaxCalls, kind : Kinds]
        /\ server' \in {"up"} \cup Ways /\ dialled' \in BOOLEAN
    BY <2>4 DEF FrameInv, TypeOK, Serving
  <2>6. /\ toServer' \in Seq(Pieces(Kinds))
        /\ Alternates(toServer', handler' = "payload") /\ Whole(toServer', handler' = "payload")
    <3>1. (handler' = "payload") = FALSE
      BY <2>4
    <3> QED BY <2>4, <3>1, EmptyFramed
  <2> QED BY <1>5, <2>3, <2>4, <2>5, <2>6
<1> QED BY <1>6, <1>7, <1>8, <1>9, <1>10 DEF Serve

\* Nobody reads or calls any more, and requests may be cut off.
LEMMA ClientGoesFrames ==
  ASSUME FrameInv, NEW way \in Ways, ClientGoes(way)
  PROVE  FrameInv'
<1>1. /\ client' = way /\ client' # "up" /\ toClient' = << >>
      /\ UNCHANGED << holder, asked, call, got, late, handler, serving, dialled, server >>
  BY DEF ClientGoes, handlerVars, Ways
<1>2. \A t \in Threads : pc'[t] = "gone"
  BY DEF ClientGoes
<1>3. Mutex' /\ Reading' = FALSE /\ Serving'
  BY <1>1, <1>2 DEF Mutex, Busy, Reading, FrameInv, Serving
<1>4. PICK n \in 0 .. Len(toServer) : toServer' = SubSeq(toServer, 1, n)
  BY DEF ClientGoes
<1>5. toServer' \in Seq(Pieces(Kinds)) /\ Alternates(toServer', handler' = "payload")
  <2> DEFINE inside == handler = "payload"
  <2>1. inside \in BOOLEAN /\ Alternates(toServer, inside) /\ toServer \in Seq(Pieces(Kinds))
    BY DEF FrameInv, TypeOK, Framed
  <2> HIDE DEF inside
  <2>2. /\ SubSeq(toServer, 1, n) \in Seq(Pieces(Kinds))
        /\ Alternates(SubSeq(toServer, 1, n), inside)
    BY <2>1, PrefixFramed
  <2> QED BY <1>1, <1>4, <2>2 DEF inside
<1>6. toClient' \in Seq(Pieces(Replies)) /\ Alternates(toClient', Reading')
      /\ Whole(toClient', Reading')
  BY <1>1, <1>3, EmptyFramed
<1>7. TypeOK'
  BY <1>1, <1>5, <1>6 DEF FrameInv, TypeOK, ClientGoes
<1> QED BY <1>1, <1>3, <1>5, <1>6, <1>7 DEF FrameInv, Framed

LEMMA InitFramed == CallsAssumption /\ Init => FrameInv
<1> SUFFICES ASSUME CallsAssumption, Init PROVE FrameInv
  OBVIOUS
<1>1. TypeOK
  <2>1. NoCall \in [id : 0 .. MaxCalls, kind : Kinds] /\ 0 \in 0 .. MaxCalls
    BY DEF CallsAssumption, NoCall, Kinds
  <2>2. << >> \in Seq(Pieces(Kinds)) /\ << >> \in Seq(Pieces(Replies))
    OBVIOUS
  <2> QED BY <2>1, <2>2 DEF Init, TypeOK
<1>2. Mutex /\ Serving /\ Reading = FALSE /\ (handler = "payload") = FALSE
  BY DEF Init, Mutex, Serving, Busy, Reading
<1>3. Framed
  BY <1>2, EmptyFramed DEF Init, Framed
<1> QED BY <1>1, <1>2, <1>3 DEF FrameInv

LEMMA NextFramed == CallsAssumption /\ FrameInv /\ [Next]_vars => FrameInv'
<1> SUFFICES ASSUME CallsAssumption, FrameInv, [Next]_vars PROVE FrameInv'
  OBVIOUS
<1>1. CASE UNCHANGED vars
  BY <1>1 DEF FrameInv, TypeOK, Mutex, Serving, Framed, Reading, vars, threadVars, handlerVars
<1>2. ASSUME NEW t \in Threads, NEW kind \in Kinds, Begin(t, kind) PROVE FrameInv'
  BY <1>2, SendFrames
<1>3. ASSUME NEW t \in Threads, Receive(t) \/ Dial(t) PROVE FrameInv'
  BY <1>3, ReceiveFrames
<1>4. CASE Serve \/ Hang \/ AcceptFails \/ Cleanup \/ \E way \in Ways : ServerGoes(way)
  BY <1>4, HandlerFrames
<1>5. ASSUME NEW way \in Ways, ClientGoes(way) PROVE FrameInv'
  BY <1>5, ClientGoesFrames
<1> QED BY <1>1, <1>2, <1>3, <1>4, <1>5 DEF Next

\* In frame: a thread reads heads and rests in their turn, and so does the handler.
LEMMA FramedReads == FrameInv => RpcInv
<1> SUFFICES ASSUME FrameInv PROVE InFrame
  BY DEF FrameInv, RpcInv
<1>1. ASSUME NEW t \in Threads, toClient # << >>, pc[t] \in {"waiting", "payload"}
      PROVE  Head(toClient).part = IF pc[t] = "waiting" THEN "head" ELSE "rest"
  <2>1. Reading <=> pc[t] = "payload"
    BY <1>1, OneBusy DEF Busy
  <2>2. Head(toClient) = toClient[1]
    BY <1>1 DEF FrameInv, TypeOK
  <2> QED BY <1>1, <2>1, <2>2 DEF FrameInv, Framed, Alternates
<1>2. ASSUME toServer # << >>, handler \in {"select", "payload"}
      PROVE  Head(toServer).part = IF handler = "select" THEN "head" ELSE "rest"
  <2>1. Head(toServer) = toServer[1]
    BY <1>2 DEF FrameInv, TypeOK
  <2> QED BY <1>2, <2>1 DEF FrameInv, Framed, Alternates
<1> QED BY <1>1, <1>2 DEF InFrame

\* Messages are whole and read as such, however threads time out and hosts go: for any
\* number of threads and calls.
THEOREM SpecFrame == Spec => []RpcInv
<1>1. Init => FrameInv
  BY CallsAssumption, InitFramed
<1>2. FrameInv /\ [Next]_vars => FrameInv'
  BY CallsAssumption, NextFramed
<1> QED BY <1>1, <1>2, FramedReads, PTL DEF Spec

-----------------------------------------------------------------------------
(* The step of a call, as long as no call gave up.                         *)

\* Between two calls nothing is left of the first.
Between ==
  holder = {} =>
    /\ toClient = << >>
    /\ server = "up" => toServer = << >> /\ handler = "select" /\ ~ dialled

\* What may be on its way to thread h: at most one message, and a TCP set-up that has
\* been given a port may be sent an exception after it.
Bound(h) ==
  LET n == Len(toClient)
      port == n > 0 /\ toClient[1].kind = "port"
  IN IF call[h].kind = "tcp"
     THEN /\ pc[h] = "waiting" => n <= IF port THEN 4 ELSE 2
          /\ pc[h] = "payload" => n <= IF port THEN 3 ELSE 1
          /\ pc[h] = "connecting" => n <= 2
     ELSE pc[h] # "connecting" /\ n <= IF pc[h] = "payload" THEN 1 ELSE 2

\* Before the handler has answered.
Asking(h) ==
  (toServer # << >> \/ handler \in {"payload", "running", "hung"}) =>
    pc[h] = "waiting" /\ toClient = << >> /\ ~ dialled

Requested(h) ==
  toServer # << >> =>
    /\ handler \in {"select", "payload"} /\ Len(toServer) = IF handler = "select" THEN 2 ELSE 1
    /\ \A i \in 1 .. Len(toServer) :
         toServer[i].id = call[h].id /\ toServer[i].kind = call[h].kind

\* A port is on its way, or has been read.
PortSent(h) ==
  /\ call[h].kind = "tcp"
  /\ pc[h] = "waiting" => Len(toClient) = 2
  /\ pc[h] = "payload" => Len(toClient) = 1
  /\ pc[h] = "connecting" => toClient = << >>
  /\ \A i \in 1 .. Len(toClient) : toClient[i].kind = "port"

Served(h) ==
  /\ handler \in {"running", "hung", "accepting"} => serving.id = call[h].id
  /\ handler = "running" => serving.kind = call[h].kind
  /\ handler = "ended" => call[h].kind = "hangup"
  /\ dialled => handler = "accepting"
  /\ handler = "accepting" =>
       /\ serving.kind = "tcp"
       /\ IF dialled THEN call[h].kind = "plain" /\ pc[h] = "waiting" /\ toClient = << >>
          ELSE PortSent(h)

Step(h) ==
  /\ \A i \in 1 .. Len(toClient) : toClient[i].id = call[h].id
  /\ pc[h] = "waiting" /\ Len(toClient) > 1 => toClient[1].kind = toClient[2].kind
  /\ Bound(h)
  /\ server = "up" => Asking(h) /\ Requested(h) /\ Served(h)

InOrder ==
  late = 0 /\ client = "up" => Between /\ \A h \in holder : Step(h)

IInv == FrameInv /\ InOrder /\ OwnReply

LEMMA InitInOrder == CallsAssumption /\ Init => IInv
<1> SUFFICES ASSUME CallsAssumption, Init PROVE IInv
  OBVIOUS
<1>1. FrameInv
  BY InitFramed
<1>2. InOrder /\ OwnReply
  BY DEF Init, InOrder, Between, OwnReply, NoCall
<1> QED BY <1>1, <1>2 DEF IInv

\* As long as no call gave up and the client is there, a thread in a call is at its step.
LEMMA HolderStep ==
  ASSUME IInv, late = 0, client = "up", NEW h \in Threads, pc[h] \in Busy
  PROVE  holder = {h} /\ Step(h) /\ \A u \in Threads : u # h => pc[u] \notin Busy
<1>1. holder = {h}
  BY OneBusy DEF IInv
<1> QED BY <1>1 DEF IInv, InOrder, FrameInv, Mutex

\* A call begins: nothing is left of the one before.
LEMMA BeginInOrder ==
  ASSUME CallsAssumption, IInv, NEW t \in Threads, NEW kind \in Kinds, Begin(t, kind)
  PROVE  InOrder' /\ OwnReply'
<1> USE DEF Begin, Send
<1>1. /\ call' = [call EXCEPT ![t] = [id |-> asked + 1, kind |-> kind]]
      /\ pc' = [pc EXCEPT ![t] = "waiting"] /\ holder = {} /\ holder' = {t} /\ client = "up"
      /\ UNCHANGED << got, late, toClient, handler, serving, dialled, client, server >>
      /\ asked + 1 \in 1 .. MaxCalls
  BY CallsAssumption DEF IInv, FrameInv, TypeOK, CallsAssumption, handlerVars
<1>2. /\ \A u \in Threads : u # t => call'[u] = call[u] /\ pc'[u] = pc[u]
      /\ pc'[t] = "waiting" /\ call'[t].id = asked + 1 /\ call'[t].kind = kind
  BY <1>1 DEF IInv, FrameInv, TypeOK
<1>3. OwnReply'
  BY <1>1, <1>2 DEF IInv, OwnReply
<1>4. ASSUME late' = 0 PROVE Step(t)'
  <2>1. /\ toClient = << >>
        /\ server = "up" => toServer = << >> /\ handler = "select" /\ ~ dialled
    BY <1>1, <1>4 DEF IInv, InOrder, Between
  <2>2. server = "up" => /\ Len(toServer') = 2
                         /\ \A i \in 1 .. Len(toServer') :
                              toServer'[i].id = asked + 1 /\ toServer'[i].kind = kind
    <3> SUFFICES ASSUME server = "up"
                 PROVE  /\ Len(toServer') = 2
                        /\ \A i \in 1 .. Len(toServer') :
                             toServer'[i].id = asked + 1 /\ toServer'[i].kind = kind
      OBVIOUS
    <3>1. toServer \in Seq(Pieces(Kinds))
      BY DEF IInv, FrameInv, TypeOK
    <3>2. toServer' = toServer \o Message(asked + 1, kind)
      BY <2>1
    <3> DEFINE id == asked + 1
               longer == toServer \o Message(id, kind)
    <3>id. id \in 1 .. MaxCalls
      BY <1>1
    <3> HIDE DEF id
    <3>3. /\ Len(longer) = Len(toServer) + 2
          /\ longer[Len(toServer) + 1].id = id /\ longer[Len(toServer) + 1].kind = kind
          /\ longer[Len(toServer) + 2].id = id /\ longer[Len(toServer) + 2].kind = kind
      BY <3>1, <3>id, MessageSent
    <3> HIDE DEF longer
    <3>4. Len(toServer) = 0
      BY <2>1
    <3>5. Len(longer) = 2 /\ \A i \in {1, 2} : longer[i].id = id /\ longer[i].kind = kind
      BY <3>3, <3>4
    <3> QED BY <3>2, <3>5 DEF longer, id
  <2>3. Bound(t)' /\ \A i \in 1 .. Len(toClient') : toClient'[i].id = call'[t].id
    BY <1>1, <1>2, <2>1 DEF Bound
  <2>4. server' = "up" => Asking(t)'
    BY <1>1, <1>2, <2>1 DEF Asking
  <2>5. server' = "up" => Requested(t)'
    BY <1>1, <1>2, <2>1, <2>2 DEF Requested
  <2>6. server' = "up" => Served(t)'
    BY <1>1, <1>2, <2>1 DEF Served
  <2> QED BY <1>1, <2>1, <2>3, <2>4, <2>5, <2>6 DEF Step
<1>5. InOrder'
  BY <1>1, <1>4 DEF InOrder, Between
<1> QED BY <1>3, <1>5

\* A call reads on or ends: what it leaves is nothing.
LEMMA ReceiveInOrder ==
  ASSUME CallsAssumption, IInv, NEW t \in Threads, Receive(t) \/ Dial(t)
  PROVE  InOrder' /\ OwnReply'
<1> SUFFICES ASSUME late' = 0
             PROVE  /\ client' = "up" => Between' /\ \A h \in holder' : Step(h)'
                    /\ \A u \in Threads : got'[u] \in {0, call'[u].id} \/ pc'[u] # "idle"
  BY DEF InOrder, OwnReply
<1>1. /\ toServer' = toServer /\ handler' = handler /\ serving' = serving /\ server' = server
      /\ pc[t] \in Busy
  BY DEF Receive, Dial, GetHeader, GetReply, GetException, GetPort, Disconnected, PayloadFails,
         GiveUp, Connect, ConnectFails, Payload, End, handlerVars, Busy
<1>2. late = 0 /\ ~ GiveUp(t) /\ ~ ConnectFails(t)
  <2>1. late \in Nat
    BY DEF IInv, FrameInv, TypeOK
  <2> QED BY <2>1 DEF Receive, Dial, GetHeader, GetReply, GetException, GetPort, Disconnected,
                      PayloadFails, GiveUp, Connect, ConnectFails, Payload
<1>3. holder = {t} /\ client = "up"
  BY <1>1, OneBusy DEF IInv
<1>4. Step(t) /\ \A u \in Threads : u # t => pc[u] \notin Busy
  BY <1>1, <1>2, <1>3, HolderStep
<1>5. \A u \in Threads : got[u] \in {0, call[u].id} \/ pc[u] # "idle"
  BY <1>2 DEF IInv, OwnReply
<1>6. /\ pc \in [Threads -> {"idle", "waiting", "payload", "connecting", "gone"}]
      /\ call \in [Threads -> [id : 0 .. MaxCalls, kind : Kinds]]
      /\ got \in [Threads -> 0 .. MaxCalls]
      /\ server = "up" => handler \in {"select", "payload", "running", "accepting", "hung", "ended"}
      /\ toClient \in Seq(Pieces(Replies))
  BY DEF IInv, FrameInv, TypeOK, Serving
<1>7. ASSUME NEW n \in {0, call[t].id}, End(t, n), toClient' = << >>,
             \/ server # "up" \/ call[t].kind = "hangup"
             \/ handler = "select" /\ toServer = << >> /\ ~ dialled'
      PROVE  /\ client' = "up" => Between' /\ \A h \in holder' : Step(h)'
             /\ \A u \in Threads : got'[u] \in {0, call'[u].id} \/ pc'[u] # "idle"
  <2>1. \A u \in Threads : got'[u] \in {0, call'[u].id} \/ pc'[u] # "idle"
    <3> TAKE u \in Threads
    <3>1. CASE u = t
      BY <1>6, <1>7, <3>1 DEF End
    <3>2. CASE u # t
      BY <1>5, <1>6, <1>7, <3>2 DEF End
    <3> QED BY <3>1, <3>2
  <2>2. client' = "up" => Between' /\ holder' = {}
    BY <1>1, <1>7 DEF End, Between
  <2> QED BY <2>1, <2>2
<1>8. ASSUME NEW at \in {"waiting", "payload", "connecting"},
             pc' = [pc EXCEPT ![t] = at], UNCHANGED << holder, got >>,
             \A u \in Threads : call'[u].id = call[u].id,
             Step(t)'
      PROVE  /\ client' = "up" => Between' /\ \A h \in holder' : Step(h)'
             /\ \A u \in Threads : got'[u] \in {0, call'[u].id} \/ pc'[u] # "idle"
  <2>1. \A u \in Threads : got'[u] \in {0, call'[u].id} \/ pc'[u] # "idle"
    <3> TAKE u \in Threads
    <3>1. CASE u = t
      BY <1>6, <1>8, <3>1
    <3>2. CASE u # t
      BY <1>5, <1>6, <1>8, <3>2
    <3> QED BY <3>1, <3>2
  <2>2. Between' /\ \A h \in holder' : Step(h)'
    BY <1>3, <1>8 DEF Between
  <2> QED BY <2>1, <2>2
<1>9. ASSUME pc[t] \in {"waiting", "payload"}, toClient # << >>, toClient' = Tail(toClient)
      PROVE  /\ Len(toClient) \in Nat \ {0} /\ Len(toClient') = Len(toClient) - 1
             /\ \A i \in 1 .. Len(toClient') : toClient'[i] = toClient[i + 1]
             /\ Head(toClient) = toClient[1]
             /\ \A i \in 1 .. Len(toClient') : toClient'[i].id = call[t].id
             /\ Len(toClient) > 0 => toClient[1].id = call[t].id
             /\ server = "up" => toServer = << >> /\ handler \notin {"payload", "running", "hung"}
  <2>1. /\ Len(toClient) \in Nat \ {0} /\ Len(toClient') = Len(toClient) - 1
        /\ \A i \in 1 .. Len(toClient') : toClient'[i] = toClient[i + 1]
        /\ Head(toClient) = toClient[1]
    BY <1>6, <1>9
  <2>2. \A i \in 1 .. Len(toClient) : toClient[i].id = call[t].id
    BY <1>4 DEF Step
  <2>3. server = "up" => toServer = << >> /\ handler \notin {"payload", "running", "hung"}
    BY <1>4, <1>9 DEF Step, Asking
  <2> QED BY <2>1, <2>2, <2>3
<1>10. CASE GetHeader(t)
  <2> USE DEF GetHeader
  <2>1. /\ pc[t] = "waiting" /\ pc'[t] = "payload" /\ call' = call /\ dialled' = dialled
        /\ UNCHANGED << holder, got >> /\ pc' = [pc EXCEPT ![t] = "payload"]
        /\ toClient # << >> /\ toClient' = Tail(toClient)
    BY <1>6, <1>10
  <2>2. /\ Len(toClient) \in Nat \ {0} /\ Len(toClient') = Len(toClient) - 1
        /\ \A i \in 1 .. Len(toClient') : toClient'[i] = toClient[i + 1]
        /\ \A i \in 1 .. Len(toClient') : toClient'[i].id = call[t].id
        /\ server = "up" => toServer = << >> /\ handler \notin {"payload", "running", "hung"}
    BY <1>9, <2>1
  <2>3. Len(toClient') > 0 => toClient'[1].kind = toClient[1].kind
    BY <1>4, <2>1, <2>2 DEF Step
  <2>4. Bound(t)'
    BY <1>4, <2>1, <2>2, <2>3 DEF Step, Bound
  <2>5. server' = "up" => Asking(t)' /\ Requested(t)'
    BY <1>1, <2>2 DEF Asking, Requested
  <2>6. server' = "up" => Served(t)'
    BY <1>1, <1>4, <2>1, <2>2 DEF Step, Served, PortSent
  <2>7. Step(t)'
    BY <2>1, <2>2, <2>4, <2>5, <2>6 DEF Step
  <2> QED BY <1>8, <2>1, <2>7
<1>11. CASE GetPort(t)
  <2>1. /\ pc[t] = "payload" /\ pc'[t] = "connecting" /\ call' = call /\ dialled' = dialled
        /\ UNCHANGED << holder, got >> /\ pc' = [pc EXCEPT ![t] = "connecting"]
        /\ toClient # << >> /\ toClient' = Tail(toClient) /\ call[t].kind = "tcp"
    BY <1>6, <1>11 DEF GetPort, Payload
  <2>2. /\ Len(toClient) \in Nat \ {0} /\ Len(toClient') = Len(toClient) - 1
        /\ \A i \in 1 .. Len(toClient') : toClient'[i] = toClient[i + 1]
        /\ \A i \in 1 .. Len(toClient') : toClient'[i].id = call[t].id
        /\ server = "up" => toServer = << >> /\ handler \notin {"payload", "running", "hung"}
    BY <1>9, <2>1
  <2>3. Bound(t)'
    BY <1>4, <2>1, <2>2 DEF Step, Bound
  <2>4. server' = "up" => Asking(t)' /\ Requested(t)'
    BY <1>1, <2>2 DEF Asking, Requested
  <2>5. server' = "up" => Served(t)'
    BY <1>1, <1>4, <2>1, <2>2 DEF Step, Served, PortSent
  <2>6. Step(t)'
    BY <2>1, <2>2, <2>3, <2>4, <2>5 DEF Step
  <2> QED BY <1>8, <2>1, <2>6
<1>12. CASE Connect(t)
  <2>1. /\ pc[t] = "connecting" /\ handler = "accepting" /\ server = "up" /\ dialled' = TRUE
        /\ pc' = [pc EXCEPT ![t] = "waiting"] /\ pc'[t] = "waiting"
        /\ call'[t].id = call[t].id /\ call'[t].kind = "plain"
        /\ \A u \in Threads : call'[u].id = call[u].id
        /\ UNCHANGED << holder, got, toClient >>
    BY <1>6, <1>12 DEF Connect
  <2>2. toClient = << >> /\ toServer = << >> /\ serving.kind = "tcp" /\ serving.id = call[t].id
    BY <1>4, <2>1 DEF Step, Served, Asking, PortSent
  <2>3. Step(t)'
    BY <1>1, <2>1, <2>2 DEF Step, Bound, Asking, Requested, Served
  <2> QED BY <1>8, <2>1, <2>3
<1>13. ASSUME pc[t] = "payload", toClient # << >>, toClient' = Tail(toClient), dialled' = dialled,
              call[t].kind # "tcp" \/ toClient[1].kind = "exception"
       PROVE  /\ toClient' = << >> /\ toClient[1].id = call[t].id
              /\ \/ server # "up" \/ call[t].kind = "hangup"
                 \/ handler = "select" /\ toServer = << >> /\ ~ dialled'
  <2>1. Len(toClient) <= 1
    BY <1>4, <1>13 DEF Step, Bound
  <2>2. Len(toClient) \in Nat \ {0} /\ Len(toClient') = Len(toClient) - 1
        /\ toClient[1].id = call[t].id /\ toClient' \in Seq(Pieces(Replies))
    BY <1>6, <1>9, <1>13
  <2>3. toClient' = << >>
    BY <2>1, <2>2
  <2>4. server = "up" => /\ toServer = << >> /\ handler \notin {"payload", "running", "hung"}
                         /\ handler # "accepting" /\ (handler = "ended" => call[t].kind = "hangup")
                         /\ (dialled => handler = "accepting")
    <3> SUFFICES ASSUME server = "up"
                 PROVE  /\ toServer = << >> /\ handler \notin {"payload", "running", "hung"}
                        /\ handler # "accepting" /\ (handler = "ended" => call[t].kind = "hangup")
                        /\ (dialled => handler = "accepting")
      OBVIOUS
    <3>1. Served(t) /\ Asking(t)
      BY <1>4 DEF Step
    <3>2. toServer = << >> /\ handler \notin {"payload", "running", "hung"}
      BY <1>13, <3>1 DEF Asking
    <3>3. handler # "accepting"
      BY <1>13, <2>2, <3>1 DEF Served, PortSent
    <3> QED BY <3>1, <3>2, <3>3 DEF Served
  <2> QED BY <1>6, <1>13, <2>2, <2>3, <2>4
<1>14. CASE GetReply(t)
  <2>1. /\ pc[t] = "payload" /\ toClient # << >> /\ toClient' = Tail(toClient)
        /\ dialled' = dialled /\ call[t].kind # "tcp" /\ End(t, Head(toClient).id)
    BY <1>14 DEF GetReply, Payload
  <2>2. Head(toClient) = toClient[1]
    BY <1>9, <2>1
  <2>3. End(t, call[t].id)
    BY <1>13, <2>1, <2>2
  <2> QED BY <1>7, <1>13, <2>1, <2>3
<1>15. CASE GetException(t)
  <2>1. /\ pc[t] = "payload" /\ toClient # << >> /\ toClient' = Tail(toClient)
        /\ dialled' = dialled /\ End(t, 0)
        /\ Head(toClient).kind = "exception" \/ Head(toClient).id # call[t].id
        /\ Head(toClient).id = call[t].id
    BY <1>2, <1>15 DEF GetException, Payload
  <2>2. toClient[1].kind = "exception"
    BY <1>9, <2>1
  <2> QED BY <1>7, <1>13, <2>1, <2>2
<1>16. CASE Disconnected(t) \/ PayloadFails(t)
  <2>1. toClient' = << >> /\ End(t, 0) /\ server # "up"
    BY <1>16 DEF Disconnected, PayloadFails
  <2> QED BY <1>7, <2>1
<1> QED BY <1>2, <1>10, <1>11, <1>12, <1>14, <1>15, <1>16 DEF Receive, Dial

\* What a reply adds to the client's stream.
LEMMA ReplyAdds ==
  ASSUME FrameInv, handler \in {"running", "accepting"}, client = "up",
         NEW kind \in Replies, NEW next, Reply(kind, next)
  PROVE  /\ handler' = next /\ toClient' \in Seq(Pieces(Replies))
         /\ Len(toClient) \in Nat /\ Len(toClient') = Len(toClient) + 2
         /\ \A i \in 1 .. Len(toClient) : toClient'[i] = toClient[i]
         /\ \A i \in 1 .. Len(toClient') : i > Len(toClient) => /\ toClient'[i].id = serving.id
                                                               /\ toClient'[i].kind = kind
<1>1. serving.id \in 1 .. MaxCalls /\ toClient \in Seq(Pieces(Replies))
  BY DEF FrameInv, TypeOK, Serving
<1> DEFINE longer == toClient \o Message(serving.id, kind)
           n == Len(toClient)
<1>2. toClient' = longer /\ handler' = next
  BY DEF Reply
<1>3. /\ longer \in Seq(Pieces(Replies)) /\ n \in Nat /\ Len(longer) = n + 2
      /\ \A i \in 1 .. n : longer[i] = toClient[i]
  BY <1>1, MessageSent
<1>4. /\ longer[n + 1].id = serving.id /\ longer[n + 1].kind = kind
      /\ longer[n + 2].id = serving.id /\ longer[n + 2].kind = kind
  BY <1>1, MessageSent
<1> HIDE DEF longer, n
<1>5. \A i \in 1 .. Len(longer) : i > n => longer[i].id = serving.id /\ longer[i].kind = kind
  <2> TAKE i \in 1 .. Len(longer)
  <2>1. i > n => i = n + 1 \/ i = n + 2
    BY <1>3
  <2> QED BY <1>4, <2>1
<1> QED BY <1>2, <1>3, <1>5 DEF n

\* The handler reads a request, executes it and replies, in its turn.
LEMMA HandlerInOrder ==
  ASSUME IInv,
         Serve \/ Hang \/ AcceptFails \/ Cleanup \/ \E way \in Ways : ServerGoes(way)
  PROVE  InOrder' /\ OwnReply'
<1>1. UNCHANGED << pc, holder, asked, call, got, late, client >>
  BY DEF Serve, GetRequest, GetArguments, Execute, Accept, LoseClient, Hang, AcceptFails,
         Cleanup, ServerGoes, threadVars
<1>2. OwnReply'
  BY <1>1 DEF IInv, OwnReply
<1> SUFFICES ASSUME late = 0, client = "up" PROVE Between' /\ \A h \in holder : Step(h)'
  BY <1>1, <1>2 DEF InOrder
<1>3. /\ Between /\ Serving /\ toServer \in Seq(Pieces(Kinds))
      /\ toClient \in Seq(Pieces(Replies))
  BY DEF IInv, InOrder, FrameInv, TypeOK
<1>4. CASE holder = {}
  <2>1. toClient = << >> /\ (server = "up" => toServer = << >> /\ handler = "select" /\ ~ dialled)
    BY <1>3, <1>4 DEF Between
  <2>2. PICK way \in Ways : ServerGoes(way)
    BY <1>3, <2>1 DEF Serving, Serve, GetRequest, GetArguments, Execute, Accept, LoseClient, Hang,
                      AcceptFails, Cleanup
  <2>3. server' # "up" /\ toClient' = << >>
    <3>1. server' # "up"
      BY <2>2 DEF ServerGoes, Ways
    <3>2. PICK n \in 0 .. Len(toClient) : toClient' = SubSeq(toClient, 1, n)
      BY <2>2 DEF ServerGoes
    <3>3. Len(toClient') = 0 /\ toClient' \in Seq(Pieces(Replies))
      BY <1>3, <2>1, <3>2
    <3> QED BY <3>1, <3>3
  <2> QED BY <1>4, <2>3 DEF Between
<1>5. ASSUME NEW h \in holder PROVE Between' /\ Step(h)'
  <2>1. h \in Threads /\ pc[h] \in Busy /\ Between' /\ Step(h)
    BY <1>1, <1>5 DEF IInv, InOrder, FrameInv, TypeOK, Mutex, Between
  <2>2. /\ pc[h] \in {"waiting", "payload", "connecting"} /\ Bound(h)
        /\ \A i \in 1 .. Len(toClient) : toClient[i].id = call[h].id
        /\ pc[h] = "waiting" /\ Len(toClient) > 1 => toClient[1].kind = toClient[2].kind
    BY <2>1 DEF Step, Busy
  <2>3. CASE \E way \in Ways : ServerGoes(way)
    <3>1. PICK way \in Ways : ServerGoes(way)
      BY <2>3
    <3>2. PICK n \in 0 .. Len(toClient) : toClient' = SubSeq(toClient, 1, n)
      BY <3>1 DEF ServerGoes
    <3>3. /\ Len(toClient) \in Nat /\ Len(toClient') = n
          /\ \A i \in 1 .. n : toClient'[i] = toClient[i]
      BY <1>3, <3>2
    <3>4. server' # "up"
      BY <3>1 DEF ServerGoes, Ways
    <3>5. Bound(h)'
      BY <1>1, <2>2, <3>3 DEF Bound
    <3> QED BY <1>1, <2>1, <2>2, <3>3, <3>4, <3>5 DEF Step
  <2>4. CASE Cleanup
    <3>1. server' # "up" /\ toClient' = toClient
      BY <2>4 DEF Cleanup
    <3> QED BY <1>1, <2>1, <2>2, <3>1 DEF Step, Bound
  <2>5. CASE Serve \/ Hang \/ AcceptFails
    <3>1. server = "up" /\ server' = "up" /\ ~ LoseClient
      BY <1>3, <2>5 DEF Serving, Serve, GetRequest, GetArguments, Execute, Accept, LoseClient,
                        Hang, AcceptFails
    <3>2. Asking(h) /\ Requested(h) /\ Served(h)
      BY <2>1, <3>1 DEF Step
    <3>3. CASE GetRequest \/ GetArguments
      <4>1. /\ toServer # << >> /\ toServer' = Tail(toServer)
            /\ UNCHANGED << toClient, dialled >>
        BY <3>3 DEF GetRequest, GetArguments
      <4>2. /\ Len(toServer') = Len(toServer) - 1 /\ Len(toServer) \in Nat \ {0}
            /\ toServer' \in Seq(Pieces(Kinds)) /\ Head(toServer) = toServer[1]
            /\ \A i \in 1 .. Len(toServer') : toServer'[i] = toServer[i + 1]
        BY <1>3, <4>1
      <4>3. /\ pc[h] = "waiting" /\ toClient = << >> /\ ~ dialled
            /\ Len(toServer) = IF handler = "select" THEN 2 ELSE 1
            /\ \A i \in 1 .. Len(toServer) :
                 toServer[i].id = call[h].id /\ toServer[i].kind = call[h].kind
        BY <3>2, <4>1 DEF Asking, Requested
      <4>4. /\ Asking(h)' /\ Bound(h)'
            /\ \A i \in 1 .. Len(toServer') :
                 toServer'[i].id = call[h].id /\ toServer'[i].kind = call[h].kind
        BY <1>1, <2>2, <4>1, <4>2, <4>3 DEF Asking, Bound
      <4>5. CASE GetRequest
        <5>1. handler = "select" /\ handler' = "payload"
          BY <4>5 DEF GetRequest
        <5>2. Requested(h)' /\ Served(h)'
          BY <1>1, <4>1, <4>2, <4>3, <4>4, <5>1 DEF Requested, Served
        <5> QED BY <1>1, <2>1, <2>2, <4>1, <4>4, <5>2 DEF Step
      <4>6. CASE GetArguments
        <5>1. /\ handler = "payload" /\ handler' = "running"
              /\ serving'.id = call[h].id /\ serving'.kind = call[h].kind
          <6>1. toServer[1].id = call[h].id /\ toServer[1].kind = call[h].kind
            BY <4>2, <4>3
          <6> QED BY <4>2, <4>6, <6>1 DEF GetArguments
        <5>2. Len(toServer') = 0
          BY <4>2, <4>3, <5>1
        <5>3. toServer' = << >>
          BY <4>2, <5>2
        <5>4. Requested(h)' /\ Served(h)'
          BY <1>1, <4>1, <4>3, <5>1, <5>3 DEF Requested, Served
        <5> QED BY <1>1, <2>1, <2>2, <4>1, <4>4, <5>4 DEF Step
      <4> QED BY <3>3, <4>5, <4>6
    <3>4. CASE Hang
      <4>1. /\ handler = "running" /\ handler' = "hung"
            /\ UNCHANGED << serving, toServer, toClient, dialled >>
        BY <3>4 DEF Hang
      <4>2. Asking(h)' /\ Requested(h)' /\ Served(h)'
        BY <1>1, <3>2, <4>1 DEF Asking, Requested, Served
      <4> QED BY <1>1, <2>1, <2>2, <4>1, <4>2 DEF Step, Bound
    <3>5. ASSUME handler \in {"running", "accepting"}, UNCHANGED << serving, toServer >>,
                 NEW kind \in Replies, NEW next \in {"select", "accepting", "ended"},
                 Reply(kind, next), ~ dialled',
                 next = "ended" => call[h].kind = "hangup",
                 next = "accepting" <=> kind = "port",
                 kind = "port" => handler = "running" /\ serving.kind = "tcp",
                 kind = "value" => ~ (handler = "accepting" /\ ~ dialled),
                 next # "accepting" \/ serving.kind = "tcp"
          PROVE  Step(h)'
      <4>1. /\ handler' = next
            /\ Len(toClient) \in Nat /\ Len(toClient') = Len(toClient) + 2
            /\ \A i \in 1 .. Len(toClient) : toClient'[i] = toClient[i]
            /\ \A i \in 1 .. Len(toClient') : i > Len(toClient) => /\ toClient'[i].id = serving.id
                                                                  /\ toClient'[i].kind = kind
        BY <3>5, ReplyAdds DEF IInv
      <4>2. serving.id = call[h].id /\ toServer = << >>
        BY <3>2, <3>5 DEF Served, Requested
      <4>3. \A i \in 1 .. Len(toClient') : toClient'[i].id = call[h].id
        BY <2>2, <4>1, <4>2
      <4>4. CASE toClient = << >> /\ pc[h] = "waiting"
        <5>1. Len(toClient') = 2 /\ \A i \in 1 .. 2 : toClient'[i].kind = kind
          <6>1. Len(toClient) = 0
            BY <4>4
          <6> QED BY <4>1, <6>1
        <5>2. Bound(h)'
          BY <1>1, <2>2, <4>4, <5>1 DEF Bound
        <5>3. Asking(h)' /\ Requested(h)'
          BY <3>5, <4>1, <4>2 DEF Asking, Requested
        <5>4. Served(h)'
          <6>1. next = "accepting" => call[h].kind = "tcp" /\ kind = "port"
            BY <3>2, <3>5 DEF Served
          <6>2. next = "accepting" => PortSent(h)'
            BY <1>1, <4>4, <5>1, <6>1 DEF PortSent
          <6> QED BY <1>1, <3>5, <4>1, <4>2, <6>2 DEF Served
        <5> QED BY <1>1, <4>3, <5>1, <5>2, <5>3, <5>4 DEF Step
      <4>5. CASE handler = "accepting" /\ ~ dialled
        <5>1. PortSent(h) /\ kind = "exception" /\ next # "accepting"
          BY <3>2, <3>5, <4>5 DEF Served, Replies
        <5>ports. Len(toClient) \in Nat /\ \A i \in 1 .. Len(toClient) : toClient'[i].kind = "port"
          BY <4>1, <5>1 DEF PortSent
        <5>first. Len(toClient) >= 1 => toClient'[1].kind = "port"
          BY <5>ports
        <5>second. Len(toClient) >= 2 => toClient'[2].kind = "port"
          BY <5>ports
        <5>length. call[h].kind = "tcp" /\ (pc[h] = "waiting" => Len(toClient) = 2)
              /\ (pc[h] = "payload" => Len(toClient) = 1)
              /\ (pc[h] = "connecting" => Len(toClient) = 0)
          BY <5>1 DEF PortSent
        <5>2. /\ call[h].kind = "tcp"
              /\ pc[h] = "waiting" => Len(toClient) = 2 /\ toClient'[1].kind = "port"
                                      /\ toClient'[2].kind = "port"
              /\ pc[h] = "payload" => Len(toClient) = 1 /\ toClient'[1].kind = "port"
              /\ pc[h] = "connecting" => Len(toClient) = 0
          <6>1. pc[h] = "waiting" => /\ Len(toClient) = 2 /\ toClient'[1].kind = "port"
                                     /\ toClient'[2].kind = "port"
            <7>1. Len(toClient) = 2 => Len(toClient) >= 1 /\ Len(toClient) >= 2
              OBVIOUS
            <7> QED BY <5>first, <5>second, <5>length, <7>1, Zenon
          <6>2. pc[h] = "payload" => Len(toClient) = 1 /\ toClient'[1].kind = "port"
            <7>1. Len(toClient) = 1 => Len(toClient) >= 1
              OBVIOUS
            <7> QED BY <5>first, <5>length, <7>1, Zenon
          <6> QED BY <5>length, <6>1, <6>2, Zenon
        <5>3. Bound(h)'
          BY <1>1, <4>1, <5>2 DEF Bound
        <5>4. Asking(h)' /\ Requested(h)' /\ Served(h)'
          BY <1>1, <3>5, <4>1, <4>2, <5>1 DEF Asking, Requested, Served
        <5> QED BY <1>1, <4>1, <4>3, <5>2, <5>3, <5>4 DEF Step
      <4>6. handler = "running" => toClient = << >> /\ pc[h] = "waiting"
        BY <3>2 DEF Asking
      <4>7. handler = "accepting" /\ dialled => toClient = << >> /\ pc[h] = "waiting"
        BY <3>2 DEF Served
      <4> QED BY <3>5, <4>4, <4>5, <4>6, <4>7
    <3>6. CASE Execute
      <4>1. handler = "running" /\ UNCHANGED << serving, toServer, dialled >> /\ ~ dialled
            /\ serving.kind = call[h].kind
        BY <3>2, <3>6 DEF Execute, Asking, Served
      <4>2. CASE serving.kind # "tcp" /\ Answers
        <5>1. PICK next \in {"select", "ended"} :
                Reply("value", next) /\ (next = "ended" => serving.kind = "hangup")
          BY <4>2 DEF Answers
        <5> QED BY <2>1, <3>5, <4>1, <5>1 DEF Replies
      <4>3. CASE Excuses
        BY <2>1, <3>5, <4>1, <4>3 DEF Excuses, Replies
      <4>4. CASE serving.kind = "tcp" /\ Reply("port", "accepting")
        BY <2>1, <3>5, <4>1, <4>4 DEF Replies
      <4> QED BY <3>6, <4>2, <4>3, <4>4 DEF Execute
    <3>7. CASE Accept
      <4>1. handler = "accepting" /\ dialled /\ ~ dialled' /\ UNCHANGED << serving, toServer >>
        BY <3>7 DEF Accept
      <4>2. Reply("value", "select")
        BY <3>2, <3>7, <4>1 DEF Accept, Answers, Served
      <4> QED BY <2>1, <3>5, <4>1, <4>2 DEF Replies
    <3>8. CASE AcceptFails
      BY <2>1, <3>5, <3>8 DEF AcceptFails, Excuses, Replies
    <3> QED BY <2>1, <2>5, <3>1, <3>3, <3>4, <3>6, <3>7, <3>8 DEF Serve
  <2> QED BY <2>3, <2>4, <2>5
<1>6. CASE holder # {}
  BY <1>5, <1>6
<1> QED BY <1>4, <1>6

LEMMA NextInOrder == CallsAssumption /\ IInv /\ [Next]_vars => IInv'
<1> SUFFICES ASSUME CallsAssumption, IInv, [Next]_vars PROVE IInv'
  OBVIOUS
<1>1. FrameInv'
  BY NextFramed DEF IInv
<1>2. CASE UNCHANGED vars
  BY <1>1, <1>2 DEF IInv, InOrder, OwnReply, Between, Step, Bound, Asking, Requested, Served,
                    PortSent, vars, threadVars, handlerVars
<1>3. ASSUME NEW t \in Threads, NEW kind \in Kinds, Begin(t, kind) PROVE InOrder' /\ OwnReply'
  BY <1>3, BeginInOrder
<1>4. ASSUME NEW t \in Threads, Receive(t) \/ Dial(t) PROVE InOrder' /\ OwnReply'
  BY <1>4, ReceiveInOrder
<1>5. CASE Serve \/ Hang \/ AcceptFails \/ Cleanup \/ \E way \in Ways : ServerGoes(way)
  BY <1>1, <1>5, HandlerInOrder DEF IInv
<1>6. ASSUME NEW way \in Ways, ClientGoes(way) PROVE InOrder' /\ OwnReply'
  BY <1>6 DEF ClientGoes, InOrder, OwnReply, Ways
<1> QED BY <1>1, <1>2, <1>3, <1>4, <1>5, <1>6 DEF Next, IInv

\* However the threads interleave, and wherever the server goes, a method returns the
\* reply to its own call as long as no call gave up.
THEOREM SpecOwnReply == Spec => []OwnReply
<1>1. Init => IInv
  BY CallsAssumption, InitInOrder
<1>2. IInv /\ [Next]_vars => IInv'
  BY CallsAssumption, NextInOrder
<1>3. IInv => OwnReply
  BY DEF IInv
<1> QED BY <1>1, <1>2, <1>3, PTL DEF Spec

\* Between two calls nothing is left of the first on either stream, and the handler
\* awaits a request.
THEOREM SpecInStep == Spec => []InStep
<1>1. Init => IInv
  BY CallsAssumption, InitInOrder
<1>2. IInv /\ [Next]_vars => IInv'
  BY CallsAssumption, NextInOrder
<1>3. IInv => InStep
  BY DEF IInv, InOrder, Between, InStep
<1> QED BY <1>1, <1>2, <1>3, PTL DEF Spec

-----------------------------------------------------------------------------
(* How far replies fall behind, after calls that gave up.                  *)

\* Pieces of a message that the reader has taken already.
Inside == IF Reading THEN 1 ELSE 0
Taken == IF handler = "payload" THEN 1 ELSE 0

Answering == handler \in {"running", "hung", "accepting"}
\* The last reply to a request.
Final(piece) == piece.kind # "port"

\* Pieces that the handler may still send: for the request it has,
Due == IF ~ Answering THEN 0
       ELSE IF serving.kind = "tcp" /\ handler # "accepting" THEN 4 ELSE 2

\* and for those on their way, of which a TCP set-up has two replies.
IsTcp(piece, n) == piece.id = n /\ piece.kind = "tcp" /\ piece.part = "rest"
TcpIn(seq) == {n \in 1 .. MaxCalls : \E i \in 1 .. Len(seq) : IsTcp(seq[i], n)}
Queued == Len(toServer) + Taken + 2 * Cardinality(TcpIn(toServer))

\* Replies that the call under way may still read.
Owed == IF holder = {} THEN 0
        ELSE IF \E h \in holder : call[h].kind = "tcp" /\ pc[h] # "connecting" THEN 2 ELSE 1
Room == 4 * late + 2 * Owed

\* The mutex is held by the last call; the requests that are queued are the last ones.
Numbered ==
  /\ \A h \in holder : call[h].id = asked
  /\ server = "up" =>
       /\ \A i \in 1 .. Len(toServer) :
            2 * (asked - toServer[i].id)
              = Len(toServer) - i - (IF toServer[i].part = "head" THEN 1 ELSE 0)
       /\ Answering => 2 * (asked - serving.id) = Len(toServer)

\* Replies come in the order of the calls, and none after the last one to a call.
Sorted ==
  /\ \A i \in 1 .. Len(toClient) : toClient[i].id <= asked
  /\ \A i, j \in 1 .. Len(toClient) :
       i < j /\ toClient[i].part = "rest" /\ Final(toClient[i]) => toClient[i].id < toClient[j].id
  /\ server = "up" =>
       \A i \in 1 .. Len(toClient) :
         /\ Len(toServer) + Taken <= 2 * (asked - toClient[i].id)
         /\ Answering /\ Final(toClient[i]) => Len(toServer) + 2 <= 2 * (asked - toClient[i].id)

\* What is left over is at most two replies for each call that gave up.
Sized ==
  /\ server = "up" => Len(toClient) + Inside + Due + Queued <= Room
  /\ \A i \in 1 .. Len(toClient) : 2 * (asked - toClient[i].id) + i + Inside <= Room

LeftOver == client = "up" => Numbered /\ Sorted /\ Sized

\* What is counted are numbers.
LEMMA PieceTypes ==
  ASSUME NEW kinds, NEW seq \in Seq(Pieces(kinds))
  PROVE  /\ Len(seq) \in Nat
         /\ \A i \in 1 .. Len(seq) : /\ seq[i].id \in 1 .. MaxCalls /\ seq[i].kind \in kinds
                                     /\ seq[i].part \in {"head", "rest"}
<1>1. \A i \in 1 .. Len(seq) : seq[i] \in Pieces(kinds)
  OBVIOUS
<1> QED BY <1>1 DEF Pieces

LEMMA TcpFinite ==
  ASSUME CallsAssumption, NEW seq
  PROVE  IsFiniteSet(TcpIn(seq)) /\ Cardinality(TcpIn(seq)) \in Nat
<1>1. IsFiniteSet(1 .. MaxCalls)
  BY FS_Interval DEF CallsAssumption
<1>2. TcpIn(seq) \in SUBSET (1 .. MaxCalls)
  BY DEF TcpIn
<1> QED BY <1>1, <1>2, FS_Subset, FS_CardinalityType

LEMMA Counts ==
  ASSUME CallsAssumption, FrameInv
  PROVE  /\ asked \in Nat /\ late \in Nat /\ serving.id \in Nat
         /\ Len(toServer) \in Nat /\ Len(toClient) \in Nat
         /\ Inside \in {0, 1} /\ Taken \in {0, 1} /\ Due \in {0, 2, 4} /\ Owed \in {0, 1, 2}
         /\ Queued \in Nat /\ Room \in Nat
<1>1. /\ asked \in Nat /\ late \in Nat /\ serving.id \in Nat
      /\ Len(toServer) \in Nat /\ Len(toClient) \in Nat
  BY DEF FrameInv, TypeOK, CallsAssumption
<1>2. Inside \in {0, 1} /\ Taken \in {0, 1} /\ Due \in {0, 2, 4} /\ Owed \in {0, 1, 2}
  BY DEF Inside, Taken, Due, Owed
<1>3. Cardinality(TcpIn(toServer)) \in Nat
  BY TcpFinite
<1>4. Queued \in Nat
  BY <1>1, <1>2, <1>3 DEF Queued
<1>5. Room \in Nat
  BY <1>1, <1>2 DEF Room
<1> QED BY <1>1, <1>2, <1>4, <1>5

\* A request that is sent is one more in the queue,
LEMMA TcpMore ==
  ASSUME CallsAssumption, NEW seq \in Seq(Pieces(Kinds)), NEW id \in 1 .. MaxCalls,
         NEW kind \in Kinds
  PROVE  Cardinality(TcpIn(seq \o Message(id, kind)))
           <= Cardinality(TcpIn(seq)) + IF kind = "tcp" THEN 1 ELSE 0
<1> DEFINE longer == seq \o Message(id, kind)
           n == Len(seq)
           more == TcpIn(seq) \cup {id}
<1>1. /\ n \in Nat /\ Len(longer) = n + 2 /\ \A i \in 1 .. n : longer[i] = seq[i]
      /\ longer[n + 1].part = "head" /\ longer[n + 2].kind = kind /\ longer[n + 2].id = id
  BY MessageSent
<1> HIDE DEF longer, n
<1>2. ASSUME NEW m \in TcpIn(longer) PROVE m \in TcpIn(seq) \/ (m = id /\ kind = "tcp")
  <2>1. PICK i \in 1 .. Len(longer) : IsTcp(longer[i], m)
    BY DEF TcpIn
  <2>2. m \in 1 .. MaxCalls
    BY DEF TcpIn
  <2>3. CASE i \in 1 .. n
    BY <1>1, <2>1, <2>2, <2>3 DEF TcpIn, n
  <2>4. CASE i = n + 1
    BY <1>1, <2>1, <2>4 DEF IsTcp
  <2>5. CASE i = n + 2
    BY <1>1, <2>1, <2>5 DEF IsTcp
  <2> QED BY <1>1, <2>3, <2>4, <2>5
<1>3. IsFiniteSet(TcpIn(seq)) /\ Cardinality(TcpIn(seq)) \in Nat
      /\ Cardinality(TcpIn(longer)) \in Nat
  BY TcpFinite
<1>4. IsFiniteSet(more) /\ Cardinality(more) <= Cardinality(TcpIn(seq)) + 1
  <2>1. /\ IsFiniteSet(more)
        /\ Cardinality(more) = IF id \in TcpIn(seq) THEN Cardinality(TcpIn(seq))
                               ELSE Cardinality(TcpIn(seq)) + 1
    BY <1>3, FS_AddElement, Zenon
  <2> HIDE DEF more
  <2> QED BY <1>3, <2>1
<1>5. CASE kind = "tcp"
  <2>1. TcpIn(longer) \in SUBSET more
    BY <1>2
  <2>2. Cardinality(TcpIn(longer)) <= Cardinality(more) /\ Cardinality(more) \in Nat
    BY <1>4, <2>1, FS_Subset, FS_CardinalityType
  <2> QED BY <1>3, <1>4, <1>5, <2>2 DEF longer
<1>6. CASE kind # "tcp"
  <2>1. TcpIn(longer) \in SUBSET TcpIn(seq)
    BY <1>2, <1>6
  <2>2. Cardinality(TcpIn(longer)) <= Cardinality(TcpIn(seq))
    BY <1>3, <2>1, FS_Subset
  <2> QED BY <1>3, <1>6, <2>2 DEF longer
<1> QED BY <1>5, <1>6

\* a piece that the handler takes adds none,
LEMMA TcpTail ==
  ASSUME CallsAssumption, NEW seq \in Seq(Pieces(Kinds)), seq # << >>
  PROVE  Cardinality(TcpIn(Tail(seq))) <= Cardinality(TcpIn(seq))
<1> DEFINE rest == Tail(seq)
<1>1. /\ Len(seq) \in Nat \ {0} /\ Len(rest) = Len(seq) - 1
      /\ \A i \in 1 .. Len(rest) : rest[i] = seq[i + 1]
  OBVIOUS
<1> HIDE DEF rest
<1>2. ASSUME NEW m \in TcpIn(rest) PROVE m \in TcpIn(seq)
  <2>1. PICK i \in 1 .. Len(rest) : IsTcp(rest[i], m)
    BY DEF TcpIn
  <2>2. i + 1 \in 1 .. Len(seq) /\ IsTcp(seq[i + 1], m)
    BY <1>1, <2>1
  <2> QED BY <2>2 DEF TcpIn
<1>3. IsFiniteSet(TcpIn(seq)) /\ TcpIn(rest) \in SUBSET TcpIn(seq)
  BY <1>2, TcpFinite
<1>4. Cardinality(TcpIn(rest)) <= Cardinality(TcpIn(seq))
  BY <1>3, FS_Subset
<1> QED BY <1>4 DEF rest

\* and one that the handler takes is one less.
LEMMA TcpLess ==
  ASSUME CallsAssumption, NEW seq \in Seq(Pieces(Kinds)), seq # << >>,
         \A i \in 2 .. Len(seq) : seq[i].part = "rest" => seq[i].id # seq[1].id
  PROVE  Cardinality(TcpIn(Tail(seq)))
           + (IF seq[1].part = "rest" /\ seq[1].kind = "tcp" THEN 1 ELSE 0)
             <= Cardinality(TcpIn(seq))
<1> DEFINE rest == Tail(seq)
           id == seq[1].id
           less == TcpIn(seq) \ {id}
<1>1. /\ Len(seq) \in Nat \ {0} /\ Len(rest) = Len(seq) - 1 /\ id \in 1 .. MaxCalls
      /\ \A i \in 1 .. Len(rest) : rest[i] = seq[i + 1]
  <2>1. /\ Len(seq) \in Nat \ {0} /\ Len(rest) = Len(seq) - 1
        /\ \A i \in 1 .. Len(rest) : rest[i] = seq[i + 1]
    OBVIOUS
  <2> QED BY <2>1, PieceTypes
<1> HIDE DEF rest
<1>2. ASSUME NEW m \in TcpIn(rest) PROVE m \in less
  <2>1. PICK i \in 1 .. Len(rest) : IsTcp(rest[i], m)
    BY DEF TcpIn
  <2>2. i + 1 \in 2 .. Len(seq) /\ i + 1 \in 1 .. Len(seq) /\ IsTcp(seq[i + 1], m)
    BY <1>1, <2>1
  <2>3. m # id
    BY <2>2 DEF IsTcp
  <2> QED BY <2>2, <2>3 DEF TcpIn
<1>3. IsFiniteSet(TcpIn(seq)) /\ Cardinality(TcpIn(seq)) \in Nat
      /\ Cardinality(TcpIn(rest)) \in Nat
  BY TcpFinite
<1>4. IsFiniteSet(less) /\ Cardinality(less) \in Nat
      /\ Cardinality(less) = IF id \in TcpIn(seq) THEN Cardinality(TcpIn(seq)) - 1
                             ELSE Cardinality(TcpIn(seq))
  <2> HIDE DEF id
  <2> QED BY <1>3, FS_RemoveElement, FS_CardinalityType
<1>5. Cardinality(TcpIn(rest)) <= Cardinality(less)
  <2>1. TcpIn(rest) \in SUBSET less
    BY <1>2
  <2> QED BY <1>4, <2>1, FS_Subset
<1>6. seq[1].part = "rest" /\ seq[1].kind = "tcp" => id \in TcpIn(seq)
  <2>1. 1 \in 1 .. Len(seq)
    BY <1>1
  <2> QED BY <1>1, <2>1 DEF TcpIn, IsTcp
<1> HIDE DEF less, id
<1> QED BY <1>3, <1>4, <1>5, <1>6 DEF rest

\* At first nothing is left over.
LEMMA InitLeftOver == CallsAssumption /\ Init => LeftOver
<1> SUFFICES ASSUME CallsAssumption, Init PROVE LeftOver
  OBVIOUS
<1>1. /\ asked = 0 /\ late = 0 /\ holder = {} /\ toServer = << >> /\ toClient = << >>
      /\ handler = "select"
  BY DEF Init
<1>2. Inside = 0 /\ Taken = 0 /\ Due = 0 /\ Room = 0
  BY <1>1 DEF Init, Inside, Reading, Taken, Due, Answering, Room, Owed
<1>3. TcpIn(toServer) = {}
  BY <1>1 DEF TcpIn
<1>4. Queued = 0
  BY <1>1, <1>2, <1>3, FS_EmptySet DEF Queued
<1>5. Numbered /\ Sorted /\ Sized
  BY <1>1, <1>2, <1>4 DEF Numbered, Sorted, Sized, Answering
<1> QED BY <1>5 DEF LeftOver

\* Room shrinks by what is read at most.
LEMMA Shrinks ==
  ASSUME NEW x \in Int, NEW d \in Int, NEW in \in Int, NEW in2 \in Int, NEW room \in Int,
         NEW room2 \in Int, (x + d) + in <= room, room + in2 <= room2 + d + in
  PROVE  x + in2 <= room2
OBVIOUS

LEMMA ShrinksAt ==
  ASSUME NEW a \in Int, NEW x \in Int, NEW i \in Int, NEW d \in Int, NEW in \in Int,
         NEW in2 \in Int, NEW room \in Int, NEW room2 \in Int,
         2 * (a - x) + (i + d) + in <= room, room + in2 <= room2 + d + in
  PROVE  2 * (a - x) + i + in2 <= room2
OBVIOUS

\* A thread reads d pieces, by which the room may shrink.
LEMMA ReadLeavesOver ==
  ASSUME CallsAssumption, FrameInv, LeftOver, client = "up", NEW d \in {0, 1},
         UNCHANGED << toServer, handler, serving, server, asked >>,
         \A h \in holder' : h \in holder /\ call'[h].id = call[h].id,
         Inside' \in {0, 1}, Room' \in Nat, Room + Inside' <= Room' + d + Inside,
         Len(toClient') = Len(toClient) - d,
         \A i \in 1 .. Len(toClient') : toClient'[i] = toClient[i + d]
  PROVE  LeftOver'
<1>1. /\ asked \in Nat /\ Len(toServer) \in Nat /\ Len(toClient) \in Nat
      /\ Inside \in {0, 1} /\ Taken \in {0, 1} /\ Due \in {0, 2, 4}
      /\ Queued \in Nat /\ Room \in Nat
  BY Counts
<1>2. Taken' = Taken /\ Due' = Due /\ Queued' = Queued /\ (Answering' <=> Answering)
  BY DEF Taken, Due, Answering, Queued
<1>3. \A i \in 1 .. Len(toClient') : /\ i + d \in 1 .. Len(toClient) /\ toClient'[i] = toClient[i + d]
                                     /\ toClient[i + d].id \in Int
  <2>1. \A i \in 1 .. Len(toClient) : toClient[i].id \in Int
    BY PieceTypes DEF FrameInv, TypeOK
  <2>2. \A i \in 1 .. Len(toClient') : i + d \in 1 .. Len(toClient)
    BY <1>1
  <2> QED BY <2>1, <2>2
<1>4. Numbered'
  BY DEF LeftOver, Numbered, Answering
<1>5. Sorted'
  <2>1. Sorted
    BY DEF LeftOver
  <2>2. \A i \in 1 .. Len(toClient') : toClient'[i].id <= asked'
    BY <1>3, <2>1 DEF Sorted
  <2>3. ASSUME NEW i \in 1 .. Len(toClient'), NEW j \in 1 .. Len(toClient'),
               i < j, toClient'[i].part = "rest", Final(toClient'[i])
        PROVE  toClient'[i].id < toClient'[j].id
    <3>1. i + d \in 1 .. Len(toClient) /\ j + d \in 1 .. Len(toClient) /\ i + d < j + d
      BY <1>3, <2>3
    <3> QED BY <1>3, <2>1, <2>3, <3>1 DEF Sorted
  <2>4. ASSUME server' = "up", NEW i \in 1 .. Len(toClient')
        PROVE  /\ Len(toServer') + Taken' <= 2 * (asked' - toClient'[i].id)
               /\ Answering' /\ Final(toClient'[i])
                    => Len(toServer') + 2 <= 2 * (asked' - toClient'[i].id)
    BY <1>2, <1>3, <2>1, <2>4 DEF Sorted
  <2> QED BY <2>2, <2>3, <2>4 DEF Sorted, Final
<1>6. Sized'
  <2>1. Sized
    BY DEF LeftOver
  <2>2. server' = "up" => Len(toClient') + Inside' + Due' + Queued' <= Room'
    <3> SUFFICES ASSUME server' = "up"
                 PROVE  (Len(toClient') + Due + Queued) + Inside' <= Room'
      BY <1>1, <1>2
    <3>1. Len(toClient) + Inside + Due + Queued <= Room
      BY <2>1 DEF Sized
    <3>2. /\ Len(toClient') + Due + Queued \in Int /\ d \in Int /\ Inside \in Int
          /\ Inside' \in Int /\ Room \in Int /\ Room' \in Int
      BY <1>1
    <3>3. ((Len(toClient') + Due + Queued) + d) + Inside <= Room
      BY <1>1, <3>1
    <3> QED BY <3>2, <3>3, Shrinks, Zenon
  <2>3. ASSUME NEW i \in 1 .. Len(toClient')
        PROVE  2 * (asked' - toClient'[i].id) + i + Inside' <= Room'
    <3>1. 2 * (asked - toClient[i + d].id) + (i + d) + Inside <= Room
      BY <1>3, <2>1 DEF Sized
    <3>2. toClient'[i] = toClient[i + d] /\ toClient[i + d].id \in Int
      BY <1>3
    <3>3. /\ asked \in Int /\ i \in Int /\ d \in Int /\ Inside \in Int /\ Inside' \in Int
          /\ Room \in Int /\ Room' \in Int
      BY <1>1
    <3>4. 2 * (asked - toClient[i + d].id) + i + Inside' <= Room'
      <4> DEFINE x == toClient[i + d].id
      <4>1. x \in Int /\ 2 * (asked - x) + (i + d) + Inside <= Room
        BY <3>1, <3>2
      <4> HIDE DEF x
      <4>2. \A in2, room2 \in Int :
              Room + in2 <= room2 + d + Inside => 2 * (asked - x) + i + in2 <= room2
        BY <3>3, <4>1, ShrinksAt
      <4> QED BY <3>3, <4>2 DEF x
    <3> QED BY <3>2, <3>4
  <2> QED BY <2>2, <2>3 DEF Sized
<1> QED BY <1>4, <1>5, <1>6 DEF LeftOver

\* What a thread that is in a call may still read.
LEMMA OwedTo ==
  ASSUME FrameInv, NEW t \in Threads, pc[t] \in Busy
  PROVE  /\ holder = {t} /\ client = "up"
         /\ Owed = IF call[t].kind = "tcp" /\ pc[t] # "connecting" THEN 2 ELSE 1
         /\ Inside = IF pc[t] = "payload" THEN 1 ELSE 0
<1>1. holder = {t} /\ client = "up" /\ (Reading <=> pc[t] = "payload")
  BY OneBusy
<1> QED BY <1>1 DEF Owed, Inside

\* The call ends, and with it what it may read.
LEMMA EndLeavesOver ==
  ASSUME CallsAssumption, FrameInv, NEW t \in Threads, pc[t] \in Busy, NEW n \in 0 .. MaxCalls,
         End(t, n), late' \in {late, late + 1}
  PROVE  /\ holder' = {} /\ Inside' = 0 /\ Owed' = 0 /\ Room' = 4 * late' /\ Room' \in Nat
<1>1. holder' = {} /\ Reading' = FALSE
  BY EndFrames
<1>2. late' \in Nat
  BY Counts
<1>3. Inside' = 0 /\ Owed' = 0
  BY <1>1 DEF Inside, Owed
<1>4. Room' = 4 * late'
  BY <1>2, <1>3 DEF Room
<1>5. 4 * late' \in Nat
  <2>1. \A x \in Nat : 4 * x \in Nat
    OBVIOUS
  <2> QED BY <1>2, <2>1, Zenon
<1> QED BY <1>1, <1>3, <1>4, <1>5, Zenon

\* After the last reply to the last call nothing is left at all.
LEMMA NothingLeft ==
  ASSUME CallsAssumption, FrameInv, LeftOver, client = "up", toClient # << >>,
         toClient[1].id = asked, toClient[1].part = "rest", Final(toClient[1])
  PROVE  /\ Len(toClient) = 1
         /\ server = "up" => toServer = << >> /\ ~ Answering /\ Taken = 0
<1>1. /\ Len(toClient) \in Nat \ {0} /\ Len(toServer) \in Nat /\ asked \in Nat
      /\ Taken \in {0, 1}
  BY Counts DEF FrameInv, TypeOK
<1>2. Sorted /\ Numbered
  BY DEF LeftOver
<1>3. Len(toClient) = 1
  <2> SUFFICES ASSUME Len(toClient) # 1 PROVE FALSE
    OBVIOUS
  <2>1. 1 \in 1 .. Len(toClient) /\ 2 \in 1 .. Len(toClient)
    <3>1. \A n \in Nat \ {0} : n # 1 => 1 \in 1 .. n /\ 2 \in 1 .. n
      OBVIOUS
    <3> QED BY <1>1, <3>1, Zenon
  <2>2. toClient[1].id < toClient[2].id /\ toClient[2].id <= asked
    BY <1>2, <2>1 DEF Sorted
  <2>3. toClient[2].id \in Int
    BY <2>1, PieceTypes DEF FrameInv, TypeOK
  <2> QED BY <1>1, <2>2, <2>3
<1>4. ASSUME server = "up" PROVE toServer = << >> /\ ~ Answering /\ Taken = 0
  <2>1. 1 \in 1 .. Len(toClient)
    BY <1>1
  <2>2. /\ Len(toServer) + Taken <= 2 * (asked - toClient[1].id)
        /\ Answering => Len(toServer) + 2 <= 2 * (asked - toClient[1].id)
    BY <1>2, <1>4, <2>1 DEF Sorted
  <2>3. 2 * (asked - toClient[1].id) = 0
    BY <1>1
  <2>4. Len(toServer) = 0 /\ Taken = 0 /\ ~ Answering
    BY <1>1, <2>2, <2>3
  <2> QED BY <2>4 DEF FrameInv, TypeOK
<1> QED BY <1>3, <1>4

LEMMA Within ==
  ASSUME NEW n \in Int, NEW m \in Int, NEW l \in Nat, m <= n, 2 * (n - m) + 1 + 1 <= 4 * l + 2
  PROVE  n - m \in 0 .. 2 * l
OBVIOUS

\* A thread reads on, gives up, or ends its call with a reply.
LEMMA ReceiveLeavesOver ==
  ASSUME CallsAssumption, FrameInv, LeftOver, StaleBound, NEW t \in Threads,
         Receive(t) \/ Dial(t)
  PROVE  LeftOver' /\ StaleBound'
<1>1. /\ UNCHANGED << toServer, handler, serving, server, asked >>
      /\ pc[t] \in Busy /\ late' \in {late, late + 1}
  BY DEF Receive, Dial, GetHeader, GetReply, GetException, GetPort, Disconnected, PayloadFails,
         GiveUp, Connect, ConnectFails, Payload, End, handlerVars, Busy
<1>2. /\ holder = {t} /\ client = "up"
      /\ Owed = IF call[t].kind = "tcp" /\ pc[t] # "connecting" THEN 2 ELSE 1
      /\ Inside = IF pc[t] = "payload" THEN 1 ELSE 0
  BY <1>1, OwedTo
<1>3. /\ asked \in Nat /\ late \in Nat /\ Len(toClient) \in Nat /\ late' \in Nat
      /\ Room = 4 * late + 2 * Owed
  <2>1. asked \in Nat /\ late \in Nat /\ Len(toClient) \in Nat
    BY Counts
  <2> QED BY <1>1, <2>1 DEF Room
<1>4. Numbered /\ Sorted /\ Sized /\ call[t].id = asked
  BY <1>2 DEF LeftOver, Numbered
<1>5. /\ pc \in [Threads -> {"idle", "waiting", "payload", "connecting", "gone"}]
      /\ call \in [Threads -> [id : 0 .. MaxCalls, kind : Kinds]]
      /\ got \in [Threads -> 0 .. MaxCalls]
      /\ toClient \in Seq(Pieces(Replies))
      /\ \A u \in Threads : u # t => pc[u] \notin Busy
      /\ toClient # << >> /\ pc[t] = "payload" => toClient[1].part = "rest"
  BY <1>2, OneBusy, <1>1 DEF FrameInv, TypeOK, Mutex, Framed, Alternates
<1>6. ASSUME NEW n \in 0 .. MaxCalls, End(t, n), n # 0 => asked - n \in 0 .. 2 * late
      PROVE  StaleBound'
  <2>0. \A x : x \in 0 .. 2 * late => x \in 0 .. 2 * late'
    <3>1. \A l \in Nat : \A x : x \in 0 .. 2 * l => x \in 0 .. 2 * (l + 1)
      OBVIOUS
    <3>2. late \in Nat /\ (late' = late \/ late' = late + 1)
      BY <1>1, <1>3
    <3> QED BY <3>1, <3>2, Zenon
  <2> SUFFICES ASSUME NEW u \in Threads, pc'[u] = "idle", got'[u] # 0
               PROVE  call'[u].id - got'[u] \in 0 .. 2 * late'
    BY DEF StaleBound
  <2>1. CASE u = t
    <3>1. got'[t] = n /\ call'[t].id = asked
      BY <1>4, <1>5, <1>6 DEF End
    <3>2. asked - n \in 0 .. 2 * late
      <4>1. n # 0
        BY <2>1, <3>1, Zenon
      <4> QED BY <1>6, <4>1, Zenon
    <3> QED BY <2>0, <2>1, <3>1, <3>2, Zenon
  <2>2. CASE u # t
    <3>1. got'[u] = got[u] /\ call'[u] = call[u] /\ pc'[u] = pc[u]
      BY <1>5, <1>6, <2>2 DEF End
    <3>2. call[u].id - got[u] \in 0 .. 2 * late
      BY <3>1 DEF StaleBound
    <3> QED BY <2>0, <3>1, <3>2, Zenon
  <2> QED BY <2>1, <2>2
<1>7. ASSUME NEW at \in {"waiting", "payload", "connecting"},
             pc' = [pc EXCEPT ![t] = at], UNCHANGED << holder, got, late >>,
             \A u \in Threads : call'[u].id = call[u].id
      PROVE  /\ StaleBound'
             /\ Inside' = IF at = "payload" THEN 1 ELSE 0
             /\ Owed' = IF call'[t].kind = "tcp" /\ at # "connecting" THEN 2 ELSE 1
             /\ Room' = 4 * late + 2 * Owed'
             /\ \A h \in holder' : h \in holder /\ call'[h].id = call[h].id
  <2>1. \A u \in Threads : pc'[u] = IF u = t THEN at ELSE pc[u]
    BY <1>5, <1>7
  <2>2. StaleBound'
    BY <1>7, <2>1 DEF StaleBound
  <2>3. Reading' <=> at = "payload"
    BY <1>5, <2>1 DEF Reading, Busy
  <2>4. Owed' = IF call'[t].kind = "tcp" /\ at # "connecting" THEN 2 ELSE 1
    BY <1>2, <1>7, <2>1 DEF Owed
  <2>5. Room' = 4 * late + 2 * Owed'
    BY <1>7 DEF Room
  <2> QED BY <1>2, <1>7, <2>2, <2>3, <2>4, <2>5 DEF Inside
<1>8. ASSUME toClient # << >>
      PROVE  /\ Len(toClient) \in Nat \ {0} /\ Len(Tail(toClient)) = Len(toClient) - 1
             /\ \A i \in 1 .. Len(Tail(toClient)) : Tail(toClient)[i] = toClient[i + 1]
             /\ Head(toClient) = toClient[1] /\ toClient[1].id \in 1 .. MaxCalls
             /\ toClient[1].id <= asked
             /\ 2 * (asked - toClient[1].id) + 1 + Inside <= Room
  <2>1. /\ Len(toClient) \in Nat \ {0} /\ Len(Tail(toClient)) = Len(toClient) - 1
        /\ \A i \in 1 .. Len(Tail(toClient)) : Tail(toClient)[i] = toClient[i + 1]
        /\ Head(toClient) = toClient[1]
    BY <1>5, <1>8
  <2>2. 1 \in 1 .. Len(toClient)
    BY <2>1
  <2>3. toClient[1].id \in 1 .. MaxCalls
    BY <1>5, <2>2, PieceTypes
  <2> QED BY <1>4, <2>1, <2>2, <2>3 DEF Sorted, Sized
<1>9. CASE GetHeader(t)
  <2>1. /\ pc[t] = "waiting" /\ pc' = [pc EXCEPT ![t] = "payload"] /\ toClient # << >>
        /\ toClient' = Tail(toClient) /\ UNCHANGED << holder, got, late, call >>
    BY <1>9 DEF GetHeader
  <2>2. /\ StaleBound' /\ Inside' = 1 /\ Owed' = Owed /\ Room' = Room
        /\ \A h \in holder' : h \in holder /\ call'[h].id = call[h].id
    BY <1>2, <1>3, <1>7, <2>1
  <2>3. Room \in Nat /\ Inside = 0
    BY <1>2, <1>3, <2>1
  <2>4. Room + Inside' <= Room' + 1 + Inside
    BY <2>2, <2>3
  <2>5. LeftOver'
    BY <1>1, <1>2, <1>8, <2>1, <2>2, <2>3, <2>4, ReadLeavesOver
  <2> QED BY <2>2, <2>5
<1>10. CASE GetPort(t)
  <2>1. /\ pc[t] = "payload" /\ pc' = [pc EXCEPT ![t] = "connecting"] /\ toClient # << >>
        /\ toClient' = Tail(toClient) /\ UNCHANGED << holder, got, late, call >>
        /\ call[t].kind = "tcp"
    BY <1>10 DEF GetPort, Payload
  <2>2. /\ StaleBound' /\ Inside' = 0 /\ Owed' = 1 /\ Room' = 4 * late + 2 * Owed'
        /\ \A h \in holder' : h \in holder /\ call'[h].id = call[h].id
    BY <1>7, <2>1
  <2>3. Room = 4 * late + 4 /\ Room' = 4 * late + 2 /\ Inside = 1
    BY <1>2, <1>3, <2>1, <2>2
  <2>4. Room + Inside' <= Room' + 1 + Inside /\ Room' \in Nat
    BY <1>3, <2>2, <2>3
  <2>5. LeftOver'
    BY <1>1, <1>2, <1>8, <2>1, <2>2, <2>4, ReadLeavesOver
  <2> QED BY <2>2, <2>5
<1>11. CASE Connect(t)
  <2>1. /\ pc[t] = "connecting" /\ pc' = [pc EXCEPT ![t] = "waiting"]
        /\ UNCHANGED << toClient, holder, got, late >>
        /\ call'[t].kind = "plain" /\ \A u \in Threads : call'[u].id = call[u].id
    BY <1>5, <1>11 DEF Connect
  <2>2. /\ StaleBound' /\ Inside' = 0 /\ Owed' = 1 /\ Room' = 4 * late + 2 * Owed'
        /\ \A h \in holder' : h \in holder /\ call'[h].id = call[h].id
    BY <1>7, <2>1
  <2>3. Room = 4 * late + 2 /\ Room' = 4 * late + 2 /\ Inside = 0
    BY <1>2, <1>3, <2>1, <2>2
  <2>4. Room + Inside' <= Room' + 0 + Inside /\ Room' \in Nat
    BY <1>3, <2>2, <2>3
  <2>5. LeftOver'
    BY <1>1, <1>2, <1>3, <2>1, <2>2, <2>4, ReadLeavesOver
  <2> QED BY <2>2, <2>5
<1>12. ASSUME NEW n \in 0 .. MaxCalls, End(t, n)
       PROVE  /\ holder' = {} /\ Inside' = 0 /\ Room' = 4 * late' /\ Room' \in Nat
  BY <1>1, <1>12, EndLeavesOver
<1>13. 0 \in 0 .. MaxCalls
  BY DEF CallsAssumption
<1>14. CASE GiveUp(t) \/ ConnectFails(t)
  <2>1. End(t, 0) /\ late' = late + 1 /\ toClient' = toClient
        /\ (pc[t] = "payload" => FALSE)
    BY <1>14 DEF GiveUp, ConnectFails
  <2>2. holder' = {} /\ Inside' = 0 /\ Room' = 4 * late + 4 /\ Room' \in Nat
    BY <1>3, <1>12, <1>13, <2>1
  <2>3. Room <= 4 * late + 4 /\ Inside = 0 /\ Room \in Nat
    BY <1>2, <1>3, <2>1
  <2>4. Room + Inside' <= Room' + 0 + Inside
    BY <2>2, <2>3
  <2>5. LeftOver'
    BY <1>1, <1>2, <1>3, <2>1, <2>2, <2>4, ReadLeavesOver
  <2> QED BY <1>6, <1>13, <2>1, <2>5
<1>15. ASSUME End(t, 0), toClient' = << >>,
              server = "up" => toServer = << >> /\ ~ Answering /\ Taken = 0
       PROVE  LeftOver'
  <2>1. holder' = {} /\ Inside' = 0 /\ Room' \in Nat
    BY <1>12, <1>13, <1>15
  <2>2. Numbered' /\ Sorted'
    BY <1>1, <1>4, <1>15, <2>1 DEF Numbered, Sorted, Answering
  <2>3. server = "up" => Due' = 0 /\ Queued' = 0
    <3> SUFFICES ASSUME server = "up" PROVE Due' = 0 /\ Queued' = 0
      OBVIOUS
    <3>1. toServer' = << >> /\ handler' = handler /\ ~ Answering /\ Taken = 0
      BY <1>1, <1>15
    <3>2. Taken' = 0 /\ Due' = 0
      BY <3>1 DEF Taken, Due, Answering
    <3>3. TcpIn(toServer') = {}
      BY <3>1 DEF TcpIn
    <3>4. Cardinality(TcpIn(toServer')) = 0
      BY <3>3, FS_EmptySet
    <3> QED BY <3>1, <3>2, <3>4 DEF Queued
  <2>4. Sized'
    BY <1>1, <1>15, <2>1, <2>3 DEF Sized
  <2> QED BY <2>2, <2>4 DEF LeftOver
<1>16. CASE Disconnected(t) \/ PayloadFails(t)
  <2>1. End(t, 0) /\ toClient' = << >> /\ server # "up"
    BY <1>16 DEF Disconnected, PayloadFails
  <2> QED BY <1>6, <1>13, <1>15, <2>1
<1>17. CASE GetReply(t)
  <2>1. /\ pc[t] = "payload" /\ toClient # << >> /\ toClient' = Tail(toClient)
        /\ call[t].kind # "tcp" /\ End(t, Head(toClient).id) /\ late' = late
    BY <1>17 DEF GetReply, Payload
  <2>2. Owed = 1 /\ Inside = 1 /\ Room = 4 * late + 2
    BY <1>2, <1>3, <2>1
  <2>3. /\ toClient[1].id \in 1 .. MaxCalls /\ toClient[1].id <= asked
        /\ 2 * (asked - toClient[1].id) + 1 + Inside <= Room
        /\ End(t, toClient[1].id)
    BY <1>8, <2>1
  <2>4. asked - toClient[1].id \in 0 .. 2 * late /\ toClient[1].id \in 0 .. MaxCalls
    <3>1. toClient[1].id \in 0 .. MaxCalls /\ toClient[1].id \in Int /\ asked \in Int
      BY <1>3, <2>3
    <3>2. 2 * (asked - toClient[1].id) + 1 + 1 <= 4 * late + 2
      BY <2>2, <2>3
    <3> QED BY <1>3, <2>3, <3>1, <3>2, Within, Zenon
  <2>5. StaleBound'
    BY <1>6, <2>3, <2>4
  <2>6. holder' = {} /\ Inside' = 0 /\ Room' = 4 * late /\ Room' \in Nat
    BY <1>12, <2>1, <2>3, <2>4
  <2>7. Room + Inside' <= Room' + 1 + Inside
    BY <1>3, <2>2, <2>6
  <2>8. LeftOver'
    BY <1>1, <1>2, <1>8, <2>1, <2>6, <2>7, ReadLeavesOver
  <2> QED BY <2>5, <2>8
<1>18. CASE GetException(t)
  <2>1. /\ pc[t] = "payload" /\ toClient # << >> /\ toClient' = Tail(toClient) /\ End(t, 0)
        /\ Head(toClient).kind = "exception" \/ Head(toClient).id # call[t].id
        /\ late' = IF Head(toClient).id = call[t].id THEN late ELSE late + 1
    BY <1>18 DEF GetException, Payload
  <2>2. StaleBound' /\ holder' = {} /\ Inside' = 0 /\ Room' = 4 * late' /\ Room' \in Nat
    BY <1>6, <1>12, <1>13, <2>1
  <2>3. CASE Head(toClient).id = call[t].id
    <3>1. toClient[1].id = asked /\ toClient[1].part = "rest" /\ Final(toClient[1])
      BY <1>4, <1>5, <1>8, <2>1, <2>3 DEF Final
    <3>2. Len(toClient) = 1 /\ (server = "up" => toServer = << >> /\ ~ Answering /\ Taken = 0)
      BY <1>2, <2>1, <3>1, NothingLeft
    <3>3. toClient' = << >>
      <4>1. toClient \in Seq(Pieces(Replies)) /\ toClient' = Tail(toClient) /\ Len(toClient) = 1
        BY <1>5, <2>1, <3>2, Zenon
      <4> QED BY <4>1
    <3> QED BY <1>15, <2>1, <2>2, <3>2, <3>3
  <2>4. CASE Head(toClient).id # call[t].id
    <3>1. Room <= 4 * late + 4 /\ Inside = 1 /\ late' = late + 1 /\ Room \in Nat
      BY <1>2, <1>3, <2>1, <2>4
    <3>2. Room + Inside' <= Room' + 1 + Inside
      BY <1>3, <2>2, <3>1
    <3>3. LeftOver'
      BY <1>1, <1>2, <1>8, <2>1, <2>2, <3>2, ReadLeavesOver
    <3> QED BY <2>2, <3>3
  <2> QED BY <2>3, <2>4
<1> QED BY <1>9, <1>10, <1>11, <1>14, <1>16, <1>17, <1>18 DEF Receive, Dial

\* Numbers that go up by one call, by two pieces.
LEMMA TwoMore == ASSUME NEW a \in Int, NEW x \in Int PROVE 2 * ((a + 1) - x) = 2 * (a - x) + 2
OBVIOUS

LEMMA Later ==
  ASSUME NEW p \in Int, NEW i \in Int, NEW in \in Int, NEW l \in Int, NEW r \in Int,
         p + i + in <= l, l + 2 <= r
  PROVE  (p + 2) + i + in <= r
OBVIOUS

LEMMA BothLater ==
  ASSUME NEW n \in Int, NEW d \in Int, NEW p \in Int, n + d <= p
  PROVE  (n + 2) + d <= p + 2
OBVIOUS

LEMMA TwoQueued ==
  ASSUME NEW n \in Nat, NEW d \in Nat, NEW c \in Nat, NEW c2 \in Nat, NEW b \in Nat, c2 <= c + b
  PROVE  (n + 2) + d + 2 * c2 <= (n + d + 2 * c) + 2 + 2 * b /\ (n + 2) + d + 2 * c2 \in Nat
OBVIOUS

\* A call begins: one more request, and as much more room as it may read.
LEMMA BeginLeavesOver ==
  ASSUME CallsAssumption, FrameInv, LeftOver, StaleBound, NEW t \in Threads, NEW kind \in Kinds,
         Begin(t, kind)
  PROVE  LeftOver' /\ StaleBound'
<1>1. /\ asked \in Nat /\ late \in Nat /\ Len(toServer) \in Nat /\ Len(toClient) \in Nat
      /\ Inside \in {0, 1} /\ Taken \in {0, 1} /\ Due \in {0, 2, 4} /\ Queued \in Nat
      /\ Cardinality(TcpIn(toServer)) \in Nat
  BY Counts, TcpFinite
<1>2. /\ holder = {} /\ holder' = {t} /\ client = "up" /\ client' = "up" /\ asked' = asked + 1
      /\ asked + 1 \in 1 .. MaxCalls
      /\ UNCHANGED << got, late, toClient, handler, serving, server >>
  BY <1>1 DEF CallsAssumption, handlerVars, Begin, Send
<1>3. /\ pc \in [Threads -> {"idle", "waiting", "payload", "connecting", "gone"}]
      /\ call \in [Threads -> [id : 0 .. MaxCalls, kind : Kinds]]
      /\ toServer \in Seq(Pieces(Kinds)) /\ toClient \in Seq(Pieces(Replies))
      /\ \A u \in Threads : pc[u] \notin Busy
  BY <1>2 DEF FrameInv, TypeOK, Mutex
<1>4. /\ \A u \in Threads : pc'[u] = IF u = t THEN "waiting" ELSE pc[u]
      /\ \A u \in Threads : call'[u] = IF u = t THEN [id |-> asked + 1, kind |-> kind] ELSE call[u]
  BY <1>3 DEF Begin, Send
<1>5. StaleBound'
  BY <1>2, <1>4 DEF StaleBound
<1>6. Numbered /\ Sorted /\ Sized
  BY <1>2 DEF LeftOver
<1>7. Inside' = Inside /\ Taken' = Taken /\ Due' = Due /\ (Answering' <=> Answering)
  <2>1. Reading' <=> Reading
    BY <1>3, <1>4 DEF Reading, Busy
  <2> QED BY <1>2, <2>1 DEF Inside, Taken, Due, Answering
<1>8. Room = 4 * late /\ Room' = 4 * late + IF kind = "tcp" THEN 4 ELSE 2
  <2>1. Owed = 0
    BY <1>2 DEF Owed
  <2>2. pc'[t] = "waiting" /\ call'[t].kind = kind
    BY <1>4
  <2>3. Owed' = IF kind = "tcp" THEN 2 ELSE 1
    BY <1>2, <2>2 DEF Owed
  <2>4. Room' = 4 * late + 2 * Owed'
    BY <1>2 DEF Room
  <2> QED BY <1>1, <2>1, <2>3, <2>4 DEF Room
<1>9. call'[t].id = asked'
  BY <1>2, <1>4
<1>10. \A i \in 1 .. Len(toClient) : /\ toClient[i].id \in Int /\ toClient[i].id <= asked
                                     /\ 2 * (asked - toClient[i].id) + i + Inside <= 4 * late
  BY <1>3, <1>6, <1>8, PieceTypes DEF Sorted, Sized
<1>11. ASSUME NEW i \in 1 .. Len(toClient')
       PROVE  /\ toClient'[i].id <= asked'
              /\ 2 * (asked' - toClient'[i].id) + i + Inside' <= Room'
              /\ toClient'[i].id \in Int
              /\ 2 * (asked' - toClient'[i].id) = 2 * (asked - toClient[i].id) + 2
  <2>1. i \in 1 .. Len(toClient) /\ i \in Int
    BY <1>2
  <2>2. /\ toClient[i].id \in Int /\ toClient[i].id <= asked
        /\ 2 * (asked - toClient[i].id) + i + Inside <= 4 * late
    BY <1>10, <2>1
  <2>3. 2 * ((asked + 1) - toClient[i].id) = 2 * (asked - toClient[i].id) + 2
    <3>1. asked \in Int /\ toClient[i].id \in Int
      BY <1>1, <2>2
    <3> QED BY <3>1, TwoMore, Zenon
  <2>4. 4 * late + 2 <= Room'
    BY <1>1, <1>8
  <2>5. Room' \in Int
    BY <1>1, <1>8
  <2>6. toClient[i].id <= asked + 1
    BY <1>1, <2>2
  <2>7. 2 * ((asked + 1) - toClient[i].id) + i + Inside <= Room'
    <3>1. /\ 2 * (asked - toClient[i].id) \in Int /\ i \in Int /\ Inside \in Int
          /\ 4 * late \in Int
      BY <1>1, <2>1, <2>2
    <3>2. (2 * (asked - toClient[i].id) + 2) + i + Inside <= Room'
      BY <2>2, <2>4, <2>5, <3>1, Later, Zenon
    <3> QED BY <2>3, <3>2, Zenon
  <2> QED BY <1>2, <1>7, <2>2, <2>3, <2>6, <2>7
<1>12. CASE server # "up"
  <2>1. Numbered' /\ Sorted' /\ Sized'
    BY <1>2, <1>6, <1>9, <1>11, <1>12 DEF Numbered, Sorted, Sized, Final
  <2> QED BY <1>5, <2>1 DEF LeftOver
<1>13. CASE server = "up"
  <2> DEFINE n == Len(toServer)
             id == asked + 1
             longer == toServer \o Message(id, kind)
  <2>0. toServer' = longer
    BY <1>13 DEF Begin, Send
  <2>id. id \in 1 .. MaxCalls
    BY <1>2
  <2> HIDE DEF id
  <2>sent. /\ n \in Nat /\ Len(longer) = n + 2
           /\ \A i \in 1 .. n : longer[i] = toServer[i]
           /\ longer[n + 1].id = id /\ longer[n + 2].id = id
           /\ longer[n + 1].part = "head" /\ longer[n + 2].part = "rest"
    BY <1>3, <2>id, MessageSent
  <2> HIDE DEF longer
  <2>1. /\ n \in Nat /\ Len(toServer') = n + 2
        /\ \A i \in 1 .. n : toServer'[i] = toServer[i]
        /\ toServer'[n + 1].id = asked + 1 /\ toServer'[n + 2].id = asked + 1
        /\ toServer'[n + 1].part = "head" /\ toServer'[n + 2].part = "rest"
    BY <2>0, <2>sent DEF id
  <2>2. \A i \in 1 .. n : /\ toServer[i].id \in Int
                          /\ 2 * (asked - toServer[i].id)
                               = n - i - (IF toServer[i].part = "head" THEN 1 ELSE 0)
    BY <1>3, <1>6, <1>13, PieceTypes DEF Numbered
  <2> HIDE DEF n
  <2>3. ASSUME NEW i \in 1 .. Len(toServer')
        PROVE  2 * (asked' - toServer'[i].id)
                 = Len(toServer') - i - (IF toServer'[i].part = "head" THEN 1 ELSE 0)
    <3>1. CASE i \in 1 .. n
      <4>1. /\ toServer[i].id \in Int
            /\ 2 * (asked - toServer[i].id) = n - i - (IF toServer[i].part = "head" THEN 1 ELSE 0)
        BY <2>2, <3>1
      <4>2. toServer'[i] = toServer[i]
        BY <2>1, <3>1
      <4> DEFINE part == IF toServer[i].part = "head" THEN 1 ELSE 0
      <4>3. n \in Int /\ asked \in Int /\ i \in Int /\ part \in Int
        BY <1>1, <2>1
      <4> HIDE DEF part
      <4>4. 2 * ((asked + 1) - toServer[i].id) = (n + 2) - i - part
        <5>1. 2 * (asked - toServer[i].id) = n - i - part /\ toServer[i].id \in Int
          BY <4>1 DEF part
        <5>2. 2 * ((asked + 1) - toServer[i].id) = 2 * (asked - toServer[i].id) + 2
          BY <4>3, <5>1, TwoMore, Zenon
        <5>3. (n - i - part) + 2 = (n + 2) - i - part
          BY <4>3
        <5> QED BY <5>1, <5>2, <5>3, Zenon
      <4>5. Len(toServer') = n + 2 /\ asked' = asked + 1
        BY <1>2, <2>1
      <4> QED BY <4>2, <4>4, <4>5, Zenon DEF part
    <3>2. CASE i = n + 1
      BY <1>1, <1>2, <2>1, <3>2
    <3>3. CASE i = n + 2
      BY <1>1, <1>2, <2>1, <3>3
    <3> QED BY <2>1, <3>1, <3>2, <3>3
  <2>4. Numbered'
    <3>1. Answering => 2 * (asked - serving.id) = n /\ serving.id \in Int
      BY <1>6, <1>13, Counts DEF Numbered, n
    <3>2. Answering' => 2 * (asked' - serving'.id) = Len(toServer')
      <4>1. asked \in Int /\ serving.id \in Int
        BY <1>1, Counts
      <4>2. 2 * ((asked + 1) - serving.id) = 2 * (asked - serving.id) + 2
        BY <4>1, TwoMore, Zenon
      <4>3. Len(toServer') = n + 2 /\ asked' = asked + 1 /\ serving' = serving
        BY <1>2, <2>1
      <4> QED BY <1>7, <3>1, <4>2, <4>3, Zenon
    <3> QED BY <1>2, <1>9, <2>3, <3>2 DEF Numbered
  <2>5. Sorted'
    <3>1. ASSUME NEW i \in 1 .. Len(toClient')
          PROVE  /\ Len(toServer') + Taken' <= 2 * (asked' - toClient'[i].id)
                 /\ Answering' /\ Final(toClient'[i])
                      => Len(toServer') + 2 <= 2 * (asked' - toClient'[i].id)
      <4>1. /\ n + Taken <= 2 * (asked - toClient[i].id)
            /\ Answering /\ Final(toClient[i]) => n + 2 <= 2 * (asked - toClient[i].id)
            /\ toClient[i].id \in Int
        BY <1>2, <1>6, <1>10, <1>13 DEF Sorted, n
      <4>2. 2 * (asked' - toClient'[i].id) = 2 * (asked - toClient[i].id) + 2
        BY <1>11
      <4>3. 2 * (asked - toClient[i].id) \in Int
        BY <1>1, <4>1
      <4>4. /\ (n + 2) + Taken <= 2 * (asked - toClient[i].id) + 2
            /\ n + 2 <= 2 * (asked - toClient[i].id)
                 => (n + 2) + 2 <= 2 * (asked - toClient[i].id) + 2
        <5>1. n \in Int /\ Taken \in Int /\ 2 \in Int
          BY <1>1, <2>1
        <5> QED BY <4>1, <4>3, <5>1, BothLater, Zenon
      <4> QED BY <1>2, <1>7, <2>1, <4>1, <4>2, <4>4, Zenon
    <3> QED BY <1>2, <1>6, <1>11, <3>1 DEF Sorted, Final
  <2>6. Sized'
    <3>1. Cardinality(TcpIn(toServer'))
            <= Cardinality(TcpIn(toServer)) + (IF kind = "tcp" THEN 1 ELSE 0)
          /\ Cardinality(TcpIn(toServer')) \in Nat
      BY <1>3, <2>0, <2>id, TcpMore, TcpFinite DEF longer
    <3>2. Queued' <= Queued + 2 + (IF kind = "tcp" THEN 2 ELSE 0) /\ Queued' \in Nat
      <4>1. Queued' = (n + 2) + Taken + 2 * Cardinality(TcpIn(toServer'))
        BY <1>7, <2>1 DEF Queued
      <4>2. Queued = n + Taken + 2 * Cardinality(TcpIn(toServer))
        BY DEF Queued, n
      <4> DEFINE one == IF kind = "tcp" THEN 1 ELSE 0
                 c == Cardinality(TcpIn(toServer))
      <4>3. n \in Nat /\ Taken \in Nat /\ c \in Nat /\ one \in Nat
        BY <1>1, <2>1
      <4>4. c' \in Nat /\ c' <= c + one
        BY <3>1
      <4> HIDE DEF c, one
      <4>5. (n + 2) + Taken + 2 * c' <= (n + Taken + 2 * c) + 2 + 2 * one
            /\ (n + 2) + Taken + 2 * c' \in Nat
        BY <4>3, <4>4, TwoQueued, Zenon
      <4>6. 2 * one = IF kind = "tcp" THEN 2 ELSE 0
        BY DEF one
      <4> QED BY <4>1, <4>2, <4>5, <4>6, Zenon DEF c
    <3>3. Len(toClient) + Inside + Due + Queued <= 4 * late
      BY <1>6, <1>8, <1>13 DEF Sized
    <3>4. Len(toClient') + Inside' + Due' + Queued' <= Room'
      <4>1. CASE kind = "tcp"
        BY <1>1, <1>2, <1>7, <1>8, <3>2, <3>3, <4>1
      <4>2. CASE kind # "tcp"
        BY <1>1, <1>2, <1>7, <1>8, <3>2, <3>3, <4>2
      <4> QED BY <4>1, <4>2
    <3> QED BY <1>2, <1>11, <3>4 DEF Sized
  <2> QED BY <1>5, <2>4, <2>5, <2>6 DEF LeftOver
<1> QED BY <1>12, <1>13

\* The handler has no effect on what the calls may read.
LEMMA ServerSide ==
  ASSUME UNCHANGED << pc, holder, asked, call, got, late, client >>, StaleBound
  PROVE  Inside' = Inside /\ Room' = Room /\ StaleBound'
<1>1. Inside' = Inside
  BY DEF Inside, Reading
<1>2. Owed' = Owed
  BY DEF Owed
<1> QED BY <1>1, <1>2 DEF Room, StaleBound

\* The server goes, and leaves a part of what it has sent.
LEMMA GoneLeavesOver ==
  ASSUME CallsAssumption, FrameInv, LeftOver, client = "up", server' # "up",
         UNCHANGED << holder, asked, call >>, Inside' = Inside, Room' = Room,
         NEW n \in 0 .. Len(toClient), Len(toClient') = n,
         \A i \in 1 .. n : toClient'[i] = toClient[i]
  PROVE  LeftOver'
<1>1. Numbered /\ Sorted /\ Sized
  BY DEF LeftOver
<1>2. \A i \in 1 .. Len(toClient') : i \in 1 .. Len(toClient) /\ toClient'[i] = toClient[i]
  BY Counts
<1>3. Numbered'
  BY <1>1 DEF Numbered
<1>4. Sorted'
  BY <1>1, <1>2 DEF Sorted, Final
<1>5. Sized'
  BY <1>1, <1>2 DEF Sized
<1> QED BY <1>3, <1>4, <1>5 DEF LeftOver

\* The handler reads the first piece of a request.
LEMMA RequestLeavesOver ==
  ASSUME CallsAssumption, FrameInv, LeftOver, client = "up", server = "up", GetRequest,
         Inside' = Inside, Room' = Room
  PROVE  LeftOver'
<1>1. /\ Len(toServer) \in Nat /\ Len(toClient) \in Nat /\ asked \in Nat /\ Room \in Nat
      /\ Inside \in {0, 1}
  BY Counts
<1>2. /\ handler = "select" /\ handler' = "payload" /\ toServer # << >>
      /\ toServer' = Tail(toServer)
      /\ UNCHANGED << holder, asked, call, toClient, serving, client, server >>
  BY DEF GetRequest, threadVars
<1>3. toServer \in Seq(Pieces(Kinds))
  BY DEF FrameInv, TypeOK
<1>4. /\ Len(toServer') = Len(toServer) - 1 /\ Len(toServer) \in Nat \ {0}
      /\ \A i \in 1 .. Len(toServer') : toServer'[i] = toServer[i + 1]
  BY <1>2, <1>3
<1>5. /\ ~ Answering /\ ~ Answering' /\ Due = 0 /\ Due' = 0 /\ Taken = 0 /\ Taken' = 1
  BY <1>2 DEF Answering, Due, Taken
<1>6. Numbered /\ Sorted /\ Sized
  BY DEF LeftOver
<1>7. Numbered'
  <2>1. ASSUME NEW i \in 1 .. Len(toServer')
        PROVE  2 * (asked' - toServer'[i].id)
                 = Len(toServer') - i - (IF toServer'[i].part = "head" THEN 1 ELSE 0)
    <3>1. i + 1 \in 1 .. Len(toServer) /\ toServer'[i] = toServer[i + 1]
      BY <1>4
    <3>2. 2 * (asked - toServer[i + 1].id)
            = Len(toServer) - (i + 1) - (IF toServer[i + 1].part = "head" THEN 1 ELSE 0)
      BY <1>6, <3>1 DEF Numbered
    <3>3. Len(toServer) - (i + 1) = Len(toServer') - i
      BY <1>4
    <3> QED BY <1>2, <3>1, <3>2, <3>3
  <2> QED BY <1>2, <1>5, <1>6, <2>1 DEF Numbered
<1>8. Len(toServer') + Taken' = Len(toServer) + Taken
  BY <1>4, <1>5
<1>9. Sorted'
  BY <1>2, <1>5, <1>6, <1>8 DEF Sorted, Final
<1>10. Queued' \in Nat /\ Queued \in Nat /\ Queued' <= Queued
  <2>1. /\ Cardinality(TcpIn(toServer')) <= Cardinality(TcpIn(toServer))
        /\ Cardinality(TcpIn(toServer')) \in Nat /\ Cardinality(TcpIn(toServer)) \in Nat
    BY <1>2, <1>3, TcpTail, TcpFinite
  <2> QED BY <1>4, <1>5, <2>1 DEF Queued
<1>11. Sized'
  <2>1. Len(toClient) + Inside + Due + Queued <= Room
    BY <1>6 DEF Sized
  <2>2. Len(toClient') + Inside' + Due' + Queued' <= Room'
    BY <1>1, <1>2, <1>5, <1>10, <2>1
  <2> QED BY <1>2, <1>6, <2>2 DEF Sized
<1> QED BY <1>7, <1>9, <1>11 DEF LeftOver

LEMMA OneTaken ==
  ASSUME NEW l \in Nat \ {0}, NEW c \in Nat, NEW c2 \in Nat, NEW b \in Nat, c2 + b <= c
  PROVE  /\ (2 + 2 * b) + ((l - 1) + 0 + 2 * c2) <= l + 1 + 2 * c
         /\ (2 + 2 * b) + ((l - 1) + 0 + 2 * c2) \in Nat /\ l + 1 + 2 * c \in Nat
OBVIOUS

\* The handler reads the rest of a request; its replies are now due.
LEMMA ArgumentsLeaveOver ==
  ASSUME CallsAssumption, FrameInv, LeftOver, client = "up", server = "up", GetArguments,
         Inside' = Inside, Room' = Room
  PROVE  LeftOver'
<1>1. /\ Len(toServer) \in Nat /\ Len(toClient) \in Nat /\ asked \in Nat /\ Room \in Nat
      /\ Inside \in {0, 1}
  BY Counts
<1>2. /\ handler = "payload" /\ handler' = "running" /\ toServer # << >>
      /\ toServer' = Tail(toServer)
      /\ UNCHANGED << holder, asked, call, toClient, client, server >>
  BY DEF GetArguments, threadVars
<1>3. toServer \in Seq(Pieces(Kinds)) /\ toServer[1].part = "rest"
  BY <1>2 DEF FrameInv, TypeOK, Framed, Alternates
<1>4. /\ Len(toServer') = Len(toServer) - 1 /\ Len(toServer) \in Nat \ {0}
      /\ \A i \in 1 .. Len(toServer') : toServer'[i] = toServer[i + 1]
      /\ Head(toServer) = toServer[1]
  BY <1>2, <1>3
<1>5. serving'.id = toServer[1].id /\ serving'.kind = toServer[1].kind
  BY <1>4 DEF GetArguments
<1>6. /\ ~ Answering /\ Answering' /\ Due = 0 /\ Due' = IF toServer[1].kind = "tcp" THEN 4 ELSE 2
      /\ Taken = 1 /\ Taken' = 0
  BY <1>2, <1>5 DEF Answering, Due, Taken
<1>7. Numbered /\ Sorted /\ Sized
  BY DEF LeftOver
<1>8. /\ 2 * (asked - toServer[1].id) = Len(toServer) - 1
      /\ \A i \in 1 .. Len(toServer) :
           toServer[i].part = "rest" => 2 * (asked - toServer[i].id) = Len(toServer) - i
  <2>1. 1 \in 1 .. Len(toServer)
    BY <1>4
  <2>2. ASSUME NEW i \in 1 .. Len(toServer), toServer[i].part = "rest"
        PROVE  2 * (asked - toServer[i].id) = Len(toServer) - i
    <3>1. 2 * (asked - toServer[i].id)
            = Len(toServer) - i - (IF toServer[i].part = "head" THEN 1 ELSE 0)
      BY <1>7 DEF Numbered
    <3> QED BY <1>1, <2>2, <3>1
  <2> QED BY <1>3, <2>1, <2>2
<1>9. Numbered'
  <2>1. ASSUME NEW i \in 1 .. Len(toServer')
        PROVE  2 * (asked' - toServer'[i].id)
                 = Len(toServer') - i - (IF toServer'[i].part = "head" THEN 1 ELSE 0)
    <3>1. i + 1 \in 1 .. Len(toServer) /\ toServer'[i] = toServer[i + 1]
      BY <1>4
    <3>2. 2 * (asked - toServer[i + 1].id)
            = Len(toServer) - (i + 1) - (IF toServer[i + 1].part = "head" THEN 1 ELSE 0)
      BY <1>7, <3>1 DEF Numbered
    <3>3. Len(toServer) - (i + 1) = Len(toServer') - i
      BY <1>4
    <3> QED BY <1>2, <3>1, <3>2, <3>3
  <2>2. 2 * (asked' - serving'.id) = Len(toServer')
    BY <1>2, <1>4, <1>5, <1>8
  <2> QED BY <1>2, <1>7, <2>1, <2>2 DEF Numbered
<1>10. /\ Len(toServer') + Taken' <= Len(toServer) + Taken
       /\ Len(toServer') + 2 = Len(toServer) + Taken
       /\ Len(toServer') + Taken' \in Int /\ Len(toServer) + Taken \in Int
  BY <1>4, <1>6
<1>11. Sorted'
  <2>1. ASSUME NEW i \in 1 .. Len(toClient')
        PROVE  /\ Len(toServer') + Taken' <= 2 * (asked' - toClient'[i].id)
               /\ Len(toServer') + 2 <= 2 * (asked' - toClient'[i].id)
    <3>1. Len(toServer) + Taken <= 2 * (asked - toClient[i].id)
      BY <1>2, <1>7 DEF Sorted
    <3>2. toClient[i].id \in Int
      BY <1>2, PieceTypes DEF FrameInv, TypeOK
    <3>3. 2 * (asked - toClient[i].id) \in Int
      BY <1>1, <3>2
    <3> QED BY <1>2, <1>10, <3>1, <3>3
  <2> QED BY <1>2, <1>7, <2>1 DEF Sorted, Final
<1>12. Due' + Queued' \in Nat /\ Queued \in Nat /\ Due' + Queued' <= Queued
  <2> DEFINE one == IF toServer[1].part = "rest" /\ toServer[1].kind = "tcp" THEN 1 ELSE 0
  <2>1. ASSUME NEW i \in 2 .. Len(toServer), toServer[i].part = "rest"
        PROVE  toServer[i].id # toServer[1].id
    <3>1. i \in 1 .. Len(toServer)
      BY <1>1
    <3>2. Len(toServer) - i # Len(toServer) - 1
      BY <1>1
    <3> QED BY <1>8, <2>1, <3>1, <3>2
  <2>2. /\ Cardinality(TcpIn(toServer')) + one <= Cardinality(TcpIn(toServer))
        /\ Cardinality(TcpIn(toServer')) \in Nat /\ Cardinality(TcpIn(toServer)) \in Nat
    BY <1>2, <1>3, <2>1, TcpLess, TcpFinite
  <2>3. one \in {0, 1} /\ Due' = 2 + 2 * one
    BY <1>3, <1>6
  <2> HIDE DEF one
  <2> DEFINE l == Len(toServer)
             c == Cardinality(TcpIn(toServer))
  <2>4. l \in Nat \ {0} /\ c \in Nat /\ c' \in Nat /\ one \in Nat /\ c' + one <= c
    BY <1>4, <2>2, <2>3
  <2>5. Queued = l + 1 + 2 * c /\ Queued' = (l - 1) + 0 + 2 * c'
    BY <1>4, <1>6 DEF Queued
  <2> HIDE DEF l, c
  <2>6. /\ (2 + 2 * one) + ((l - 1) + 0 + 2 * c') <= l + 1 + 2 * c
        /\ (2 + 2 * one) + ((l - 1) + 0 + 2 * c') \in Nat /\ l + 1 + 2 * c \in Nat
    BY <2>4, OneTaken, Zenon
  <2> QED BY <2>3, <2>5, <2>6, Zenon
<1>13. Sized'
  <2>1. Len(toClient) + Inside + Due + Queued <= Room
    BY <1>7 DEF Sized
  <2>due. Due' \in Nat /\ Queued' \in Int
    <3>1. Cardinality(TcpIn(toServer')) \in Nat
      BY TcpFinite, <1>2
    <3> QED BY <1>4, <1>6, <3>1 DEF Queued
  <2>2. Len(toClient') + Inside' + Due' + Queued' <= Room'
    <3>1. Len(toClient) + Inside + (Due' + Queued') <= Room
      BY <1>1, <1>6, <1>12, <2>1
    <3>2. Len(toClient) + Inside + Due' + Queued' = Len(toClient) + Inside + (Due' + Queued')
      BY <1>1, <2>due
    <3> QED BY <1>2, <3>1, <3>2, Zenon
  <2> QED BY <1>2, <1>7, <2>2 DEF Sized
<1> QED BY <1>9, <1>11, <1>13 DEF LeftOver

\* The pieces of a reply.
LEMMA ReplyParts ==
  ASSUME FrameInv, handler \in {"running", "accepting"}, client = "up",
         NEW kind \in Replies, NEW next, Reply(kind, next)
  PROVE  toClient'[Len(toClient) + 1].part = "head"
<1> DEFINE longer == toClient \o Message(serving.id, kind)
           n == Len(toClient)
<1>1. serving.id \in 1 .. MaxCalls /\ toClient \in Seq(Pieces(Replies)) /\ toClient' = longer
  BY DEF FrameInv, TypeOK, Serving, Reply
<1>2. longer[n + 1].part = "head"
  BY <1>1, MessageSent
<1> HIDE DEF longer
<1> QED BY <1>1, <1>2 DEF n

LEMMA Weighs ==
  ASSUME NEW n \in Int, NEW in \in Int, NEW d \in Int, NEW d2 \in Int, NEW q \in Int,
         NEW room \in Int, n + in + d + q <= room, d2 + 2 <= d
  PROVE  (n + 2) + in + d2 + q <= room
OBVIOUS

LEMMA Earlier ==
  ASSUME NEW a \in Int, NEW x \in Int, NEW s \in Int, NEW l \in Int,
         2 * (a - s) = l, l + 2 <= 2 * (a - x)
  PROVE  x < s
OBVIOUS

LEMMA EndWeighs ==
  ASSUME NEW n \in Nat, NEW in \in Nat, NEW d \in Nat, NEW q \in Nat, NEW l \in Nat,
         NEW i \in Nat, NEW room \in Int, n + in + d + q <= room, 2 <= d, l <= q, i <= n + 2
  PROVE  l + i + in <= room
OBVIOUS

\* The handler replies: what was due is on its way.
LEMMA ReplyLeavesOver ==
  ASSUME CallsAssumption, FrameInv, LeftOver, client = "up", server = "up",
         handler \in {"running", "accepting"},
         UNCHANGED << holder, asked, call, toServer, serving, client, server >>,
         Inside' = Inside, Room' = Room,
         NEW kind \in Replies, NEW next \in {"select", "accepting", "ended"},
         Reply(kind, next),
         next = "accepting" => handler = "running" /\ serving.kind = "tcp" /\ kind = "port"
  PROVE  LeftOver'
<1>1. /\ Len(toServer) \in Nat /\ Len(toClient) \in Nat /\ asked \in Nat /\ Room \in Nat
      /\ Inside \in {0, 1} /\ Queued \in Nat /\ serving.id \in Nat /\ Due \in {0, 2, 4}
      /\ Cardinality(TcpIn(toServer)) \in Nat
  BY Counts, TcpFinite
<1>2. /\ handler' = next /\ Len(toClient') = Len(toClient) + 2
      /\ \A i \in 1 .. Len(toClient) : toClient'[i] = toClient[i]
      /\ \A i \in 1 .. Len(toClient') : i > Len(toClient) => /\ toClient'[i].id = serving.id
                                                            /\ toClient'[i].kind = kind
      /\ toClient'[Len(toClient) + 1].part = "head"
  BY ReplyAdds, ReplyParts
<1>3. /\ Answering /\ Taken = 0 /\ Taken' = 0 /\ Queued' = Queued
      /\ Answering' => next = "accepting"
  BY <1>2 DEF Answering, Taken, Queued
<1>4. Due' \in {0, 2} /\ Due' + 2 <= Due /\ 2 <= Due
  BY <1>2 DEF Due, Answering
<1>5. Numbered /\ Sorted /\ Sized
  BY DEF LeftOver
<1>6. 2 * (asked - serving.id) = Len(toServer)
  BY <1>3, <1>5 DEF Numbered
<1>7. \A i \in 1 .. Len(toClient) : toClient[i].id \in Int
  <2>1. toClient \in Seq(Pieces(Replies))
    BY DEF FrameInv, TypeOK
  <2>2. \A i \in 1 .. Len(toClient) : toClient[i].id \in 1 .. MaxCalls
    BY <2>1, PieceTypes, Zenon
  <2> QED BY <2>2
<1>8. Numbered'
  BY <1>3, <1>5 DEF Numbered
<1>9. \A i \in 1 .. Len(toClient') : i \notin 1 .. Len(toClient) => i > Len(toClient) /\ i \in Nat
  BY <1>1
<1>10. Sorted'
  <2>1. serving.id <= asked
    BY <1>1, <1>6
  <2>2. ASSUME NEW i \in 1 .. Len(toClient') PROVE toClient'[i].id <= asked'
    <3>1. CASE i \in 1 .. Len(toClient)
      BY <1>2, <1>5, <3>1 DEF Sorted
    <3>2. CASE i \notin 1 .. Len(toClient)
      BY <1>2, <1>9, <2>1, <3>2
    <3> QED BY <3>1, <3>2
  <2>3. ASSUME NEW i \in 1 .. Len(toClient'), NEW j \in 1 .. Len(toClient'), i < j,
               toClient'[i].part = "rest", Final(toClient'[i])
        PROVE  toClient'[i].id < toClient'[j].id
    <3>1. CASE j \in 1 .. Len(toClient)
      <4>1. i \in 1 .. Len(toClient)
        BY <1>1, <2>3, <3>1
      <4> QED BY <1>2, <1>5, <2>3, <3>1, <4>1 DEF Sorted
    <3>2. CASE j \notin 1 .. Len(toClient) /\ i \in 1 .. Len(toClient)
      <4>1. toClient'[j].id = serving.id
        BY <1>2, <1>9, <3>2
      <4>2. Final(toClient[i]) /\ toClient'[i] = toClient[i] /\ toClient[i].id \in Int
        BY <1>2, <1>7, <2>3, <3>2
      <4>3. Len(toServer) + 2 <= 2 * (asked - toClient[i].id)
        BY <1>3, <1>5, <3>2, <4>2 DEF Sorted
      <4>4. toClient[i].id < serving.id
        <5>1. Len(toServer) \in Int /\ asked \in Int /\ serving.id \in Int
          BY <1>1
        <5> QED BY <1>6, <4>2, <4>3, <5>1, Earlier, Zenon
      <4> QED BY <4>1, <4>2, <4>4
    <3>3. CASE i \notin 1 .. Len(toClient)
      <4>1. i = Len(toClient) + 1
        BY <1>1, <1>2, <2>3, <3>3
      <4> QED BY <1>2, <2>3, <4>1
    <3> QED BY <3>1, <3>2, <3>3
  <2>4. ASSUME NEW i \in 1 .. Len(toClient')
        PROVE  /\ Len(toServer') + Taken' <= 2 * (asked' - toClient'[i].id)
               /\ Answering' /\ Final(toClient'[i])
                    => Len(toServer') + 2 <= 2 * (asked' - toClient'[i].id)
    <3>1. CASE i \in 1 .. Len(toClient)
      <4>1. /\ Len(toServer) + Taken <= 2 * (asked - toClient[i].id)
            /\ Final(toClient[i]) => Len(toServer) + 2 <= 2 * (asked - toClient[i].id)
        BY <1>3, <1>5, <3>1 DEF Sorted
      <4> QED BY <1>2, <1>3, <3>1, <4>1
    <3>2. CASE i \notin 1 .. Len(toClient)
      <4>1. toClient'[i].id = serving.id /\ toClient'[i].kind = kind
        BY <1>2, <1>9, <3>2
      <4>2. Len(toServer) + 0 <= 2 * (asked - serving.id)
        BY <1>1, <1>6
      <4>3. Answering' => ~ Final(toClient'[i])
        BY <1>3, <4>1 DEF Final
      <4> QED BY <1>3, <4>1, <4>2, <4>3
    <3> QED BY <3>1, <3>2
  <2> QED BY <2>2, <2>3, <2>4 DEF Sorted, Final
<1>11. Sized'
  <2>1. Len(toClient) + Inside + Due + Queued <= Room
    BY <1>5 DEF Sized
  <2>2. (Len(toClient) + 2) + Inside + Due' + Queued <= Room
    <3>1. /\ Len(toClient) \in Int /\ Inside \in Int /\ Due \in Int /\ Due' \in Int
          /\ Queued \in Int /\ Room \in Int
      BY <1>1, <1>4
    <3> QED BY <1>4, <2>1, <3>1, Weighs, Zenon
  <2>3. Len(toClient') + Inside' + Due' + Queued' <= Room'
    BY <1>2, <1>3, <2>2, Zenon
  <2>4. ASSUME NEW i \in 1 .. Len(toClient')
        PROVE  2 * (asked' - toClient'[i].id) + i + Inside' <= Room'
    <3>1. CASE i \in 1 .. Len(toClient)
      BY <1>2, <1>5, <3>1 DEF Sized
    <3>2. CASE i \notin 1 .. Len(toClient)
      <4>1. toClient'[i].id = serving.id
        BY <1>2, <1>9, <3>2
      <4>2. Len(toServer) <= Queued
        BY <1>1, <1>3 DEF Queued
      <4>3. Inside \in Nat /\ Due \in Nat /\ i \in Nat /\ Room \in Int /\ i <= Len(toClient) + 2
        BY <1>1, <1>2
      <4>4. 2 <= Due
        BY <1>4
      <4>5. Len(toServer) + i + Inside <= Room
        BY <1>1, <2>1, <4>2, <4>3, <4>4, EndWeighs, Zenon
      <4> QED BY <1>6, <4>1, <4>5
    <3> QED BY <3>1, <3>2
  <2> QED BY <2>3, <2>4 DEF Sized
<1> QED BY <1>8, <1>10, <1>11 DEF LeftOver

\* What the handler and the server do.
LEMMA HandlerLeavesOver ==
  ASSUME CallsAssumption, FrameInv, LeftOver, StaleBound,
         Serve \/ Hang \/ AcceptFails \/ Cleanup \/ \E way \in Ways : ServerGoes(way)
  PROVE  LeftOver' /\ StaleBound'
<1>1. UNCHANGED << pc, holder, asked, call, got, late, client >>
  BY DEF Serve, GetRequest, GetArguments, Execute, Accept, LoseClient, Hang, AcceptFails,
         Cleanup, ServerGoes, threadVars
<1>2. Inside' = Inside /\ Room' = Room /\ StaleBound'
  BY <1>1, ServerSide
<1> SUFFICES ASSUME client = "up" PROVE LeftOver'
  BY <1>1, <1>2 DEF LeftOver
<1>3. /\ IF server = "up" THEN handler # "gone" ELSE handler \in {"ended", "gone"}
      /\ toClient \in Seq(Pieces(Replies))
  BY DEF FrameInv, TypeOK, Serving
<1>4. CASE \E way \in Ways : ServerGoes(way)
  <2>1. PICK way \in Ways : ServerGoes(way)
    BY <1>4
  <2>2. PICK n \in 0 .. Len(toClient) : toClient' = SubSeq(toClient, 1, n)
    BY <2>1 DEF ServerGoes
  <2>3. Len(toClient') = n /\ \A i \in 1 .. n : toClient'[i] = toClient[i]
    BY <1>3, <2>2
  <2>4. server' # "up"
    BY <2>1 DEF ServerGoes, Ways
  <2> QED BY <1>1, <1>2, <2>3, <2>4, GoneLeavesOver
<1>5. CASE Cleanup
  <2>1. server' # "up" /\ toClient' = toClient
    BY <1>5 DEF Cleanup
  <2>2. Len(toClient) \in 0 .. Len(toClient)
    BY <1>3
  <2> QED BY <1>1, <1>2, <2>1, <2>2, GoneLeavesOver
<1>6. CASE Serve \/ Hang \/ AcceptFails
  <2>1. server = "up" /\ server' = "up" /\ ~ LoseClient
    BY <1>3, <1>6 DEF Serve, GetRequest, GetArguments, Execute, Accept, LoseClient, Hang,
                      AcceptFails
  <2>2. CASE GetRequest
    BY <1>2, <2>1, <2>2, RequestLeavesOver
  <2>3. CASE GetArguments
    BY <1>2, <2>1, <2>3, ArgumentsLeaveOver
  <2>4. CASE Hang
    <3>1. /\ handler = "running" /\ handler' = "hung"
          /\ UNCHANGED << serving, toServer, toClient >>
      BY <2>4 DEF Hang
    <3>2. /\ Taken' = Taken /\ Due' = Due /\ Queued' = Queued /\ Answering /\ Answering'
      BY <3>1 DEF Taken, Due, Queued, Answering
    <3>3. Numbered /\ Sorted /\ Sized
      BY DEF LeftOver
    <3>4. Numbered' /\ Sorted' /\ Sized'
      BY <1>1, <1>2, <2>1, <3>1, <3>2, <3>3 DEF Numbered, Sorted, Sized, Final
    <3> QED BY <3>4 DEF LeftOver
  <2>5. ASSUME handler \in {"running", "accepting"}, UNCHANGED << serving, toServer >>,
               NEW kind \in Replies, NEW next \in {"select", "accepting", "ended"},
               Reply(kind, next),
               next = "accepting" => handler = "running" /\ serving.kind = "tcp" /\ kind = "port"
        PROVE  LeftOver'
    BY <1>1, <1>2, <2>1, <2>5, ReplyLeavesOver
  <2>6. CASE Execute
    <3>1. handler = "running" /\ UNCHANGED << serving, toServer >>
      BY <2>6 DEF Execute
    <3>2. CASE Answers
      <4>1. PICK next \in {"select", "ended"} : Reply("value", next)
        BY <3>2 DEF Answers
      <4> QED BY <2>5, <3>1, <4>1 DEF Replies
    <3>3. CASE Excuses
      BY <2>5, <3>1, <3>3 DEF Excuses, Replies
    <3>4. CASE serving.kind = "tcp" /\ Reply("port", "accepting")
      BY <2>5, <3>1, <3>4 DEF Replies
    <3> QED BY <2>6, <3>2, <3>3, <3>4 DEF Execute
  <2>7. CASE Accept
    <3>1. handler = "accepting" /\ UNCHANGED << serving, toServer >>
      BY <2>7 DEF Accept
    <3>2. PICK next \in {"select", "ended"} : Reply("value", next)
      BY <2>7 DEF Accept, Answers
    <3> QED BY <2>5, <3>1, <3>2 DEF Replies
  <2>8. CASE AcceptFails
    BY <2>5, <2>8 DEF AcceptFails, Excuses, Replies
  <2> QED BY <1>6, <2>1, <2>2, <2>3, <2>4, <2>6, <2>7, <2>8 DEF Serve
<1> QED BY <1>4, <1>5, <1>6

StaleInv == IInv /\ LeftOver /\ StaleBound

LEMMA InitStale == CallsAssumption /\ Init => StaleInv
<1> SUFFICES ASSUME CallsAssumption, Init PROVE StaleInv
  OBVIOUS
<1>1. IInv /\ LeftOver
  BY InitInOrder, InitLeftOver
<1>2. StaleBound
  BY DEF Init, StaleBound
<1> QED BY <1>1, <1>2 DEF StaleInv

LEMMA NextStale == CallsAssumption /\ StaleInv /\ [Next]_vars => StaleInv'
<1> SUFFICES ASSUME CallsAssumption, StaleInv, [Next]_vars PROVE StaleInv'
  OBVIOUS
<1>1. IInv' /\ IInv /\ FrameInv /\ LeftOver /\ StaleBound
  BY NextInOrder DEF StaleInv, IInv
<1>2. CASE UNCHANGED vars
  <2>1. /\ pc' = pc /\ holder' = holder /\ asked' = asked /\ call' = call /\ got' = got
        /\ late' = late /\ toServer' = toServer /\ toClient' = toClient /\ handler' = handler
        /\ serving' = serving /\ client' = client /\ server' = server
    BY <1>2 DEF vars, threadVars, handlerVars
  <2>2. StaleBound'
    BY <1>1, <2>1 DEF StaleBound
  <2>3. Inside' = Inside /\ Taken' = Taken /\ Due' = Due /\ (Answering' <=> Answering)
    BY <2>1 DEF Inside, Reading, Taken, Due, Answering
  <2>4. Queued' = Queued /\ Room' = Room
    BY <2>1, <2>3 DEF Queued, Room, Owed
  <2>5. LeftOver'
    BY <1>1, <2>1, <2>3, <2>4 DEF LeftOver, Numbered, Sorted, Sized, Final
  <2> QED BY <1>1, <2>2, <2>5 DEF StaleInv
<1>3. ASSUME NEW t \in Threads, NEW kind \in Kinds, Begin(t, kind) PROVE LeftOver' /\ StaleBound'
  BY <1>1, <1>3, BeginLeavesOver
<1>4. ASSUME NEW t \in Threads, Receive(t) \/ Dial(t) PROVE LeftOver' /\ StaleBound'
  BY <1>1, <1>4, ReceiveLeavesOver
<1>5. CASE Serve \/ Hang \/ AcceptFails \/ Cleanup \/ \E way \in Ways : ServerGoes(way)
  <2>1. LeftOver' /\ StaleBound'
    BY <1>1, <1>5, HandlerLeavesOver, Zenon
  <2> QED BY <1>1, <2>1 DEF StaleInv
<1>6. ASSUME NEW way \in Ways, ClientGoes(way) PROVE LeftOver' /\ StaleBound'
  <2>1. client' # "up" /\ \A t \in Threads : pc'[t] # "idle"
    BY <1>6 DEF ClientGoes, Ways
  <2> QED BY <2>1 DEF LeftOver, StaleBound
<1> QED BY <1>1, <1>2, <1>3, <1>4, <1>5, <1>6 DEF Next, StaleInv

\* Each call gets its own reply; after calls that gave up, an earlier one, and no further
\* back than two replies for each of them.
THEOREM SpecRepliesMatch == Spec => []RepliesMatch
<1>1. Init => StaleInv
  BY CallsAssumption, InitStale
<1>2. StaleInv /\ [Next]_vars => StaleInv'
  BY CallsAssumption, NextStale
<1>3. StaleInv => RepliesMatch
  BY DEF StaleInv, IInv, RepliesMatch
<1> QED BY <1>1, <1>2, <1>3, PTL DEF Spec
=============================================================================
