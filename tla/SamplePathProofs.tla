--------------------------- MODULE SamplePathProofs ---------------------------
(***************************************************************************)
(* Samples come in order with their flags and times, and gaps come with an *)
(* error: theorems about SamplePath for streams of any length, any bursts  *)
(* and sizes of buffers, and any number of errors and losses.  And the     *)
(* conversions of SampleFormats, for all numbers of a width.               *)
(***************************************************************************)
EXTENDS SamplePath, TLAPS

-----------------------------------------------------------------------------
(* The inductive invariant.                                                *)

Elems == {s \in Seq(1 .. NumSamples) : Len(s) <= BuffSize}
Datagrams == {d \in [elems : Elems, err : BOOLEAN, flags : SUBSET FlagsOf, time : 0 .. NumSamples] :
                d.err => d.elems = << >>}
Results == {r \in [elems : Elems, err : BOOLEAN, flags : SUBSET FlagsOf, time : 0 .. NumSamples,
                   of : Elems, first : BOOLEAN] : r.err => r.elems = << >>}

\* TypeOK, and that the queues are sequences.
Typed ==
  /\ direction \in {"rx", "tx"} /\ next \in 1 .. NumSamples + 1
  /\ worker \in {"wait"} \cup IF direction = "rx" THEN {"fill", "send"} ELSE {"write"}
  /\ buffer \in Datagrams /\ link \in Seq(Datagrams) /\ Len(link) <= LinkCap
  /\ rest \in Elems /\ (direction = "tx" => rest = << >>) /\ sink \in Seq(Results)
  /\ errors \in 0 .. MaxErrors /\ lost \in 0 .. MaxLost

\* The worker holds a datagram, but when it waits; it has kept room for it on the link,
\* and fills it up with the samples that come next.
Worker ==
  /\ worker = "wait" => buffer = Empty
  /\ worker # "wait" /\ ~ buffer.err => buffer.elems # << >>
  /\ worker # "wait" /\ direction = "rx" => Len(link) < LinkCap
  /\ worker = "fill" => /\ ~ buffer.err /\ next = Last(buffer.elems) + 1
                        /\ Last(buffer.elems) \notin Ends
  /\ direction = "tx" => ~ buffer.err
  /\ \A i \in DOMAIN link : /\ ~ link[i].err => link[i].elems # << >>
                            /\ direction = "tx" => ~ link[i].err

\* Consecutive samples of one burst.
Joined(elems) ==
  \A k \in 1 .. Len(elems) : /\ elems[k] = elems[1] + k - 1
                             /\ k < Len(elems) => elems[k] \notin Ends

\* Flags and time of a datagram belong to its samples.
Sound(d) ==
  /\ Joined(d.elems)
  /\ "HAS_TIME" \in d.flags => d.elems # << >> /\ d.time = d.elems[1]
  /\ "END_BURST" \in d.flags <=> d.elems # << >> /\ Last(d.elems) \in Ends

\* Flags and time of what a call returned belong to the datagram it was taken from.
Told(r) ==
  /\ Joined(r.elems)
  /\ ~ r.err => r.elems # << >>
  /\ "HAS_TIME" \in r.flags => r.time = r.elems[1]
  /\ "END_BURST" \in r.flags => Last(r.of) \in Ends

\* The end of the burst was told with the first samples of the datagram.
EndTold(q, i, elems) ==
  \E j \in 1 .. i : /\ q[j].first /\ \A k \in j + 1 .. i : ~ q[k].first
                    /\ Last(elems) \in Ends => "END_BURST" \in q[j].flags

Sounds ==
  /\ Sound(buffer) /\ \A i \in DOMAIN link : Sound(link[i])
  /\ Joined(rest) /\ (rest # << >> => EndTold(sink, Len(sink), rest))
  /\ \A i \in DOMAIN sink : Told(sink[i])
  /\ \A i \in DOMAIN sink : Ok(i) => EndTold(sink, i, sink[i].elems)

\* Samples that are somewhere on the path are in their order.
Before(s, t) == s # << >> /\ t # << >> => Last(s) < t[1]
Below(s, n) == s # << >> => Last(s) < n
Rise(q) == \A i, j \in DOMAIN q : i < j => Before(q[i].elems, q[j].elems)
AllBefore(q, s) == \A i \in DOMAIN q : Before(q[i].elems, s)
BeforeAll(s, q) == \A i \in DOMAIN q : Before(s, q[i].elems)
AllBelow(q, n) == \A i \in DOMAIN q : Below(q[i].elems, n)

Sorted ==
  /\ Rise(sink) /\ AllBefore(sink, rest) /\ AllBefore(sink, buffer.elems)
  /\ \A j \in DOMAIN link : AllBefore(sink, link[j].elems)
  /\ Rise(link) /\ BeforeAll(rest, link)
  /\ IF direction = "rx" THEN AllBefore(link, buffer.elems) ELSE BeforeAll(buffer.elems, link)
  /\ Before(rest, buffer.elems)
  /\ AllBelow(sink, next) /\ AllBelow(link, next)
  /\ Below(rest, next) /\ Below(buffer.elems, next)

\* The sample that comes after a datagram; any one (0) after an error.
EndOf(d) == IF d.err THEN 0 ELSE Last(d.elems) + 1
\* After a queue that begins with sample e.
Reach(q, e) == IF q = << >> THEN e ELSE EndOf(q[Len(q)])
Meets(e, elems) == e # 0 /\ elems # << >> => elems[1] = e
Chain(q, e) ==
  \A i \in DOMAIN q : Meets(IF i = 1 THEN e ELSE EndOf(q[i - 1]), q[i].elems)

\* The sample with which each part of the path begins.
SinkTo == Reach(sink, 1)
LinkFrom == IF direction = "rx" THEN IF rest = << >> THEN SinkTo ELSE Last(rest) + 1
            ELSE IF worker = "wait" THEN SinkTo ELSE EndOf(buffer)
LinkTo == Reach(link, LinkFrom)
NextFrom == IF direction = "rx" /\ worker # "wait" THEN EndOf(buffer) ELSE LinkTo

\* Without a loss no sample is missing, but after an error.
Unbroken ==
  lost = 0 => /\ Chain(sink, 1) /\ Meets(SinkTo, rest) /\ Chain(link, LinkFrom)
              /\ Meets(IF direction = "rx" THEN LinkTo ELSE SinkTo, buffer.elems)
              /\ NextFrom # 0 => next = NextFrom

IInv == Typed /\ Worker /\ Sounds /\ Sorted /\ Unbroken

-----------------------------------------------------------------------------
(* Sequences.                                                              *)

LEMMA FirstIs ==
  ASSUME NEW S, NEW s \in Seq(S), NEW k \in 1 .. Len(s)
  PROVE  /\ First(s, k) \in Seq(S) /\ Len(First(s, k)) = k
         /\ \A i \in 1 .. k : First(s, k)[i] = s[i]
BY DEF First

LEMMA AfterIs ==
  ASSUME NEW S, NEW s \in Seq(S), NEW k \in 1 .. Len(s)
  PROVE  /\ After(s, k) \in Seq(S) /\ Len(After(s, k)) = Len(s) - k
         /\ \A i \in 1 .. Len(s) - k : After(s, k)[i] = s[k + i]
BY DEF After

LEMMA ConcatIs ==
  ASSUME NEW S, NEW s \in Seq(S), NEW t \in Seq(S)
  PROVE  /\ s \o t \in Seq(S) /\ Len(s \o t) = Len(s) + Len(t)
         /\ \A i \in 1 .. Len(s) : (s \o t)[i] = s[i]
         /\ \A i \in 1 .. Len(t) : (s \o t)[Len(s) + i] = t[i]
OBVIOUS

LEMMA RemoveAtIs ==
  ASSUME NEW S, NEW s \in Seq(S), NEW i \in DOMAIN s
  PROVE  /\ RemoveAt(s, i) \in Seq(S) /\ Len(RemoveAt(s, i)) = Len(s) - 1
         /\ \A j \in 1 .. Len(s) - 1 : RemoveAt(s, i)[j] = IF j < i THEN s[j] ELSE s[j + 1]
<1> DEFINE p == SubSeq(s, 1, i - 1)
           u == SubSeq(s, i + 1, Len(s))
<1>1. i \in 1 .. Len(s) /\ Len(s) \in Nat
  OBVIOUS
<1>2. p \in Seq(S) /\ Len(p) = i - 1 /\ \A j \in 1 .. i - 1 : p[j] = s[j]
  BY <1>1
<1>3. u \in Seq(S) /\ Len(u) = Len(s) - i /\ \A j \in 1 .. Len(s) - i : u[j] = s[i + j]
  BY <1>1
<1>4. RemoveAt(s, i) = p \o u
  BY DEF RemoveAt
<1> HIDE DEF p, u
<1>5. p \o u \in Seq(S) /\ Len(p \o u) = Len(s) - 1
  BY <1>1, <1>2, <1>3
<1>6. ASSUME NEW j \in 1 .. Len(s) - 1
      PROVE  (p \o u)[j] = IF j < i THEN s[j] ELSE s[j + 1]
  <2>1. CASE j < i
    BY <1>1, <1>2, <1>3, <2>1
  <2>2. CASE ~ (j < i)
    <3>1. j - (i - 1) \in 1 .. Len(s) - i /\ i + (j - (i - 1)) = j + 1
      BY <1>1, <2>2
    <3>2. (p \o u)[Len(p) + (j - (i - 1))] = u[j - (i - 1)]
      <4>1. p \in Seq(S) /\ u \in Seq(S) /\ j - (i - 1) \in 1 .. Len(u)
        BY <1>2, <1>3, <3>1
      <4>2. \A m \in 1 .. Len(u) : (p \o u)[Len(p) + m] = u[m]
        BY <4>1, ConcatIs
      <4> QED BY <4>1, <4>2, Zenon
    <3>3. Len(p) + (j - (i - 1)) = j
      BY <1>1, <1>2
    <3> QED BY <1>3, <2>2, <3>1, <3>2, <3>3
  <2> QED BY <2>1, <2>2
<1>7. RemoveAt(s, i) \in Seq(S) /\ Len(RemoveAt(s, i)) = Len(s) - 1
  BY <1>4, <1>5
<1>8. ASSUME NEW j \in 1 .. Len(s) - 1
      PROVE  RemoveAt(s, i)[j] = IF j < i THEN s[j] ELSE s[j + 1]
  BY <1>4, <1>6
<1> QED BY <1>7, <1>8

LEMMA AppendIs ==
  ASSUME NEW S, NEW s \in Seq(S), NEW e \in S
  PROVE  /\ Append(s, e) \in Seq(S) /\ Len(Append(s, e)) = Len(s) + 1
         /\ \A j \in 1 .. Len(s) : Append(s, e)[j] = s[j]
         /\ Append(s, e)[Len(s) + 1] = e
         /\ DOMAIN s = 1 .. Len(s) /\ DOMAIN Append(s, e) = 1 .. Len(s) + 1
         /\ Len(s) \in Nat /\ Append(s, e) # << >>
OBVIOUS

LEMMA TailIs ==
  ASSUME NEW S, NEW s \in Seq(S), s # << >>
  PROVE  /\ Head(s) \in S /\ Head(s) = s[1] /\ 1 \in DOMAIN s
         /\ Tail(s) \in Seq(S) /\ Len(Tail(s)) = Len(s) - 1
         /\ \A j \in 1 .. Len(s) - 1 : Tail(s)[j] = s[j + 1]
         /\ DOMAIN s = 1 .. Len(s) /\ DOMAIN Tail(s) = 1 .. Len(s) - 1
         /\ Len(s) \in Nat /\ (Tail(s) = << >> <=> Len(s) = 1)
<1>1. /\ Head(s) \in S /\ Head(s) = s[1] /\ 1 \in DOMAIN s /\ Len(s) \in Nat /\ Len(s) >= 1
      /\ Tail(s) \in Seq(S) /\ Len(Tail(s)) = Len(s) - 1
      /\ \A j \in 1 .. Len(s) - 1 : Tail(s)[j] = s[j + 1]
  OBVIOUS
<1>2. DOMAIN s = 1 .. Len(s) /\ DOMAIN Tail(s) = 1 .. Len(s) - 1
  BY <1>1
<1>3. \A t \in Seq(S) : t = << >> <=> Len(t) = 0
  OBVIOUS
<1>4. Tail(s) = << >> <=> Len(Tail(s)) = 0
  BY <1>1, <1>3, Zenon
<1>5. Tail(s) = << >> <=> Len(s) = 1
  BY <1>1, <1>4
<1> QED BY <1>1, <1>2, <1>5

-----------------------------------------------------------------------------
(* The samples of one buffer.                                              *)

LEMMA ElemsIs ==
  ASSUME NEW s \in Elems, s # << >>
  PROVE  /\ s \in Seq(1 .. NumSamples) /\ Len(s) \in 1 .. BuffSize
         /\ Last(s) = s[Len(s)] /\ s[1] \in 1 .. NumSamples /\ Last(s) \in 1 .. NumSamples
BY SampleAssumption DEF Elems, Last

LEMMA EmptyIs == << >> \in Elems /\ Len(<< >>) = 0 /\ Joined(<< >>)
BY SampleAssumption DEF Elems, Joined

LEMMA JoinedLast ==
  ASSUME NEW s \in Elems, s # << >>, Joined(s)
  PROVE  Last(s) = s[1] + Len(s) - 1
BY ElemsIs DEF Joined

(* The two parts of the samples that are at hand. *)
LEMMA Parts ==
  ASSUME NEW s \in Elems, Joined(s), NEW k \in 1 .. Len(s)
  PROVE  /\ First(s, k) \in Elems /\ First(s, k) # << >> /\ Joined(First(s, k))
         /\ First(s, k)[1] = s[1] /\ Last(First(s, k)) = s[1] + k - 1
         /\ k < Len(s) => Last(First(s, k)) \notin Ends
         /\ k = Len(s) => Last(First(s, k)) = Last(s) /\ After(s, k) = << >>
         /\ After(s, k) \in Elems /\ Joined(After(s, k))
         /\ k < Len(s) => /\ After(s, k) # << >> /\ After(s, k)[1] = s[1] + k
                          /\ Last(After(s, k)) = Last(s)
         /\ Last(s) = s[1] + Len(s) - 1 /\ s # << >>
<1> DEFINE p == First(s, k)
           a == After(s, k)
<1>1. /\ s \in Seq(1 .. NumSamples) /\ Len(s) \in Nat /\ Len(s) <= BuffSize /\ k \in 1 .. Len(s)
      /\ k \in Int /\ BuffSize \in Nat /\ s # << >>
  BY SampleAssumption DEF Elems
<1>2. \A i \in 1 .. Len(s) : s[i] = s[1] + i - 1 /\ (i < Len(s) => s[i] \notin Ends)
  BY DEF Joined
<1>3. s[1] \in 1 .. NumSamples /\ Last(s) = s[Len(s)] /\ Last(s) = s[1] + Len(s) - 1
  BY <1>1, ElemsIs, JoinedLast
<1>4. p \in Seq(1 .. NumSamples) /\ Len(p) = k /\ \A i \in 1 .. k : p[i] = s[i]
  BY <1>1, FirstIs
<1>5. a \in Seq(1 .. NumSamples) /\ Len(a) = Len(s) - k /\ \A i \in 1 .. Len(s) - k : a[i] = s[k + i]
  BY <1>1, AfterIs
<1> HIDE DEF p, a
<1>6. p \in Elems /\ p # << >> /\ p[1] = s[1] /\ Last(p) = p[k] /\ Last(p) = s[k]
  BY <1>1, <1>4 DEF Elems, Last
<1>7. Joined(p)
  <2>1. ASSUME NEW i \in 1 .. k
        PROVE  p[i] = p[1] + i - 1 /\ (i < k => p[i] \notin Ends)
    <3>1. i \in 1 .. Len(s) /\ (i < k => i < Len(s))
      BY <1>1
    <3>2. p[i] = s[i] /\ p[1] = s[1]
      BY <1>4, <1>6
    <3> QED BY <1>2, <3>1, <3>2
  <2> QED BY <1>4, <2>1 DEF Joined
<1>8. a \in Elems /\ (k = Len(s) => a = << >>) /\ (k < Len(s) => a # << >>)
  BY <1>1, <1>5 DEF Elems
<1>9. Joined(a)
  <2> SUFFICES ASSUME NEW i \in 1 .. Len(a)
               PROVE  a[i] = a[1] + i - 1 /\ (i < Len(a) => a[i] \notin Ends)
    BY DEF Joined
  <2>1. k + i \in 1 .. Len(s) /\ k + 1 \in 1 .. Len(s) /\ a[i] = s[k + i] /\ a[1] = s[k + 1]
        /\ i \in Int /\ (i < Len(a) => k + i < Len(s))
    BY <1>1, <1>5
  <2>2. s[k + i] = s[1] + (k + i) - 1 /\ s[k + 1] = s[1] + (k + 1) - 1
    BY <1>2, <2>1
  <2>3. a[i] = s[1] + (k + i) - 1 /\ a[1] = s[1] + (k + 1) - 1
        /\ k \in Int /\ i \in Int /\ s[1] \in Int
    BY <1>1, <1>3, <2>1, <2>2
  <2>4. a[i] = a[1] + i - 1
    BY <2>3
  <2>5. i < Len(a) => a[i] \notin Ends
    BY <1>2, <2>1
  <2> QED BY <2>4, <2>5
<1>10. ASSUME k < Len(s) PROVE a[1] = s[1] + k /\ Last(a) = Last(s)
  <2>1. k + 1 \in 1 .. Len(s) /\ a[1] = s[k + 1] /\ Len(s) - k \in 1 .. Len(s) - k
    BY <1>1, <1>5, <1>10
  <2>2. Last(a) = a[Len(s) - k] /\ a[Len(s) - k] = s[k + (Len(s) - k)] /\ k + (Len(s) - k) = Len(s)
    BY <1>1, <1>5, <2>1 DEF Last
  <2> QED BY <1>1, <1>2, <1>3, <2>1, <2>2
<1>11. Last(p) = s[1] + k - 1 /\ (k < Len(s) => Last(p) \notin Ends) /\ (k = Len(s) => Last(p) = Last(s))
  BY <1>1, <1>2, <1>3, <1>6
<1> QED BY <1>1, <1>3, <1>6, <1>7, <1>8, <1>9, <1>10, <1>11 DEF p, a

(* What comes before or after the whole comes before or after its parts. *)
LEMMA PartsBefore ==
  ASSUME NEW s \in Elems, Joined(s), NEW k \in 1 .. Len(s), NEW t \in Elems
  PROVE  /\ Before(t, s) => Before(t, First(s, k)) /\ Before(t, After(s, k))
         /\ Before(s, t) => Before(First(s, k), t) /\ Before(After(s, k), t)
         /\ Before(First(s, k), After(s, k))
<1>1. /\ First(s, k)[1] = s[1] /\ Last(First(s, k)) = s[1] + k - 1
      /\ k = Len(s) => After(s, k) = << >>
      /\ k < Len(s) => After(s, k)[1] = s[1] + k /\ Last(After(s, k)) = Last(s)
      /\ Last(s) = s[1] + Len(s) - 1 /\ s # << >>
  BY Parts
<1>2. Len(s) \in Nat /\ k \in Int /\ 1 <= k /\ k <= Len(s) /\ s[1] \in Int
  BY <1>1, ElemsIs
<1>3. t # << >> => Last(t) \in Int /\ t[1] \in Int
  BY ElemsIs
<1> QED BY <1>1, <1>2, <1>3 DEF Before

LEMMA PartsBelow ==
  ASSUME NEW s \in Elems, Joined(s), NEW k \in 1 .. Len(s), NEW n \in Int, Below(s, n)
  PROVE  Below(First(s, k), n) /\ Below(After(s, k), n)
<1>1. /\ Last(First(s, k)) = s[1] + k - 1
      /\ k = Len(s) => After(s, k) = << >>
      /\ k < Len(s) => Last(After(s, k)) = Last(s)
      /\ Last(s) = s[1] + Len(s) - 1 /\ s # << >>
  BY Parts
<1>2. Len(s) \in Nat /\ k \in Int /\ 1 <= k /\ k <= Len(s) /\ s[1] \in Int
  BY <1>1, ElemsIs
<1> QED BY <1>1, <1>2 DEF Below

(* The samples that a worker or an application has taken. *)
LEMMA RunIs ==
  ASSUME next \in 1 .. NumSamples + 1, NEW n \in 1 .. BuffSize, next + n - 1 <= NumSamples
  PROVE  /\ Run(n) \in Elems /\ Len(Run(n)) = n /\ Run(n) # << >>
         /\ \A i \in 1 .. n : Run(n)[i] = next + i - 1
         /\ Run(n)[1] = next /\ Last(Run(n)) = next + n - 1
         /\ next + n \in 1 .. NumSamples + 1
<1>1. next \in Int /\ 1 <= next /\ n \in Int /\ 1 <= n /\ n <= BuffSize /\ BuffSize \in Nat /\ NumSamples \in Nat
  BY SampleAssumption
<1>2. \A i \in 1 .. n : next + i - 1 \in 1 .. NumSamples
  BY <1>1
<1>3. Run(n) \in Seq(1 .. NumSamples) /\ Len(Run(n)) = n
  BY <1>1, <1>2 DEF Run
<1>4. \A i \in 1 .. n : Run(n)[i] = next + i - 1
  BY DEF Run
<1>5. Run(n) \in Elems /\ Run(n) # << >>
  BY <1>1, <1>3 DEF Elems
<1>6. Run(n)[1] = next /\ Last(Run(n)) = next + n - 1
  BY <1>1, <1>3, <1>4 DEF Last
<1> QED BY <1>1, <1>3, <1>4, <1>5, <1>6

LEMMA RunJoined ==
  ASSUME next \in 1 .. NumSamples + 1, NEW n \in 1 .. BuffSize, Available(n)
  PROVE  Joined(Run(n))
<1>1. next + n - 1 <= NumSamples /\ \A i \in 1 .. n - 1 : Run(n)[i] \notin Ends
  BY DEF Available
<1>2. /\ Len(Run(n)) = n /\ Run(n)[1] = next
      /\ \A i \in 1 .. n : Run(n)[i] = next + i - 1
  BY <1>1, RunIs
<1> QED BY <1>1, <1>2 DEF Joined

(* The samples of the second read go on where those of the first ended. *)
LEMMA Filled ==
  ASSUME next \in 1 .. NumSamples + 1, NEW s \in Elems, s # << >>, Joined(s),
         next = Last(s) + 1, Last(s) \notin Ends,
         NEW n \in 1 .. BuffSize, n <= BuffSize - Len(s), Available(n)
  PROVE  /\ s \o Run(n) \in Elems /\ s \o Run(n) # << >> /\ Joined(s \o Run(n))
         /\ (s \o Run(n))[1] = s[1] /\ Last(s \o Run(n)) = Last(Run(n))
<1>1. next + n - 1 <= NumSamples /\ \A i \in 1 .. n - 1 : Run(n)[i] \notin Ends
  BY DEF Available
<1> DEFINE r == Run(n)
           c == s \o r
<1>2. /\ r \in Elems /\ Len(r) = n /\ r # << >> /\ r[1] = next /\ Last(r) = r[n]
      /\ \A i \in 1 .. n : r[i] = next + i - 1
  BY <1>1, RunIs, ElemsIs
<1>3. /\ s \in Seq(1 .. NumSamples) /\ Len(s) \in 1 .. BuffSize /\ s[1] \in Int
      /\ Last(s) = s[Len(s)] /\ Last(s) = s[1] + Len(s) - 1 /\ BuffSize \in Nat
  BY ElemsIs, JoinedLast, SampleAssumption
<1>4. \A i \in 1 .. Len(s) : s[i] = s[1] + i - 1 /\ (i < Len(s) => s[i] \notin Ends)
  BY DEF Joined
<1>5. r \in Seq(1 .. NumSamples)
  BY <1>2 DEF Elems
<1> HIDE DEF r
<1>6. c \in Seq(1 .. NumSamples) /\ Len(c) = Len(s) + n
  BY <1>2, <1>3, <1>5, ConcatIs
<1>7. \A i \in 1 .. Len(s) : c[i] = s[i]
  BY <1>3, <1>5, ConcatIs
<1>8. \A i \in 1 .. n : c[Len(s) + i] = r[i]
  BY <1>2, <1>3, <1>5, ConcatIs
<1> HIDE DEF c
<1>9. c \in Elems /\ c # << >> /\ c[1] = s[1] /\ Last(c) = r[n]
  <2>1. c[Len(s) + n] = r[n] /\ Len(c) = Len(s) + n
    BY <1>6, <1>8
  <2> QED BY <1>3, <1>6, <1>7, <2>1 DEF Elems, Last
<1>10. ASSUME NEW i \in 1 .. Len(c)
       PROVE  c[i] = c[1] + i - 1 /\ (i < Len(c) => c[i] \notin Ends)
  <2>1. CASE i <= Len(s)
    <3>1. i \in 1 .. Len(s) /\ c[i] = s[i]
      BY <1>3, <1>6, <1>7, <2>1
    <3>2. s[i] = s[1] + i - 1 /\ (i < Len(s) => s[i] \notin Ends)
      BY <1>4, <3>1
    <3>3. i < Len(s) \/ i = Len(s)
      BY <1>3, <2>1
    <3> QED BY <1>3, <1>9, <3>1, <3>2, <3>3
  <2>2. CASE ~ (i <= Len(s))
    <3>1. i - Len(s) \in 1 .. n /\ Len(s) + (i - Len(s)) = i
          /\ (i < Len(c) => i - Len(s) \in 1 .. n - 1)
      BY <1>3, <1>6, <2>2
    <3>2. c[i] = r[i - Len(s)] /\ r[i - Len(s)] = next + (i - Len(s)) - 1
      BY <1>2, <1>8, <3>1
    <3>3. i < Len(c) => r[i - Len(s)] \notin Ends
      BY <1>1, <3>1 DEF r
    <3>4. next = s[1] + Len(s) /\ s[1] \in Int /\ Len(s) \in Int /\ c[1] = s[1]
      BY <1>3, <1>9
    <3>5. c[i] = c[1] + i - 1
      BY <3>2, <3>4
    <3> QED BY <3>2, <3>3, <3>5
  <2> QED BY <2>1, <2>2
<1>11. Joined(c)
  BY <1>10 DEF Joined
<1> QED BY <1>2, <1>9, <1>11 DEF c, r

-----------------------------------------------------------------------------
(* Queues.                                                                 *)

LEMMA OrderAppend ==
  ASSUME NEW S, NEW q \in Seq(S), NEW d \in S
  PROVE  /\ Rise(q) /\ AllBefore(q, d.elems) => Rise(Append(q, d))
         /\ \A s : AllBefore(q, s) /\ Before(d.elems, s) => AllBefore(Append(q, d), s)
         /\ \A s : BeforeAll(s, q) /\ Before(s, d.elems) => BeforeAll(s, Append(q, d))
         /\ \A n : AllBelow(q, n) /\ Below(d.elems, n) => AllBelow(Append(q, d), n)
<1> DEFINE r == Append(q, d)
<1>1. /\ DOMAIN q = 1 .. Len(q) /\ DOMAIN r = 1 .. Len(q) + 1 /\ Len(q) \in Nat
      /\ \A j \in 1 .. Len(q) : r[j] = q[j]
      /\ r[Len(q) + 1] = d
  BY AppendIs
<1> HIDE DEF r
<1>2. ASSUME NEW j \in DOMAIN r
      PROVE  (j \in DOMAIN q /\ r[j] = q[j]) \/ (j = Len(q) + 1 /\ r[j] = d)
  <2>1. j \in 1 .. Len(q) \/ j = Len(q) + 1
    BY <1>1
  <2> QED BY <1>1, <2>1
<1>3. ASSUME Rise(q), AllBefore(q, d.elems), NEW i \in DOMAIN r, NEW j \in DOMAIN r, i < j
      PROVE  Before(r[i].elems, r[j].elems)
  <2>1. i \in DOMAIN q /\ r[i] = q[i]
    BY <1>1, <1>3
  <2> QED BY <1>2, <1>3, <2>1 DEF Rise, AllBefore
<1>4. \A s : AllBefore(q, s) /\ Before(d.elems, s) => AllBefore(r, s)
  BY <1>2, Zenon DEF AllBefore
<1>5. \A s : BeforeAll(s, q) /\ Before(s, d.elems) => BeforeAll(s, r)
  BY <1>2, Zenon DEF BeforeAll
<1>6. \A n : AllBelow(q, n) /\ Below(d.elems, n) => AllBelow(r, n)
  BY <1>2, Zenon DEF AllBelow
<1>7. Rise(q) /\ AllBefore(q, d.elems) => Rise(r)
  BY <1>3, Zenon DEF Rise
<1> QED BY <1>4, <1>5, <1>6, <1>7, Zenon DEF r

(* A queue out of which something was taken. *)
Thins(r, q) ==
  \E f \in [DOMAIN r -> DOMAIN q] :
    /\ \A i, j \in DOMAIN r : i < j => f[i] < f[j]
    /\ \A j \in DOMAIN r : r[j] = q[f[j]]

LEMMA ThinsTail ==
  ASSUME NEW S, NEW q \in Seq(S), q # << >>
  PROVE  Thins(Tail(q), q)
<1> DEFINE r == Tail(q)
           f == [j \in DOMAIN r |-> j + 1]
<1>1. /\ DOMAIN q = 1 .. Len(q) /\ DOMAIN r = 1 .. Len(q) - 1 /\ Len(q) \in Nat
      /\ \A j \in 1 .. Len(q) - 1 : r[j] = q[j + 1]
  BY TailIs
<1> HIDE DEF r
<1>2. f \in [DOMAIN r -> DOMAIN q]
  BY <1>1
<1>3. \A i, j \in DOMAIN r : i < j => f[i] < f[j]
  BY <1>1
<1>4. \A j \in DOMAIN r : r[j] = q[f[j]]
  BY <1>1
<1> QED BY <1>2, <1>3, <1>4 DEF Thins, r

LEMMA ThinsRemove ==
  ASSUME NEW S, NEW q \in Seq(S), NEW k \in DOMAIN q
  PROVE  Thins(RemoveAt(q, k), q)
<1> DEFINE r == RemoveAt(q, k)
           f == [j \in DOMAIN r |-> IF j < k THEN j ELSE j + 1]
<1>1. /\ DOMAIN q = 1 .. Len(q) /\ r \in Seq(S) /\ Len(r) = Len(q) - 1 /\ Len(q) \in Nat
      /\ \A j \in 1 .. Len(q) - 1 : r[j] = IF j < k THEN q[j] ELSE q[j + 1]
  BY RemoveAtIs
<1> HIDE DEF r
<1>2. DOMAIN r = 1 .. Len(q) - 1 /\ k \in 1 .. Len(q)
  BY <1>1
<1>3. f \in [DOMAIN r -> DOMAIN q]
  BY <1>1, <1>2
<1>4. \A i, j \in DOMAIN r : i < j => f[i] < f[j]
  BY <1>1, <1>2
<1>5. \A j \in DOMAIN r : r[j] = q[f[j]]
  BY <1>1, <1>2
<1> QED BY <1>3, <1>4, <1>5 DEF Thins, r

LEMMA OrderThins ==
  ASSUME NEW q, NEW r, Thins(r, q)
  PROVE  /\ \A i \in DOMAIN r : \E j \in DOMAIN q : r[i] = q[j]
         /\ Rise(q) => Rise(r)
         /\ \A s : AllBefore(q, s) => AllBefore(r, s)
         /\ \A s : BeforeAll(s, q) => BeforeAll(s, r)
         /\ \A n : AllBelow(q, n) => AllBelow(r, n)
<1>1. PICK f \in [DOMAIN r -> DOMAIN q] :
        /\ \A i, j \in DOMAIN r : i < j => f[i] < f[j]
        /\ \A j \in DOMAIN r : r[j] = q[f[j]]
  BY DEF Thins
<1>2. \A i \in DOMAIN r : f[i] \in DOMAIN q /\ r[i] = q[f[i]]
  BY <1>1
<1>3. \A i \in DOMAIN r : \E j \in DOMAIN q : r[i] = q[j]
  BY <1>2, Zenon
<1>4. Rise(q) => Rise(r)
  BY <1>1, <1>2, Zenon DEF Rise
<1>5. \A s : AllBefore(q, s) => AllBefore(r, s)
  BY <1>3, Zenon DEF AllBefore
<1>6. \A s : BeforeAll(s, q) => BeforeAll(s, r)
  BY <1>3, Zenon DEF BeforeAll
<1>7. \A n : AllBelow(q, n) => AllBelow(r, n)
  BY <1>3, Zenon DEF AllBelow
<1> QED BY <1>3, <1>4, <1>5, <1>6, <1>7

(* What is taken out of a queue comes before what stays in it. *)
LEMMA HeadBefore ==
  ASSUME NEW S, NEW q \in Seq(S), q # << >>, Rise(q)
  PROVE  BeforeAll(Head(q).elems, Tail(q))
<1>1. /\ DOMAIN q = 1 .. Len(q) /\ DOMAIN Tail(q) = 1 .. Len(q) - 1 /\ Len(q) \in Nat
      /\ Head(q) = q[1] /\ 1 \in DOMAIN q /\ \A j \in 1 .. Len(q) - 1 : Tail(q)[j] = q[j + 1]
  BY TailIs
<1>2. ASSUME NEW j \in DOMAIN Tail(q) PROVE Before(Head(q).elems, Tail(q)[j].elems)
  <2>1. j + 1 \in DOMAIN q /\ 1 < j + 1 /\ Tail(q)[j] = q[j + 1]
    BY <1>1
  <2> QED BY <1>1, <2>1 DEF Rise
<1> QED BY <1>2 DEF BeforeAll

(* Samples that come next come after what was taken before. *)
LEMMA BelowBefore ==
  ASSUME NEW q, NEW n, NEW t, t[1] = n
  PROVE  /\ AllBelow(q, n) => AllBefore(q, t)
         /\ \A s : Below(s, n) => Before(s, t)
BY Zenon DEF AllBelow, AllBefore, Below, Before

LEMMA BelowMore ==
  ASSUME NEW q \in Seq(Datagrams) \cup Seq(Results), NEW n \in Int, NEW m \in Int, n <= m
  PROVE  /\ AllBelow(q, n) => AllBelow(q, m)
         /\ \A s \in Elems : Below(s, n) => Below(s, m)
<1>1. \A s \in Elems : Below(s, n) => Below(s, m)
  BY ElemsIs DEF Below
<1>2. \A i \in DOMAIN q : q[i].elems \in Elems
  BY DEF Datagrams, Results
<1> QED BY <1>1, <1>2 DEF AllBelow

LEMMA ChainAppend ==
  ASSUME NEW S, NEW q \in Seq(S), NEW d \in S, NEW e, Chain(q, e), Meets(Reach(q, e), d.elems)
  PROVE  Chain(Append(q, d), e) /\ Reach(Append(q, d), e) = EndOf(d)
<1> DEFINE r == Append(q, d)
<1>1. /\ DOMAIN q = 1 .. Len(q) /\ DOMAIN r = 1 .. Len(q) + 1 /\ Len(q) \in Nat
      /\ \A j \in 1 .. Len(q) : r[j] = q[j]
      /\ r[Len(q) + 1] = d /\ r # << >> /\ Len(r) = Len(q) + 1
      /\ q = << >> <=> Len(q) = 0
  BY AppendIs
<1> HIDE DEF r
<1>2. Reach(r, e) = EndOf(d)
  BY <1>1 DEF Reach
<1>3. ASSUME NEW i \in DOMAIN r
      PROVE  Meets(IF i = 1 THEN e ELSE EndOf(r[i - 1]), r[i].elems)
  <2>1. CASE i \in DOMAIN q
    <3>1. r[i] = q[i] /\ (i # 1 => r[i - 1] = q[i - 1])
      BY <1>1, <2>1
    <3> QED BY <2>1, <3>1 DEF Chain
  <2>2. CASE i = Len(q) + 1
    <3>1. r[i] = d /\ (i = 1 => q = << >>) /\ (i # 1 => q # << >> /\ i - 1 = Len(q) /\ r[i - 1] = q[i - 1])
      BY <1>1, <2>2
    <3>2. Reach(q, e) = IF i = 1 THEN e ELSE EndOf(r[i - 1])
      BY <3>1 DEF Reach
    <3> QED BY <3>1, <3>2
  <2> QED BY <1>1, <2>1, <2>2
<1>4. Chain(r, e)
  BY <1>3 DEF Chain
<1> QED BY <1>2, <1>4 DEF r

LEMMA ChainTail ==
  ASSUME NEW S, NEW q \in Seq(S), q # << >>, NEW e, Chain(q, e)
  PROVE  /\ Meets(e, Head(q).elems) /\ Chain(Tail(q), EndOf(Head(q)))
         /\ Reach(Tail(q), EndOf(Head(q))) = Reach(q, e)
<1> DEFINE r == Tail(q)
<1>1. /\ DOMAIN q = 1 .. Len(q) /\ DOMAIN r = 1 .. Len(q) - 1 /\ Len(q) \in Nat
      /\ \A j \in 1 .. Len(q) - 1 : r[j] = q[j + 1]
      /\ 1 \in DOMAIN q /\ Head(q) = q[1] /\ Len(r) = Len(q) - 1
      /\ r = << >> <=> Len(q) = 1
  BY TailIs
<1> HIDE DEF r
<1>2. Meets(e, Head(q).elems)
  BY <1>1 DEF Chain
<1>3. Reach(r, EndOf(Head(q))) = Reach(q, e)
  <2>1. CASE Len(q) = 1
    BY <1>1, <2>1 DEF Reach
  <2>2. CASE Len(q) # 1
    <3>1. r # << >> /\ Len(r) \in 1 .. Len(q) - 1 /\ Len(r) + 1 = Len(q)
      BY <1>1, <2>2
    <3>2. r[Len(r)] = q[Len(q)]
      BY <1>1, <3>1
    <3> QED BY <3>1, <3>2 DEF Reach
  <2> QED BY <2>1, <2>2
<1>4. ASSUME NEW i \in DOMAIN r
      PROVE  Meets(IF i = 1 THEN EndOf(Head(q)) ELSE EndOf(r[i - 1]), r[i].elems)
  <2>1. /\ i + 1 \in DOMAIN q /\ i + 1 # 1 /\ r[i] = q[i + 1] /\ (i + 1) - 1 = i
        /\ i = 1 => q[i] = Head(q)
        /\ i # 1 => r[i - 1] = q[i]
    BY <1>1
  <2>2. Meets(EndOf(q[i]), q[i + 1].elems)
    BY <2>1 DEF Chain
  <2> QED BY <2>1, <2>2
<1>5. Chain(r, EndOf(Head(q)))
  BY <1>4 DEF Chain
<1> QED BY <1>2, <1>3, <1>5 DEF r

LEMMA ChainAny ==
  ASSUME NEW q, NEW e, Chain(q, e)
  PROVE  Chain(q, 0)
BY DEF Chain, Meets

-----------------------------------------------------------------------------
(* Datagrams and results.                                                  *)

LEMMA DatagramIs ==
  ASSUME NEW d \in Datagrams
  PROVE  /\ d.elems \in Elems /\ d.err \in BOOLEAN /\ d.flags \subseteq FlagsOf
         /\ d.time \in 0 .. NumSamples /\ (d.err => d.elems = << >>)
BY DEF Datagrams

LEMMA DatagramMade ==
  ASSUME NEW elems \in Elems, NEW flags \in SUBSET FlagsOf, NEW time \in 0 .. NumSamples
  PROVE  /\ Datagram(elems, flags, time) \in Datagrams
         /\ Datagram(elems, flags, time).elems = elems /\ ~ Datagram(elems, flags, time).err
         /\ Datagram(elems, flags, time).flags = flags /\ Datagram(elems, flags, time).time = time
BY DEF Datagram, Datagrams

LEMMA NoSamples ==
  /\ Empty \in Datagrams /\ Empty.elems = << >> /\ ~ Empty.err /\ Sound(Empty)
  /\ Failure \in Datagrams /\ Failure.elems = << >> /\ Failure.err /\ Sound(Failure)
  /\ Error \in Results /\ Error.elems = << >> /\ Error.err /\ Told(Error)
<1>1. << >> \in Elems /\ Joined(<< >>) /\ {} \in SUBSET FlagsOf /\ 0 \in 0 .. NumSamples
  BY EmptyIs, SampleAssumption
<1>2. Empty \in Datagrams /\ Empty.elems = << >> /\ ~ Empty.err /\ Empty.flags = {}
  BY <1>1 DEF Empty, Datagram, Datagrams
<1>3. Failure \in Datagrams /\ Failure.elems = << >> /\ Failure.err /\ Failure.flags = {}
  BY <1>1 DEF Failure, Datagrams
<1>4. Error \in Results /\ Error.elems = << >> /\ Error.err /\ Error.flags = {}
  BY <1>1 DEF Error, Results
<1>5. Sound(Empty) /\ Sound(Failure)
  BY <1>1, <1>2, <1>3 DEF Sound
<1>6. Told(Error)
  BY <1>1, <1>4 DEF Told
<1> QED BY <1>2, <1>3, <1>4, <1>5, <1>6

LEMMA ResultIs ==
  ASSUME NEW r \in Results
  PROVE  /\ r.elems \in Elems /\ r.err \in BOOLEAN /\ r.flags \subseteq FlagsOf
         /\ r.time \in 0 .. NumSamples /\ r.of \in Elems /\ (r.err => r.elems = << >>)
BY DEF Results

LEMMA ResultMade ==
  ASSUME NEW elems \in Elems, NEW flags \in SUBSET FlagsOf, NEW time \in 0 .. NumSamples,
         NEW of \in Elems, NEW first \in BOOLEAN, NEW r, r = Result(elems, flags, time, of, first)
  PROVE  /\ r \in Results /\ r.elems = elems /\ ~ r.err /\ r.flags = flags /\ r.time = time
         /\ r.of = of /\ r.first = first
BY DEF Result, Results

(* TypeOK is the part of Typed that a run checks. *)
LEMMA TypedOK == Typed => TypeOK
<1> SUFFICES ASSUME Typed PROVE TypeOK
  OBVIOUS
<1>1. \A s \in Elems : Held(s)
  BY DEF Elems, Held
<1>2. \A d \in Datagrams : IsDatagram(d)
  BY <1>1, DatagramIs DEF IsDatagram
<1>3. \A r \in Results : IsDatagram(r) /\ Held(r.of)
  BY <1>1, ResultIs DEF IsDatagram
<1>4. \A i \in DOMAIN link : IsDatagram(link[i])
  BY <1>2 DEF Typed
<1>5. \A i \in DOMAIN sink : IsDatagram(sink[i]) /\ Held(sink[i].of)
  BY <1>3 DEF Typed
<1> QED BY <1>1, <1>2, <1>4, <1>5 DEF Typed, TypeOK

LEMMA TypedNumbers ==
  ASSUME Typed
  PROVE  next \in Nat /\ next \in 1 .. NumSamples + 1 /\ NumSamples \in Nat /\ BuffSize \in Nat \ {0}
         /\ Len(link) \in Nat /\ LinkCap \in Nat /\ Len(sink) \in Nat
         /\ DOMAIN link = 1 .. Len(link) /\ DOMAIN sink = 1 .. Len(sink)
BY SampleAssumption DEF Typed

LEMMA TrailingIs ==
  ASSUME NEW s
  PROVE  /\ Trailing(s) \subseteq {"END_BURST"}
         /\ "END_BURST" \in Trailing(s) <=> Last(s) \in Ends
         /\ Trailing(s) = {} <=> Last(s) \notin Ends
BY DEF Trailing

LEMMA LeastIs ==
  ASSUME NEW a \in Int, NEW b \in Int
  PROVE  /\ Least(a, b) \in Int /\ Least(a, b) <= a /\ Least(a, b) <= b
         /\ Least(a, b) = a \/ Least(a, b) = b
BY DEF Least

-----------------------------------------------------------------------------
(* The steps of the server of a stream that is received.                   *)

LEMMA FirstReadStep ==
  ASSUME IInv, NEW n \in Sizes, FirstRead(n)
  PROVE  IInv'
<1> DEFINE r == Run(n)
<1>1. /\ direction = "rx" /\ worker = "wait" /\ Len(link) < LinkCap /\ Available(n)
      /\ worker' = IF n < BuffSize /\ Trailing(r) = {} THEN "fill" ELSE "send"
      /\ next' = next + n
      /\ UNCHANGED << direction, link, rest, sink, errors, lost >>
  BY DEF FirstRead
<1>2. PICK timed \in {{}, {"HAS_TIME"}} : buffer' = Datagram(r, timed \cup Trailing(r), next)
  BY DEF FirstRead
<1>3. Typed /\ Worker /\ Sounds /\ Sorted /\ Unbroken
  BY DEF IInv
<1>4. /\ next \in Nat /\ next \in 1 .. NumSamples + 1 /\ BuffSize \in Nat /\ n \in 1 .. BuffSize
      /\ next + n - 1 <= NumSamples /\ n \in Nat
  <2>1. n \in 1 .. BuffSize + 1 /\ BuffSize \in Nat \ {0} /\ DeviceMTU \in Nat
    BY SampleAssumption DEF Sizes
  <2>2. n <= Least(DeviceMTU, BuffSize)
    BY DEF FirstRead
  <2>3. n <= BuffSize
    BY <2>1, <2>2 DEF Least
  <2>4. next + n - 1 <= NumSamples
    BY <1>1 DEF Available
  <2> QED BY <1>3, <2>1, <2>3, <2>4, TypedNumbers
<1>5. /\ r \in Elems /\ r # << >> /\ r[1] = next /\ Last(r) = next + n - 1 /\ Joined(r)
      /\ next' \in 1 .. NumSamples + 1 /\ next \in 0 .. NumSamples
  <2>1. Joined(r)
    BY <1>1, <1>4, RunJoined
  <2>2. /\ r \in Elems /\ r # << >> /\ r[1] = next /\ Last(r) = next + n - 1
        /\ next + n \in 1 .. NumSamples + 1
    BY <1>4, RunIs
  <2>3. next \in 0 .. NumSamples
    BY <1>4, SampleAssumption
  <2> QED BY <1>1, <2>1, <2>2, <2>3
<1> HIDE DEF r
<1>6. timed \cup Trailing(r) \in SUBSET FlagsOf
  BY TrailingIs DEF FlagsOf
<1>7. /\ buffer' \in Datagrams /\ buffer'.elems = r /\ ~ buffer'.err
      /\ buffer'.flags = timed \cup Trailing(r) /\ buffer'.time = next
  BY <1>2, <1>5, <1>6, DatagramMade
<1>8. Typed'
  BY <1>1, <1>3, <1>5, <1>7 DEF Typed
<1>9. Worker'
  <2>1. worker' = "fill" => next' = Last(buffer'.elems) + 1 /\ Last(buffer'.elems) \notin Ends
    BY <1>1, <1>4, <1>5, <1>7, TrailingIs
  <2> QED BY <1>1, <1>3, <1>5, <1>7, <2>1 DEF Worker
<1>10. Sounds'
  <2>1. "END_BURST" \in buffer'.flags <=> Last(r) \in Ends
    BY <1>7, TrailingIs
  <2>2. "HAS_TIME" \in buffer'.flags => buffer'.time = r[1]
    BY <1>5, <1>7
  <2>3. Sound(buffer')
    BY <1>5, <1>7, <2>1, <2>2 DEF Sound
  <2> QED BY <1>1, <1>3, <2>3 DEF Sounds, Ok
<1>11. Sorted'
  <2>1. next \in Int /\ next' \in Int /\ next <= next'
    BY <1>1, <1>4
  <2>2. link \in Seq(Datagrams) /\ sink \in Seq(Results) /\ rest \in Elems
    BY <1>3 DEF Typed
  <2>3. /\ AllBefore(sink, r) /\ AllBefore(link, r) /\ Before(rest, r)
        /\ AllBelow(sink, next') /\ AllBelow(link, next') /\ Below(rest, next')
    BY <1>3, <1>5, <2>1, <2>2, BelowBefore, BelowMore DEF Sorted
  <2>4. Below(r, next')
    BY <1>1, <1>4, <1>5 DEF Below
  <2> QED BY <1>1, <1>3, <1>7, <2>3, <2>4 DEF Sorted
<1>12. Unbroken'
  <2> SUFFICES ASSUME lost = 0 PROVE Unbroken'
    BY <1>1 DEF Unbroken
  <2>1. /\ SinkTo' = SinkTo /\ LinkFrom' = LinkFrom /\ LinkTo' = LinkTo /\ NextFrom = LinkTo
        /\ NextFrom' = EndOf(buffer')
    BY <1>1 DEF SinkTo, LinkFrom, LinkTo, NextFrom
  <2>2. NextFrom' = next'
    BY <1>1, <1>4, <1>5, <1>7, <2>1 DEF EndOf
  <2>3. Meets(LinkTo, r)
    BY <1>3, <1>5, <2>1 DEF Unbroken, Meets
  <2> QED BY <1>1, <1>3, <1>7, <2>1, <2>2, <2>3 DEF Unbroken
<1> QED BY <1>8, <1>9, <1>10, <1>11, <1>12 DEF IInv

LEMMA SecondReadStep ==
  ASSUME IInv, NEW n \in Sizes, SecondRead(n)
  PROVE  IInv'
<1> DEFINE r == Run(n)
           s == buffer.elems
           c == s \o r
<1>1. /\ worker = "fill" /\ n <= BuffSize - Len(s) /\ Available(n)
      /\ buffer' = [buffer EXCEPT !.elems = c, !.flags = @ \cup Trailing(r)]
      /\ next' = next + n /\ worker' = "send"
      /\ UNCHANGED << direction, link, rest, sink, errors, lost >>
  BY DEF SecondRead
<1>2. Typed /\ Worker /\ Sounds /\ Sorted /\ Unbroken
  BY DEF IInv
<1>3. direction = "rx" /\ buffer \in Datagrams
  BY <1>1, <1>2 DEF Typed
<1>4. /\ s \in Elems /\ s # << >> /\ Joined(s) /\ next = Last(s) + 1 /\ Last(s) \notin Ends
      /\ ~ buffer.err
  BY <1>1, <1>2, <1>3, DatagramIs DEF Worker, Sounds, Sound
<1>5. /\ next \in Nat /\ next \in 1 .. NumSamples + 1 /\ BuffSize \in Nat /\ n \in 1 .. BuffSize
      /\ next + n - 1 <= NumSamples /\ n \in Nat
  <2>1. n \in 1 .. BuffSize + 1 /\ BuffSize \in Nat \ {0} /\ Len(s) \in 1 .. BuffSize
    BY <1>4, ElemsIs, SampleAssumption DEF Sizes
  <2>2. next + n - 1 <= NumSamples
    BY <1>1 DEF Available
  <2>3. n \in 1 .. BuffSize
    BY <1>1, <2>1
  <2>4. next \in Nat /\ next \in 1 .. NumSamples + 1
    BY <1>2, TypedNumbers
  <2> QED BY <2>1, <2>2, <2>3, <2>4
<1>6. /\ c \in Elems /\ c # << >> /\ Joined(c) /\ c[1] = s[1] /\ Last(c) = Last(r)
      /\ Last(r) = next + n - 1 /\ next' \in 1 .. NumSamples + 1
  <2>1. c \in Elems /\ c # << >> /\ Joined(c) /\ c[1] = s[1] /\ Last(c) = Last(r)
    BY <1>1, <1>4, <1>5, Filled
  <2>2. Last(r) = next + n - 1 /\ next + n \in 1 .. NumSamples + 1
    BY <1>5, RunIs
  <2> QED BY <1>1, <2>1, <2>2
<1>7. Trailing(r) \subseteq FlagsOf /\ ("END_BURST" \in Trailing(r) <=> Last(r) \in Ends)
      /\ "HAS_TIME" \notin Trailing(r)
  BY TrailingIs DEF FlagsOf
<1> HIDE DEF r, s, c
<1>8. /\ buffer' \in Datagrams /\ buffer'.elems = c /\ ~ buffer'.err
      /\ buffer'.flags = buffer.flags \cup Trailing(r) /\ buffer'.time = buffer.time
  BY <1>1, <1>3, <1>4, <1>6, <1>7 DEF Datagrams
<1>9. Typed'
  BY <1>1, <1>2, <1>3, <1>6, <1>8 DEF Typed
<1>10. Worker'
  BY <1>1, <1>2, <1>3, <1>6, <1>8 DEF Worker
<1>11. Sounds'
  <2>1. Sound(buffer) /\ buffer.elems = s
    BY <1>2 DEF Sounds, s
  <2>2. "END_BURST" \in buffer'.flags <=> Last(c) \in Ends
    BY <1>4, <1>6, <1>7, <1>8, <2>1 DEF Sound
  <2>3. "HAS_TIME" \in buffer'.flags => buffer'.time = c[1]
    BY <1>6, <1>7, <1>8, <2>1 DEF Sound
  <2>4. Sound(buffer')
    BY <1>6, <1>8, <2>2, <2>3 DEF Sound
  <2> QED BY <1>1, <1>2, <2>4 DEF Sounds, Ok
<1>12. Sorted'
  <2>1. next \in Int /\ next' \in Int /\ next <= next'
    BY <1>1, <1>5
  <2>2. link \in Seq(Datagrams) /\ sink \in Seq(Results) /\ rest \in Elems
    BY <1>2 DEF Typed
  <2>3. AllBelow(sink, next') /\ AllBelow(link, next') /\ Below(rest, next')
    BY <1>2, <2>1, <2>2, BelowMore DEF Sorted
  <2>4. Below(c, next')
    BY <1>1, <1>5, <1>6 DEF Below
  <2>5. \A t : Before(t, s) => Before(t, c)
    BY <1>4, <1>6 DEF Before
  <2>6. AllBefore(sink, c) /\ AllBefore(link, c) /\ Before(rest, c)
    BY <1>2, <1>3, <2>5 DEF Sorted, AllBefore, s
  <2> QED BY <1>1, <1>2, <1>3, <1>8, <2>3, <2>4, <2>6 DEF Sorted
<1>13. Unbroken'
  <2> SUFFICES ASSUME lost = 0 PROVE Unbroken'
    BY <1>1 DEF Unbroken
  <2>1. /\ SinkTo' = SinkTo /\ LinkFrom' = LinkFrom /\ LinkTo' = LinkTo
        /\ NextFrom' = EndOf(buffer')
    BY <1>1, <1>3 DEF SinkTo, LinkFrom, LinkTo, NextFrom
  <2>2. NextFrom' = next'
    BY <1>1, <1>5, <1>6, <1>8, <2>1 DEF EndOf
  <2>3. Meets(LinkTo, c)
    BY <1>2, <1>3, <1>4, <1>6 DEF Unbroken, Meets, s
  <2> QED BY <1>1, <1>2, <1>3, <1>8, <2>1, <2>2, <2>3 DEF Unbroken
<1> QED BY <1>9, <1>10, <1>11, <1>12, <1>13 DEF IInv

LEMMA SecondReadEmptyStep ==
  ASSUME IInv, SecondReadEmpty
  PROVE  IInv'
<1>1. /\ worker = "fill" /\ worker' = "send"
      /\ UNCHANGED << direction, next, buffer, link, rest, sink, errors, lost >>
  BY DEF SecondReadEmpty
<1>2. Typed /\ Worker /\ Sounds /\ Sorted /\ Unbroken
  BY DEF IInv
<1>3. direction = "rx"
  BY <1>1, <1>2 DEF Typed
<1>4. Typed'
  BY <1>1, <1>2, <1>3 DEF Typed
<1>5. Worker'
  BY <1>1, <1>2, <1>3 DEF Worker
<1>6. Sounds' /\ Sorted'
  BY <1>1, <1>2 DEF Sounds, Sorted, Ok
<1>7. Unbroken'
  BY <1>1, <1>2, <1>3 DEF Unbroken, NextFrom, LinkTo, LinkFrom, SinkTo
<1> QED BY <1>4, <1>5, <1>6, <1>7 DEF IInv

(* An error takes the place of what the worker had. *)
LEMMA FailsStep ==
  ASSUME IInv, direction = "rx", worker # "wait" \/ Len(link) < LinkCap, Overflow, buffer' = Failure
  PROVE  IInv'
<1>1. /\ errors < MaxErrors /\ next <= NumSamples /\ next' = next + 1 /\ errors' = errors + 1
      /\ worker' = "send" /\ UNCHANGED << direction, link, rest, sink, lost >>
  BY DEF Overflow
<1>2. Typed /\ Worker /\ Sounds /\ Sorted /\ Unbroken
  BY DEF IInv
<1>3. Failure \in Datagrams /\ Failure.elems = << >> /\ Failure.err /\ Sound(Failure)
  BY NoSamples
<1>4. Typed'
  <2>1. next' \in 1 .. NumSamples + 1
    BY <1>1, <1>2, TypedNumbers
  <2>2. errors' \in 0 .. MaxErrors
    BY <1>1, <1>2, SampleAssumption DEF Typed
  <2> QED BY <1>1, <1>2, <1>3, <2>1, <2>2 DEF Typed
<1>5. Worker'
  BY <1>1, <1>2, <1>3 DEF Worker
<1>6. Sounds'
  BY <1>1, <1>2, <1>3 DEF Sounds, Ok
<1>7. Sorted'
  <2>1. next \in Int /\ next' \in Int /\ next <= next'
    BY <1>1, <1>2, TypedNumbers
  <2>2. link \in Seq(Datagrams) /\ sink \in Seq(Results) /\ rest \in Elems
    BY <1>2 DEF Typed
  <2>3. AllBelow(sink, next') /\ AllBelow(link, next') /\ Below(rest, next')
    BY <1>2, <2>1, <2>2, BelowMore DEF Sorted
  <2>4. /\ Below(<< >>, next') /\ AllBefore(sink, << >>) /\ AllBefore(link, << >>)
        /\ Before(rest, << >>)
    BY DEF Below, AllBefore, Before
  <2> QED BY <1>1, <1>2, <1>3, <2>3, <2>4 DEF Sorted
<1>8. Unbroken'
  <2> SUFFICES ASSUME lost = 0 PROVE Unbroken'
    BY <1>1 DEF Unbroken
  <2>1. /\ SinkTo' = SinkTo /\ LinkFrom' = LinkFrom /\ LinkTo' = LinkTo
        /\ NextFrom' = EndOf(buffer')
    BY <1>1 DEF SinkTo, LinkFrom, LinkTo, NextFrom
  <2>2. NextFrom' = 0 /\ Meets(LinkTo, << >>)
    BY <1>3, <2>1 DEF EndOf, Meets
  <2> QED BY <1>1, <1>2, <1>3, <2>1, <2>2 DEF Unbroken
<1> QED BY <1>4, <1>5, <1>6, <1>7, <1>8 DEF IInv

LEMMA SendBufferStep ==
  ASSUME IInv, SendBuffer
  PROVE  IInv'
<1>1. /\ direction = "rx" /\ worker = "send" /\ worker' = "wait"
      /\ link' = Append(link, buffer) /\ buffer' = Empty
      /\ UNCHANGED << direction, next, rest, sink, errors, lost >>
  BY DEF SendBuffer
<1>2. Typed /\ Worker /\ Sounds /\ Sorted /\ Unbroken
  BY DEF IInv
<1>3. Empty \in Datagrams /\ Empty.elems = << >> /\ ~ Empty.err /\ Sound(Empty)
  BY NoSamples
<1>4. link \in Seq(Datagrams) /\ buffer \in Datagrams /\ Len(link) < LinkCap
  BY <1>1, <1>2 DEF Typed, Worker
<1>5. /\ link' \in Seq(Datagrams) /\ Len(link') = Len(link) + 1
      /\ DOMAIN link = 1 .. Len(link) /\ DOMAIN link' = 1 .. Len(link) + 1
      /\ \A j \in 1 .. Len(link) : link'[j] = link[j]
      /\ link'[Len(link) + 1] = buffer /\ Len(link) \in Nat
  BY <1>1, <1>4, AppendIs
<1>6. ASSUME NEW j \in DOMAIN link'
      PROVE  (j \in DOMAIN link /\ link'[j] = link[j]) \/ link'[j] = buffer
  <2>1. j \in 1 .. Len(link) \/ j = Len(link) + 1
    BY <1>5
  <2> QED BY <1>5, <2>1
<1>7. Typed'
  <2>1. Len(link') <= LinkCap
    BY <1>4, <1>5, SampleAssumption
  <2> QED BY <1>1, <1>2, <1>3, <1>5, <2>1 DEF Typed
<1>8. Worker'
  <2>1. ~ buffer.err => buffer.elems # << >>
    BY <1>1, <1>2 DEF Worker
  <2>2. \A i \in DOMAIN link' : ~ link'[i].err => link'[i].elems # << >>
    BY <1>2, <1>6, <2>1 DEF Worker
  <2> QED BY <1>1, <1>3, <2>2 DEF Worker
<1>9. Sounds'
  <2>1. \A i \in DOMAIN link' : Sound(link'[i])
    BY <1>2, <1>6 DEF Sounds
  <2> QED BY <1>1, <1>2, <1>3, <2>1 DEF Sounds, Ok
<1>10. Sorted'
  <2>1. /\ Rise(link') /\ BeforeAll(rest, link') /\ AllBelow(link', next)
    BY <1>1, <1>2, <1>4, OrderAppend DEF Sorted
  <2>2. \A j \in DOMAIN link' : AllBefore(sink, link'[j].elems)
    BY <1>2, <1>6 DEF Sorted
  <2>3. /\ Below(<< >>, next) /\ AllBefore(sink, << >>) /\ AllBefore(link', << >>)
        /\ Before(rest, << >>)
    BY DEF Below, AllBefore, Before
  <2> QED BY <1>1, <1>2, <1>3, <2>1, <2>2, <2>3 DEF Sorted
<1>11. Unbroken'
  <2> SUFFICES ASSUME lost = 0 PROVE Unbroken'
    BY <1>1 DEF Unbroken
  <2>1. SinkTo' = SinkTo /\ LinkFrom' = LinkFrom /\ NextFrom' = LinkTo' /\ NextFrom = EndOf(buffer)
    BY <1>1 DEF SinkTo, LinkFrom, LinkTo, NextFrom
  <2>2. Chain(link', LinkFrom) /\ Reach(link', LinkFrom) = EndOf(buffer)
    BY <1>1, <1>2, <1>4, ChainAppend DEF Unbroken, LinkTo
  <2>3. LinkTo' = EndOf(buffer)
    BY <2>1, <2>2 DEF LinkTo
  <2>4. Meets(LinkTo', << >>)
    BY DEF Meets
  <2> QED BY <1>1, <1>2, <1>3, <2>1, <2>2, <2>3, <2>4 DEF Unbroken
<1> QED BY <1>7, <1>8, <1>9, <1>10, <1>11 DEF IInv

-----------------------------------------------------------------------------
(* What a call returns.                                                    *)

LEMMA SinkAppend ==
  ASSUME NEW q \in Seq(Results), NEW r \in Results, NEW p, p = Append(q, r)
  PROVE  /\ p \in Seq(Results) /\ Len(p) = Len(q) + 1 /\ DOMAIN q \subseteq DOMAIN p
         /\ \A j \in DOMAIN p : (j \in DOMAIN q /\ p[j] = q[j]) \/ (j = Len(p) /\ p[j] = r)
         /\ \A i \in DOMAIN q : \A s : EndTold(q, i, s) => EndTold(p, i, s)
         /\ \A s : /\ r.first
                   /\ Last(s) \in Ends => "END_BURST" \in r.flags
                   => EndTold(p, Len(p), s)
         /\ \A s, t : /\ ~ r.first /\ EndTold(q, Len(q), t)
                      /\ Last(s) \in Ends => Last(t) \in Ends
                      => EndTold(p, Len(p), s)
<1>1. /\ p \in Seq(Results) /\ Len(p) = Len(q) + 1 /\ Len(q) \in Nat
      /\ DOMAIN q = 1 .. Len(q) /\ DOMAIN p = 1 .. Len(q) + 1
      /\ \A j \in 1 .. Len(q) : p[j] = q[j]
      /\ p[Len(q) + 1] = r
  BY AppendIs
<1>2. ASSUME NEW j \in DOMAIN p
      PROVE  (j \in DOMAIN q /\ p[j] = q[j]) \/ (j = Len(p) /\ p[j] = r)
  <2>1. j \in 1 .. Len(q) \/ j = Len(q) + 1
    BY <1>1
  <2> QED BY <1>1, <2>1
<1>3. ASSUME NEW i \in DOMAIN q, NEW s, EndTold(q, i, s)
      PROVE  EndTold(p, i, s)
  <2>1. PICK j \in 1 .. i : /\ q[j].first /\ \A k \in j + 1 .. i : ~ q[k].first
                            /\ Last(s) \in Ends => "END_BURST" \in q[j].flags
    BY <1>3 DEF EndTold
  <2>2. /\ j \in 1 .. Len(q) /\ \A k \in j + 1 .. i : k \in 1 .. Len(q)
    BY <1>1
  <2>3. p[j] = q[j] /\ \A k \in j + 1 .. i : p[k] = q[k]
    BY <1>1, <2>2
  <2> QED BY <2>1, <2>3 DEF EndTold
<1>4. ASSUME NEW s, r.first, Last(s) \in Ends => "END_BURST" \in r.flags
      PROVE  EndTold(p, Len(p), s)
  <2>1. Len(p) \in 1 .. Len(p) /\ p[Len(p)] = r /\ Len(p) + 1 .. Len(p) = {}
    BY <1>1
  <2> QED BY <1>4, <2>1 DEF EndTold
<1>5. ASSUME NEW s, NEW t, ~ r.first, EndTold(q, Len(q), t), Last(s) \in Ends => Last(t) \in Ends
      PROVE  EndTold(p, Len(p), s)
  <2>1. PICK j \in 1 .. Len(q) : /\ q[j].first /\ \A k \in j + 1 .. Len(q) : ~ q[k].first
                                 /\ Last(t) \in Ends => "END_BURST" \in q[j].flags
    BY <1>5 DEF EndTold
  <2>2. j \in 1 .. Len(p) /\ p[j] = q[j]
    BY <1>1
  <2>3. ASSUME NEW k \in j + 1 .. Len(p) PROVE ~ p[k].first
    <3>1. k \in j + 1 .. Len(q) \/ k = Len(q) + 1
      BY <1>1
    <3>2. k \in j + 1 .. Len(q) => p[k] = q[k]
      BY <1>1
    <3> QED BY <1>1, <1>5, <2>1, <3>1, <3>2
  <2> QED BY <1>5, <2>1, <2>2, <2>3 DEF EndTold
<1> QED BY <1>1, <1>2, <1>3, <1>4, <1>5

(* A call returns the first of the samples at hand, with their flags. *)
Hands(elems, flags, first) ==
  \E k \in 1 .. Len(elems), r \in Results :
    /\ sink' = Append(sink, r) /\ rest' = After(elems, k)
    /\ r.elems = First(elems, k) /\ ~ r.err /\ Told(r)
    /\ IF first THEN r.first ELSE ~ r.first
    /\ "END_BURST" \in flags => "END_BURST" \in r.flags

LEMMA Handed ==
  ASSUME NEW elems \in Elems, elems # << >>, Joined(elems), NEW n \in Sizes,
         NEW flags \in SUBSET FlagsOf, NEW time \in 0 .. NumSamples, NEW first \in BOOLEAN,
         "HAS_TIME" \in flags => time = elems[1], "END_BURST" \in flags => Last(elems) \in Ends,
         Hand(elems, n, flags, time, first)
  PROVE  Hands(elems, flags, first)
<1> DEFINE k == Least(n, Len(elems))
           more == IF k < Len(elems) THEN {"MORE_FRAGMENTS"} ELSE {}
           r == Result(First(elems, k), flags \cup more, time, elems, first)
<1>1. k \in 1 .. Len(elems)
  BY ElemsIs, SampleAssumption DEF Sizes, Least
<1>2. sink' = Append(sink, r) /\ rest' = After(elems, k)
  BY DEF Hand
<1>3. more \subseteq {"MORE_FRAGMENTS"}
  OBVIOUS
<1> HIDE DEF k, more
<1>4. /\ First(elems, k) \in Elems /\ First(elems, k) # << >> /\ Joined(First(elems, k))
      /\ First(elems, k)[1] = elems[1]
  BY <1>1, Parts
<1>5. flags \cup more \in SUBSET FlagsOf
  BY <1>3 DEF FlagsOf
<1>6. /\ r \in Results /\ r.elems = First(elems, k) /\ ~ r.err /\ r.flags = flags \cup more
      /\ r.time = time /\ r.of = elems /\ r.first = first
  BY <1>4, <1>5, ResultMade
<1> HIDE DEF r
<1>7. Told(r)
  BY <1>3, <1>4, <1>6 DEF Told
<1> QED BY <1>1, <1>2, <1>6, <1>7 DEF Hands

(* The client goes on with samples that it has, of a datagram or of the remainder. *)
LEMMA SinkSounds ==
  ASSUME Typed, Sounds, NEW r \in Results, sink' = Append(sink, r), Told(r),
         ~ r.err => EndTold(sink', Len(sink'), r.elems)
  PROVE  /\ \A i \in DOMAIN sink' : Told(sink'[i])
         /\ \A i \in DOMAIN sink' : ~ sink'[i].err => EndTold(sink', i, sink'[i].elems)
<1>1. sink \in Seq(Results)
  BY DEF Typed
<1>2. ASSUME NEW j \in DOMAIN sink'
      PROVE  (j \in DOMAIN sink /\ sink'[j] = sink[j]) \/ (j = Len(sink') /\ sink'[j] = r)
  BY <1>1, SinkAppend
<1>3. ASSUME NEW i \in DOMAIN sink, NEW s, EndTold(sink, i, s)
      PROVE  EndTold(sink', i, s)
  BY <1>1, <1>3, SinkAppend
<1>4. /\ \A i \in DOMAIN sink : Told(sink[i])
      /\ \A i \in DOMAIN sink : ~ sink[i].err => EndTold(sink, i, sink[i].elems)
  BY DEF Sounds, Ok
<1>5. ASSUME NEW i \in DOMAIN sink' PROVE Told(sink'[i])
  BY <1>2, <1>4
<1>6. ASSUME NEW i \in DOMAIN sink', ~ sink'[i].err PROVE EndTold(sink', i, sink'[i].elems)
  <2>1. CASE i \in DOMAIN sink /\ sink'[i] = sink[i]
    BY <1>3, <1>4, <1>6, <2>1
  <2>2. CASE i = Len(sink') /\ sink'[i] = r
    BY <1>6, <2>2
  <2> QED BY <1>2, <2>1, <2>2
<1> QED BY <1>5, <1>6

(* The order of what was returned, and that no samples are missing in it. *)
LEMMA SinkSorted ==
  ASSUME Typed, Sorted, NEW r \in Results, sink' = Append(sink, r), AllBefore(sink, r.elems),
         NEW m \in Int, next <= m, Below(r.elems, m)
  PROVE  Rise(sink') /\ AllBelow(sink', m)
<1>1. sink \in Seq(Results) /\ next \in Int
  BY TypedNumbers DEF Typed
<1>2. Rise(sink) /\ AllBelow(sink, next)
  BY DEF Sorted
<1>3. AllBelow(sink, m)
  BY <1>1, <1>2, BelowMore
<1> QED BY <1>1, <1>2, <1>3, OrderAppend

LEMMA SinkChain ==
  ASSUME Typed, NEW r \in Results, sink' = Append(sink, r), Chain(sink, 1), Meets(SinkTo, r.elems)
  PROVE  Chain(sink', 1) /\ SinkTo' = EndOf(r)
<1>1. sink \in Seq(Results)
  BY DEF Typed
<1>2. Chain(sink', 1) /\ Reach(sink', 1) = EndOf(r)
  BY <1>1, ChainAppend DEF SinkTo
<1> QED BY <1>2 DEF SinkTo

-----------------------------------------------------------------------------
(* readStream().                                                           *)

(* The shape of a link after its first datagram was taken. *)
LEMMA LinkTail ==
  ASSUME Typed, Worker, Sounds, Sorted, link # << >>, link' = Tail(link)
  PROVE  /\ link' \in Seq(Datagrams) /\ Len(link') = Len(link) - 1 /\ Len(link) \in Nat
         /\ Head(link) \in Datagrams /\ Sound(Head(link))
         /\ ~ Head(link).err => Head(link).elems # << >>
         /\ direction = "tx" => ~ Head(link).err
         /\ \A i \in DOMAIN link' : /\ ~ link'[i].err => link'[i].elems # << >>
                                    /\ direction = "tx" => ~ link'[i].err
         /\ \A i \in DOMAIN link' : Sound(link'[i])
         /\ \A i \in DOMAIN link' : AllBefore(sink, link'[i].elems)
         /\ Rise(link') /\ BeforeAll(rest, link') /\ AllBelow(link', next)
         /\ BeforeAll(Head(link).elems, link')
         /\ direction = "rx" => AllBefore(link', buffer.elems) /\ Before(Head(link).elems, buffer.elems)
         /\ AllBefore(sink, Head(link).elems) /\ Below(Head(link).elems, next)
<1>1. link \in Seq(Datagrams)
  BY DEF Typed
<1>2. /\ Head(link) \in Datagrams /\ Head(link) = link[1] /\ 1 \in DOMAIN link
      /\ link' \in Seq(Datagrams) /\ Len(link') = Len(link) - 1 /\ Len(link) \in Nat
  BY <1>1, TailIs
<1>3. Thins(link', link)
  BY <1>1, ThinsTail
<1>4. ASSUME NEW i \in DOMAIN link' PROVE \E j \in DOMAIN link : link'[i] = link[j]
  <2>1. /\ DOMAIN link = 1 .. Len(link) /\ DOMAIN Tail(link) = 1 .. Len(link) - 1
        /\ Len(link) \in Nat /\ \A j \in 1 .. Len(link) - 1 : Tail(link)[j] = link[j + 1]
    BY <1>1, TailIs
  <2>2. i + 1 \in DOMAIN link /\ link'[i] = link[i + 1]
    BY <2>1
  <2> QED BY <2>2
<1>5. /\ Sound(Head(link)) /\ (~ Head(link).err => Head(link).elems # << >>)
      /\ direction = "tx" => ~ Head(link).err
  BY <1>2, Zenon DEF Worker, Sounds
<1>6. /\ \A i \in DOMAIN link' : /\ ~ link'[i].err => link'[i].elems # << >>
                                 /\ direction = "tx" => ~ link'[i].err
      /\ \A i \in DOMAIN link' : Sound(link'[i])
      /\ \A i \in DOMAIN link' : AllBefore(sink, link'[i].elems)
  BY <1>4, Zenon DEF Worker, Sounds, Sorted
<1>7. Rise(link') /\ BeforeAll(rest, link') /\ AllBelow(link', next)
  BY <1>3, OrderThins DEF Sorted
<1>8. BeforeAll(Head(link).elems, link')
  BY <1>1, HeadBefore DEF Sorted
<1>9. direction = "rx" => AllBefore(link', buffer.elems) /\ Before(Head(link).elems, buffer.elems)
  <2>1. direction = "rx" => AllBefore(link, buffer.elems)
    BY DEF Sorted
  <2>2. AllBefore(link, buffer.elems) => AllBefore(link', buffer.elems)
    BY <1>3, OrderThins
  <2>3. AllBefore(link, buffer.elems) => Before(Head(link).elems, buffer.elems)
    BY <1>2 DEF AllBefore
  <2> QED BY <2>1, <2>2, <2>3
<1>10. AllBefore(sink, Head(link).elems) /\ Below(Head(link).elems, next)
  BY <1>2 DEF Sorted, AllBelow
<1> QED BY <1>2, <1>5, <1>6, <1>7, <1>8, <1>9, <1>10

LEMMA ReadErrorStep ==
  ASSUME IInv, NEW n \in Sizes, ReadStream(n), Head(link).err
  PROVE  IInv'
<1>1. /\ direction = "rx" /\ rest = << >> /\ link # << >> /\ link' = Tail(link)
      /\ sink' = Append(sink, Error)
      /\ UNCHANGED << direction, next, worker, buffer, rest, errors, lost >>
  BY DEF ReadStream
<1>2. Typed /\ Worker /\ Sounds /\ Sorted /\ Unbroken
  BY DEF IInv
<1>3. Error \in Results /\ Error.elems = << >> /\ Error.err /\ Told(Error)
  BY NoSamples
<1> DEFINE d == Head(link)
<1>4. /\ link' \in Seq(Datagrams) /\ Len(link') = Len(link) - 1 /\ Len(link) \in Nat
      /\ \A i \in DOMAIN link' : /\ ~ link'[i].err => link'[i].elems # << >>
                                 /\ direction = "tx" => ~ link'[i].err
      /\ \A i \in DOMAIN link' : Sound(link'[i])
      /\ Rise(link') /\ BeforeAll(rest, link') /\ AllBelow(link', next)
      /\ AllBefore(link', buffer.elems)
  BY <1>1, <1>2, LinkTail
<1>5. sink \in Seq(Results) /\ link \in Seq(Datagrams) /\ next \in Int
  BY <1>2, TypedNumbers DEF Typed
<1>6. \A s : AllBefore(sink, s) => AllBefore(sink', s)
  <2>1. \A s : Before(<< >>, s)
    BY DEF Before
  <2> QED BY <1>1, <1>3, <1>5, <2>1, OrderAppend
<1>7. Typed'
  <2>1. sink' \in Seq(Results)
    BY <1>1, <1>3, <1>5, AppendIs
  <2>2. Len(link') <= LinkCap
    BY <1>2, <1>4, SampleAssumption DEF Typed
  <2> QED BY <1>1, <1>2, <1>4, <2>1, <2>2 DEF Typed
<1>8. Worker'
  <2>1. worker # "wait" => Len(link') < LinkCap
    BY <1>1, <1>2, <1>4, SampleAssumption DEF Worker
  <2> QED BY <1>1, <1>2, <1>4, <2>1 DEF Worker
<1>9. Sounds'
  <2>1. /\ \A i \in DOMAIN sink' : Told(sink'[i])
        /\ \A i \in DOMAIN sink' : ~ sink'[i].err => EndTold(sink', i, sink'[i].elems)
    BY <1>1, <1>2, <1>3, SinkSounds
  <2> QED BY <1>1, <1>2, <1>4, <2>1 DEF Sounds, Ok
<1>10. Sorted'
  <2>1. AllBefore(sink, << >>) /\ Below(<< >>, next)
    BY DEF AllBefore, Before, Below
  <2>2. Rise(sink') /\ AllBelow(sink', next)
    BY <1>1, <1>2, <1>3, <1>5, <2>1, SinkSorted
  <2>3. \A i \in DOMAIN link' : AllBefore(sink', link'[i].elems)
    BY <1>1, <1>2, <1>6, LinkTail
  <2>4. AllBefore(sink', rest) /\ AllBefore(sink', buffer.elems)
    BY <1>2, <1>6 DEF Sorted
  <2> QED BY <1>1, <1>2, <1>4, <2>2, <2>3, <2>4 DEF Sorted
<1>11. Unbroken'
  <2> SUFFICES ASSUME lost = 0 PROVE Unbroken'
    BY <1>1 DEF Unbroken
  <2>1. /\ Chain(sink, 1) /\ Chain(link, LinkFrom) /\ Meets(LinkTo, buffer.elems)
        /\ NextFrom # 0 => next = NextFrom
    BY <1>1, <1>2 DEF Unbroken
  <2>2. EndOf(d) = 0 /\ EndOf(Error) = 0 /\ Meets(SinkTo, << >>)
    BY <1>3 DEF EndOf, Meets
  <2>3. Chain(sink', 1) /\ SinkTo' = 0
    BY <1>1, <1>2, <1>3, <2>1, <2>2, SinkChain
  <2>4. Chain(link', 0) /\ Reach(link', 0) = LinkTo
    BY <1>1, <1>5, <2>1, <2>2, ChainTail DEF LinkTo
  <2>5. LinkFrom' = 0
    BY <1>1, <2>3 DEF LinkFrom
  <2>6. LinkTo' = LinkTo /\ NextFrom' = NextFrom
    BY <1>1, <2>4, <2>5 DEF LinkTo, NextFrom
  <2>7. Meets(SinkTo', rest)
    BY <1>1 DEF Meets
  <2> QED BY <1>1, <2>1, <2>3, <2>4, <2>5, <2>6, <2>7 DEF Unbroken
<1> QED BY <1>7, <1>8, <1>9, <1>10, <1>11 DEF IInv

LEMMA ReadDataStep ==
  ASSUME IInv, NEW n \in Sizes, ReadStream(n), ~ Head(link).err
  PROVE  IInv'
<1> DEFINE d == Head(link)
           s == d.elems
<1>1. /\ direction = "rx" /\ rest = << >> /\ link # << >> /\ link' = Tail(link)
      /\ Hand(s, n, d.flags, d.time, TRUE)
      /\ UNCHANGED << direction, next, worker, buffer, errors, lost >>
  BY DEF ReadStream
<1>2. Typed /\ Worker /\ Sounds /\ Sorted /\ Unbroken
  BY DEF IInv
<1>3. /\ link' \in Seq(Datagrams) /\ Len(link') = Len(link) - 1 /\ Len(link) \in Nat
      /\ \A i \in DOMAIN link' : /\ ~ link'[i].err => link'[i].elems # << >>
                                 /\ direction = "tx" => ~ link'[i].err
      /\ \A i \in DOMAIN link' : Sound(link'[i])
      /\ \A i \in DOMAIN link' : AllBefore(sink, link'[i].elems)
      /\ Rise(link') /\ AllBelow(link', next) /\ BeforeAll(s, link')
      /\ AllBefore(link', buffer.elems) /\ Before(s, buffer.elems)
      /\ AllBefore(sink, s) /\ Below(s, next)
      /\ d \in Datagrams /\ Sound(d) /\ s # << >>
  BY <1>1, <1>2, LinkTail
<1>4. /\ s \in Elems /\ Joined(s) /\ d.flags \in SUBSET FlagsOf /\ d.time \in 0 .. NumSamples
      /\ "HAS_TIME" \in d.flags => d.time = s[1]
      /\ "END_BURST" \in d.flags <=> Last(s) \in Ends
  BY <1>3, DatagramIs DEF Sound
<1> HIDE DEF d, s
<1>5. Hands(s, d.flags, TRUE)
  BY <1>1, <1>3, <1>4, Handed
<1>6. PICK k \in 1 .. Len(s), r \in Results :
        /\ sink' = Append(sink, r) /\ rest' = After(s, k)
        /\ r.elems = First(s, k) /\ ~ r.err /\ r.first /\ Told(r)
        /\ "END_BURST" \in d.flags => "END_BURST" \in r.flags
  BY <1>5 DEF Hands
<1> DEFINE p == First(s, k)
           a == After(s, k)
<1>7. /\ p \in Elems /\ p # << >> /\ Joined(p) /\ p[1] = s[1] /\ Last(p) = s[1] + k - 1
      /\ k < Len(s) => Last(p) \notin Ends
      /\ k = Len(s) => Last(p) = Last(s) /\ a = << >>
      /\ a \in Elems /\ Joined(a)
      /\ k < Len(s) => a # << >> /\ a[1] = s[1] + k /\ Last(a) = Last(s)
      /\ Last(s) = s[1] + Len(s) - 1
  BY <1>4, Parts
<1>8. /\ \A t \in Elems : /\ Before(t, s) => Before(t, p) /\ Before(t, a)
                          /\ Before(s, t) => Before(p, t) /\ Before(a, t)
      /\ Before(p, a) /\ Below(p, next) /\ Below(a, next)
      /\ next \in Int /\ Len(s) \in Int /\ k \in Int /\ k <= Len(s) /\ s[1] \in Int
  <2>1. next \in Int
    BY <1>2, TypedNumbers
  <2>2. \A t \in Elems : /\ Before(t, s) => Before(t, p) /\ Before(t, a)
                         /\ Before(s, t) => Before(p, t) /\ Before(a, t)
    BY <1>4, PartsBefore
  <2>3. Before(p, a)
    BY <1>4, PartsBefore
  <2>4. Below(p, next) /\ Below(a, next)
    BY <1>3, <1>4, <2>1, PartsBelow
  <2> QED BY <1>3, <1>4, <2>1, <2>2, <2>3, <2>4, ElemsIs
<1> HIDE DEF p, a
<1>9. /\ sink \in Seq(Results) /\ link \in Seq(Datagrams) /\ buffer.elems \in Elems
      /\ \A i \in DOMAIN link' : link'[i].elems \in Elems
      /\ \A i \in DOMAIN sink : sink[i].elems \in Elems
  BY <1>2, <1>3, DatagramIs, ResultIs DEF Typed
<1>10. r.elems = p /\ rest' = a
  BY <1>6 DEF p, a
<1>11. \A t : AllBefore(sink, t) /\ Before(p, t) => AllBefore(sink', t)
  BY <1>6, <1>9, <1>10, OrderAppend
<1>12. Typed'
  <2>1. sink' \in Seq(Results)
    BY <1>6, <1>9, AppendIs
  <2>2. Len(link') <= LinkCap
    BY <1>2, <1>3, SampleAssumption DEF Typed
  <2> QED BY <1>1, <1>2, <1>3, <1>7, <1>10, <2>1, <2>2 DEF Typed
<1>13. Worker'
  <2>1. worker # "wait" => Len(link') < LinkCap
    BY <1>1, <1>2, <1>3, SampleAssumption DEF Worker
  <2> QED BY <1>1, <1>2, <1>3, <2>1 DEF Worker
<1>14. Sounds'
  <2>1. \A t : (Last(t) \in Ends => Last(s) \in Ends) => EndTold(sink', Len(sink'), t)
    <3>1. Last(s) \in Ends => "END_BURST" \in r.flags
      BY <1>4, <1>6
    <3>2. \A t : /\ r.first
                 /\ Last(t) \in Ends => "END_BURST" \in r.flags
                 => EndTold(sink', Len(sink'), t)
      BY <1>6, <1>9, SinkAppend
    <3> QED BY <1>6, <3>1, <3>2, Zenon
  <2>2. EndTold(sink', Len(sink'), p)
    BY <1>7, <1>8, <2>1
  <2>3. a # << >> => EndTold(sink', Len(sink'), a)
    BY <1>7, <1>8, <2>1
  <2>4. /\ \A i \in DOMAIN sink' : Told(sink'[i])
        /\ \A i \in DOMAIN sink' : ~ sink'[i].err => EndTold(sink', i, sink'[i].elems)
    BY <1>2, <1>6, <1>10, <2>2, SinkSounds
  <2>5. Joined(rest') /\ (rest' # << >> => EndTold(sink', Len(sink'), rest'))
    BY <1>7, <1>10, <2>3
  <2> QED BY <1>1, <1>2, <1>3, <2>4, <2>5 DEF Sounds, Ok
<1>15. Sorted'
  <2>1. AllBefore(sink, p) /\ AllBefore(sink, a)
    BY <1>3, <1>8, <1>9 DEF AllBefore
  <2>2. Rise(sink') /\ AllBelow(sink', next)
    BY <1>2, <1>6, <1>8, <1>10, <2>1, SinkSorted
  <2>3. AllBefore(sink', a)
    BY <1>8, <1>11, <2>1
  <2>4. AllBefore(sink', buffer.elems) /\ Before(a, buffer.elems)
    BY <1>2, <1>3, <1>8, <1>9, <1>11 DEF Sorted
  <2>5. BeforeAll(p, link') /\ BeforeAll(a, link')
    BY <1>3, <1>8, <1>9 DEF BeforeAll
  <2>6. \A i \in DOMAIN link' : AllBefore(sink', link'[i].elems)
    BY <1>3, <1>11, <2>5 DEF BeforeAll
  <2>7. Below(buffer.elems, next)
    BY <1>2 DEF Sorted
  <2> QED BY <1>1, <1>3, <1>8, <1>10, <2>2, <2>3, <2>4, <2>5, <2>6, <2>7 DEF Sorted
<1>16. Unbroken'
  <2> SUFFICES ASSUME lost = 0 PROVE Unbroken'
    BY <1>1 DEF Unbroken
  <2>1. /\ Chain(sink, 1) /\ Chain(link, LinkFrom) /\ Meets(LinkTo, buffer.elems)
        /\ NextFrom # 0 => next = NextFrom
        /\ LinkFrom = SinkTo
    BY <1>1, <1>2 DEF Unbroken, LinkFrom
  <2>2. /\ Meets(SinkTo, s) /\ Chain(link', EndOf(d))
        /\ Reach(link', EndOf(d)) = LinkTo
    BY <1>1, <1>9, <2>1, ChainTail DEF LinkTo, d, s
  <2>3. Meets(SinkTo, p)
    BY <1>3, <1>7, <2>2 DEF Meets
  <2>4. Chain(sink', 1) /\ SinkTo' = EndOf(r)
    BY <1>2, <1>6, <1>10, <2>1, <2>3, SinkChain
  <2>5. EndOf(r) = s[1] + k /\ EndOf(d) = s[1] + Len(s)
    <3>1. EndOf(r) = Last(p) + 1 /\ EndOf(d) = Last(s) + 1
      BY <1>6, <1>10 DEF EndOf, d, s
    <3>2. Last(p) = s[1] + k - 1 /\ Last(s) = s[1] + Len(s) - 1
      BY <1>7
    <3> QED BY <1>8, <3>1, <3>2
  <2>6. Meets(SinkTo', a)
    BY <1>7, <1>8, <2>4, <2>5 DEF Meets
  <2>7. LinkFrom' = EndOf(d)
    BY <1>1, <1>7, <1>8, <1>10, <2>4, <2>5 DEF LinkFrom
  <2>8. LinkTo' = LinkTo /\ NextFrom' = NextFrom
    BY <1>1, <2>2, <2>7 DEF LinkTo, NextFrom
  <2> QED BY <1>1, <1>10, <2>1, <2>2, <2>4, <2>6, <2>7, <2>8 DEF Unbroken
<1> QED BY <1>12, <1>13, <1>14, <1>15, <1>16 DEF IInv

LEMMA ReadRemainderStep ==
  ASSUME IInv, NEW n \in Sizes, ReadRemainder(n)
  PROVE  IInv'
<1> DEFINE s == rest
<1>1. /\ s # << >> /\ Hand(s, n, {}, 0, FALSE)
      /\ UNCHANGED << direction, next, worker, buffer, link, errors, lost >>
  BY DEF ReadRemainder
<1>2. Typed /\ Worker /\ Sounds /\ Sorted /\ Unbroken
  BY DEF IInv
<1>3. /\ direction = "rx" /\ s \in Elems /\ Joined(s) /\ EndTold(sink, Len(sink), s)
      /\ BeforeAll(s, link) /\ Before(s, buffer.elems) /\ AllBefore(sink, s) /\ Below(s, next)
  BY <1>1, <1>2 DEF Typed, Sounds, Sorted
<1>4. {} \in SUBSET FlagsOf /\ 0 \in 0 .. NumSamples /\ FALSE \in BOOLEAN
  BY SampleAssumption
<1>5. Hands(s, {}, FALSE)
  BY <1>1, <1>3, <1>4, Handed
<1>6. PICK k \in 1 .. Len(s), r \in Results :
        /\ sink' = Append(sink, r) /\ rest' = After(s, k)
        /\ r.elems = First(s, k) /\ ~ r.err /\ ~ r.first /\ Told(r)
  BY <1>5 DEF Hands
<1> DEFINE p == First(s, k)
           a == After(s, k)
<1>7. /\ p \in Elems /\ p # << >> /\ Joined(p) /\ p[1] = s[1] /\ Last(p) = s[1] + k - 1
      /\ k < Len(s) => Last(p) \notin Ends
      /\ k = Len(s) => Last(p) = Last(s) /\ a = << >>
      /\ a \in Elems /\ Joined(a)
      /\ k < Len(s) => a # << >> /\ a[1] = s[1] + k /\ Last(a) = Last(s)
      /\ Last(s) = s[1] + Len(s) - 1
  BY <1>3, Parts
<1>8. /\ \A t \in Elems : /\ Before(t, s) => Before(t, p) /\ Before(t, a)
                          /\ Before(s, t) => Before(p, t) /\ Before(a, t)
      /\ Before(p, a) /\ Below(p, next) /\ Below(a, next)
      /\ next \in Int /\ Len(s) \in Int /\ k \in Int /\ k <= Len(s) /\ s[1] \in Int
  <2>1. next \in Int
    BY <1>2, TypedNumbers
  <2>2. \A t \in Elems : /\ Before(t, s) => Before(t, p) /\ Before(t, a)
                         /\ Before(s, t) => Before(p, t) /\ Before(a, t)
    BY <1>3, PartsBefore
  <2>3. Before(p, a)
    BY <1>3, PartsBefore
  <2>4. Below(p, next) /\ Below(a, next)
    BY <1>3, <2>1, PartsBelow
  <2> QED BY <1>1, <1>3, <2>1, <2>2, <2>3, <2>4, ElemsIs
<1>9. /\ sink \in Seq(Results) /\ buffer.elems \in Elems
      /\ \A i \in DOMAIN link : link[i].elems \in Elems
      /\ \A i \in DOMAIN sink : sink[i].elems \in Elems
  BY <1>2, DatagramIs, ResultIs DEF Typed
<1> HIDE DEF p, a
<1>10. r.elems = p /\ rest' = a
  BY <1>6 DEF p, a
<1>11. \A t : AllBefore(sink, t) /\ Before(p, t) => AllBefore(sink', t)
  BY <1>6, <1>9, <1>10, OrderAppend
<1>12. Typed'
  <2>1. sink' \in Seq(Results)
    BY <1>6, <1>9, AppendIs
  <2> QED BY <1>1, <1>2, <1>3, <1>7, <1>10, <2>1 DEF Typed
<1>13. Worker'
  BY <1>1, <1>2 DEF Worker
<1>14. Sounds'
  <2>1. \A t : (Last(t) \in Ends => Last(s) \in Ends) => EndTold(sink', Len(sink'), t)
    <3>1. \A t, u : /\ ~ r.first /\ EndTold(sink, Len(sink), u)
                    /\ Last(t) \in Ends => Last(u) \in Ends
                    => EndTold(sink', Len(sink'), t)
      BY <1>6, <1>9, SinkAppend
    <3> QED BY <1>3, <1>6, <3>1, Zenon
  <2>2. EndTold(sink', Len(sink'), p)
    BY <1>7, <1>8, <2>1
  <2>3. a # << >> => EndTold(sink', Len(sink'), a)
    BY <1>7, <1>8, <2>1
  <2>4. /\ \A i \in DOMAIN sink' : Told(sink'[i])
        /\ \A i \in DOMAIN sink' : ~ sink'[i].err => EndTold(sink', i, sink'[i].elems)
    BY <1>2, <1>6, <1>10, <2>2, SinkSounds
  <2>5. Joined(rest') /\ (rest' # << >> => EndTold(sink', Len(sink'), rest'))
    BY <1>7, <1>10, <2>3
  <2> QED BY <1>1, <1>2, <2>4, <2>5 DEF Sounds, Ok
<1>15. Sorted'
  <2>1. AllBefore(sink, p) /\ AllBefore(sink, a)
    BY <1>3, <1>8, <1>9 DEF AllBefore
  <2>2. Rise(sink') /\ AllBelow(sink', next)
    BY <1>2, <1>6, <1>8, <1>10, <2>1, SinkSorted
  <2>3. AllBefore(sink', a)
    BY <1>8, <1>11, <2>1
  <2>4. AllBefore(sink', buffer.elems) /\ Before(a, buffer.elems)
    BY <1>2, <1>3, <1>8, <1>9, <1>11 DEF Sorted
  <2>5. BeforeAll(p, link) /\ BeforeAll(a, link)
    BY <1>3, <1>8, <1>9 DEF BeforeAll
  <2>6. \A i \in DOMAIN link : AllBefore(sink', link[i].elems)
    BY <1>2, <1>11, <2>5 DEF BeforeAll, Sorted
  <2> QED BY <1>1, <1>2, <1>3, <1>8, <1>10, <2>2, <2>3, <2>4, <2>5, <2>6 DEF Sorted
<1>16. Unbroken'
  <2> SUFFICES ASSUME lost = 0 PROVE Unbroken'
    BY <1>1 DEF Unbroken
  <2>1. /\ Chain(sink, 1) /\ Meets(SinkTo, s) /\ LinkFrom = Last(s) + 1
    BY <1>1, <1>2, <1>3 DEF Unbroken, LinkFrom
  <2>2. Meets(SinkTo, p)
    BY <1>1, <1>7, <2>1 DEF Meets
  <2>3. Chain(sink', 1) /\ SinkTo' = EndOf(r)
    BY <1>2, <1>6, <1>10, <2>1, <2>2, SinkChain
  <2>4. EndOf(r) = s[1] + k /\ Last(s) + 1 = s[1] + Len(s)
    <3>1. EndOf(r) = Last(p) + 1
      BY <1>6, <1>10 DEF EndOf
    <3>2. Last(p) = s[1] + k - 1 /\ Last(s) = s[1] + Len(s) - 1
      BY <1>7
    <3> QED BY <1>8, <3>1, <3>2
  <2>5. Meets(SinkTo', a)
    BY <1>7, <1>8, <2>3, <2>4 DEF Meets
  <2>6. LinkFrom' = LinkFrom
    <3>1. CASE k = Len(s)
      BY <1>1, <1>3, <1>7, <1>10, <2>1, <2>3, <2>4, <3>1 DEF LinkFrom
    <3>2. CASE k < Len(s)
      BY <1>1, <1>3, <1>7, <1>10, <2>1, <3>2 DEF LinkFrom
    <3> QED BY <1>8, <3>1, <3>2
  <2>7. LinkTo' = LinkTo /\ NextFrom' = NextFrom
    BY <1>1, <2>6 DEF LinkTo, NextFrom
  <2> QED BY <1>1, <1>2, <1>3, <1>10, <2>3, <2>5, <2>6, <2>7 DEF Unbroken
<1> QED BY <1>12, <1>13, <1>14, <1>15, <1>16 DEF IInv

-----------------------------------------------------------------------------
(* writeStream(), and the worker of a stream that is transmitted.          *)

LEMMA WriteStreamStep ==
  ASSUME IInv, NEW n \in Sizes, WriteStream(n)
  PROVE  IInv'
<1> DEFINE k == Least(n, BuffSize)
           r == Run(k)
<1>1. /\ direction = "tx" /\ Len(link) < LinkCap /\ Available(n) /\ next' = next + k
      /\ UNCHANGED << direction, worker, buffer, rest, sink, errors, lost >>
  BY DEF WriteStream
<1>2. PICK timed \in {{}, {"HAS_TIME"}} :
        link' = Append(link, Datagram(r, SentFlags(timed \cup Trailing(Run(n)), k, n), next))
  BY DEF WriteStream
<1> DEFINE flags == SentFlags(timed \cup Trailing(Run(n)), k, n)
           d == Datagram(r, flags, next)
<1>3. Typed /\ Worker /\ Sounds /\ Sorted /\ Unbroken
  BY DEF IInv
<1>4. /\ next \in Nat /\ next \in 1 .. NumSamples + 1 /\ BuffSize \in Nat /\ k \in 1 .. BuffSize
      /\ n \in Nat /\ k <= n /\ k \in Nat /\ next + k - 1 <= NumSamples
      /\ next + n - 1 <= NumSamples
  <2>1. n \in 1 .. BuffSize + 1 /\ BuffSize \in Nat \ {0}
    BY SampleAssumption DEF Sizes
  <2>2. next + n - 1 <= NumSamples
    BY <1>1 DEF Available
  <2>3. k \in 1 .. BuffSize /\ k <= n
    BY <2>1 DEF Least
  <2> QED BY <1>3, <2>1, <2>2, <2>3, TypedNumbers
<1>5. /\ \A i \in 1 .. n - 1 : Run(n)[i] \notin Ends
      /\ \A i \in 1 .. n : Run(n)[i] = next + i - 1
  BY <1>1 DEF Available, Run
<1>6. Available(k)
  <2>1. \A i \in 1 .. k : Run(k)[i] = next + i - 1
    BY DEF Run
  <2>2. ASSUME NEW i \in 1 .. k - 1 PROVE Run(k)[i] \notin Ends
    <3>1. i \in 1 .. k /\ i \in 1 .. n /\ i \in 1 .. n - 1
      BY <1>4
    <3> QED BY <1>5, <2>1, <3>1
  <2> QED BY <1>4, <2>2 DEF Available
<1>7. /\ r \in Elems /\ r # << >> /\ r[1] = next /\ Last(r) = next + k - 1 /\ Joined(r)
      /\ next' \in 1 .. NumSamples + 1 /\ next \in 0 .. NumSamples
  <2>1. Joined(r)
    BY <1>4, <1>6, RunJoined
  <2>2. /\ r \in Elems /\ r # << >> /\ r[1] = next /\ Last(r) = next + k - 1
        /\ next + k \in 1 .. NumSamples + 1
    BY <1>4, RunIs
  <2>3. next \in 0 .. NumSamples
    BY <1>4, SampleAssumption
  <2> QED BY <1>1, <2>1, <2>2, <2>3
<1>8. flags \in SUBSET FlagsOf /\ ("END_BURST" \in flags <=> Last(r) \in Ends)
  <2>1. Trailing(Run(n)) \subseteq {"END_BURST"}
        /\ ("END_BURST" \in Trailing(Run(n)) <=> Last(Run(n)) \in Ends)
    BY TrailingIs
  <2>2. flags \in SUBSET FlagsOf
    BY <2>1 DEF SentFlags, FlagsOf
  <2>3. CASE k < n
    <3>1. k \in 1 .. n - 1 /\ k \in 1 .. n
      BY <1>4, <2>3
    <3>2. Last(r) = Run(n)[k] /\ Run(n)[k] \notin Ends
      BY <1>5, <1>7, <3>1
    <3>3. "END_BURST" \notin flags
      BY <2>3 DEF SentFlags
    <3> QED BY <2>2, <3>2, <3>3
  <2>4. CASE k = n
    <3>1. flags = timed \cup Trailing(r)
      BY <1>4, <2>4 DEF SentFlags
    <3> QED BY <2>2, <3>1, TrailingIs
  <2> QED BY <1>4, <2>3, <2>4
<1> HIDE DEF k, r, flags
<1>9. /\ d \in Datagrams /\ d.elems = r /\ ~ d.err /\ d.flags = flags /\ d.time = next
  BY <1>7, <1>8, DatagramMade
<1>10. link' = Append(link, d)
  BY <1>2 DEF flags, r, k
<1> HIDE DEF d
<1>11. Sound(d)
  BY <1>7, <1>8, <1>9 DEF Sound
<1>12. link \in Seq(Datagrams) /\ sink \in Seq(Results) /\ rest = << >> /\ buffer.elems \in Elems
  BY <1>1, <1>3, DatagramIs DEF Typed
<1>13. /\ link' \in Seq(Datagrams) /\ Len(link') = Len(link) + 1
       /\ DOMAIN link = 1 .. Len(link) /\ DOMAIN link' = 1 .. Len(link) + 1
       /\ \A j \in 1 .. Len(link) : link'[j] = link[j]
       /\ link'[Len(link) + 1] = d /\ Len(link) \in Nat
  BY <1>9, <1>10, <1>12, AppendIs
<1>14. ASSUME NEW j \in DOMAIN link'
       PROVE  (j \in DOMAIN link /\ link'[j] = link[j]) \/ link'[j] = d
  <2>1. j \in 1 .. Len(link) \/ j = Len(link) + 1
    BY <1>13
  <2> QED BY <1>13, <2>1
<1>15. Typed'
  <2>1. Len(link') <= LinkCap
    BY <1>1, <1>13, SampleAssumption
  <2> QED BY <1>1, <1>3, <1>7, <1>13, <2>1 DEF Typed
<1>16. Worker'
  <2>1. ASSUME NEW i \in DOMAIN link' PROVE ~ link'[i].err /\ link'[i].elems # << >>
    BY <1>1, <1>3, <1>7, <1>9, <1>14 DEF Worker
  <2>2. worker # "fill"
    BY <1>1, <1>3 DEF Typed
  <2> QED BY <1>1, <1>3, <2>1, <2>2 DEF Worker
<1>17. Sounds'
  <2>1. \A i \in DOMAIN link' : Sound(link'[i])
    BY <1>3, <1>11, <1>14 DEF Sounds
  <2> QED BY <1>1, <1>3, <2>1 DEF Sounds, Ok
<1>18. Sorted'
  <2>1. next \in Int /\ next' \in Int /\ next <= next'
    BY <1>1, <1>4
  <2>2. AllBefore(sink, r) /\ AllBefore(link, r) /\ Before(buffer.elems, r)
    BY <1>3, <1>7, BelowBefore DEF Sorted
  <2>3. AllBelow(sink, next') /\ AllBelow(link, next') /\ Below(buffer.elems, next')
    BY <1>3, <1>12, <2>1, BelowMore DEF Sorted
  <2>4. Below(r, next')
    BY <1>1, <1>4, <1>7 DEF Below
  <2>5. Before(<< >>, d.elems) /\ Below(<< >>, next')
    BY DEF Before, Below
  <2>6. /\ Rise(link') /\ AllBelow(link', next') /\ BeforeAll(buffer.elems, link')
        /\ BeforeAll(<< >>, link')
    BY <1>1, <1>3, <1>9, <1>10, <1>12, <2>2, <2>3, <2>4, <2>5, OrderAppend DEF Sorted
  <2>7. \A j \in DOMAIN link' : AllBefore(sink, link'[j].elems)
    BY <1>3, <1>9, <1>14, <2>2 DEF Sorted
  <2> QED BY <1>1, <1>3, <1>12, <2>3, <2>5, <2>6, <2>7 DEF Sorted
<1>19. Unbroken'
  <2> SUFFICES ASSUME lost = 0 PROVE Unbroken'
    BY <1>1 DEF Unbroken
  <2>1. SinkTo' = SinkTo /\ LinkFrom' = LinkFrom /\ NextFrom' = LinkTo' /\ NextFrom = LinkTo
    BY <1>1 DEF SinkTo, LinkFrom, LinkTo, NextFrom
  <2>2. Chain(link, LinkFrom) /\ Meets(LinkTo, r)
    BY <1>3, <1>7, <2>1 DEF Unbroken, Meets
  <2>3. Chain(link', LinkFrom) /\ Reach(link', LinkFrom) = EndOf(d)
    BY <1>9, <1>10, <1>12, <2>2, ChainAppend DEF LinkTo
  <2>4. LinkTo' = EndOf(d)
    BY <2>1, <2>3 DEF LinkTo
  <2>5. EndOf(d) = next'
    BY <1>1, <1>4, <1>7, <1>9 DEF EndOf
  <2> QED BY <1>1, <1>3, <2>1, <2>3, <2>4, <2>5 DEF Unbroken
<1> QED BY <1>15, <1>16, <1>17, <1>18, <1>19 DEF IInv

LEMMA RecvBufferStep ==
  ASSUME IInv, RecvBuffer
  PROVE  IInv'
<1> DEFINE d == Head(link)
<1>1. /\ direction = "tx" /\ worker = "wait" /\ link # << >>
      /\ worker' = "write" /\ buffer' = d /\ link' = Tail(link)
      /\ UNCHANGED << direction, next, rest, sink, errors, lost >>
  BY DEF RecvBuffer
<1>2. Typed /\ Worker /\ Sounds /\ Sorted /\ Unbroken
  BY DEF IInv
<1>3. /\ link' \in Seq(Datagrams) /\ Len(link') = Len(link) - 1 /\ Len(link) \in Nat
      /\ d \in Datagrams /\ Sound(d) /\ d.elems # << >> /\ ~ d.err
      /\ \A i \in DOMAIN link' : ~ link'[i].err /\ link'[i].elems # << >>
      /\ \A i \in DOMAIN link' : Sound(link'[i])
      /\ \A i \in DOMAIN link' : AllBefore(sink, link'[i].elems)
      /\ Rise(link') /\ BeforeAll(rest, link') /\ AllBelow(link', next)
      /\ BeforeAll(d.elems, link')
      /\ AllBefore(sink, d.elems) /\ Below(d.elems, next)
  BY <1>1, <1>2, LinkTail
<1>4. link \in Seq(Datagrams) /\ rest = << >>
  BY <1>1, <1>2 DEF Typed
<1>5. Typed'
  <2>1. Len(link') <= LinkCap
    BY <1>2, <1>3, SampleAssumption DEF Typed
  <2> QED BY <1>1, <1>2, <1>3, <2>1 DEF Typed
<1>6. Worker'
  BY <1>1, <1>3 DEF Worker
<1>7. Sounds'
  BY <1>1, <1>2, <1>3 DEF Sounds, Ok
<1>8. Sorted'
  <2>1. Before(<< >>, d.elems)
    BY DEF Before
  <2> QED BY <1>1, <1>2, <1>3, <1>4, <2>1 DEF Sorted
<1>9. Unbroken'
  <2> SUFFICES ASSUME lost = 0 PROVE Unbroken'
    BY <1>1 DEF Unbroken
  <2>1. /\ SinkTo' = SinkTo /\ LinkFrom = SinkTo /\ LinkFrom' = EndOf(d)
        /\ NextFrom = LinkTo /\ NextFrom' = LinkTo'
    BY <1>1 DEF SinkTo, LinkFrom, NextFrom
  <2>2. Chain(link, SinkTo)
    BY <1>2, <2>1 DEF Unbroken
  <2>3. /\ Meets(SinkTo, d.elems) /\ Chain(link', EndOf(d))
        /\ Reach(link', EndOf(d)) = Reach(link, SinkTo)
    BY <1>1, <1>4, <2>2, ChainTail
  <2>4. LinkTo' = LinkTo
    BY <2>1, <2>3 DEF LinkTo
  <2> QED BY <1>1, <1>2, <2>1, <2>3, <2>4 DEF Unbroken
<1> QED BY <1>5, <1>6, <1>7, <1>8, <1>9 DEF IInv

LEMMA DeviceWriteStep ==
  ASSUME IInv, NEW k \in Sizes, DeviceWrite(k)
  PROVE  IInv'
<1> DEFINE s == buffer.elems
           p == First(s, k)
           a == After(s, k)
           r == Result(p, buffer.flags, buffer.time, s, TRUE)
           left == [buffer EXCEPT !.elems = a, !.flags = @ \ {"HAS_TIME"}]
<1>1. /\ worker = "write" /\ k <= Len(s) /\ sink' = Append(sink, r)
      /\ IF k = Len(s) THEN worker' = "wait" /\ buffer' = Empty
         ELSE worker' = "write" /\ buffer' = left
      /\ UNCHANGED << direction, next, link, rest, errors, lost >>
  BY DEF DeviceWrite, Write
<1>2. Typed /\ Worker /\ Sounds /\ Sorted /\ Unbroken
  BY DEF IInv
<1>3. /\ direction = "tx" /\ buffer \in Datagrams /\ ~ buffer.err /\ s # << >> /\ rest = << >>
      /\ Sound(buffer) /\ BeforeAll(s, link) /\ AllBefore(sink, s) /\ Below(s, next)
  BY <1>1, <1>2 DEF Typed, Worker, Sounds, Sorted
<1>4. /\ s \in Elems /\ Joined(s) /\ buffer.flags \in SUBSET FlagsOf
      /\ buffer.time \in 0 .. NumSamples
      /\ "HAS_TIME" \in buffer.flags => buffer.time = s[1]
      /\ "END_BURST" \in buffer.flags <=> Last(s) \in Ends
  BY <1>3, DatagramIs DEF Sound
<1>5. k \in 1 .. Len(s) /\ Len(s) \in Int /\ k \in Int /\ s[1] \in Int
  BY <1>1, <1>3, <1>4, ElemsIs, SampleAssumption DEF Sizes
<1>6. /\ p \in Elems /\ p # << >> /\ Joined(p) /\ p[1] = s[1] /\ Last(p) = s[1] + k - 1
      /\ k < Len(s) => Last(p) \notin Ends
      /\ k = Len(s) => Last(p) = Last(s)
      /\ a \in Elems /\ Joined(a)
      /\ k < Len(s) => a # << >> /\ a[1] = s[1] + k /\ Last(a) = Last(s)
      /\ Last(s) = s[1] + Len(s) - 1
  BY <1>4, <1>5, Parts
<1>7. /\ \A t \in Elems : /\ Before(t, s) => Before(t, p) /\ Before(t, a)
                          /\ Before(s, t) => Before(p, t) /\ Before(a, t)
      /\ Before(p, a) /\ Below(p, next) /\ Below(a, next) /\ next \in Int
  <2>1. next \in Int
    BY <1>2, TypedNumbers
  <2>2. \A t \in Elems : /\ Before(t, s) => Before(t, p) /\ Before(t, a)
                         /\ Before(s, t) => Before(p, t) /\ Before(a, t)
    BY <1>4, <1>5, PartsBefore
  <2>3. Before(p, a)
    BY <1>4, <1>5, PartsBefore
  <2>4. Below(p, next) /\ Below(a, next)
    BY <1>3, <1>4, <1>5, <2>1, PartsBelow
  <2> QED BY <2>1, <2>2, <2>3, <2>4
<1>8. /\ sink \in Seq(Results)
      /\ \A i \in DOMAIN link : link[i].elems \in Elems
      /\ \A i \in DOMAIN sink : sink[i].elems \in Elems
  BY <1>2, DatagramIs, ResultIs DEF Typed
<1> HIDE DEF p, a, s
<1>9. /\ r \in Results /\ r.elems = p /\ ~ r.err /\ r.flags = buffer.flags
      /\ r.time = buffer.time /\ r.of = s /\ r.first
  BY <1>4, <1>6 DEF Result, Results
<1> HIDE DEF r
<1>10. /\ buffer' \in Datagrams /\ ~ buffer'.err /\ Sound(buffer')
       /\ k = Len(s) => worker' = "wait" /\ buffer' = Empty /\ buffer'.elems = << >>
       /\ k < Len(s) => worker' = "write" /\ buffer'.elems = a
  <2>1. CASE k = Len(s)
    BY <1>1, <2>1, NoSamples
  <2>2. CASE k < Len(s)
    <3>1. buffer' = left /\ worker' = "write"
      BY <1>1, <1>5, <2>2
    <3>2. /\ left \in Datagrams /\ left.elems = a /\ ~ left.err
          /\ left.flags = buffer.flags \ {"HAS_TIME"}
      BY <1>3, <1>4, <1>6 DEF Datagrams
    <3>3. Sound(left)
      BY <1>4, <1>6, <2>2, <3>2 DEF Sound
    <3> QED BY <1>5, <2>2, <3>1, <3>2, <3>3
  <2> QED BY <1>5, <2>1, <2>2
<1>11. \A t : AllBefore(sink, t) /\ Before(p, t) => AllBefore(sink', t)
  BY <1>1, <1>8, <1>9, OrderAppend
<1>12. Typed'
  <2>1. sink' \in Seq(Results)
    BY <1>1, <1>8, <1>9, AppendIs
  <2>2. worker' \in {"wait", "write"}
    BY <1>1
  <2> QED BY <1>1, <1>2, <1>3, <1>10, <2>1, <2>2 DEF Typed
<1>13. Worker'
  <2>1. worker' # "wait" => buffer'.elems # << >>
    BY <1>5, <1>6, <1>10
  <2>2. worker' # "fill" /\ (worker' = "wait" => buffer' = Empty)
    BY <1>1
  <2> QED BY <1>1, <1>2, <1>3, <1>10, <2>1, <2>2 DEF Worker
<1>14. Sounds'
  <2>1. Last(p) \in Ends => "END_BURST" \in r.flags
    BY <1>4, <1>5, <1>6, <1>9
  <2>2. EndTold(sink', Len(sink'), p)
    <3>1. sink \in Seq(Results) /\ r \in Results /\ sink' = Append(sink, r)
      BY <1>1, <1>8, <1>9
    <3>2. \A t : /\ r.first
                 /\ Last(t) \in Ends => "END_BURST" \in r.flags
                 => EndTold(sink', Len(sink'), t)
      BY <3>1, SinkAppend
    <3> QED BY <1>9, <2>1, <3>2, Zenon
  <2>3. Told(r)
    BY <1>4, <1>6, <1>9 DEF Told
  <2>4. /\ \A i \in DOMAIN sink' : Told(sink'[i])
        /\ \A i \in DOMAIN sink' : ~ sink'[i].err => EndTold(sink', i, sink'[i].elems)
    BY <1>1, <1>2, <1>9, <2>2, <2>3, SinkSounds
  <2> QED BY <1>1, <1>2, <1>3, <1>10, <2>4 DEF Sounds, Ok
<1>15. Sorted'
  <2>1. AllBefore(sink, p) /\ AllBefore(sink, a)
    BY <1>3, <1>7, <1>8 DEF AllBefore
  <2>2. Rise(sink') /\ AllBelow(sink', next)
    BY <1>1, <1>2, <1>7, <1>9, <2>1, SinkSorted
  <2>3. BeforeAll(p, link) /\ BeforeAll(a, link)
    BY <1>3, <1>7, <1>8 DEF BeforeAll
  <2>4. \A i \in DOMAIN link : AllBefore(sink', link[i].elems)
    BY <1>2, <1>11, <2>3 DEF BeforeAll, Sorted
  <2>5. /\ AllBefore(sink', << >>) /\ BeforeAll(<< >>, link) /\ Below(<< >>, next)
        /\ \A t : Before(<< >>, t)
    BY DEF AllBefore, BeforeAll, Before, Below
  <2>6. AllBefore(sink', a)
    BY <1>7, <1>11, <2>1
  <2>7. /\ AllBefore(sink', buffer'.elems) /\ BeforeAll(buffer'.elems, link)
        /\ Below(buffer'.elems, next)
    BY <1>5, <1>7, <1>10, <2>3, <2>5, <2>6
  <2> QED BY <1>1, <1>2, <1>3, <2>2, <2>4, <2>5, <2>7 DEF Sorted
<1>16. Unbroken'
  <2> SUFFICES ASSUME lost = 0 PROVE Unbroken'
    BY <1>1 DEF Unbroken
  <2>1. /\ Chain(sink, 1) /\ Meets(SinkTo, s) /\ LinkFrom = EndOf(buffer)
        /\ NextFrom = LinkTo /\ NextFrom' = LinkTo'
    BY <1>1, <1>2, <1>3 DEF Unbroken, LinkFrom, NextFrom, s
  <2>2. Meets(SinkTo, p)
    BY <1>3, <1>6, <2>1 DEF Meets, s
  <2>3. Chain(sink', 1) /\ SinkTo' = EndOf(r)
    BY <1>1, <1>2, <1>9, <2>1, <2>2, SinkChain
  <2>4. EndOf(r) = s[1] + k /\ EndOf(buffer) = s[1] + Len(s)
    <3>1. EndOf(r) = Last(p) + 1 /\ EndOf(buffer) = Last(s) + 1
      BY <1>3, <1>9 DEF EndOf, s
    <3>2. Last(p) = s[1] + k - 1 /\ Last(s) = s[1] + Len(s) - 1
      BY <1>6
    <3> QED BY <1>5, <3>1, <3>2
  <2>5. Meets(SinkTo', buffer'.elems)
    BY <1>5, <1>6, <1>10, <2>3, <2>4 DEF Meets
  <2>6. LinkFrom' = LinkFrom
    <3>1. CASE k = Len(s)
      BY <1>1, <1>3, <1>10, <2>1, <2>3, <2>4, <3>1 DEF LinkFrom
    <3>2. CASE k < Len(s)
      <4>1. EndOf(buffer') = Last(a) + 1 /\ EndOf(buffer) = Last(s) + 1
        BY <1>3, <1>10, <3>2 DEF EndOf, s
      <4> QED BY <1>1, <1>3, <1>6, <1>10, <2>1, <3>2, <4>1 DEF LinkFrom
    <3> QED BY <1>5, <3>1, <3>2
  <2>7. LinkTo' = LinkTo /\ NextFrom' = NextFrom
    BY <1>1, <2>1, <2>6 DEF LinkTo
  <2>8. Meets(SinkTo', rest)
    BY <1>3 DEF Meets
  <2> QED BY <1>1, <1>2, <1>3, <2>3, <2>5, <2>6, <2>7, <2>8 DEF Unbroken
<1> QED BY <1>12, <1>13, <1>14, <1>15, <1>16 DEF IInv

LEMMA DeviceWriteFailsStep ==
  ASSUME IInv, DeviceWriteFails
  PROVE  IInv'
<1>1. /\ worker = "write" /\ errors < MaxErrors
      /\ sink' = Append(sink, Error) /\ errors' = errors + 1
      /\ worker' = "wait" /\ buffer' = Empty
      /\ UNCHANGED << direction, next, link, rest, lost >>
  BY DEF DeviceWriteFails
<1>2. Typed /\ Worker /\ Sounds /\ Sorted /\ Unbroken
  BY DEF IInv
<1>3. /\ Error \in Results /\ Error.elems = << >> /\ Error.err /\ Told(Error)
      /\ Empty \in Datagrams /\ Empty.elems = << >> /\ ~ Empty.err /\ Sound(Empty)
  BY NoSamples
<1>4. /\ sink \in Seq(Results) /\ next \in Int /\ direction = "tx" /\ rest = << >>
  BY <1>1, <1>2, TypedNumbers DEF Typed
<1>5. \A s : AllBefore(sink, s) => AllBefore(sink', s)
  <2>1. \A s : Before(<< >>, s)
    BY DEF Before
  <2> QED BY <1>1, <1>3, <1>4, <2>1, OrderAppend
<1>6. Typed'
  <2>1. sink' \in Seq(Results)
    BY <1>1, <1>3, <1>4, AppendIs
  <2>2. errors' \in 0 .. MaxErrors
    BY <1>1, <1>2, SampleAssumption DEF Typed
  <2> QED BY <1>1, <1>2, <1>3, <1>4, <2>1, <2>2 DEF Typed
<1>7. Worker'
  BY <1>1, <1>2, <1>3, <1>4 DEF Worker
<1>8. Sounds'
  <2>1. /\ \A i \in DOMAIN sink' : Told(sink'[i])
        /\ \A i \in DOMAIN sink' : ~ sink'[i].err => EndTold(sink', i, sink'[i].elems)
    BY <1>1, <1>2, <1>3, SinkSounds
  <2> QED BY <1>1, <1>2, <1>3, <1>4, <2>1 DEF Sounds, Ok
<1>9. Sorted'
  <2>1. /\ AllBefore(sink, << >>) /\ AllBefore(sink', << >>) /\ Below(<< >>, next)
        /\ BeforeAll(<< >>, link) /\ Before(<< >>, << >>)
    BY DEF AllBefore, BeforeAll, Before, Below
  <2>2. Rise(sink') /\ AllBelow(sink', next)
    BY <1>1, <1>2, <1>3, <1>4, <2>1, SinkSorted
  <2>3. \A i \in DOMAIN link : AllBefore(sink', link[i].elems)
    BY <1>2, <1>5 DEF Sorted
  <2> QED BY <1>1, <1>2, <1>3, <1>4, <2>1, <2>2, <2>3 DEF Sorted
<1>10. Unbroken'
  <2> SUFFICES ASSUME lost = 0 PROVE Unbroken'
    BY <1>1 DEF Unbroken
  <2>1. /\ Chain(sink, 1) /\ Chain(link, LinkFrom) /\ NextFrom = LinkTo /\ NextFrom' = LinkTo'
        /\ NextFrom # 0 => next = NextFrom
    BY <1>1, <1>2, <1>4 DEF Unbroken, NextFrom
  <2>2. EndOf(Error) = 0 /\ Meets(SinkTo, << >>)
    BY <1>3 DEF EndOf, Meets
  <2>3. Chain(sink', 1) /\ SinkTo' = 0
    BY <1>1, <1>2, <1>3, <2>1, <2>2, SinkChain
  <2>4. LinkFrom' = 0
    BY <1>1, <1>4, <2>3 DEF LinkFrom
  <2>5. Chain(link, 0)
    BY <2>1, ChainAny
  <2>6. LinkTo' = 0 \/ LinkTo' = LinkTo
    BY <1>1, <2>4 DEF LinkTo, Reach
  <2>7. Meets(SinkTo', << >>)
    BY DEF Meets
  <2> QED BY <1>1, <1>2, <1>3, <1>4, <2>1, <2>3, <2>4, <2>5, <2>6, <2>7 DEF Unbroken
<1> QED BY <1>6, <1>7, <1>8, <1>9, <1>10 DEF IInv

-----------------------------------------------------------------------------
(* The link loses a datagram.                                              *)

LEMMA LoseStep ==
  ASSUME IInv, NEW k \in DOMAIN link, Lose(k)
  PROVE  IInv'
<1>1. /\ lost < MaxLost /\ lost' = lost + 1 /\ link' = RemoveAt(link, k)
      /\ UNCHANGED << direction, next, worker, buffer, rest, sink, errors >>
  BY DEF Lose
<1>2. Typed /\ Worker /\ Sounds /\ Sorted
  BY DEF IInv
<1>3. link \in Seq(Datagrams) /\ Len(link) \in Nat
  BY <1>2, TypedNumbers DEF Typed
<1>4. link' \in Seq(Datagrams) /\ Len(link') = Len(link) - 1
  BY <1>1, <1>3, RemoveAtIs
<1>5. Thins(link', link)
  BY <1>1, <1>3, ThinsRemove
<1>6. \A i \in DOMAIN link' : \E j \in DOMAIN link : link'[i] = link[j]
  BY <1>5, OrderThins
<1>7. Typed'
  <2>1. lost' \in 0 .. MaxLost /\ Len(link') <= LinkCap
    BY <1>1, <1>2, <1>3, <1>4, SampleAssumption DEF Typed
  <2> QED BY <1>1, <1>2, <1>4, <2>1 DEF Typed
<1>8. Worker'
  <2>1. \A i \in DOMAIN link' : /\ ~ link'[i].err => link'[i].elems # << >>
                                /\ direction = "tx" => ~ link'[i].err
    BY <1>2, <1>6 DEF Worker
  <2>2. worker # "wait" /\ direction = "rx" => Len(link') < LinkCap
    BY <1>2, <1>3, <1>4, SampleAssumption DEF Worker
  <2> QED BY <1>1, <1>2, <2>1, <2>2 DEF Worker
<1>9. Sounds'
  <2>1. \A i \in DOMAIN link' : Sound(link'[i])
    BY <1>2, <1>6 DEF Sounds
  <2> QED BY <1>1, <1>2, <2>1 DEF Sounds, Ok
<1>10. Sorted'
  <2>1. /\ Rise(link') /\ BeforeAll(rest, link') /\ AllBelow(link', next)
        /\ IF direction = "rx" THEN AllBefore(link', buffer.elems)
           ELSE BeforeAll(buffer.elems, link')
    BY <1>2, <1>5, OrderThins DEF Sorted
  <2>2. \A j \in DOMAIN link' : AllBefore(sink, link'[j].elems)
    BY <1>2, <1>6 DEF Sorted
  <2> QED BY <1>1, <1>2, <2>1, <2>2 DEF Sorted
<1>11. Unbroken'
  <2>1. lost' # 0
    BY <1>1, <1>2 DEF Typed
  <2> QED BY <2>1 DEF Unbroken
<1> QED BY <1>7, <1>8, <1>9, <1>10, <1>11 DEF IInv

-----------------------------------------------------------------------------
(* The invariant, and the theorems.                                        *)

LEMMA InitIInv == Init => IInv
<1> SUFFICES ASSUME Init PROVE IInv
  OBVIOUS
<1>1. /\ direction \in {"rx", "tx"} /\ next = 1
      /\ worker = "wait" /\ buffer = Empty /\ link = << >> /\ rest = << >> /\ sink = << >>
      /\ errors = 0 /\ lost = 0
  BY DEF Init
<1>2. /\ Empty \in Datagrams /\ Empty.elems = << >> /\ ~ Empty.err /\ Sound(Empty)
      /\ << >> \in Elems /\ Joined(<< >>)
  BY NoSamples, EmptyIs
<1>3. Typed
  BY <1>1, <1>2, SampleAssumption DEF Typed
<1>4. Worker
  BY <1>1, <1>2 DEF Worker
<1>5. Sounds
  BY <1>1, <1>2 DEF Sounds
<1>6. Sorted
  BY <1>1, <1>2 DEF Sorted, Rise, AllBefore, BeforeAll, AllBelow, Before, Below
<1>7. Unbroken
  BY <1>1, <1>2 DEF Unbroken, Chain, Meets, SinkTo, LinkFrom, LinkTo, NextFrom, Reach
<1> QED BY <1>3, <1>4, <1>5, <1>6, <1>7 DEF IInv

LEMMA NextIInv == IInv /\ [Next]_vars => IInv'
<1> SUFFICES ASSUME IInv, [Next]_vars PROVE IInv'
  OBVIOUS
<1>1. ASSUME NEW n \in Sizes, FirstRead(n) PROVE IInv'
  BY <1>1, FirstReadStep
<1>2. ASSUME NEW n \in Sizes, SecondRead(n) PROVE IInv'
  BY <1>2, SecondReadStep
<1>3. CASE FirstReadFails
  BY <1>3, FailsStep DEF FirstReadFails
<1>4. CASE SecondReadFails
  <2>1. direction = "rx" /\ worker # "wait"
    BY <1>4 DEF SecondReadFails, IInv, Typed
  <2> QED BY <1>4, <2>1, FailsStep DEF SecondReadFails
<1>5. CASE SecondReadEmpty
  BY <1>5, SecondReadEmptyStep
<1>6. CASE SendBuffer
  BY <1>6, SendBufferStep
<1>7. CASE RecvBuffer
  BY <1>7, RecvBufferStep
<1>8. ASSUME NEW k \in Sizes, DeviceWrite(k) PROVE IInv'
  BY <1>8, DeviceWriteStep
<1>9. CASE DeviceWriteFails
  BY <1>9, DeviceWriteFailsStep
<1>10. ASSUME NEW n \in Sizes, ReadStream(n) PROVE IInv'
  BY <1>10, ReadErrorStep, ReadDataStep
<1>11. ASSUME NEW n \in Sizes, ReadRemainder(n) PROVE IInv'
  BY <1>11, ReadRemainderStep
<1>12. ASSUME NEW n \in Sizes, WriteStream(n) PROVE IInv'
  BY <1>12, WriteStreamStep
<1>13. ASSUME NEW i \in DOMAIN link, Lose(i) PROVE IInv'
  BY <1>13, LoseStep
<1>14. CASE UNCHANGED vars
  <2>1. UNCHANGED << direction, next, worker, buffer, link, rest, sink, errors, lost >>
    BY <1>14 DEF vars
  <2>2. Typed' /\ Worker' /\ Sounds' /\ Sorted'
    BY <2>1 DEF IInv, Typed, Worker, Sounds, Sorted, Ok
  <2>3. Unbroken'
    BY <2>1 DEF IInv, Unbroken, SinkTo, LinkFrom, LinkTo, NextFrom
  <2> QED BY <2>2, <2>3 DEF IInv
<1>15. CASE Next
  BY <1>1, <1>2, <1>3, <1>4, <1>5, <1>6, <1>7, <1>8, <1>9, <1>10, <1>11, <1>12, <1>13, <1>15
  DEF Next, ServerRx, ServerTx, Client
<1> QED BY <1>14, <1>15

LEMMA SpecIInv == Spec => []IInv
BY InitIInv, NextIInv, PTL DEF Spec

LEMMA OrderFromIInv == IInv => InOrder
<1> SUFFICES ASSUME IInv, NEW i \in DOMAIN sink, NEW j \in DOMAIN sink, i < j, Ok(i), Ok(j)
             PROVE  Last(sink[i].elems) < sink[j].elems[1]
  BY DEF InOrder
<1>1. sink[i].elems # << >> /\ sink[j].elems # << >>
  BY DEF IInv, Sounds, Told, Ok
<1>2. Before(sink[i].elems, sink[j].elems)
  BY DEF IInv, Sorted, Rise
<1> QED BY <1>1, <1>2 DEF Before

LEMMA GapsFromIInv == IInv => GapsAnnounced
<1> SUFFICES ASSUME IInv, lost = 0, NEW i \in DOMAIN sink, Ok(i)
             PROVE  /\ \A k \in 1 .. Len(sink[i].elems) - 1 :
                         sink[i].elems[k + 1] = sink[i].elems[k] + 1
                    /\ i = 1 => sink[i].elems[1] = 1
                    /\ i > 1 /\ sink[i - 1].err = FALSE
                         => sink[i].elems[1] = Last(sink[i - 1].elems) + 1
  BY DEF GapsAnnounced
<1> DEFINE s == sink[i].elems
<1>1. /\ sink \in Seq(Results) /\ DOMAIN sink = 1 .. Len(sink) /\ Len(sink) \in Nat
      /\ i \in 1 .. Len(sink)
  BY TypedNumbers DEF IInv, Typed
<1>2. s \in Elems /\ s # << >> /\ Joined(s)
  BY <1>1, ResultIs DEF IInv, Sounds, Told, Ok
<1>3. Meets(IF i = 1 THEN 1 ELSE EndOf(sink[i - 1]), s)
  BY DEF IInv, Unbroken, Chain
<1>4. ASSUME NEW k \in 1 .. Len(s) - 1 PROVE s[k + 1] = s[k] + 1
  <2>1. Len(s) \in Nat /\ k \in 1 .. Len(s) /\ k + 1 \in 1 .. Len(s) /\ s[1] \in Int
    BY <1>2, ElemsIs
  <2>2. s[k] = s[1] + k - 1 /\ s[k + 1] = s[1] + (k + 1) - 1
    BY <1>2, <2>1 DEF Joined
  <2> QED BY <2>1, <2>2
<1>5. i = 1 => s[1] = 1
  BY <1>2, <1>3 DEF Meets
<1>6. ASSUME i > 1, sink[i - 1].err = FALSE
      PROVE  s[1] = Last(sink[i - 1].elems) + 1
  <2>1. i - 1 \in DOMAIN sink /\ i # 1
    BY <1>1, <1>6
  <2>2. sink[i - 1].elems \in Elems /\ sink[i - 1].elems # << >>
    BY <1>1, <1>6, <2>1, ResultIs DEF IInv, Sounds, Told
  <2>3. EndOf(sink[i - 1]) = Last(sink[i - 1].elems) + 1 /\ EndOf(sink[i - 1]) # 0
    BY <1>6, <2>2, ElemsIs DEF EndOf
  <2> QED BY <1>2, <1>3, <2>1, <2>3 DEF Meets
<1> QED BY <1>4, <1>5, <1>6

(* Whatever the bursts, the sizes and the calls, and whatever fails or is lost: no buffer is *)
(* written beyond its size, samples come in order and none twice, and unless the link lost a *)
(* datagram, samples are missing only where an error was returned.                           *)
THEOREM SpecSampleInv == Spec => []SampleInv
<1>1. IInv => SampleInv
  BY TypedOK, OrderFromIInv, GapsFromIInv DEF IInv, SampleInv
<1> QED BY <1>1, SpecIInv, PTL

(* The call that returned the first samples of a datagram told the end of the burst. *)
LEMMA FirstTold ==
  ASSUME sink \in Seq(Results), NEW i \in DOMAIN sink, NEW s, EndTold(sink, i, s), Last(s) \in Ends
  PROVE  "END_BURST" \in sink[FirstOf(i)].flags
<1> DEFINE P(j) == sink[j].first /\ \A k \in j + 1 .. i : ~ sink[k].first
<1>1. PICK j \in 1 .. i : P(j) /\ "END_BURST" \in sink[j].flags
  BY DEF EndTold
<1>2. FirstOf(i) = CHOOSE m \in 1 .. i : P(m)
  BY DEF FirstOf
<1>3. ASSUME NEW m \in 1 .. i, P(m) PROVE m = j
  <2>1. i \in Int /\ m \in Int /\ j \in Int
    OBVIOUS
  <2>2. CASE m < j
    <3>1. j \in m + 1 .. i
      BY <2>1, <2>2
    <3> QED BY <1>1, <1>3, <3>1
  <2>3. CASE j < m
    <3>1. m \in j + 1 .. i
      BY <2>1, <2>3
    <3> QED BY <1>1, <1>3, <3>1
  <2> QED BY <2>1, <2>2, <2>3
<1> HIDE DEF P
<1>4. (CHOOSE m \in 1 .. i : P(m)) = j
  BY <1>1, <1>3
<1> QED BY <1>1, <1>2, <1>4

LEMMA FlagsFromIInv == IInv => FlagsRight
<1> SUFFICES ASSUME IInv PROVE FlagsRight
  OBVIOUS
<1>1. sink \in Seq(Results) /\ DOMAIN sink = 1 .. Len(sink) /\ Len(sink) \in Nat
  BY TypedNumbers DEF IInv, Typed
<1>2. ASSUME NEW i \in DOMAIN sink
      PROVE  Told(sink[i]) /\ sink[i].elems \in Elems
             /\ (Ok(i) => EndTold(sink, i, sink[i].elems))
  BY <1>1, ResultIs DEF IInv, Sounds
<1>3. TimeRight
  BY <1>2 DEF TimeRight, Told
<1>4. BurstsApart
  <2> SUFFICES ASSUME NEW i \in DOMAIN sink, NEW k \in 1 .. Len(sink[i].elems) - 1
               PROVE  sink[i].elems[k] \notin Ends
    BY DEF BurstsApart
  <2>1. Len(sink[i].elems) \in Nat /\ Joined(sink[i].elems)
    BY <1>2 DEF Told, Elems
  <2> QED BY <2>1 DEF Joined
<1>5. EndRight
  <2> SUFFICES ASSUME NEW i \in DOMAIN sink, Ok(i)
               PROVE  /\ Last(sink[i].elems) \in Ends => "END_BURST" \in sink[FirstOf(i)].flags
                      /\ "END_BURST" \in sink[i].flags => Last(sink[i].of) \in Ends
    BY DEF EndRight
  <2>1. Last(sink[i].elems) \in Ends => "END_BURST" \in sink[FirstOf(i)].flags
    BY <1>1, <1>2, FirstTold
  <2>2. "END_BURST" \in sink[i].flags => Last(sink[i].of) \in Ends
    BY <1>2 DEF Told
  <2> QED BY <2>1, <2>2
<1> QED BY <1>3, <1>4, <1>5 DEF FlagsRight

(* A time is that of the sample it comes with, no call mixes two bursts, and the end of a    *)
(* burst is told with its last sample, or with the first samples of the datagram in which    *)
(* that sample came; it is told with no other samples.                                       *)
THEOREM SpecFlagsRight == Spec => []FlagsRight
BY SpecIInv, FlagsFromIInv, PTL

-----------------------------------------------------------------------------
(* Formats, and the conversions between them.                              *)

(* Not written as ranges, which the provers would enumerate. *)
Octets == {x \in Int : 0 <= x /\ x <= 255}
Words16 == {x \in Int : -32768 <= x /\ x <= 32767}
Words8 == {x \in Int : -128 <= x /\ x <= 127}
Words(remote) == IF remote = "CS8" THEN Words8 ELSE Words16

LEMMA ServedAll == FormatsServed
<1> SUFFICES ASSUME NEW listed \in SUBSET Formats, NEW native \in listed,
                    NEW local \in streamFormats(listed)
             PROVE  /\ Converts(local, remoteFormat(local, native))
                    /\ local \in listed \/ native \in {"CS16", "CS12", "CS8", "CU8"}
                         => remoteFormat(local, native) \in listed
  BY DEF FormatsServed
<1>1. local \in listed \/ local = "CF32"
  BY DEF streamFormats
<1>2. CASE useNative(local, native)
  <2>1. remoteFormat(local, native) = native
    BY <1>2 DEF remoteFormat
  <2>2. Converts(local, native)
    BY <1>2 DEF useNative, Converts
  <2> QED BY <2>1, <2>2
<1>3. CASE ~ useNative(local, native)
  <2>1. remoteFormat(local, native) = local
    BY <1>3 DEF remoteFormat
  <2>2. Converts(local, local)
    BY DEF Converts
  <2>3. native \in {"CS16", "CS12", "CS8", "CU8"} => local # "CF32"
    BY <1>3 DEF useNative
  <2> QED BY <1>1, <2>1, <2>2, <2>3
<1> QED BY <1>2, <1>3

LEMMA Width16 == ASSUME NEW x \in Int, -32768 <= x, x <= 32767 PROVE int16(x) = x
BY DEF int16, Signed

LEMMA Width8 == ASSUME NEW x \in Int, -128 <= x, x <= 127 PROVE int8(x) = x
BY DEF int8, Signed

LEMMA Wrapped == ASSUME NEW x \in Int, 0 <= x, x <= 65535 PROVE uint16(int16(x)) = x
BY DEF uint16, int16, Signed

LEMMA AsIntExact == ASSUME NEW x \in Int PROVE AsInt(x * 32768) = x
BY DEF AsInt, Quotient, One

LEMMA Packed ==
  ASSUME NEW b1 \in Octets, NEW b2 \in Octets, NEW b3 \in Octets, NEW i, NEW q,
         i = (b2 % 16) * 4096 + b1 * 16, q = b3 * 256 + (b2 \div 16) * 16
  PROVE  /\ i \in Int /\ 0 <= i /\ i <= 65535 /\ q \in Int /\ 0 <= q /\ q <= 65535
         /\ uint8(i \div 16) = b1
         /\ (uint8(q) \div 16) * 16 + i \div 4096 = b2
         /\ uint8(q \div 256) = b3
<1> DEFINE m == b2 % 16
           h == b2 \div 16
<1>1. /\ b1 \in Int /\ 0 <= b1 /\ b1 <= 255 /\ b2 \in Int /\ 0 <= b2 /\ b2 <= 255
      /\ b3 \in Int /\ 0 <= b3 /\ b3 <= 255
  BY DEF Octets
<1>2. /\ m \in Int /\ 0 <= m /\ m <= 15 /\ h \in Int /\ 0 <= h /\ h <= 15
      /\ b2 = 16 * h + m
  BY <1>1
<1>3. i = m * 4096 + b1 * 16 /\ q = b3 * 256 + h * 16
  OBVIOUS
<1> HIDE DEF m, h
<1>4. i \in Int /\ 0 <= i /\ i <= 65535 /\ q \in Int /\ 0 <= q /\ q <= 65535
  BY <1>1, <1>2, <1>3
<1>5. i \div 16 = m * 256 + b1 /\ i \div 4096 = m
  BY <1>1, <1>2, <1>3
<1>6. uint8(i \div 16) = b1
  BY <1>1, <1>2, <1>5 DEF uint8
<1>7. uint8(q) = h * 16 /\ q \div 256 = b3
  BY <1>1, <1>2, <1>3 DEF uint8
<1>8. (uint8(q) \div 16) * 16 = h * 16
  BY <1>2, <1>7
<1>9. uint8(q \div 256) = b3
  BY <1>1, <1>7 DEF uint8
<1>10. (uint8(q) \div 16) * 16 + i \div 4096 = b2
  BY <1>2, <1>5, <1>8
<1> QED BY <1>4, <1>6, <1>9, <1>10

(* Three bytes that were unpacked into two numbers are packed again as they were, whatever   *)
(* the bytes: the shifts and masks of the two directions (ClientStreamData.cpp) agree.       *)
THEOREM PackingExact ==
  \A b \in Octets \X Octets \X Octets :
    ToCS12(uint16(FromCS12(b)[1]), uint16(FromCS12(b)[2])) = b
<1> SUFFICES ASSUME NEW b \in Octets \X Octets \X Octets
             PROVE  ToCS12(uint16(FromCS12(b)[1]), uint16(FromCS12(b)[2])) = b
  OBVIOUS
<1> DEFINE i == (b[2] % 16) * 4096 + b[1] * 16
           q == b[3] * 256 + (b[2] \div 16) * 16
<1>1. b[1] \in Octets /\ b[2] \in Octets /\ b[3] \in Octets /\ b = << b[1], b[2], b[3] >>
  OBVIOUS
<1>2. /\ i \in Int /\ 0 <= i /\ i <= 65535 /\ q \in Int /\ 0 <= q /\ q <= 65535
      /\ uint8(i \div 16) = b[1]
      /\ (uint8(q) \div 16) * 16 + i \div 4096 = b[2]
      /\ uint8(q \div 256) = b[3]
  BY <1>1, Packed
<1>3. FromCS12(b)[1] = int16(i) /\ FromCS12(b)[2] = int16(q)
  BY DEF FromCS12
<1> HIDE DEF i, q
<1>4. uint16(int16(i)) = i /\ uint16(int16(q)) = q
  BY <1>2, Wrapped
<1>5. ToCS12(i, q) = << b[1], b[2], b[3] >>
  BY <1>2 DEF ToCS12
<1> QED BY <1>1, <1>3, <1>4, <1>5

LEMMA Scales ==
  /\ defaultScale("CS16") = 32768 /\ defaultScale("CS12") = 2048 /\ defaultScale("CS8") = 128
  /\ One = 32768
BY DEF defaultScale, One

LEMMA RecvIs ==
  ASSUME NEW x \in Int
  PROVE  /\ Recv("CF32", "CS16", x, 32768) = x
         /\ Recv("CF32", "CS12", x, 2048) = x
         /\ Recv("CS16", "CS12", x, 2048) = x
         /\ Recv("CF32", "CS8", x, 128) = x * 256
         /\ Recv("CS16", "CS8", x, 128) = int16(x * 256)
<1>1. One \div 32768 = 1 /\ One \div (16 * 2048) = 1 /\ One \div 128 = 256 /\ 32768 \div 128 = 256
  BY DEF One
<1>2. /\ Recv("CF32", "CS16", x, 32768) = x * (One \div 32768)
      /\ Recv("CF32", "CS12", x, 2048) = x * (One \div (16 * 2048))
      /\ Recv("CS16", "CS12", x, 2048) = x
      /\ Recv("CF32", "CS8", x, 128) = x * (One \div 128)
      /\ Recv("CS16", "CS8", x, 128) = int16(x * (32768 \div 128))
  BY DEF Recv
<1> QED BY <1>1, <1>2

LEMMA SendIs ==
  ASSUME NEW x \in Int
  PROVE  /\ Send("CF32", "CS16", x, 32768) = {int16(AsInt(x * 32768))}
         /\ Send("CF32", "CS12", x, 2048) = AsUint16(x * 16 * 2048)
         /\ Send("CS16", "CS12", x, 2048) = {uint16(x)}
         /\ Send("CF32", "CS8", x, 128) = {int8(AsInt(x * 128))}
BY DEF Send

(* What is received and sent again is what it was, for every number of the width of the      *)
(* wire, where the run looks at the edges.                                                   *)
THEOREM LoopbackAll ==
  /\ \A x \in Words("CS16") : Send("CF32", "CS16", Recv("CF32", "CS16", x, 32768), 32768) = {x}
  /\ \A x \in Words("CS8") : Send("CF32", "CS8", Recv("CF32", "CS8", x, 128), 128) = {x}
  /\ \A x \in Words("CS12") :
       /\ Send("CS16", "CS12", Recv("CS16", "CS12", x, 2048), 2048) = {uint16(x)}
       /\ uint16(x) \in Send("CF32", "CS12", Recv("CF32", "CS12", x, 2048), 2048)
       /\ x >= 0 => Send("CF32", "CS12", Recv("CF32", "CS12", x, 2048), 2048) = {uint16(x)}
<1>1. Words("CS16") = Words16 /\ Words("CS12") = Words16 /\ Words("CS8") = Words8
  BY DEF Words
<1>2. ASSUME NEW x \in Words("CS16")
      PROVE  Send("CF32", "CS16", Recv("CF32", "CS16", x, 32768), 32768) = {x}
  <2>1. x \in Int /\ -32768 <= x /\ x <= 32767
    BY <1>1 DEF Words16
  <2>2. /\ Recv("CF32", "CS16", x, 32768) = x
        /\ Send("CF32", "CS16", x, 32768) = {int16(AsInt(x * 32768))}
    BY <2>1, RecvIs, SendIs
  <2>3. AsInt(x * 32768) = x /\ int16(x) = x
    BY <2>1, AsIntExact, Width16
  <2> QED BY <2>2, <2>3
<1>3. ASSUME NEW x \in Words("CS8")
      PROVE  Send("CF32", "CS8", Recv("CF32", "CS8", x, 128), 128) = {x}
  <2>1. x \in Int /\ -128 <= x /\ x <= 127
    BY <1>1 DEF Words8
  <2>2. x * 256 \in Int /\ (x * 256) * 128 = x * 32768
    BY <2>1
  <2>3. /\ Recv("CF32", "CS8", x, 128) = x * 256
        /\ Send("CF32", "CS8", x * 256, 128) = {int8(AsInt((x * 256) * 128))}
    BY <2>1, <2>2, RecvIs, SendIs
  <2>4. AsInt(x * 32768) = x /\ int8(x) = x
    BY <2>1, AsIntExact, Width8
  <2> QED BY <2>2, <2>3, <2>4
<1>4. ASSUME NEW x \in Words("CS12")
      PROVE  /\ Send("CS16", "CS12", Recv("CS16", "CS12", x, 2048), 2048) = {uint16(x)}
             /\ uint16(x) \in Send("CF32", "CS12", Recv("CF32", "CS12", x, 2048), 2048)
             /\ x >= 0 => Send("CF32", "CS12", Recv("CF32", "CS12", x, 2048), 2048) = {uint16(x)}
  <2>1. x \in Int
    BY <1>1 DEF Words16
  <2>2. Recv("CF32", "CS12", x, 2048) = x /\ Recv("CS16", "CS12", x, 2048) = x /\ x \in Int
    BY <2>1, RecvIs
  <2>3. /\ Send("CF32", "CS12", x, 2048) = AsUint16(x * 16 * 2048)
        /\ Send("CS16", "CS12", x, 2048) = {uint16(x)}
    BY <2>2, SendIs
  <2>4. x * 16 * 2048 = x * 32768 /\ AsInt(x * 32768) = x
    BY <2>2, AsIntExact
  <2>5. AsUint16(x * 16 * 2048) = IF x >= 0 THEN {uint16(x)} ELSE {uint16(x), 0}
    BY <2>4 DEF AsUint16
  <2> QED BY <2>2, <2>3, <2>5
<1> QED BY <1>2, <1>3, <1>4

LEMMA NumbersAre ==
  Numbers("CS16") \subseteq Words("CS16") /\ Numbers("CS12") \subseteq Words("CS12")
  /\ Numbers("CS8") \subseteq Words("CS8")
BY DEF Numbers, Edges, Words, Words16, Words8

(* The two formats in which an application may ask for a sample give it the same level, for  *)
(* every number of the width, and no float exceeds the full scale.                           *)
THEOREM SameLevelAll ==
  \A remote \in {"CS12", "CS8"} : \A x \in Words(remote) :
    LET f == Recv("CF32", remote, x, defaultScale(remote))
    IN /\ f = Recv("CS16", remote, x, defaultScale(remote)) * (One \div 32768)
       /\ -One <= f /\ f <= One
<1>1. One \div 32768 = 1 /\ One = 32768
  BY DEF One
<1>2. ASSUME NEW x \in Words("CS12")
      PROVE  /\ Recv("CF32", "CS12", x, 2048) = Recv("CS16", "CS12", x, 2048) * (One \div 32768)
             /\ -One <= Recv("CF32", "CS12", x, 2048) /\ Recv("CF32", "CS12", x, 2048) <= One
  <2>1. x \in Int /\ -32768 <= x /\ x <= 32767
    BY DEF Words, Words16
  <2>2. Recv("CF32", "CS12", x, 2048) = x /\ Recv("CS16", "CS12", x, 2048) = x
    BY <2>1, RecvIs
  <2> QED BY <1>1, <2>1, <2>2
<1>3. ASSUME NEW x \in Words("CS8")
      PROVE  /\ Recv("CF32", "CS8", x, 128) = Recv("CS16", "CS8", x, 128) * (One \div 32768)
             /\ -One <= Recv("CF32", "CS8", x, 128) /\ Recv("CF32", "CS8", x, 128) <= One
  <2>1. x \in Int /\ -128 <= x /\ x <= 127
    BY DEF Words, Words8
  <2>2. x * 256 \in Int /\ -32768 <= x * 256 /\ x * 256 <= 32767
    BY <2>1
  <2>3. Recv("CF32", "CS8", x, 128) = x * 256 /\ Recv("CS16", "CS8", x, 128) = int16(x * 256)
    BY <2>1, RecvIs
  <2>4. int16(x * 256) = x * 256
    BY <2>2, Width16
  <2> QED BY <1>1, <2>2, <2>3, <2>4
<1> QED BY <1>2, <1>3, Scales

LEMMA LoopbackHolds == LoopbackExact
<1>1. \A b \in Bytes \X Bytes \X Bytes :
        ToCS12(uint16(FromCS12(b)[1]), uint16(FromCS12(b)[2])) = b
  BY PackingExact DEF Bytes, Octets
<1> DEFINE pairs == {<< "CF32", "CS16" >>, << "CF32", "CS12" >>, << "CS16", "CS12" >>,
                     << "CF32", "CS8" >>}
           Exact(local, remote, scale) ==
             \A x \in Numbers(remote) :
               LET sent == Send(local, remote, Recv(local, remote, x, scale), scale)
               IN IF remote # "CS12" THEN sent = {x}
                  ELSE uint16(x) \in sent /\ (local = "CS16" \/ x >= 0 => sent = {uint16(x)})
<1>2. /\ Exact("CF32", "CS16", 32768) /\ Exact("CF32", "CS8", 128)
      /\ Exact("CF32", "CS12", 2048) /\ Exact("CS16", "CS12", 2048)
  BY LoopbackAll, NumbersAre
<1> HIDE DEF Exact
<1>3. ASSUME NEW pair \in pairs PROVE Exact(pair[1], pair[2], defaultScale(pair[2]))
  BY <1>2, Scales
<1> QED BY <1>1, <1>3 DEF LoopbackExact, Exact

(* The lists of formats and the conversions of both directions agree, whenever a stream is   *)
(* set up.                                                                                   *)
THEOREM SpecFormatsAgree == Spec => []FormatsAgree
<1>1. SameLevel
  BY SameLevelAll, NumbersAre DEF SameLevel
<1>2. FormatsAgree
  BY <1>1, ServedAll, LoopbackHolds DEF FormatsAgree
<1> QED BY <1>2, PTL
=============================================================================
