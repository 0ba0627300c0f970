-------------------------- MODULE RemoteCallProofs --------------------------
(***************************************************************************)
(* What is packed is unpacked: theorems about RpcTypes for values of any   *)
(* size, and about RemoteCall for any set of them.                         *)
(***************************************************************************)
EXTENDS RemoteCall, FiniteSetTheorems, SequenceTheorems, WellFoundedInduction, TLAPS

-----------------------------------------------------------------------------
(* Natural numbers and powers of two.                                      *)

LEMMA LeastOf ==
  ASSUME NEW T, T \subseteq Nat, T # {}
  PROVE  \E m \in T : \A n \in T : m <= n
<1>1. \A x, y \in Nat : x < y => << x, y >> \in OpToRel(<, Nat)
  BY Zenon DEF OpToRel
<1>2. PICK R : /\ IsWellFoundedOn(R, Nat)
               /\ \A x, y \in Nat : x < y => << x, y >> \in R
  BY <1>1, NatLessThanWellFounded, Zenon
<1>3. \A W, S : IsWellFoundedOn(W, S) /\ T \subseteq S /\ T # {}
                => \E x \in T : \A y \in T : ~ (<< y, x >> \in W)
  BY WFMin, Zenon
<1>4. PICK m \in T : \A n \in T : ~ (<< n, m >> \in R)
  BY <1>2, <1>3, Zenon
<1>5. \A n \in T : ~ (n < m)
  BY <1>2, <1>4, Zenon
<1> QED BY <1>4, <1>5

\* Induction up to a bound, over the set of numbers for which something holds.
LEMMA UpTo ==
  ASSUME NEW N \in Nat, NEW T, 0 \in T, \A n \in 0 .. N - 1 : n \in T => n + 1 \in T
  PROVE  \A n \in 0 .. N : n \in T
<1> SUFFICES ASSUME NEW k \in 0 .. N, k \notin T PROVE FALSE
  OBVIOUS
<1> DEFINE F == {n \in 0 .. N : n \notin T}
<1>1. F \subseteq Nat /\ F # {}
  OBVIOUS
<1>2. PICK m \in F : \A n \in F : m <= n
  BY <1>1, LeastOf, Zenon
<1>3. m # 0 /\ m - 1 \in 0 .. N - 1 /\ m - 1 \notin F
  BY <1>2
<1>4. m - 1 \in T
  BY <1>3
<1> QED BY <1>2, <1>3, <1>4

Top == 2 * (IntBits + MantBits) + 1

LEMMA TopIs == Top \in Nat /\ IntBits \in Nat /\ MantBits \in Nat /\ IntBits >= 2 /\ MantBits >= 1
BY WidthAssumption DEF Top

LEMMA PowerOf ==
  /\ 2^0 = 1
  /\ \A k \in 0 .. Top : 2^k \in Nat /\ 2^k >= 1
  /\ \A k \in 0 .. Top - 1 : 2^(k + 1) = 2 * 2^k
<1>1. 2^0 = 1 /\ \A k \in 0 .. Top - 1 : 2^k \in Nat /\ 2^(k + 1) = 2 * 2^k
  BY PowerAssumption, TopIs DEF Top
<1> DEFINE T == {n \in Nat : 2^n \in Nat /\ 2^n >= 1}
<1>2. \A n \in 0 .. Top - 1 : n \in T => n + 1 \in T
  BY <1>1, TopIs
<1>3. 0 \in T
  BY <1>1
<1>4. \A n \in 0 .. Top : n \in T
  <2> HIDE DEF T
  <2> QED BY <1>2, <1>3, TopIs, UpTo
<1> QED BY <1>1, <1>4

LEMMA PowerSum ==
  ASSUME NEW a \in Nat, NEW b \in Nat, a + b <= Top
  PROVE  2^(a + b) = 2^a * 2^b
<1> DEFINE T == {n \in Nat : 2^(a + n) = 2^a * 2^n}
<1>1. 0 \in T
  <2>1. 2^(a + 0) = 2^a /\ 2^a \in Nat
    BY PowerOf, TopIs
  <2> QED BY <2>1, PowerOf
<1>2. ASSUME NEW n \in 0 .. b - 1, n \in T PROVE n + 1 \in T
  <2>1. a + n \in 0 .. Top - 1 /\ n \in 0 .. Top - 1 /\ a \in 0 .. Top
    BY TopIs
  <2>2. 2^((a + n) + 1) = 2 * 2^(a + n) /\ 2^(n + 1) = 2 * 2^n
    BY <2>1, PowerOf, Zenon
  <2>3. 2^(a + n) = 2^a * 2^n
    BY <1>2
  <2>4. 2^a \in Nat /\ 2^n \in Nat
    BY <2>1, PowerOf, TopIs
  <2>5. 2 * (2^a * 2^n) = 2^a * (2 * 2^n)
    BY <2>4
  <2>6. a + (n + 1) = (a + n) + 1
    OBVIOUS
  <2> QED BY <2>2, <2>3, <2>5, <2>6
<1>3. \A n \in 0 .. b : n \in T
  <2> HIDE DEF T
  <2> QED BY <1>1, <1>2, UpTo
<1> QED BY <1>3

\* The three widths of an int.
LEMMA WidthsAre ==
  /\ 2^(IntBits - 1) \in Nat /\ 2^(IntBits - 1) >= 2
  /\ 2^IntBits = 2 * 2^(IntBits - 1)
  /\ 2^(2 * IntBits) \in Nat /\ 2^(2 * IntBits) >= 2^IntBits
<1>1. IntBits - 2 \in 0 .. Top - 1 /\ IntBits - 1 \in 0 .. Top - 1
  BY TopIs DEF Top
<1>2. 2^((IntBits - 2) + 1) = 2 * 2^(IntBits - 2) /\ 2^((IntBits - 1) + 1) = 2 * 2^(IntBits - 1)
  BY <1>1, PowerOf, Zenon
<1>3. (IntBits - 2) + 1 = IntBits - 1 /\ (IntBits - 1) + 1 = IntBits
  BY TopIs
<1>4. 2^(IntBits - 2) \in Nat /\ 2^(IntBits - 2) >= 1
  <2>1. IntBits - 2 \in 0 .. Top
    BY <1>1, TopIs
  <2> QED BY <2>1, PowerOf, Zenon
<1>5. 2^(IntBits + IntBits) = 2^IntBits * 2^IntBits
  BY TopIs, PowerSum DEF Top
<1>6. IntBits + IntBits = 2 * IntBits
  BY TopIs
<1>7. 2^IntBits \in Nat /\ 2^IntBits >= 1
  BY PowerOf, TopIs DEF Top
<1>8. 2^IntBits * 2^IntBits >= 2^IntBits /\ 2^IntBits * 2^IntBits \in Nat
  BY <1>7
<1> QED BY <1>2, <1>3, <1>4, <1>5, <1>6, <1>8

-----------------------------------------------------------------------------
(* Numbers on the wire.                                                    *)

LEMMA Divides ==
  ASSUME NEW n \in Nat, n >= 1, NEW q \in Int
  PROVE  /\ (n * q) % n = 0 /\ (n * q) \div n = q
         /\ \A x \in Int : x % n = 0 => x = n * (x \div n) /\ x \div n \in Int
OBVIOUS

\* A number of the width is its own remainder, and so is one a width below.
LEMMA ModOf ==
  ASSUME NEW n \in Nat, NEW x \in Int
  PROVE  /\ 0 <= x /\ x < n => x % n = x
         /\ -n <= x /\ x < 0 => x % n = x + n
OBVIOUS

LEMMA IntsAre == \A x \in Ints : x \in Int
BY DEF Ints

\* An unsigned comes back from the int that it was made.
LEMMA UnsignedBack ==
  ASSUME NEW v \in Unsigneds
  PROVE  ToInt(v) \in Ints /\ ToUnsigned(ToInt(v)) = v
<1> DEFINE h == 2^(IntBits - 1)
           w == 2^IntBits
<1>1. h \in Nat /\ h >= 2 /\ w = 2 * h /\ v \in Nat /\ v < w
  BY WidthsAre DEF Unsigneds
<1>2. ToInt(v) = LET low == v % w IN IF low < h THEN low ELSE low - w
  BY DEF ToInt
<1>3. ToUnsigned(ToInt(v)) = ToInt(v) % w
  BY DEF ToUnsigned
<1>4. Ints = {x \in Int : -h <= x /\ x < h}
  BY DEF Ints
<1> HIDE DEF h, w
<1>5. v % w = v /\ w \in Nat
  BY <1>1, ModOf
<1>6. ToInt(v) = IF v < h THEN v ELSE v - w
  BY <1>2, <1>5
<1>7. ToInt(v) \in Ints
  BY <1>1, <1>4, <1>6
<1>8. ToInt(v) % w = v
  <2>1. CASE v < h
    BY <1>5, <1>6, <2>1
  <2>2. CASE ~ (v < h)
    <3>1. -w <= v - w /\ v - w < 0 /\ v - w \in Int
      BY <1>1, <2>2
    <3>2. (v - w) % w = (v - w) + w
      BY <1>5, <3>1, ModOf
    <3> QED BY <1>1, <1>6, <2>2, <3>2
  <2> QED BY <2>1, <2>2
<1> QED BY <1>3, <1>7, <1>8

LEMMA SizeBack ==
  ASSUME NEW v \in Sizes
  PROVE  ToInt(v) = v /\ ToSize(v) = v /\ v \in Ints
<1> DEFINE h == 2^(IntBits - 1)
           w == 2^IntBits
           d == 2^(2 * IntBits)
<1>1. h \in Nat /\ h >= 2 /\ w = 2 * h /\ d \in Nat /\ d >= w
  BY WidthsAre
<1>2. v \in Ints /\ v \in Int /\ 0 <= v /\ v < h
  BY DEF Sizes, Ints
<1>3. ToInt(v) = LET low == v % w IN IF low < h THEN low ELSE low - w
  BY DEF ToInt
<1>4. ToSize(v) = v % d
  BY DEF ToSize
<1> HIDE DEF h, w, d
<1>5. v % w = v /\ v % d = v
  <2>1. w \in Nat /\ v < w /\ v < d
    BY <1>1, <1>2
  <2> QED BY <1>1, <1>2, <2>1, ModOf
<1> QED BY <1>2, <1>3, <1>4, <1>5

\* The exponent that frexp gives.
LEMMA BitsAre ==
  ASSUME NEW x \in Int, Abs(x) < 2^MantBits
  PROVE  Bits(x) \in 0 .. MantBits
<1>1. CASE x = 0
  BY <1>1, TopIs DEF Bits
<1>2. CASE x # 0
  <2> DEFINE P(b) == Abs(x) < 2^b
             F == {b \in Nat : b <= MantBits /\ P(b)}
  <2>1. Abs(x) \in Nat /\ Abs(x) >= 1
    BY <1>2 DEF Abs
  <2>2. P(MantBits) /\ ~ P(0)
    BY <2>1, PowerOf
  <2> HIDE DEF P
  <2>3. PICK b \in F : \A n \in F : b <= n
    <3>1. F \subseteq Nat /\ F # {}
      BY <2>2, TopIs
    <3> HIDE DEF F
    <3> QED BY <3>1, LeastOf, Zenon
  <2>4. b \in Nat /\ b <= MantBits /\ P(b) /\ b # 0
    BY <2>2, <2>3
  <2>5. b - 1 \in Nat /\ b - 1 <= MantBits /\ ~ P(b - 1)
    <3> DEFINE c == b - 1
    <3>1. c \in Nat /\ c <= MantBits /\ ~ (b <= c)
      BY <2>4, TopIs
    <3>2. c \notin F
      <4> HIDE DEF F, c
      <4> QED BY <2>3, <3>1
    <3>3. ~ P(c)
      <4> HIDE DEF c
      <4> QED BY <3>1, <3>2
    <3> QED BY <3>1, <3>3
  <2>6. b - 1 \in 0 .. Top
    BY <2>5, TopIs DEF Top
  <2>7. 2^(b - 1) \in Nat
    BY <2>6, PowerOf, Zenon
  <2>8. 2^(b - 1) <= Abs(x) /\ Abs(x) < 2^b /\ b \in 1 .. MantBits
    BY <2>1, <2>4, <2>5, <2>7 DEF P
  <2>9. Bits(x) = CHOOSE c \in 1 .. MantBits : 2^(c - 1) <= Abs(x) /\ Abs(x) < 2^c
    BY <1>2 DEF Bits
  <2>10. Bits(x) \in 1 .. MantBits
    BY <2>8, <2>9
  <2> QED BY <2>10
<1> QED BY <1>1, <1>2

\* The factors of two of an odd number times a power.
LEMMA FactorsOfTwo ==
  ASSUME NEW m \in Int, m % 2 = 1, NEW k \in 0 .. MantBits, NEW j \in 0 .. MantBits
  PROVE  /\ (m * 2^k) % 2^j = 0 /\ (m * 2^k) % 2^(j + 1) # 0 <=> j = k
<1>1. /\ 2^k \in Nat /\ 2^k >= 1 /\ 2^j \in Nat /\ 2^j >= 1
      /\ 2^(j + 1) \in Nat /\ 2^(j + 1) >= 1
  <2>1. k \in 0 .. Top /\ j \in 0 .. Top /\ j + 1 \in 0 .. Top
    BY TopIs DEF Top
  <2> QED BY <2>1, PowerOf, Zenon
<1> DEFINE x == m * 2^k
<1>2. x \in Int
  BY <1>1
<1>3. CASE j < k
  <2>1. k - (j + 1) \in Nat /\ (j + 1) + (k - (j + 1)) = k /\ k <= Top /\ j + 1 \in Nat
    BY <1>3, TopIs DEF Top
  <2>2. 2^k = 2^(j + 1) * 2^(k - (j + 1))
    BY <2>1, PowerSum
  <2>3. k - (j + 1) \in 0 .. Top
    BY <2>1, TopIs DEF Top
  <2>4. 2^(k - (j + 1)) \in Nat
    BY <2>3, PowerOf, Zenon
  <2>5. x = 2^(j + 1) * (m * 2^(k - (j + 1))) /\ m * 2^(k - (j + 1)) \in Int
    BY <1>1, <2>2, <2>4
  <2>6. x % 2^(j + 1) = 0
    BY <1>1, <2>5, Divides, Zenon
  <2> QED BY <1>3, <2>6
<1>4. CASE j > k
  <2>1. j - (k + 1) \in Nat /\ k + (1 + (j - (k + 1))) = j /\ j <= Top /\ 1 + (j - (k + 1)) \in Nat
    BY <1>4, TopIs DEF Top
  <2>2. 2^j = 2^k * 2^(1 + (j - (k + 1)))
    BY <2>1, PowerSum
  <2>3. j - (k + 1) \in 0 .. Top - 1 /\ (j - (k + 1)) + 1 = 1 + (j - (k + 1))
    BY <1>4, TopIs DEF Top
  <2>4. 2^(1 + (j - (k + 1))) = 2 * 2^(j - (k + 1)) /\ 2^(j - (k + 1)) \in Nat
    <3>1. j - (k + 1) \in 0 .. Top
      BY <2>3, TopIs
    <3> QED BY <2>3, <3>1, PowerOf, Zenon
  <2>5. ASSUME x % 2^j = 0 PROVE FALSE
    <3> DEFINE q == x \div 2^j
               r == 2^(j - (k + 1))
    <3>1. x = 2^j * q /\ q \in Int
      BY <1>1, <1>2, <2>5, Divides, Zenon
    <3>2. m * 2^k = 2^k * (2 * r) * q /\ r \in Nat
      BY <2>2, <2>4, <3>1
    <3> HIDE DEF q, r
    <3>3. m = 2 * (r * q)
      <4> DEFINE p == 2^k
      <4>1. p \in Nat /\ p >= 1 /\ m * p = p * (2 * r) * q
        BY <1>1, <3>2
      <4> HIDE DEF p
      <4>2. p * (m - 2 * (r * q)) = 0
        BY <3>1, <3>2, <4>1
      <4>3. m - 2 * (r * q) \in Int
        BY <3>1, <3>2
      <4>4. m - 2 * (r * q) = 0
        BY <4>1, <4>2, <4>3
      <4> QED BY <3>1, <3>2, <4>4
    <3>4. r * q \in Int
      BY <3>1, <3>2
    <3> QED BY <3>3, <3>4
  <2> QED BY <1>4, <2>5
<1>5. CASE j = k
  <2>1. x = 2^k * m
    BY <1>1
  <2>2. x % 2^k = 0
    BY <1>1, <2>1, Divides, Zenon
  <2>3. 2^(k + 1) = 2 * 2^k
    <3>1. k \in 0 .. Top - 1
      BY TopIs DEF Top
    <3> QED BY <3>1, PowerOf, Zenon
  <2>4. ASSUME x % 2^(k + 1) = 0 PROVE FALSE
    <3> DEFINE q == x \div 2^(k + 1)
               p == 2^k
    <3>1. x = 2^(k + 1) * q /\ q \in Int
      BY <1>1, <1>2, <1>5, <2>4, Divides, Zenon
    <3>2. m * p = (2 * p) * q /\ p \in Nat /\ p >= 1
      BY <1>1, <2>3, <3>1
    <3> HIDE DEF q, p
    <3>3. p * (m - 2 * q) = 0 /\ m - 2 * q \in Int
      BY <3>1, <3>2
    <3>4. m = 2 * q
      BY <3>1, <3>2, <3>3
    <3> QED BY <3>1, <3>4
  <2> QED BY <1>5, <2>2, <2>4
<1> QED BY <1>3, <1>4, <1>5

\* frexp and ldexp on one side, ldexp on the other.
LEMMA DoubleBack ==
  ASSUME NEW v \in DoubleValues
  PROVE  /\ Bits(v.man) \in 0 .. MantBits
         /\ v.exp + Bits(v.man) \in Ints
         /\ v.man * 2^(MantBits - Bits(v.man)) \in Int
         /\ Double(v.man * 2^(MantBits - Bits(v.man)), (v.exp + Bits(v.man)) - MantBits) = v
<1>1. /\ v \in [man : Int, exp : Int] /\ Abs(v.man) < 2^MantBits /\ v.exp + Bits(v.man) \in Ints
      /\ IF v.man = 0 THEN v.exp = 0 ELSE v.man % 2 = 1
  BY DEF DoubleValues
<1>2. Bits(v.man) \in 0 .. MantBits
  BY <1>1, BitsAre
<1> DEFINE k == MantBits - Bits(v.man)
           x == v.man * 2^k
           e == (v.exp + Bits(v.man)) - MantBits
<1>3. k \in 0 .. MantBits /\ e + k = v.exp /\ k \in 0 .. Top
  BY <1>1, <1>2, TopIs DEF Top
<1>4. 2^k \in Nat /\ 2^k >= 1
  BY <1>3, PowerOf, Zenon
<1>5. x \in Int
  BY <1>1, <1>4
<1>6. Double(x, e) = v
  <2>1. CASE v.man = 0
    <3>1. x = 0 /\ v = [man |-> 0, exp |-> 0]
      BY <1>1, <1>4, <2>1
    <3> QED BY <3>1 DEF Double
  <2>2. CASE v.man # 0
    <3>1. v.man \in Int /\ v.man % 2 = 1
      BY <1>1, <2>2
    <3>2. \A j \in 0 .. MantBits : x % 2^j = 0 /\ x % 2^(j + 1) # 0 <=> j = k
      BY <1>3, <3>1, FactorsOfTwo, ZenonT(30)
    <3>3. (CHOOSE j \in 0 .. MantBits : x % 2^j = 0 /\ x % 2^(j + 1) # 0) = k
      <4> HIDE DEF x, k
      <4> QED BY <1>3, <3>2
    <3>4. x # 0 /\ x \div 2^k = v.man
      <4>1. x = 2^k * v.man
        BY <1>4, <3>1
      <4>2. x \div 2^k = v.man
        BY <1>4, <3>1, <4>1, Divides, Zenon
      <4> QED BY <1>4, <2>2, <3>1
    <3>5. Double(x, e) = [man |-> x \div 2^k, exp |-> e + k]
      <4> HIDE DEF k, e, x
      <4> QED BY <3>3, <3>4 DEF Double
    <3>6. v = [man |-> v.man, exp |-> v.exp]
      BY <1>1
    <3> QED BY <1>3, <3>4, <3>5, <3>6
  <2> QED BY <2>1, <2>2
<1> QED BY <1>1, <1>2, <1>5, <1>6
-----------------------------------------------------------------------------
(* Sequences of tokens.                                                    *)

Tokens == [kind : {"tag", "blob"},
           of : UNION {Int, Seq(Nat), Calls, {TypeBytes[type] : type \in DOMAIN TypeBytes}}]

\* After the type byte of an int comes a number of its width.
Sound(w) ==
  /\ w \in Seq(Tokens)
  /\ \A k \in 1 .. Len(w) : w[k] = Tag("int") => k < Len(w) /\ w[k + 1].of \in Ints

LEMMA SoundConcat ==
  ASSUME NEW w, NEW x, Sound(w), Sound(x)
  PROVE  Sound(w \o x)
<1>1. /\ w \in Seq(Tokens) /\ x \in Seq(Tokens) /\ Len(w) \in Nat /\ Len(x) \in Nat
      /\ \A k \in 1 .. Len(w) : w[k] = Tag("int") => k < Len(w) /\ w[k + 1].of \in Ints
      /\ \A k \in 1 .. Len(x) : x[k] = Tag("int") => k < Len(x) /\ x[k + 1].of \in Ints
  BY DEF Sound
<1>2. /\ w \o x \in Seq(Tokens)
      /\ Len(w \o x) = Len(w) + Len(x)
      /\ \A i \in 1 .. Len(w) + Len(x) : (w \o x)[i] = IF i <= Len(w) THEN w[i] ELSE x[i - Len(w)]
  BY <1>1, ConcatProperties
<1>3. ASSUME NEW k \in 1 .. Len(w \o x), (w \o x)[k] = Tag("int")
      PROVE  k < Len(w \o x) /\ (w \o x)[k + 1].of \in Ints
  <2>1. CASE k <= Len(w)
    <3>1. k \in 1 .. Len(w) /\ w[k] = Tag("int")
      BY <1>1, <1>2, <1>3, <2>1
    <3>2. k < Len(w) /\ w[k + 1].of \in Ints
      BY <1>1, <3>1
    <3> QED BY <1>1, <1>2, <3>1, <3>2
  <2>2. CASE k > Len(w)
    <3> DEFINE j == k - Len(w)
    <3>1. j \in 1 .. Len(x) /\ x[j] = Tag("int")
      BY <1>1, <1>2, <1>3, <2>2
    <3>2. j < Len(x) /\ x[j + 1].of \in Ints
      BY <1>1, <3>1
    <3>3. (w \o x)[k + 1] = x[(k + 1) - Len(w)] /\ (k + 1) - Len(w) = j + 1
      BY <1>1, <1>2, <2>2, <3>2
    <3> QED BY <1>1, <1>2, <3>2, <3>3
  <2> QED BY <1>1, <2>1, <2>2
<1> QED BY <1>2, <1>3 DEF Sound

\* F makes N steps.
Runs(F, N, Q, start, step) ==
  F \in [0 .. N -> Q] /\ F[0] = start /\ \A i \in 1 .. N : F[i] = step[i][F[i - 1]]

LEMMA Recursion ==
  ASSUME NEW N \in Nat, NEW Q, NEW start \in Q, NEW step \in [1 .. N -> [Q -> Q]]
  PROVE  \E F : Runs(F, N, Q, start, step)
<1> DEFINE Fits(F, n) == /\ F \in [0 .. n -> Q] /\ F[0] = start
                         /\ \A i \in 1 .. n : F[i] = step[i][F[i - 1]]
           T == {n \in 0 .. N : \E F : Fits(F, n)}
<1>1. 0 \in T
  <2>1. Fits([i \in 0 .. 0 |-> start], 0)
    OBVIOUS
  <2>2. \E F : Fits(F, 0)
    <3> HIDE DEF Fits
    <3> QED BY <2>1
  <2> QED BY <2>2
<1>2. ASSUME NEW n \in 0 .. N - 1, n \in T PROVE n + 1 \in T
  <2>1. PICK F : Fits(F, n)
    BY <1>2
  <2> DEFINE X == [i \in 0 .. n + 1 |-> IF i = n + 1 THEN step[n + 1][F[n]] ELSE F[i]]
  <2>2. step[n + 1][F[n]] \in Q
    <3>1. step[n + 1] \in [Q -> Q] /\ F[n] \in Q
      BY <2>1
    <3> QED BY <3>1
  <2>3. X \in [0 .. n + 1 -> Q] /\ X[0] = start
    BY <2>1, <2>2
  <2>4. ASSUME NEW i \in 1 .. n + 1 PROVE X[i] = step[i][X[i - 1]]
    <3>1. i - 1 \in 0 .. n /\ X[i - 1] = F[i - 1]
      BY <2>3
    <3> QED BY <2>1, <3>1
  <2>5. Fits(X, n + 1)
    BY <2>3, <2>4
  <2>6. \E G : Fits(G, n + 1)
    <3> HIDE DEF Fits, X
    <3> QED BY <2>5
  <2>7. n + 1 \in 0 .. N
    OBVIOUS
  <2> QED BY <2>6, <2>7
<1>3. \A n \in 0 .. N : n \in T
  <2> HIDE DEF T
  <2> QED BY <1>1, <1>2, UpTo
<1>4. N \in T
  <2> HIDE DEF T
  <2> QED BY <1>3
<1> QED BY <1>4 DEF Runs

\* What is left of a concatenation after each of its parts.
Leaves(W, N, S, s) ==
  W \in [0 .. N -> Seq(S)] /\ W[N] = << >> /\ \A i \in 1 .. N : W[i - 1] = s[i] \o W[i]

LEMMA Remainders ==
  ASSUME NEW S, NEW N \in Nat, NEW s \in [1 .. N -> Seq(S)]
  PROVE  \E W : Leaves(W, N, S, s)
<1> DEFINE Q == Seq(S)
           step == [i \in 1 .. N |-> [q \in Q |-> s[(N + 1) - i] \o q]]
<1>1. << >> \in Q /\ \A a, b \in Q : a \o b \in Q
  BY EmptySeq, ConcatProperties
<1>2. s \in [1 .. N -> Q]
  OBVIOUS
<1> HIDE DEF Q
<1>3. step \in [1 .. N -> [Q -> Q]]
  BY <1>1, <1>2
<1>4. PICK F : Runs(F, N, Q, << >>, step)
  <2> HIDE DEF step
  <2> QED BY <1>1, <1>3, Recursion
<1> DEFINE W == [i \in 0 .. N |-> F[N - i]]
<1>5. W \in [0 .. N -> Q] /\ W[N] = << >>
  <2>1. \A i \in 0 .. N : N - i \in 0 .. N
    OBVIOUS
  <2> QED BY <1>4, <2>1 DEF Runs
<1>6. ASSUME NEW i \in 1 .. N PROVE W[i - 1] = s[i] \o W[i]
  <2> DEFINE j == (N + 1) - i
  <2>1. j \in 1 .. N /\ (N + 1) - j = i /\ j - 1 = N - i /\ N - (i - 1) = j
        /\ i - 1 \in 0 .. N /\ i \in 0 .. N /\ N - i \in 0 .. N
    OBVIOUS
  <2>2. W[i - 1] = F[j] /\ W[i] = F[j - 1] /\ F[j - 1] \in Q
    BY <1>4, <2>1 DEF Runs
  <2>3. F[j] = s[i] \o F[j - 1]
    <3> HIDE DEF j
    <3> QED BY <1>4, <2>1, <2>2 DEF Runs
  <2> QED BY <2>2, <2>3
<1> HIDE DEF W
<1> QED BY <1>5, <1>6 DEF Q, Leaves

\* FlattenSeq from its end.
LEMMA FlatOf ==
  ASSUME NEW S, NEW N \in Nat, NEW s \in [1 .. N -> Seq(S)]
  PROVE  \E W : Leaves(W, N, S, s) /\ W[0] = FlattenSeq(s)
<1> DEFINE Q == Seq(S)
           step == [i \in 1 .. N |-> [q \in Q |-> q \o s[i]]]
<1>1. Len(s) = N
  BY LenProperties, SeqDef
<1>2. PICK W : Leaves(W, N, S, s)
  BY Remainders
<1>2a. W \in [0 .. N -> Q] /\ W[N] = << >> /\ \A i \in 1 .. N : W[i - 1] = s[i] \o W[i]
  BY <1>2 DEF Leaves
<1>3. << >> \in Q /\ \A a, b \in Q : a \o b \in Q
  BY EmptySeq, ConcatProperties
<1>4. \A a \in Q : << >> \o a = a /\ a \o << >> = a
  BY ConcatEmptySeq
<1>5. \A a, b, c \in Q : (a \o b) \o c = a \o (b \o c)
  BY ConcatAssociative
<1>6. s \in [1 .. N -> Q]
  OBVIOUS
<1> HIDE DEF Q
<1>7. step \in [1 .. N -> [Q -> Q]]
  BY <1>3, <1>6
<1>8. PICK B : Runs(B, N, Q, << >>, step)
  <2> HIDE DEF step
  <2> QED BY <1>3, <1>7, Recursion
<1>8a. B \in [0 .. N -> Q] /\ B[0] = << >> /\ \A i \in 1 .. N : B[i] = step[i][B[i - 1]]
  <2> HIDE DEF step
  <2> QED BY <1>8 DEF Runs
<1>9. ASSUME NEW i \in 1 .. N
      PROVE  /\ B[i] = B[i - 1] \o s[i]
             /\ i = 1 => B[i] = s[i]
             /\ B[i - 1] \in Q /\ s[i] \in Q /\ B[i] \in Q
  <2>1. B[i - 1] \in Q /\ s[i] \in Q /\ B[i] \in Q
    BY <1>6, <1>8a
  <2>2. step[i][B[i - 1]] = B[i - 1] \o s[i]
    BY <2>1
  <2>3. i = 1 => B[i - 1] = << >>
    BY <1>8a
  <2> HIDE DEF step
  <2>4. B[i] = step[i][B[i - 1]]
    BY <1>8a
  <2> QED BY <1>4, <2>1, <2>2, <2>3, <2>4
<1> DEFINE Flat(f) == [i \in 1 .. Len(s) |-> IF i = 1 THEN s[i] ELSE f[i - 1] \o s[i]]
           F == CHOOSE f : f = Flat(f)
           C == [i \in 1 .. N |-> B[i]]
<1>10. C = Flat(C)
  <2>1. ASSUME NEW i \in 1 .. N PROVE C[i] = Flat(C)[i]
    <3>1. CASE i = 1
      BY <1>1, <1>9, <3>1
    <3>2. CASE i # 1
      <4>1. i - 1 \in 1 .. N
        BY <3>2
      <4> QED BY <1>1, <1>9, <3>2, <4>1
    <3> QED BY <3>1, <3>2
  <2> QED BY <1>1, <2>1
<1>11. F = Flat(F)
  BY <1>10
<1>12. \A i \in 1 .. N : F[i] = IF i = 1 THEN s[i] ELSE F[i - 1] \o s[i]
  BY <1>1, <1>11
<1>13. FlattenSeq(s) = IF N = 0 THEN s ELSE F[N]
  BY <1>1 DEF FlattenSeq
<1> HIDE DEF F, step
<1> DEFINE T == {n \in 0 .. N : (n = 0 \/ F[n] = B[n]) /\ B[n] \o W[n] = W[0]}
<1>14. 0 \in T
  BY <1>2a, <1>4, <1>8a
<1>15. ASSUME NEW n \in 0 .. N - 1, n \in T PROVE n + 1 \in T
  <2> DEFINE i == n + 1
  <2>1. i \in 1 .. N /\ i - 1 = n /\ (i = 1 <=> n = 0) /\ i \in 0 .. N
    OBVIOUS
  <2>2. (n = 0 \/ F[n] = B[n]) /\ B[n] \o W[n] = W[0]
    BY <1>15
  <2> HIDE DEF i
  <2>3. /\ F[i] = IF i = 1 THEN s[i] ELSE F[i - 1] \o s[i]
        /\ W[i - 1] = s[i] \o W[i] /\ W[i] \in Q
    BY <1>2a, <1>12, <2>1
  <2>4. /\ B[i] = B[i - 1] \o s[i]
        /\ i = 1 => B[i] = s[i]
        /\ B[i - 1] \in Q /\ s[i] \in Q
    BY <1>9, <2>1
  <2>5. F[i] = B[i]
    BY <2>1, <2>2, <2>3, <2>4
  <2>6. B[i] \o W[i] = W[0]
    <3>1. (B[i - 1] \o s[i]) \o W[i] = B[i - 1] \o (s[i] \o W[i])
      BY <1>5, <2>3, <2>4
    <3> QED BY <2>1, <2>2, <2>3, <2>4, <3>1
  <2> QED BY <2>1, <2>5, <2>6 DEF i
<1>16. \A n \in 0 .. N : n \in T
  <2> HIDE DEF T
  <2> QED BY <1>14, <1>15, UpTo
<1>17. W[0] = FlattenSeq(s)
  <2>1. (N = 0 \/ F[N] = B[N]) /\ B[N] \o W[N] = W[0] /\ B[N] \in Q
    BY <1>8a, <1>16
  <2>2. CASE N = 0
    <3>1. s = << >>
      BY <2>2
    <3> QED BY <1>2a, <1>13, <2>2, <3>1
  <2>3. CASE N # 0
    <3>1. B[N] \o << >> = B[N]
      BY <1>4, <2>1
    <3> QED BY <1>2a, <1>13, <2>1, <2>3, <3>1
  <2> QED BY <2>2, <2>3
<1> QED BY <1>2, <1>17
-----------------------------------------------------------------------------
(* A reader that takes several values apart.                               *)

\* A reader that has taken everything but rest, and one that is before w.
Done(rest, got) == [in |-> rest, ok |-> TRUE, got |-> got]
Reading(w, rest, got) == Done(w \o rest, got)

LEMMA TokensConcat ==
  /\ << >> \in Seq(Tokens)
  /\ \A a \in Seq(Tokens) : a \o << >> = a /\ << >> \o a = a
  /\ \A a, b \in Seq(Tokens) : a \o b \in Seq(Tokens)
  /\ \A a, b, c \in Seq(Tokens) : (a \o b) \o c = a \o (b \o c)
<1>1. << >> \in Seq(Tokens)
  BY EmptySeq
<1>2. \A a \in Seq(Tokens) : a \o << >> = a /\ << >> \o a = a
  BY ConcatEmptySeq
<1>3. \A a, b \in Seq(Tokens) : a \o b \in Seq(Tokens)
  BY ConcatProperties
<1>4. \A a, b, c \in Seq(Tokens) : (a \o b) \o c = a \o (b \o c)
  BY ConcatAssociative
<1> QED BY <1>1, <1>2, <1>3, <1>4

LEMMA SoundFlat ==
  ASSUME NEW N \in Nat, NEW s \in [1 .. N -> Seq(Tokens)], \A i \in 1 .. N : Sound(s[i])
  PROVE  Sound(FlattenSeq(s))
<1>1. PICK W : Leaves(W, N, Tokens, s) /\ W[0] = FlattenSeq(s)
  BY FlatOf
<1>2. W \in [0 .. N -> Seq(Tokens)] /\ W[N] = << >> /\ \A i \in 1 .. N : W[i - 1] = s[i] \o W[i]
  BY <1>1 DEF Leaves
<1> DEFINE T == {n \in 0 .. N : Sound(W[N - n])}
<1>3. 0 \in T
  <2>1. Sound(<< >>)
    BY EmptySeq DEF Sound
  <2> QED BY <1>2, <2>1
<1>4. ASSUME NEW n \in 0 .. N - 1, n \in T PROVE n + 1 \in T
  <2> DEFINE i == N - n
  <2>1. i \in 1 .. N /\ i - 1 = N - (n + 1) /\ n + 1 \in 0 .. N
    OBVIOUS
  <2>2. Sound(W[i])
    BY <1>4
  <2> HIDE DEF i
  <2>3. Sound(W[i - 1])
    BY <1>2, <2>1, <2>2, SoundConcat
  <2> QED BY <2>1, <2>3
<1>5. N \in T
  <2>1. N \in 0 .. N
    OBVIOUS
  <2> HIDE DEF T
  <2> QED BY <1>3, <1>4, <2>1, UpTo
<1>6. N - N = 0
  OBVIOUS
<1> QED BY <1>1, <1>5, <1>6

LEMMA AppendNext ==
  ASSUME NEW n \in Nat, NEW x, 1 .. n + 1 \subseteq DOMAIN x
  PROVE  Append([i \in 1 .. n |-> x[i]], x[n + 1]) = [i \in 1 .. n + 1 |-> x[i]]
<1> DEFINE S == {x[i] : i \in 1 .. n + 1}
           f == [i \in 1 .. n |-> x[i]]
           g == [i \in 1 .. n + 1 |-> x[i]]
<1>1. f \in Seq(S) /\ Len(f) = n /\ x[n + 1] \in S
  <2>1. f \in [1 .. n -> S] /\ x[n + 1] \in S
    OBVIOUS
  <2> HIDE DEF f
  <2>2. f \in Seq(S)
    BY <2>1, SeqDef
  <2> QED BY <2>1, <2>2, LenProperties
<1>2. g \in Seq(S) /\ Len(g) = n + 1
  <2>1. g \in [1 .. n + 1 -> S] /\ n + 1 \in Nat
    OBVIOUS
  <2> HIDE DEF g
  <2>2. g \in Seq(S)
    BY <2>1, SeqDef
  <2> QED BY <2>1, <2>2, LenProperties
<1> HIDE DEF S
<1>3. \A i \in 1 .. n : f[i] = x[i]
  OBVIOUS
<1>4. \A i \in 1 .. n + 1 : g[i] = x[i]
  OBVIOUS
<1> HIDE DEF f, g
<1> DEFINE a == Append(f, x[n + 1])
<1>5. a \in Seq(S) /\ Len(a) = n + 1 /\ (\A i \in 1 .. n : a[i] = f[i]) /\ a[n + 1] = x[n + 1]
  BY <1>1, AppendProperties
<1>6. \A i \in 1 .. n + 1 : a[i] = g[i]
  BY <1>3, <1>4, <1>5
<1> HIDE DEF a
<1>7. a = g
  BY <1>2, <1>5, <1>6, SeqEqual
<1> QED BY <1>7 DEF a, f, g

\* G takes the packed values s apart, one after the other, and gets the values x.
Follows(G, N, s, x, from) ==
  /\ G = [n \in 0 .. N |-> G[n]] /\ G[0] = Got(from, << >>)
  /\ \A n \in 1 .. N : \E rest \in Seq(Tokens) : \E got :
       G[n - 1] = Reading(s[n], rest, got) /\ G[n] = Done(rest, Append(got, x[n]))

LEMMA Readers ==
  ASSUME NEW N \in Nat, NEW s \in [1 .. N -> Seq(Tokens)], NEW X, NEW x \in [1 .. N -> X],
         NEW rest \in Seq(Tokens), NEW got
  PROVE  \E G : /\ Follows(G, N, s, x, Reading(FlattenSeq(s), rest, got))
                /\ G[N] = Done(rest, x)
<1>1. PICK W : Leaves(W, N, Tokens, s) /\ W[0] = FlattenSeq(s)
  BY FlatOf
<1>2. W \in [0 .. N -> Seq(Tokens)] /\ W[N] = << >> /\ \A i \in 1 .. N : W[i - 1] = s[i] \o W[i]
  BY <1>1 DEF Leaves
<1>2a. ASSUME NEW i \in 1 .. N
       PROVE  /\ s[i] \in Seq(Tokens) /\ W[i] \in Seq(Tokens)
              /\ W[i - 1] \o rest = s[i] \o (W[i] \o rest)
              /\ W[i] \o rest \in Seq(Tokens)
  <2> DEFINE Q == Seq(Tokens)
  <2>1. W \in [0 .. N -> Q] /\ s \in [1 .. N -> Q] /\ rest \in Q
    BY <1>2
  <2>2. /\ \A a, b \in Q : a \o b \in Q
        /\ \A a, b, c \in Q : (a \o b) \o c = a \o (b \o c)
    BY TokensConcat
  <2> HIDE DEF Q
  <2>3. s[i] \in Q /\ W[i] \in Q
    BY <2>1
  <2>4. W[i - 1] = s[i] \o W[i]
    BY <1>2
  <2>5. (s[i] \o W[i]) \o rest = s[i] \o (W[i] \o rest)
    BY <2>1, <2>2, <2>3, ZenonT(30)
  <2>6. W[i] \o rest \in Q
    BY <2>1, <2>2, <2>3
  <2>7. W[i - 1] \o rest = s[i] \o (W[i] \o rest)
    BY <2>4, <2>5
  <2> QED BY <2>3, <2>6, <2>7 DEF Q
<1> DEFINE so(n) == [i \in 1 .. n |-> x[i]]
           G == [n \in 0 .. N |-> Done(W[n] \o rest, so(n))]
           from == Reading(FlattenSeq(s), rest, got)
<1>3. G[0] = Got(from, << >>)
  <2>1. so(0) = << >>
    OBVIOUS
  <2>2. G[0] = Done(W[0] \o rest, << >>)
    BY <2>1
  <2>3. Got(from, << >>) = Done(FlattenSeq(s) \o rest, << >>)
    BY DEF Got, Done, Reading
  <2> QED BY <1>1, <2>2, <2>3
<1>4. G[N] = Done(rest, x)
  <2>1. so(N) = x
    OBVIOUS
  <2>2. W[N] \o rest = rest
    BY <1>2, ConcatEmptySeq
  <2>3. G[N] = Done(W[N] \o rest, so(N))
    OBVIOUS
  <2> QED BY <2>1, <2>2, <2>3
<1>5. ASSUME NEW n \in 1 .. N
      PROVE  \E later \in Seq(Tokens) : \E had :
               G[n - 1] = Reading(s[n], later, had) /\ G[n] = Done(later, Append(had, x[n]))
  <2>1. n - 1 \in Nat /\ n - 1 \in 0 .. N /\ (n - 1) + 1 = n
    OBVIOUS
  <2>2. 1 .. (n - 1) + 1 \subseteq DOMAIN x
    BY <2>1
  <2>3. Append(so(n - 1), x[n]) = so(n)
    <3> DEFINE m == n - 1
    <3>1. m \in Nat /\ m + 1 = n /\ 1 .. m + 1 \subseteq DOMAIN x
      BY <2>1, <2>2
    <3> HIDE DEF m
    <3>2. Append([i \in 1 .. m |-> x[i]], x[m + 1]) = [i \in 1 .. m + 1 |-> x[i]]
      BY <3>1, AppendNext
    <3> QED BY <3>1, <3>2 DEF m
  <2> HIDE DEF so
  <2>4. G[n - 1] = Done(W[n - 1] \o rest, so(n - 1)) /\ G[n] = Done(W[n] \o rest, so(n))
    BY <2>1
  <2>5. G[n - 1] = Reading(s[n], W[n] \o rest, so(n - 1))
    BY <1>2a, <2>4 DEF Reading
  <2>6. G[n] = Done(W[n] \o rest, Append(so(n - 1), x[n])) /\ W[n] \o rest \in Seq(Tokens)
    BY <1>2a, <2>3, <2>4
  <2> HIDE DEF G
  <2> QED BY <2>5, <2>6
<1>6. G = [n \in 0 .. N |-> G[n]]
  OBVIOUS
<1>7. Follows(G, N, s, x, from)
  <2> HIDE DEF G, from
  <2> QED BY <1>3, <1>5, <1>6 DEF Follows
<1> HIDE DEF G
<1> QED BY <1>4, <1>7

\* There is such a G.
Taken(N, s, x, rest, got) ==
  \E G : Follows(G, N, s, x, Reading(FlattenSeq(s), rest, got)) /\ G[N] = Done(rest, x)

LEMMA ReadersTake ==
  ASSUME NEW N \in Nat, NEW s \in [1 .. N -> Seq(Tokens)],
         NEW x, x = [i \in 1 .. N |-> x[i]], NEW rest \in Seq(Tokens), NEW got
  PROVE  Taken(N, s, x, rest, got)
<1>1. x \in [1 .. N -> {x[i] : i \in 1 .. N}]
  OBVIOUS
<1> QED BY <1>1, Readers, Zenon DEF Taken

LEMMA FlatTokens ==
  ASSUME NEW N \in Nat, NEW s \in [1 .. N -> Seq(Tokens)]
  PROVE  FlattenSeq(s) \in Seq(Tokens)
<1>1. PICK W : Leaves(W, N, Tokens, s) /\ W[0] = FlattenSeq(s)
  BY FlatOf
<1>2. W[0] \in Seq(Tokens)
  BY <1>1 DEF Leaves
<1> QED BY <1>1, <1>2
-----------------------------------------------------------------------------
(* Layer by layer: what an operator& packs, the same operator& unpacks.    *)

\* What Pack makes of v is whole, and Take takes it apart again.
Right(Pack(_, _, _), Take(_, _, _), type, v, p, u) ==
  /\ Pack(type, v, p) \in Seq(Tokens)
  /\ type \notin {"call", "code"} => Sound(Pack(type, v, p))
  /\ \A rest \in Seq(Tokens) : \A got :
       Take(type, Reading(Pack(type, v, p), rest, got), u)
         = Done(rest, Known(type, v, p))

\* The same for a series of values, each with its type.
AllRight(Pack(_, _, _), Take(_, _, _), N, parts, types, p, u) ==
  /\ PackEach(Pack, parts, p) \in Seq(Tokens)
  /\ (\A i \in 1 .. N : types[i] \notin {"call", "code"}) => Sound(PackEach(Pack, parts, p))
  /\ \A rest \in Seq(Tokens) : \A got :
       UnpackEach(Take, types, Reading(PackEach(Pack, parts, p), rest, got), u)
         = Done(rest, [i \in 1 .. N |-> Known(types[i], parts[i][2], p)])

LEMMA Each0 ==
  ASSUME NEW N \in Nat, NEW parts, DOMAIN parts = 1 .. N, NEW types, Len(types) = N,
         NEW p, NEW u, \A i \in 1 .. N : types[i] = parts[i][1],
         \A i \in 1 .. N : Right(Pack0, Unpack0, types[i], parts[i][2], p, u)
  PROVE  AllRight(Pack0, Unpack0, N, parts, types, p, u)
<1> DEFINE s == [i \in 1 .. N |-> Pack0(types[i], parts[i][2], p)]
           x == [i \in 1 .. N |-> Known(types[i], parts[i][2], p)]
<1>1. PackEach(Pack0, parts, p) = FlattenSeq(s)
  <2>1. [i \in DOMAIN parts |-> Pack0(parts[i][1], parts[i][2], p)] = s
    OBVIOUS
  <2> QED BY <2>1 DEF PackEach
<1>2. s \in [1 .. N -> Seq(Tokens)]
  BY DEF Right
<1>3. FlattenSeq(s) \in Seq(Tokens)
  <2> HIDE DEF s
  <2> QED BY <1>2, FlatTokens
<1>4. (\A i \in 1 .. N : types[i] \notin {"call", "code"}) => Sound(FlattenSeq(s))
  <2>1. (\A i \in 1 .. N : types[i] \notin {"call", "code"}) => \A i \in 1 .. N : Sound(s[i])
    BY DEF Right
  <2> HIDE DEF s
  <2> QED BY <1>2, <2>1, SoundFlat
<1>5. ASSUME NEW n \in 1 .. N, NEW rest \in Seq(Tokens), NEW got
      PROVE  Unpack0(types[n], Reading(s[n], rest, got), u) = Done(rest, x[n])
  BY DEF Right
<1>6. x = [i \in 1 .. N |-> x[i]]
  OBVIOUS
<1> HIDE DEF s, x
<1>7. ASSUME NEW rest \in Seq(Tokens), NEW got
      PROVE  UnpackEach(Unpack0, types, Reading(FlattenSeq(s), rest, got), u) = Done(rest, x)
  <2> DEFINE from == Reading(FlattenSeq(s), rest, got)
             Step(f) == [n \in 0 .. Len(types) |->
                           IF n = 0 THEN Got(from, << >>)
                           ELSE LET before == f[n - 1]
                                    e == Unpack0(types[n], before, u)
                                IN Got(e, Append(before.got, e.got))]
             F == CHOOSE f : f = Step(f)
  <2>1. PICK G : Follows(G, N, s, x, from) /\ G[N] = Done(rest, x)
    <3>1. Taken(N, s, x, rest, got)
      BY <1>2, <1>6, ReadersTake
    <3> QED BY <3>1, Zenon DEF Taken
  <2>2. ASSUME NEW n \in 1 .. N
        PROVE  LET e == Unpack0(types[n], G[n - 1], u)
               IN G[n] = Got(e, Append(G[n - 1].got, e.got))
    <3>1. PICK later, had :
            /\ later \in Seq(Tokens)
            /\ G[n - 1] = Reading(s[n], later, had) /\ G[n] = Done(later, Append(had, x[n]))
      BY <2>1 DEF Follows
    <3>2. Unpack0(types[n], G[n - 1], u) = Done(later, x[n])
      BY <1>5, <3>1, SMTT(30)
    <3>3. Done(later, x[n]).got = x[n] /\ G[n - 1].got = had
      BY <3>1 DEF Reading, Done
    <3>4. Got(Done(later, x[n]), Append(had, x[n])) = Done(later, Append(had, x[n]))
      BY DEF Done, Got
    <3> QED BY <3>1, <3>2, <3>3, <3>4
  <2>3. G = Step(G)
    <3>1. G = [n \in 0 .. N |-> G[n]] /\ G[0] = Got(from, << >>)
      BY <2>1 DEF Follows
    <3> HIDE DEF from
    <3>2. ASSUME NEW n \in 0 .. N PROVE G[n] = Step(G)[n]
      <4>1. CASE n = 0
        BY <3>1, <4>1
      <4>2. CASE n # 0
        <5>1. n \in 1 .. N
          BY <4>2
        <5> QED BY <2>2, <4>2, <5>1
      <4> QED BY <4>1, <4>2
    <3>3. Step(G) = [n \in 0 .. N |-> Step(G)[n]]
      OBVIOUS
    <3> HIDE DEF Step
    <3> QED BY <3>1, <3>2, <3>3
  <2>4. F = Step(F)
    BY <2>3
  <2>5. UnpackEach(Unpack0, types, from, u) = F[N]
    BY DEF UnpackEach
  <2> HIDE DEF F, from
  <2> DEFINE T == {n \in 0 .. N : F[n] = G[n]}
  <2>6. 0 \in T
    BY <2>3, <2>4
  <2>7. ASSUME NEW n \in 0 .. N - 1, n \in T PROVE n + 1 \in T
    BY <2>3, <2>4, <2>7
  <2>8. N \in T
    <3>1. N \in 0 .. N
      OBVIOUS
    <3> HIDE DEF T
    <3> QED BY <2>6, <2>7, <3>1, UpTo
  <2> QED BY <2>1, <2>5, <2>8 DEF from
<1> QED BY <1>1, <1>3, <1>4, <1>7 DEF AllRight, x

-----------------------------------------------------------------------------
(* The parts of a value and the elements of a list.                        *)

\* The types by the depth of their operator&.
Types0 == Atoms
Types1 == Types0 \cup {"double", "string", "call", "sizes", "unsigneds"}
Types2 == Types1 \cup {"complex", "range", "entry", "strings", "doubles"}
Types3 == Types2 \cup {"argInfo", "kwargs", "ranges"}
Types4 == Types3 \cup {"argInfos", "kwargsList"}

Inner(type) == IF type \in Types1 THEN Types0 ELSE IF type \in Types2 THEN Types1
               ELSE IF type \in Types3 THEN Types2 ELSE Types3

\* Both sides have the step of a range, or neither.
Ranged == {"range", "ranges", "argInfo", "argInfos"}
Agree(type, p, u) == type \in Ranged => (p >= SoapyRPCVersion <=> u >= SoapyRPCVersion)

LEMMA KnownPlain ==
  ASSUME NEW type, type \notin Ranged, NEW v, NEW p
  PROVE  Known(type, v, p) = v
BY DEF Known, Stepless, Ranged

\* The types are those that the unpacker expects, the values fit them and make the whole.
PartsFit(type, v, p, u) ==
  LET parts == PackParts(type, v, p)
      types == UnpackParts(type, u)
  IN /\ Len(types) \in Nat /\ DOMAIN parts = 1 .. Len(types)
     /\ \A i \in 1 .. Len(types) :
          /\ types[i] = parts[i][1] /\ IsA(types[i], parts[i][2])
          /\ Agree(types[i], p, u) /\ types[i] \in Inner(type)
          /\ type # "call" => types[i] \notin {"call", "code"}
     /\ Whole(type, [i \in 1 .. Len(types) |-> Known(types[i], parts[i][2], p)])
          = Known(type, v, p)

LEMMA PairParts ==
  ASSUME NEW type, NEW s, NEW a, NEW t, NEW b, NEW v, NEW p \in Int, NEW u \in Int,
         PackParts(type, v, p) = << << s, a >>, << t, b >> >>, UnpackParts(type, u) = << s, t >>,
         s \notin Ranged \cup {"call", "code"}, t \notin Ranged \cup {"call", "code"},
         IsA(s, a), IsA(t, b), s \in Inner(type), t \in Inner(type),
         \A x : x[1] = a /\ x[2] = b /\ Len(x) = 2 /\ x = << x[1], x[2] >>
                  => Whole(type, x) = Known(type, v, p)
  PROVE  PartsFit(type, v, p, u)
<1> DEFINE x == [i \in 1 .. 2 |-> Known(<< s, t >>[i], << << s, a >>, << t, b >> >>[i][2], p)]
<1>1. Known(s, a, p) = a /\ Known(t, b, p) = b
  BY KnownPlain
<1>2. x[1] = a /\ x[2] = b /\ Len(x) = 2 /\ x = << x[1], x[2] >>
  BY <1>1
<1>3. Whole(type, x) = Known(type, v, p)
  <2> HIDE DEF x
  <2> QED BY <1>2
<1>4. Agree(s, p, u) /\ Agree(t, p, u)
  BY DEF Agree
<1>5. ASSUME NEW i \in 1 .. 2
      PROVE  /\ << s, t >>[i] = << << s, a >>, << t, b >> >>[i][1]
             /\ IsA(<< s, t >>[i], << << s, a >>, << t, b >> >>[i][2])
             /\ Agree(<< s, t >>[i], p, u) /\ << s, t >>[i] \in Inner(type)
             /\ << s, t >>[i] \notin {"call", "code"}
  <2>1. CASE i = 1
    BY <1>4, <2>1
  <2>2. CASE i = 2
    BY <1>4, <2>2
  <2> QED BY <2>1, <2>2
<1> QED BY <1>3, <1>5 DEF PartsFit

LEMMA DoubleParts ==
  ASSUME NEW v, IsA("double", v), NEW p \in Int, NEW u \in Int
  PROVE  PartsFit("double", v, p, u)
<1> DEFINE e == v.exp + Bits(v.man)
           m == v.man * 2^(MantBits - Bits(v.man))
<1>1. v \in DoubleValues
  BY DEF IsA
<1>2. e \in Ints /\ m \in Int /\ Double(m, e - MantBits) = v
  BY <1>1, DoubleBack
<1>3. /\ PackParts("double", v, p) = << << "int", e >>, << "long", m >> >>
      /\ UnpackParts("double", u) = << "int", "long" >>
  BY DEF PackParts, PackDouble, UnpackParts
<1>4. Known("double", v, p) = v
  BY KnownPlain DEF Ranged
<1> HIDE DEF e, m
<1>5. \A x : x[1] = e /\ x[2] = m => Whole("double", x) = v
  BY <1>2 DEF Whole
<1>6. IsA("int", e) /\ IsA("long", m)
  BY <1>2 DEF IsA
<1>7. /\ "int" \in Inner("double") /\ "long" \in Inner("double")
      /\ "int" \notin Ranged \cup {"call", "code"} /\ "long" \notin Ranged \cup {"call", "code"}
  BY DEF Inner, Types1, Types0, Atoms, Ranged
<1> QED BY <1>3, <1>4, <1>5, <1>6, <1>7, PairParts

LEMMA ComplexParts ==
  ASSUME NEW v, IsA("complex", v), NEW p \in Int, NEW u \in Int
  PROVE  PartsFit("complex", v, p, u)
<1>1. v \in [re : DoubleValues, im : DoubleValues]
  BY DEF IsA
<1>2. v = [re |-> v.re, im |-> v.im] /\ IsA("double", v.re) /\ IsA("double", v.im)
  BY <1>1 DEF IsA
<1>3. /\ PackParts("complex", v, p) = << << "double", v.re >>, << "double", v.im >> >>
      /\ UnpackParts("complex", u) = << "double", "double" >>
  BY DEF PackParts, UnpackParts
<1>4. \A x : x[1] = v.re /\ x[2] = v.im /\ x = << x[1], x[2] >> => Whole("complex", x) = v
  BY <1>2 DEF Whole
<1>5. "double" \in Inner("complex") /\ "double" \notin Ranged \cup {"call", "code"}
  BY DEF Inner, Types2, Types1, Types0, Atoms, Ranged
<1>6. Known("complex", v, p) = v
  BY KnownPlain DEF Ranged
<1> QED BY <1>2, <1>3, <1>4, <1>5, <1>6, PairParts

LEMMA EntryParts ==
  ASSUME NEW v, IsA("entry", v), NEW p \in Int, NEW u \in Int
  PROVE  PartsFit("entry", v, p, u)
<1>1. v \in Texts \X Texts
  BY DEF IsA
<1>2. v = << v[1], v[2] >> /\ IsA("string", v[1]) /\ IsA("string", v[2])
  BY <1>1 DEF IsA
<1>3. /\ PackParts("entry", v, p) = << << "string", v[1] >>, << "string", v[2] >> >>
      /\ UnpackParts("entry", u) = << "string", "string" >>
  BY DEF PackParts, UnpackParts
<1>4. \A x : x[1] = v[1] /\ x[2] = v[2] /\ x = << x[1], x[2] >> => Whole("entry", x) = v
  BY <1>2 DEF Whole
<1>5. "string" \in Inner("entry") /\ "string" \notin Ranged \cup {"call", "code"}
  BY DEF Inner, Types2, Types1, Types0, Atoms, Ranged
<1>6. Known("entry", v, p) = v
  BY KnownPlain DEF Ranged
<1> QED BY <1>2, <1>3, <1>4, <1>5, <1>6, PairParts

LEMMA StringParts ==
  ASSUME NEW v, IsA("string", v), NEW p \in Int, NEW u \in Int
  PROVE  PartsFit("string", v, p, u)
<1> DEFINE n == Len(v)
<1>1. v \in Seq(Nat) /\ n \in Ints /\ SubSeq(v, 1, n) = v
  BY SubSeqFull DEF IsA, Texts, ListsOf
<1>2. /\ PackParts("string", v, p) = << << "int", n >>, << "bytes", v >> >>
      /\ UnpackParts("string", u) = << "int", "bytes" >>
  BY DEF PackParts, UnpackParts
<1>3. Known("string", v, p) = v
  BY KnownPlain DEF Ranged
<1> HIDE DEF n
<1>4. \A x : x[1] = n /\ x[2] = v => Whole("string", x) = v
  BY <1>1 DEF Whole
<1>5. IsA("int", n) /\ IsA("bytes", v)
  BY <1>1 DEF IsA
<1>6. /\ "int" \in Inner("string") /\ "bytes" \in Inner("string")
      /\ "int" \notin Ranged \cup {"call", "code"} /\ "bytes" \notin Ranged \cup {"call", "code"}
  BY DEF Inner, Types1, Types0, Atoms, Ranged
<1> QED BY <1>2, <1>3, <1>4, <1>5, <1>6, PairParts

LEMMA CallParts ==
  ASSUME NEW v, IsA("call", v), NEW p \in Int, NEW u \in Int
  PROVE  PartsFit("call", v, p, u)
<1>1. PackParts("call", v, p) = << << "code", v >> >> /\ UnpackParts("call", u) = << "code" >>
  BY DEF PackParts, UnpackParts
<1>2. Known("code", v, p) = v /\ Known("call", v, p) = v
  BY KnownPlain DEF Ranged
<1>3. IsA("code", v) /\ Agree("code", p, u) /\ "code" \in Inner("call")
  BY DEF IsA, Agree, Ranged, Inner, Types1, Types0, Atoms
<1> DEFINE x == [i \in 1 .. 1 |-> Known(<< "code" >>[i], << << "code", v >> >>[i][2], p)]
<1>4. x[1] = v
  BY <1>2
<1>5. Whole("call", x) = v
  <2> HIDE DEF x
  <2> QED BY <1>4 DEF Whole
<1> QED BY <1>1, <1>2, <1>3, <1>5 DEF PartsFit

\* A range goes with its step or without.
LEMMA RangeParts ==
  ASSUME NEW v, IsA("range", v), NEW p \in Int, NEW u \in Int, Agree("range", p, u)
  PROVE  PartsFit("range", v, p, u)
<1>1. v \in [min : DoubleValues, max : DoubleValues, step : DoubleValues]
  BY DEF IsA, RangeValues
<1>2. /\ v = [min |-> v.min, max |-> v.max, step |-> v.step]
      /\ IsA("double", v.min) /\ IsA("double", v.max) /\ IsA("double", v.step)
  BY <1>1 DEF IsA
<1>3. Agree("double", p, u) /\ "double" \in Inner("range")
  BY DEF Agree, Ranged, Inner, Types2, Types1, Types0, Atoms
<1>4. \A w : Known("double", w, p) = w
  BY KnownPlain DEF Ranged
<1>5. CASE p >= SoapyRPCVersion
  <2>1. u >= SoapyRPCVersion
    BY <1>5 DEF Agree, Ranged
  <2> DEFINE types == << "double", "double", "double" >>
             parts == << << "double", v.min >>, << "double", v.max >>, << "double", v.step >> >>
             x == [i \in 1 .. 3 |-> Known(types[i], parts[i][2], p)]
  <2>2. \A a, b, c : << a, b >> \o << c >> = << a, b, c >>
    <3> SUFFICES ASSUME NEW a, NEW b, NEW c PROVE << a, b >> \o << c >> = << a, b, c >>
      OBVIOUS
    <3> DEFINE S == {a, b, c}
    <3>1. /\ << a, b >> \in Seq(S) /\ << c >> \in Seq(S) /\ << a, b, c >> \in Seq(S)
          /\ Len(<< a, b >>) = 2 /\ Len(<< c >>) = 1 /\ Len(<< a, b, c >>) = 3
      OBVIOUS
    <3> HIDE DEF S
    <3>2. /\ << a, b >> \o << c >> \in Seq(S) /\ Len(<< a, b >> \o << c >>) = 3
          /\ \A i \in 1 .. 3 : (<< a, b >> \o << c >>)[i]
                               = IF i <= 2 THEN << a, b >>[i] ELSE << c >>[i - 2]
      BY <3>1, ConcatProperties
    <3>3. \A i \in 1 .. 3 : (<< a, b >> \o << c >>)[i] = << a, b, c >>[i]
      BY <3>2
    <3> QED BY <3>1, <3>2, <3>3, SeqEqual
  <2>3. UnpackParts("range", u) = types
    BY <2>1, <2>2 DEF UnpackParts, UnpackRange
  <2>4. PackParts("range", v, p) = parts
    BY <1>5, <2>2 DEF PackParts, PackRange
  <2>5. x[1] = v.min /\ x[2] = v.max /\ x[3] = v.step /\ Len(x) = 3
    BY <1>4
  <2>6. Whole("range", x) = v
    <3> HIDE DEF x
    <3> QED BY <1>2, <2>5 DEF Whole
  <2>7. Known("range", v, p) = v
    BY <1>5 DEF Known
  <2>8. ASSUME NEW i \in 1 .. 3
        PROVE  /\ types[i] = parts[i][1] /\ IsA(types[i], parts[i][2])
               /\ Agree(types[i], p, u) /\ types[i] \in Inner("range")
               /\ types[i] \notin {"call", "code"}
    <3>1. types[i] = "double"
      OBVIOUS
    <3> QED BY <1>2, <1>3, <3>1
  <2>9. Len(types) = 3 /\ DOMAIN parts = 1 .. 3
    OBVIOUS
  <2> QED BY <2>3, <2>4, <2>6, <2>7, <2>8, <2>9 DEF PartsFit
<1>6. CASE ~ (p >= SoapyRPCVersion)
  <2>1. ~ (u >= SoapyRPCVersion)
    BY <1>6 DEF Agree, Ranged
  <2>2. UnpackParts("range", u) = << "double", "double" >>
    BY <2>1 DEF UnpackParts, UnpackRange
  <2>3. PackParts("range", v, p) = << << "double", v.min >>, << "double", v.max >> >>
    BY <1>6 DEF PackParts, PackRange
  <2>4. Known("range", v, p) = [v EXCEPT !.step = Double(0, 0)]
    BY <1>6 DEF Known, Stepless
  <2>5. [v EXCEPT !.step = Double(0, 0)] = [min |-> v.min, max |-> v.max, step |-> Double(0, 0)]
    BY <1>1
  <2>6. \A x : x[1] = v.min /\ x[2] = v.max /\ Len(x) = 2
               => Whole("range", x) = Known("range", v, p)
    BY <2>4, <2>5 DEF Whole
  <2>7. "double" \notin Ranged \cup {"call", "code"}
    BY DEF Ranged
  <2> QED BY <1>2, <1>3, <2>2, <2>3, <2>6, <2>7, PairParts
<1> QED BY <1>5, <1>6

LEMMA ArgInfoParts ==
  ASSUME NEW v, IsA("argInfo", v), NEW p \in Int, NEW u \in Int, Agree("argInfo", p, u)
  PROVE  PartsFit("argInfo", v, p, u)
<1> DEFINE types == << "string", "string", "string", "string", "string", "int", "range",
                       "strings", "strings" >>
           parts == << << "string", v.key >>, << "string", v.value >>, << "string", v.name >>,
                       << "string", v.description >>, << "string", v.units >>,
                       << "int", v.type >>, << "range", v.range >>,
                       << "strings", v.options >>, << "strings", v.optionNames >> >>
           x == [i \in 1 .. 9 |-> Known(types[i], parts[i][2], p)]
<1>1. v \in ArgInfoValues
  BY DEF IsA
<1>2. v = [key |-> v.key, value |-> v.value, name |-> v.name, description |-> v.description,
           units |-> v.units, type |-> v.type, range |-> v.range, options |-> v.options,
           optionNames |-> v.optionNames]
  BY <1>1 DEF ArgInfoValues
<1>3. /\ v.key \in Texts /\ v.value \in Texts /\ v.name \in Texts /\ v.description \in Texts
      /\ v.units \in Texts /\ v.type \in Ints /\ v.range \in RangeValues
      /\ v.options \in ListsOf(Texts) /\ v.optionNames \in ListsOf(Texts)
  BY <1>1 DEF ArgInfoValues
<1>4. /\ \A w \in Texts : IsA("string", w)
      /\ \A w \in Ints : IsA("int", w)
      /\ \A w \in RangeValues : IsA("range", w)
      /\ \A w \in ListsOf(Texts) : IsA("strings", w)
  BY DEF IsA
<1>5. /\ Agree("string", p, u) /\ Agree("int", p, u) /\ Agree("range", p, u)
      /\ Agree("strings", p, u)
  BY DEF Agree, Ranged
<1>6. /\ "string" \in Inner("argInfo") /\ "int" \in Inner("argInfo")
      /\ "range" \in Inner("argInfo") /\ "strings" \in Inner("argInfo")
  BY DEF Inner, Types3, Types2, Types1, Types0, Atoms
<1>7. PackParts("argInfo", v, p) = parts
  BY DEF PackParts, PackArgInfo
<1>8. UnpackParts("argInfo", u) = types
  BY DEF UnpackParts
<1>9. Len(types) = 9 /\ DOMAIN parts = 1 .. 9
  OBVIOUS
<1>10. ASSUME NEW i \in 1 .. 9
       PROVE  /\ types[i] = parts[i][1] /\ IsA(types[i], parts[i][2])
              /\ Agree(types[i], p, u) /\ types[i] \in Inner("argInfo")
              /\ types[i] \notin {"call", "code"}
  <2>1. CASE i \in 1 .. 5
    <3>1. types[i] = "string" /\ parts[i][1] = "string" /\ parts[i][2] \in Texts
      BY <1>3, <2>1
    <3> QED BY <1>4, <1>5, <1>6, <3>1
  <2>2. CASE i = 6
    <3>1. types[i] = "int" /\ parts[i][1] = "int" /\ parts[i][2] \in Ints
      BY <1>3, <2>2
    <3> QED BY <1>4, <1>5, <1>6, <3>1
  <2>3. CASE i = 7
    <3>1. types[i] = "range" /\ parts[i][1] = "range" /\ parts[i][2] \in RangeValues
      BY <1>3, <2>3
    <3> QED BY <1>4, <1>5, <1>6, <3>1
  <2>4. CASE i \in 8 .. 9
    <3>1. types[i] = "strings" /\ parts[i][1] = "strings" /\ parts[i][2] \in ListsOf(Texts)
      BY <1>3, <2>4
    <3> QED BY <1>4, <1>5, <1>6, <3>1
  <2> QED BY <2>1, <2>2, <2>3, <2>4
<1>11. \A w : Known("string", w, p) = w /\ Known("int", w, p) = w /\ Known("strings", w, p) = w
  BY KnownPlain DEF Ranged
<1>12. /\ x[1] = v.key /\ x[2] = v.value /\ x[3] = v.name /\ x[4] = v.description
       /\ x[5] = v.units /\ x[6] = v.type /\ x[7] = Known("range", v.range, p)
       /\ x[8] = v.options /\ x[9] = v.optionNames
  BY <1>11
<1> HIDE DEF x
<1>13. Whole("argInfo", x)
         = [key |-> v.key, value |-> v.value, name |-> v.name, description |-> v.description,
            units |-> v.units, type |-> v.type, range |-> Known("range", v.range, p),
            options |-> v.options, optionNames |-> v.optionNames]
  BY <1>12 DEF Whole
<1>14. Whole("argInfo", x) = Known("argInfo", v, p)
  <2>1. CASE p >= SoapyRPCVersion
    <3>1. Known("range", v.range, p) = v.range /\ Known("argInfo", v, p) = v
      BY <2>1 DEF Known
    <3> QED BY <1>2, <1>13, <3>1
  <2>2. CASE ~ (p >= SoapyRPCVersion)
    <3> DEFINE r == [v.range EXCEPT !.step = Double(0, 0)]
    <3>1. Known("range", v.range, p) = r /\ Known("argInfo", v, p) = [v EXCEPT !.range = r]
      BY <2>2 DEF Known, Stepless
    <3> HIDE DEF r
    <3>2. [v EXCEPT !.range = r]
            = [key |-> v.key, value |-> v.value, name |-> v.name, description |-> v.description,
               units |-> v.units, type |-> v.type, range |-> r,
               options |-> v.options, optionNames |-> v.optionNames]
      BY <1>1 DEF ArgInfoValues
    <3> QED BY <1>13, <3>1, <3>2
  <2> QED BY <2>1, <2>2
<1> QED BY <1>7, <1>8, <1>9, <1>10, <1>14 DEF PartsFit, x

LEMMA PartsOf ==
  ASSUME NEW type \in Types4, type \notin Atoms, type \notin DOMAIN Lists,
         NEW v, IsA(type, v), NEW p \in Int, NEW u \in Int, Agree(type, p, u)
  PROVE  PartsFit(type, v, p, u)
<1>1. type \in {"double", "string", "call", "complex", "range", "entry", "argInfo"}
  BY DEF Types4, Types3, Types2, Types1, Types0, Atoms, Lists
<1> QED BY <1>1, DoubleParts, StringParts, CallParts, ComplexParts, RangeParts, EntryParts,
           ArgInfoParts

\* What is packed after the size of a list, and what is made of what is unpacked.
Elements(type, v) == IF type = "kwargs" THEN Entries(v) ELSE v

ListFits(type, v, p, u) ==
  LET list == Elements(type, v)
      N == Len(list)
  IN /\ N \in Nat /\ N \in Ints /\ DOMAIN list = 1 .. N
     /\ Lists[type] \in Inner(type) /\ Lists[type] \notin {"call", "code"}
     /\ \A i \in 1 .. N : IsA(Lists[type], list[i])
     /\ Agree(Lists[type], p, u)
     /\ Whole(type, [i \in 1 .. N |-> Known(Lists[type], list[i], p)]) = Known(type, v, p)

LEMMA ListParts ==
  ASSUME NEW type \in DOMAIN Lists, type # "kwargs",
         NEW S, NEW v \in ListsOf(S), \A w \in S : IsA(Lists[type], w),
         NEW p \in Int, NEW u \in Int, Agree(type, p, u)
  PROVE  ListFits(type, v, p, u)
<1> DEFINE N == Len(v)
           e == Lists[type]
           x == [i \in 1 .. N |-> Known(e, v[i], p)]
<1>1. N \in Nat /\ N \in Ints /\ DOMAIN v = 1 .. N /\ v = [i \in 1 .. N |-> v[i]]
  BY LenProperties DEF ListsOf
<1>2. \A i \in 1 .. N : IsA(e, v[i])
  BY ElementOfSeq DEF ListsOf
<1>3. e \in Inner(type) /\ e \notin {"call", "code"} /\ Agree(e, p, u)
  BY DEF Lists, Inner, Types3, Types2, Types1, Types0, Atoms, Agree, Ranged
<1>4. Whole(type, x) = x
  BY DEF Whole, Lists
<1>5. x = Known(type, v, p)
  <2>1. CASE p >= SoapyRPCVersion
    <3>1. \A i \in 1 .. N : Known(e, v[i], p) = v[i]
      BY <2>1 DEF Known
    <3>2. x = v
      BY <1>1, <3>1
    <3> QED BY <2>1, <3>2 DEF Known
  <2>2. CASE ~ (p >= SoapyRPCVersion) /\ type \in Ranged
    <3>0. type = "ranges" \/ type = "argInfos"
      BY <2>2 DEF Lists, Ranged
    <3>1. (type = "ranges" /\ e = "range") \/ (type = "argInfos" /\ e = "argInfo")
      BY <3>0 DEF Lists
    <3> QED BY <1>1, <2>2, <3>1 DEF Known, Stepless
  <2>3. CASE type \notin Ranged
    <3>1. e \notin Ranged
      BY <2>3 DEF Lists, Ranged
    <3>2. \A i \in 1 .. N : Known(e, v[i], p) = v[i]
      BY <3>1, KnownPlain
    <3>3. x = v
      BY <1>1, <3>2
    <3> QED BY <2>3, <3>3, KnownPlain
  <2> QED BY <2>1, <2>2, <2>3
<1> QED BY <1>1, <1>2, <1>3, <1>4, <1>5 DEF ListFits, Elements

\* A map goes as its entries, in any order, and comes back.
LEMMA KwargsParts ==
  ASSUME NEW v, IsKwargs(v), NEW p \in Int, NEW u \in Int
  PROVE  ListFits("kwargs", v, p, u)
<1> DEFINE D == DOMAIN v
           N == Cardinality(D)
           keys == SetToSeq(D)
           list == Entries(v)
<1>1. /\ v = [k \in D |-> v[k]] /\ IsFiniteSet(D) /\ N \in Ints
      /\ \A k \in D : k \in Texts /\ v[k] \in Texts
  BY DEF IsKwargs
<1>2. N \in Nat /\ ExistsBijection(1 .. N, D)
  BY <1>1, FS_CardinalityType
<1>3. keys \in [1 .. N -> D] /\ IsInjective(keys)
  <2>1. PICK f \in [1 .. N -> D] : IsInjective(f)
    BY <1>2 DEF ExistsBijection, Bijection, Injection, IsInjective
  <2> QED BY <2>1 DEF SetToSeq
<1>4. \A k \in D : \E i \in 1 .. N : keys[i] = k
  <2>1. keys \in Injection(1 .. N, D)
    BY <1>3 DEF Injection, IsInjective
  <2>2. N = Cardinality(1 .. N)
    BY <1>2, FS_Interval
  <2>3. keys \in Surjection(1 .. N, D)
    BY <1>1, <2>1, <2>2, FS_Injection
  <2> QED BY <2>3 DEF Surjection
<1>5. list = [i \in 1 .. N |-> << keys[i], v[keys[i]] >>]
  BY <1>3 DEF Entries
<1> HIDE DEF keys
<1>6. Len(list) = N /\ DOMAIN list = 1 .. N
  BY <1>2, <1>5
<1>8. \A i \in 1 .. N : keys[i] \in D
  BY <1>3
<1>9. \A i \in 1 .. N : IsA("entry", list[i]) /\ Known("entry", list[i], p) = list[i]
  BY <1>1, <1>5, <1>8, KnownPlain DEF IsA, Ranged
<1>10. Known("kwargs", v, p) = v
  BY KnownPlain DEF Ranged
<1>11. \A i, j \in 1 .. N : keys[i] = keys[j] => i = j
  BY <1>3 DEF IsInjective
<1> DEFINE x == [i \in 1 .. N |-> Known("entry", list[i], p)]
<1>12. /\ DOMAIN x = 1 .. N
       /\ \A i \in 1 .. N : x[i] = << keys[i], v[keys[i]] >>
  BY <1>5, <1>9
<1> HIDE DEF x, list
<1>13. KwargsOf(x) = v
  <2> DEFINE At(k) == CHOOSE i \in DOMAIN x :
                        x[i][1] = k /\ \A j \in DOMAIN x : x[j][1] = k => j <= i
  <2>1. ASSUME NEW i \in 1 .. N PROVE At(keys[i]) = i
    <3>1. \A j \in 1 .. N : x[j][1] = keys[i] => j = i
      BY <1>11, <1>12
    <3>2. x[i][1] = keys[i]
      BY <1>12
    <3>3. i \in Int /\ i <= i
      OBVIOUS
    <3> QED BY <1>12, <3>1, <3>2, <3>3
  <2>2. {x[i][1] : i \in DOMAIN x} = D
    <3>1. \A i \in DOMAIN x : i \in 1 .. N /\ x[i][1] = keys[i]
      BY <1>12
    <3>2. \A k \in D : \E i \in DOMAIN x : k = x[i][1]
      BY <1>4, <1>12, <3>1
    <3> HIDE DEF D
    <3> QED BY <1>8, <3>1, <3>2
  <2>3. ASSUME NEW k \in D PROVE x[At(k)][2] = v[k]
    <3>1. PICK i \in 1 .. N : keys[i] = k
      BY <1>4
    <3>2. At(k) = i
      BY <2>1, <3>1
    <3> HIDE DEF At
    <3> QED BY <1>12, <3>1, <3>2
  <2>4. KwargsOf(x) = [k \in D |-> x[At(k)][2]]
    BY <2>2 DEF KwargsOf
  <2> HIDE DEF At
  <2> QED BY <1>1, <2>3, <2>4
<1>14. Whole("kwargs", x) = v
  BY <1>13 DEF Whole
<1>15. /\ Lists["kwargs"] = "entry" /\ "entry" \in Inner("kwargs") /\ Agree("entry", p, u)
  BY DEF Lists, Inner, Types3, Types2, Types1, Types0, Atoms, Agree, Ranged
<1>16. Elements("kwargs", v) = list
  BY DEF Elements, list
<1> QED BY <1>1, <1>2, <1>6, <1>9, <1>10, <1>14, <1>15, <1>16 DEF ListFits, x

LEMMA ListOf ==
  ASSUME NEW type \in DOMAIN Lists, NEW v, IsA(type, v), NEW p \in Int, NEW u \in Int,
         Agree(type, p, u)
  PROVE  ListFits(type, v, p, u)
<1>1. CASE type = "kwargs"
  <2>1. IsKwargs(v)
    BY <1>1 DEF IsA
  <2> QED BY <1>1, <2>1, KwargsParts
<1>2. CASE type # "kwargs"
  <2>1. \E S : v \in ListsOf(S) /\ \A w \in S : IsA(Lists[type], w)
    <3>1. CASE type = "kwargsList"
      <4>1. v \in ListsOf(Range(v)) /\ \A i \in DOMAIN v : IsKwargs(v[i])
        BY <3>1 DEF IsA
      <4>2. \A w \in Range(v) : IsA("kwargs", w)
        BY <4>1 DEF IsA, Range
      <4> QED BY <3>1, <4>1, <4>2 DEF Lists
    <3>2. CASE type \in {"strings", "doubles", "ranges"}
      <4>1. /\ \A w \in Texts : IsA("string", w)
            /\ \A w \in DoubleValues : IsA("double", w)
            /\ \A w \in RangeValues : IsA("range", w)
        BY DEF IsA
      <4> QED BY <3>2, <4>1 DEF Lists, IsA
    <3>3. CASE type \in {"sizes", "unsigneds", "argInfos"}
      <4>1. /\ \A w \in Sizes : IsA("size", w)
            /\ \A w \in Unsigneds : IsA("unsigned", w)
            /\ \A w \in ArgInfoValues : IsA("argInfo", w)
        BY DEF IsA
      <4> QED BY <3>3, <4>1 DEF Lists, IsA
    <3> QED BY <1>2, <3>1, <3>2, <3>3 DEF Lists
  <2> QED BY <1>2, <2>1, ListParts
<1> QED BY <1>1, <1>2
-----------------------------------------------------------------------------
(* Type bytes and atoms.                                                   *)

LEMMA FirstToken ==
  ASSUME NEW t \in Tokens, NEW s \in Seq(Tokens)
  PROVE  /\ << t >> \o s \in Seq(Tokens) /\ << t >> \o s # << >>
         /\ Head(<< t >> \o s) = t /\ Tail(<< t >> \o s) = s
         /\ Len(<< t >> \o s) = Len(s) + 1
         /\ \A i \in 1 .. Len(s) : (<< t >> \o s)[i + 1] = s[i]
<1>1. << t >> \in Seq(Tokens) /\ Len(<< t >>) = 1 /\ << t >>[1] = t
  OBVIOUS
<1> DEFINE z == << t >> \o s
<1>2. /\ z \in Seq(Tokens) /\ Len(z) = 1 + Len(s) /\ Len(s) \in Nat
      /\ \A i \in 1 .. 1 + Len(s) : z[i] = IF i <= 1 THEN << t >>[i] ELSE s[i - 1]
  BY <1>1, ConcatProperties, LenProperties
<1>3. z # << >> /\ z[1] = t
  BY <1>2
<1>3a. Len(z) = Len(s) + 1 /\ \A i \in 1 .. Len(s) : z[i + 1] = s[i]
  <2>1. ASSUME NEW i \in 1 .. Len(s) PROVE z[i + 1] = s[i]
    <3>1. i + 1 \in 1 .. 1 + Len(s) /\ ~ (i + 1 <= 1) /\ (i + 1) - 1 = i
      BY <1>2
    <3> HIDE DEF z
    <3> QED BY <1>2, <3>1
  <2> QED BY <1>2, <2>1
<1> HIDE DEF z
<1>4. /\ Head(z) = z[1] /\ Tail(z) \in Seq(Tokens) /\ Len(Tail(z)) = Len(z) - 1
      /\ \A i \in 1 .. Len(Tail(z)) : Tail(z)[i] = z[i + 1]
  BY <1>2, <1>3, HeadTailProperties
<1>5. Tail(z) = s
  <2>1. Len(Tail(z)) = Len(s)
    BY <1>2, <1>4
  <2>2. \A i \in 1 .. Len(s) : Tail(z)[i] = s[i]
    BY <1>2, <1>4, <2>1
  <2> QED BY <1>4, <2>1, <2>2, SeqEqual
<1> QED BY <1>2, <1>3, <1>3a, <1>4, <1>5 DEF z

LEMMA BytesAre ==
  /\ \A type \in {"int", "size", "unsigned", "code"} :
       type \in DOMAIN TypeBytes /\ TypeBytes[type] = "INT32"
  /\ \A type \in Types4 \ {"int", "size", "unsigned", "code", "bytes", "entry"} :
       type \in DOMAIN TypeBytes /\ TypeBytes[type] \notin {"INT32", "VOID", "EXCEPTION"}
  /\ "bytes" \notin DOMAIN TypeBytes /\ "entry" \notin DOMAIN TypeBytes
<1>1. /\ TypeBytes["char"] = "CHAR" /\ TypeBytes["bool"] = "BOOL" /\ TypeBytes["int"] = "INT32"
      /\ TypeBytes["size"] = "INT32" /\ TypeBytes["unsigned"] = "INT32"
      /\ TypeBytes["code"] = "INT32" /\ TypeBytes["long"] = "INT64"
  BY DEF TypeBytes
<1>2. /\ TypeBytes["double"] = "FLOAT64" /\ TypeBytes["complex"] = "COMPLEX128"
      /\ TypeBytes["string"] = "STRING" /\ TypeBytes["range"] = "RANGE"
      /\ TypeBytes["argInfo"] = "ARG_INFO" /\ TypeBytes["call"] = "CALL"
  BY DEF TypeBytes
<1>3. /\ TypeBytes["strings"] = "STRING_LIST" /\ TypeBytes["doubles"] = "FLOAT64_LIST"
      /\ TypeBytes["ranges"] = "RANGE_LIST" /\ TypeBytes["sizes"] = "SIZE_LIST"
      /\ TypeBytes["unsigneds"] = "SIZE_LIST" /\ TypeBytes["argInfos"] = "ARG_INFO_LIST"
      /\ TypeBytes["kwargs"] = "KWARGS" /\ TypeBytes["kwargsList"] = "KWARGS_LIST"
  BY DEF TypeBytes
<1>4. DOMAIN TypeBytes =
        {"char", "bool", "int", "size", "unsigned", "long", "double", "complex", "string",
         "range", "argInfo", "strings", "doubles", "ranges", "sizes", "unsigneds", "argInfos",
         "kwargs", "kwargsList", "call", "code", "void", "exception"}
  BY DEF TypeBytes
<1>5. Types4 \ {"int", "size", "unsigned", "code", "bytes", "entry"} =
        {"char", "bool", "long", "double", "complex", "string", "range", "argInfo", "strings",
         "doubles", "ranges", "sizes", "unsigneds", "argInfos", "kwargs", "kwargsList", "call"}
  BY DEF Types4, Types3, Types2, Types1, Types0, Atoms
<1> DEFINE Others == {"CHAR", "BOOL", "INT64", "FLOAT64", "COMPLEX128", "STRING", "RANGE",
                      "ARG_INFO", "CALL", "STRING_LIST", "FLOAT64_LIST", "RANGE_LIST",
                      "SIZE_LIST", "ARG_INFO_LIST", "KWARGS", "KWARGS_LIST"}
<1>6. \A x \in Others : x \notin {"INT32", "VOID", "EXCEPTION"}
  OBVIOUS
<1>7. \A type \in {"int", "size", "unsigned", "code"} :
        type \in DOMAIN TypeBytes /\ TypeBytes[type] = "INT32"
  BY <1>1, <1>4
<1>8. ASSUME NEW type \in Types4 \ {"int", "size", "unsigned", "code", "bytes", "entry"}
      PROVE  type \in DOMAIN TypeBytes /\ TypeBytes[type] \in Others
  <2>1. CASE type \in {"char", "bool", "long"}
    BY <1>1, <1>4, <2>1
  <2>2. CASE type \in {"double", "complex", "string", "range", "argInfo", "call"}
    BY <1>2, <1>4, <2>2
  <2>3. CASE type \in {"strings", "doubles", "ranges", "sizes", "unsigneds", "argInfos", "kwargs",
                       "kwargsList"}
    BY <1>3, <1>4, <2>3
  <2> QED BY <1>5, <2>1, <2>2, <2>3
<1>9. "bytes" \notin DOMAIN TypeBytes /\ "entry" \notin DOMAIN TypeBytes
  BY <1>4
<1> HIDE DEF Others
<1> QED BY <1>6, <1>7, <1>8, <1>9

LEMMA TypesAre ==
  \A type \in Types4 :
    \/ /\ type \in DOMAIN TypeBytes /\ Tag(type) \in Tokens
       /\ type \notin {"int", "size", "unsigned", "code"} => Tag(type) # Tag("int")
    \/ type \in {"bytes", "entry"} /\ type \notin DOMAIN TypeBytes
<1>1. \A type \in DOMAIN TypeBytes : Tag(type) \in Tokens
  BY DEF Tag, Tokens
<1>2. Tag("int") = [kind |-> "tag", of |-> "INT32"]
  BY BytesAre DEF Tag
<1>3. ASSUME NEW type \in {"int", "size", "unsigned", "code"}
      PROVE  type \in DOMAIN TypeBytes /\ Tag(type) \in Tokens
  <2>1. TypeBytes[type] = "INT32" /\ type \in DOMAIN TypeBytes
    BY BytesAre
  <2> QED BY <1>1, <2>1
<1>4. ASSUME NEW type \in Types4 \ {"int", "size", "unsigned", "code", "bytes", "entry"}
      PROVE  type \in DOMAIN TypeBytes /\ Tag(type) \in Tokens /\ Tag(type) # Tag("int")
  <2>1. TypeBytes[type] # "INT32" /\ type \in DOMAIN TypeBytes
    BY BytesAre
  <2> QED BY <1>1, <1>2, <2>1 DEF Tag
<1> QED BY <1>3, <1>4, BytesAre

LEMMA TagBack ==
  ASSUME NEW type \in Types4, NEW w \in Seq(Tokens)
  PROVE  /\ Tags(type) \o w \in Seq(Tokens)
         /\ type \notin {"int", "size", "unsigned", "code"} /\ Sound(w)
              => Sound(Tags(type) \o w)
         /\ \A rest \in Seq(Tokens) : \A got :
              AfterTag(type, Reading(Tags(type) \o w, rest, got)) = Reading(w, rest, got)
<1>1. CASE type \in DOMAIN TypeBytes /\ Tag(type) \in Tokens
           /\ (type \notin {"int", "size", "unsigned", "code"} => Tag(type) # Tag("int"))
  <2> DEFINE t == Tag(type)
  <2>1. Tags(type) = << t >> /\ t \in Tokens /\ << t >> \in Seq(Tokens)
    BY <1>1 DEF Tags
  <2>2. << t >> \o w \in Seq(Tokens)
    BY <2>1, FirstToken
  <2>3. ASSUME type \notin {"int", "size", "unsigned", "code"}, Sound(w) PROVE Sound(<< t >> \o w)
    <3>1. t # Tag("int") /\ Len(<< t >>) = 1 /\ << t >>[1] = t
      BY <1>1, <2>3
    <3> HIDE DEF t
    <3>2. Sound(<< t >>)
      BY <2>1, <3>1 DEF Sound
    <3> QED BY <2>3, <3>2, SoundConcat
  <2>4. ASSUME NEW rest \in Seq(Tokens), NEW got
        PROVE  AfterTag(type, Reading(<< t >> \o w, rest, got)) = Reading(w, rest, got)
    <3> DEFINE s == w \o rest
               r == Done(<< t >> \o s, got)
    <3>1. s \in Seq(Tokens) /\ (<< t >> \o w) \o rest = << t >> \o s
      BY <2>1, TokensConcat
    <3>2. Reading(<< t >> \o w, rest, got) = r
      BY <3>1 DEF Reading
    <3> HIDE DEF s
    <3>3. << t >> \o s # << >> /\ Head(<< t >> \o s) = t /\ Tail(<< t >> \o s) = s
      BY <2>1, <3>1, FirstToken
    <3>4. TypeIs(r, type) = Done(s, got)
      BY <3>3 DEF TypeIs, Done
    <3> QED BY <1>1, <3>2, <3>4 DEF AfterTag, Reading, s
  <2> QED BY <2>1, <2>2, <2>3, <2>4
<1>2. CASE type \notin DOMAIN TypeBytes
  <2>1. Tags(type) = << >>
    BY <1>2 DEF Tags
  <2>2. << >> \o w = w
    BY TokensConcat
  <2> QED BY <1>2, <2>1, <2>2 DEF AfterTag
<1> QED BY <1>1, <1>2, TypesAre

\* A blob holds an atom in the width of its type.
LEMMA AtomBlob ==
  ASSUME NEW type \in Atoms, NEW v, IsA(type, v)
  PROVE  /\ PackAtom(type, v) \in Tokens /\ PackAtom(type, v).kind = "blob"
         /\ type \in {"int", "size", "unsigned"} => PackAtom(type, v).of \in Ints
         /\ Atom(type, PackAtom(type, v).of) = v
<1>1. CASE type = "bool"
  <2>1. v \in BOOLEAN
    BY <1>1 DEF IsA
  <2>2. PackAtom(type, v) = Blob(IF v THEN 1 ELSE 0)
    BY <1>1 DEF PackAtom
  <2>3. \A x : Atom(type, x) = (x # 0)
    BY <1>1, Zenon DEF Atom
  <2>4. Blob(1) \in Tokens /\ Blob(0) \in Tokens
    BY DEF Blob, Tokens
  <2>5. \A x : Blob(x).kind = "blob" /\ Blob(x).of = x
    BY DEF Blob
  <2>6. CASE v = TRUE
    <3>1. PackAtom(type, v) = Blob(1)
      BY <2>2, <2>6
    <3>2. 1 # 0
      OBVIOUS
    <3>3. Atom(type, 1) = v
      BY <2>3, <2>6, <3>2, Zenon
    <3> QED BY <1>1, <2>4, <2>5, <3>1, <3>3
  <2>7. CASE v = FALSE
    <3>1. PackAtom(type, v) = Blob(0)
      BY <2>2, <2>7
    <3>2. Atom(type, 0) = v
      BY <2>3, <2>7, Zenon
    <3> QED BY <1>1, <2>4, <2>5, <3>1, <3>2
  <2> QED BY <2>1, <2>6, <2>7
<1>2. CASE type = "size"
  <2>1. ToInt(v) \in Ints /\ ToSize(ToInt(v)) = v
    BY <1>2, SizeBack DEF IsA
  <2>2. PackAtom(type, v) = Blob(ToInt(v)) /\ Atom(type, ToInt(v)) = ToSize(ToInt(v))
    BY <1>2 DEF PackAtom, Atom
  <2> QED BY <2>1, <2>2, IntsAre DEF Blob, Tokens
<1>3. CASE type = "unsigned"
  <2>1. ToInt(v) \in Ints /\ ToUnsigned(ToInt(v)) = v
    BY <1>3, UnsignedBack DEF IsA
  <2>2. PackAtom(type, v) = Blob(ToInt(v)) /\ Atom(type, ToInt(v)) = ToUnsigned(ToInt(v))
    BY <1>3 DEF PackAtom, Atom
  <2> QED BY <2>1, <2>2, IntsAre DEF Blob, Tokens
<1>4. CASE type \in {"char", "int", "long", "bytes", "code"}
  <2>1. PackAtom(type, v) = Blob(v) /\ Atom(type, v) = v
    BY <1>4 DEF PackAtom, Atom
  <2>2. v \in UNION {Int, Seq(Nat), Calls}
    BY <1>4, IntsAre DEF IsA
  <2>3. type = "int" => v \in Ints
    BY DEF IsA
  <2> QED BY <1>4, <2>1, <2>2, <2>3 DEF Blob, Tokens
<1> QED BY <1>1, <1>2, <1>3, <1>4 DEF Atoms
LEMMA AtomRight ==
  ASSUME NEW type \in Atoms, NEW v, IsA(type, v)
  PROVE  /\ Tags(type) \o << PackAtom(type, v) >> \in Seq(Tokens)
         /\ type # "code" => Sound(Tags(type) \o << PackAtom(type, v) >>)
         /\ \A rest \in Seq(Tokens) : \A got :
              UnpackAtom(type, AfterTag(type, Reading(Tags(type) \o << PackAtom(type, v) >>,
                                                      rest, got)))
                = Done(rest, v)
<1> DEFINE b == PackAtom(type, v)
           w == << b >>
<1>1. b \in Tokens /\ b.kind = "blob" /\ Atom(type, b.of) = v
      /\ (type \in {"int", "size", "unsigned"} => b.of \in Ints)
  BY AtomBlob
<1>2. type \in Types4
  BY DEF Types4, Types3, Types2, Types1, Types0
<1> HIDE DEF b
<1>3. w \in Seq(Tokens) /\ Len(w) = 1 /\ w[1] = b
  BY <1>1
<1>4. b # Tag("int")
  BY <1>1 DEF Tag
<1>5. Sound(w)
  <2> HIDE DEF w
  <2> QED BY <1>3, <1>4 DEF Sound
<1>6. ASSUME type # "code" PROVE Sound(Tags(type) \o w)
  <2>1. CASE type \notin {"int", "size", "unsigned"}
    BY <1>2, <1>3, <1>5, <1>6, <2>1, TagBack
  <2>2. CASE type \in {"int", "size", "unsigned"}
    <3> DEFINE t == Tag("int")
    <3>1. Tags(type) = << t >> /\ t \in Tokens
      <4>1. type \in DOMAIN TypeBytes /\ TypeBytes[type] = "INT32" /\ TypeBytes["int"] = "INT32"
        BY <2>2, BytesAre
      <4>2. "int" \in Types4
        BY DEF Types4, Types3, Types2, Types1, Types0, Atoms
      <4>3. t \in Tokens
        BY <4>2, TypesAre
      <4> QED BY <4>1, <4>3 DEF Tags, Tag
    <3> HIDE DEF t
    <3> DEFINE z == << t >> \o w
    <3>2. << t >> \in Seq(Tokens) /\ Len(<< t >>) = 1 /\ << t >>[1] = t
      BY <3>1
    <3>3. z \in Seq(Tokens) /\ Len(z) = 2 /\ z[1] = t /\ z[2] = b
      <4>1. /\ z \in Seq(Tokens) /\ Len(z) = 1 + 1
            /\ \A i \in 1 .. 1 + 1 : z[i] = IF i <= 1 THEN << t >>[i] ELSE w[i - 1]
        <5> HIDE DEF w
        <5> QED BY <1>3, <3>2, ConcatProperties
      <4> HIDE DEF z, w
      <4> QED BY <1>3, <3>2, <4>1
    <3> HIDE DEF z
    <3>4. z[2] # Tag("int") /\ z[2].of \in Ints
      BY <1>1, <1>4, <2>2, <3>3
    <3>5. Sound(z)
      BY <3>3, <3>4 DEF Sound
    <3> QED BY <3>1, <3>5 DEF z
  <2> QED BY <2>1, <2>2
<1>7. ASSUME NEW rest \in Seq(Tokens), NEW got
      PROVE  UnpackAtom(type, AfterTag(type, Reading(Tags(type) \o w, rest, got))) = Done(rest, v)
  <2>1. AfterTag(type, Reading(Tags(type) \o w, rest, got)) = Reading(w, rest, got)
    <3> HIDE DEF w
    <3>1. \A later \in Seq(Tokens) : \A had :
            AfterTag(type, Reading(Tags(type) \o w, later, had)) = Reading(w, later, had)
      BY <1>2, <1>3, TagBack
    <3> QED BY <3>1, Zenon
  <2>2. /\ w \o rest # << >> /\ Head(w \o rest) = b /\ Tail(w \o rest) = rest
    BY <1>1, FirstToken
  <2>3. Reading(w, rest, got) = Done(w \o rest, got)
    BY DEF Reading
  <2> DEFINE r == Done(w \o rest, got)
  <2>4. Unpack(r) = Done(rest, b.of)
    BY <1>1, <2>2 DEF Unpack, Done
  <2>5. UnpackAtom(type, r) = Done(rest, v)
    <3> HIDE DEF r
    <3>1. UnpackAtom(type, r) = Got(Done(rest, b.of), Atom(type, Done(rest, b.of).got))
      BY <2>4 DEF UnpackAtom
    <3>2. Done(rest, b.of).got = b.of /\ \A x : Got(Done(rest, b.of), x) = Done(rest, x)
      BY DEF Done, Got
    <3> QED BY <1>1, <3>1, <3>2
  <2> QED BY <2>1, <2>3, <2>5
<1>8. Tags(type) \o w \in Seq(Tokens)
  BY <1>2, <1>3, TagBack
<1> QED BY <1>6, <1>7, <1>8 DEF b

LEMMA Layer0 ==
  ASSUME NEW type \in Types0, NEW v, IsA(type, v), NEW p \in Int, NEW u \in Int
  PROVE  Right(Pack0, Unpack0, type, v, p, u)
<1>1. type \in Atoms /\ Known(type, v, p) = v
  <2>1. type \in Atoms /\ type \notin Ranged
    BY DEF Types0, Atoms, Ranged
  <2> QED BY <2>1, KnownPlain
<1>2. /\ Pack0(type, v, p) = Tags(type) \o << PackAtom(type, v) >>
      /\ \A r : Unpack0(type, r, u) = UnpackAtom(type, AfterTag(type, r))
  BY DEF Pack0, Unpack0
<1> QED BY <1>1, <1>2, AtomRight DEF Right

\* The types of the parts and of the elements are a layer below.
LEMMA InnerTypes ==
  /\ \A type \in Types1 \ Atoms : Inner(type) \subseteq Types0
  /\ \A type \in Types2 \ Atoms : Inner(type) \subseteq Types1
  /\ \A type \in Types3 \ Atoms : Inner(type) \subseteq Types2
  /\ \A type \in Types4 \ Atoms : Inner(type) \subseteq Types3
  /\ Types0 \subseteq Types1 /\ Types1 \subseteq Types2 /\ Types2 \subseteq Types3
  /\ Types3 \subseteq Types4 /\ "int" \in Types0
<1>1. /\ Types0 \subseteq Types1 /\ Types1 \subseteq Types2 /\ Types2 \subseteq Types3
      /\ Types3 \subseteq Types4 /\ "int" \in Types0
  BY DEF Types4, Types3, Types2, Types1, Types0, Atoms
<1> QED BY <1>1 DEF Inner

\* A size and then the elements.
LEMMA SizeThen ==
  ASSUME NEW a \in Seq(Tokens), NEW b \in Seq(Tokens)
  PROVE  /\ a \o b \in Seq(Tokens)
         /\ Sound(a) /\ Sound(b) => Sound(a \o b)
         /\ \A rest \in Seq(Tokens) : /\ b \o rest \in Seq(Tokens)
                                      /\ \A got : /\ Reading(a \o b, rest, got)
                                                       = Reading(a, b \o rest, got)
                                                  /\ Done(b \o rest, got) = Reading(b, rest, got)
BY TokensConcat, SoundConcat, ZenonT(30) DEF Reading

LEMMA Layer1 ==
  ASSUME NEW type \in Types1, NEW v, IsA(type, v), NEW p \in Int, NEW u \in Int,
         Agree(type, p, u)
  PROVE  Right(Pack1, Unpack1, type, v, p, u)
<1>0. /\ type \in Types4 /\ Types0 \subseteq Types4 /\ "int" \in Types0
      /\ type \notin Atoms => Inner(type) \subseteq Types0
  BY InnerTypes
<1>1. CASE type \in Atoms
  <2>1. Known(type, v, p) = v
    <3>1. type \notin Ranged
      BY <1>1 DEF Atoms, Ranged
    <3> QED BY <3>1, KnownPlain
  <2>2. /\ Pack1(type, v, p) = Tags(type) \o << PackAtom(type, v) >>
        /\ \A r : Unpack1(type, r, u) = UnpackAtom(type, AfterTag(type, r))
    BY <1>1 DEF Pack1, Unpack1, Packing, Unpacking
  <2> QED BY <1>1, <2>1, <2>2, AtomRight DEF Right
<1>2. CASE type \in DOMAIN Lists
  <2> DEFINE list == Elements(type, v)
             N == Len(list)
             e == Lists[type]
             parts == [i \in DOMAIN list |-> << e, list[i] >>]
             types == [i \in 1 .. N |-> e]
             a == Pack0("int", N, p)
             b == PackEach(Pack0, parts, p)
             x == [i \in 1 .. N |-> Known(types[i], parts[i][2], p)]
  <2>0. type \notin Atoms
    BY <1>2 DEF Lists, Atoms
  <2>1. /\ N \in Nat /\ N \in Ints /\ DOMAIN list = 1 .. N
        /\ e \in Inner(type) /\ e \notin {"call", "code"}
        /\ \A i \in 1 .. N : IsA(e, list[i])
        /\ Agree(e, p, u)
        /\ Whole(type, [i \in 1 .. N |-> Known(e, list[i], p)]) = Known(type, v, p)
    BY <1>2, ListOf DEF ListFits
  <2>2. Right(Pack0, Unpack0, "int", N, p, u)
    <3>1. IsA("int", N) /\ Agree("int", p, u)
      BY <2>1 DEF IsA, Agree, Ranged
    <3> QED BY <1>0, <3>1, Layer0
  <2>3. AllRight(Pack0, Unpack0, N, parts, types, p, u)
    <3>1. e \in Types0
      BY <1>0, <2>0, <2>1
    <3>2. DOMAIN parts = 1 .. N /\ Len(types) = N
      BY <2>1
    <3>3. ASSUME NEW i \in 1 .. N
          PROVE  types[i] = parts[i][1] /\ types[i] = e /\ parts[i][2] = list[i]
      BY <2>1
    <3>4. ASSUME NEW i \in 1 .. N
          PROVE  Right(Pack0, Unpack0, e, list[i], p, u)
      BY <2>1, <3>1, Layer0
    <3>5. ASSUME NEW i \in 1 .. N
          PROVE  Right(Pack0, Unpack0, types[i], parts[i][2], p, u)
      BY <3>3, <3>4
    <3> HIDE DEF parts, types, list
    <3> QED BY <2>1, <3>2, <3>3, <3>5, Each0
  <2>4. Whole(type, x) = Known(type, v, p)
    <3>1. x = [i \in 1 .. N |-> Known(e, list[i], p)]
      BY <2>1
    <3> QED BY <2>1, <3>1
  <2>5. /\ a \in Seq(Tokens) /\ Sound(a) /\ b \in Seq(Tokens) /\ Sound(b)
        /\ \A rest \in Seq(Tokens) : \A got :
             Unpack0("int", Reading(a, rest, got), u) = Done(rest, N)
        /\ \A rest \in Seq(Tokens) : \A got :
             UnpackEach(Unpack0, types, Reading(b, rest, got), u) = Done(rest, x)
    <3>1. Known("int", N, p) = N
      BY KnownPlain DEF Ranged
    <3>2. \A i \in 1 .. N : types[i] \notin {"call", "code"}
      BY <2>1
    <3>3. a \in Seq(Tokens) /\ Sound(a)
          /\ \A rest \in Seq(Tokens) : \A got :
               Unpack0("int", Reading(a, rest, got), u) = Done(rest, N)
      BY <2>2, <3>1 DEF Right
    <3>4. /\ b \in Seq(Tokens) /\ Sound(b)
          /\ \A rest \in Seq(Tokens) : \A got :
               UnpackEach(Unpack0, types, Reading(b, rest, got), u) = Done(rest, x)
      <4> HIDE DEF parts, types
      <4> QED BY <2>3, <3>2, Zenon DEF AllRight
    <3> QED BY <3>3, <3>4
  <2>6. Pack1(type, v, p) = Tags(type) \o (a \o b)
    BY <1>2, <2>0 DEF Pack1, Packing, PackList, Elements
  <2>7. ASSUME NEW rest \in Seq(Tokens), NEW got
        PROVE  Unpack1(type, Reading(Tags(type) \o (a \o b), rest, got), u)
                 = Done(rest, Known(type, v, p))
    <3> HIDE DEF a, b, x, list
    <3>1. AfterTag(type, Reading(Tags(type) \o (a \o b), rest, got)) = Reading(a \o b, rest, got)
      <4>1. a \o b \in Seq(Tokens)
        BY <2>5, SizeThen
      <4> DEFINE w == a \o b
      <4> HIDE DEF w
      <4>2. \A later \in Seq(Tokens) : \A had :
              AfterTag(type, Reading(Tags(type) \o w, later, had)) = Reading(w, later, had)
        BY <1>0, <4>1, TagBack DEF w
      <4> QED BY <4>2, Zenon DEF w
    <3>2. /\ Reading(a \o b, rest, got) = Reading(a, b \o rest, got)
          /\ b \o rest \in Seq(Tokens)
          /\ Done(b \o rest, N) = Reading(b, rest, N)
      BY <2>5, SizeThen
    <3>3. Unpack0("int", Reading(a \o b, rest, got), u) = Reading(b, rest, N)
      BY <2>5, <3>2, Zenon
    <3>4. Reading(b, rest, N).ok /\ Reading(b, rest, N).got = N
      BY DEF Reading, Done
    <3>5. UnpackList(Unpack0, type, Reading(b, rest, N), u) = Done(rest, x)
      <4>1. UnpackList(Unpack0, type, Reading(b, rest, N), u)
              = UnpackEach(Unpack0, types, Reading(b, rest, N), u)
        BY <3>4 DEF UnpackList
      <4> HIDE DEF types
      <4> QED BY <2>5, <4>1, Zenon
    <3>6. Got(Done(rest, x), Whole(type, Done(rest, x).got)) = Done(rest, Whole(type, x))
      BY DEF Got, Done
    <3>7. Unpack1(type, Reading(Tags(type) \o (a \o b), rest, got), u)
            = Got(Done(rest, x), Whole(type, Done(rest, x).got))
      BY <1>2, <2>0, <3>1, <3>3, <3>5, Zenon DEF Unpack1, Unpacking
    <3> QED BY <2>4, <3>6, <3>7
  <2>8. /\ Tags(type) \o (a \o b) \in Seq(Tokens)
        /\ Sound(Tags(type) \o (a \o b))
    <3>1. a \o b \in Seq(Tokens) /\ Sound(a \o b)
      <4> HIDE DEF a, b
      <4> QED BY <2>5, SizeThen
    <3>2. type \notin {"int", "size", "unsigned", "code"}
      BY <2>0 DEF Atoms
    <3> HIDE DEF a, b
    <3> QED BY <1>0, <3>1, <3>2, TagBack
  <2> HIDE DEF a, b
  <2> QED BY <2>6, <2>7, <2>8 DEF Right
<1>3. CASE type \notin Atoms /\ type \notin DOMAIN Lists
  <2> DEFINE parts == PackParts(type, v, p)
             types == UnpackParts(type, u)
             N == Len(types)
             b == PackEach(Pack0, parts, p)
             x == [i \in 1 .. N |-> Known(types[i], parts[i][2], p)]
  <2>1. /\ N \in Nat /\ DOMAIN parts = 1 .. N
        /\ \A i \in 1 .. N :
             /\ types[i] = parts[i][1] /\ IsA(types[i], parts[i][2])
             /\ Agree(types[i], p, u) /\ types[i] \in Inner(type)
             /\ type # "call" => types[i] \notin {"call", "code"}
        /\ Whole(type, x) = Known(type, v, p)
    BY <1>0, <1>3, PartsOf DEF PartsFit
  <2>2. Pack1(type, v, p) = Tags(type) \o b
    BY <1>3 DEF Pack1, Packing
  <2>3. \A r : Unpack1(type, r, u)
                 = LET end == UnpackEach(Unpack0, types, AfterTag(type, r), u)
                   IN Got(end, Whole(type, end.got))
    BY <1>3, Zenon DEF Unpack1, Unpacking
  <2> HIDE DEF parts, types
  <2>4. AllRight(Pack0, Unpack0, N, parts, types, p, u)
    <3>1. ASSUME NEW i \in 1 .. N
          PROVE  Right(Pack0, Unpack0, types[i], parts[i][2], p, u)
      <4>1. types[i] \in Types0
        BY <1>0, <1>3, <2>1
      <4> QED BY <2>1, <4>1, Layer0
    <3> QED BY <2>1, <3>1, Each0
  <2>5. /\ b \in Seq(Tokens) /\ (type # "call" => Sound(b))
        /\ \A rest \in Seq(Tokens) : \A got :
             UnpackEach(Unpack0, types, Reading(b, rest, got), u) = Done(rest, x)
    <3>1. type # "call" => \A i \in 1 .. N : types[i] \notin {"call", "code"}
      BY <2>1
    <3> QED BY <2>4, <3>1, Zenon DEF AllRight
  <2> HIDE DEF b, x
  <2>6. /\ Tags(type) \o b \in Seq(Tokens)
        /\ type # "call" => Sound(Tags(type) \o b)
        /\ \A rest \in Seq(Tokens) : \A got :
             AfterTag(type, Reading(Tags(type) \o b, rest, got)) = Reading(b, rest, got)
    <3>1. type \notin {"int", "size", "unsigned", "code"}
      BY <1>3 DEF Atoms
    <3> QED BY <1>0, <2>5, <3>1, TagBack
  <2>7. ASSUME NEW rest \in Seq(Tokens), NEW got
        PROVE  Unpack1(type, Reading(Tags(type) \o b, rest, got), u)
                 = Done(rest, Known(type, v, p))
    <3>1. AfterTag(type, Reading(Tags(type) \o b, rest, got)) = Reading(b, rest, got)
      BY <2>6, Zenon
    <3>2. UnpackEach(Unpack0, types, Reading(b, rest, got), u) = Done(rest, x)
      BY <2>5, Zenon
    <3>3. Got(Done(rest, x), Whole(type, Done(rest, x).got)) = Done(rest, Whole(type, x))
      BY DEF Got, Done
    <3>4. Unpack1(type, Reading(Tags(type) \o b, rest, got), u)
            = Got(Done(rest, x), Whole(type, Done(rest, x).got))
      BY <2>3, <3>1, <3>2, Zenon
    <3> QED BY <2>1, <3>3, <3>4
  <2>8. type = "call" \/ type \notin {"call", "code"}
    BY <1>3 DEF Atoms
  <2> QED BY <2>2, <2>6, <2>7, <2>8 DEF Right
<1> QED BY <1>1, <1>2, <1>3

LEMMA Each1 ==
  ASSUME NEW N \in Nat, NEW parts, DOMAIN parts = 1 .. N, NEW types, Len(types) = N,
         NEW p, NEW u, \A i \in 1 .. N : types[i] = parts[i][1],
         \A i \in 1 .. N : Right(Pack1, Unpack1, types[i], parts[i][2], p, u)
  PROVE  AllRight(Pack1, Unpack1, N, parts, types, p, u)
<1> DEFINE s == [i \in 1 .. N |-> Pack1(types[i], parts[i][2], p)]
           x == [i \in 1 .. N |-> Known(types[i], parts[i][2], p)]
<1>1. PackEach(Pack1, parts, p) = FlattenSeq(s)
  <2>1. [i \in DOMAIN parts |-> Pack1(parts[i][1], parts[i][2], p)] = s
    OBVIOUS
  <2> QED BY <2>1 DEF PackEach
<1>2. s \in [1 .. N -> Seq(Tokens)]
  BY DEF Right
<1>3. FlattenSeq(s) \in Seq(Tokens)
  <2> HIDE DEF s
  <2> QED BY <1>2, FlatTokens
<1>4. (\A i \in 1 .. N : types[i] \notin {"call", "code"}) => Sound(FlattenSeq(s))
  <2>1. (\A i \in 1 .. N : types[i] \notin {"call", "code"}) => \A i \in 1 .. N : Sound(s[i])
    BY DEF Right
  <2> HIDE DEF s
  <2> QED BY <1>2, <2>1, SoundFlat
<1>5. ASSUME NEW n \in 1 .. N, NEW rest \in Seq(Tokens), NEW got
      PROVE  Unpack1(types[n], Reading(s[n], rest, got), u) = Done(rest, x[n])
  BY DEF Right
<1>6. x = [i \in 1 .. N |-> x[i]]
  OBVIOUS
<1> HIDE DEF s, x
<1>7. ASSUME NEW rest \in Seq(Tokens), NEW got
      PROVE  UnpackEach(Unpack1, types, Reading(FlattenSeq(s), rest, got), u) = Done(rest, x)
  <2> DEFINE from == Reading(FlattenSeq(s), rest, got)
             Step(f) == [n \in 0 .. Len(types) |->
                           IF n = 0 THEN Got(from, << >>)
                           ELSE LET before == f[n - 1]
                                    e == Unpack1(types[n], before, u)
                                IN Got(e, Append(before.got, e.got))]
             F == CHOOSE f : f = Step(f)
  <2>1. PICK G : Follows(G, N, s, x, from) /\ G[N] = Done(rest, x)
    <3>1. Taken(N, s, x, rest, got)
      BY <1>2, <1>6, ReadersTake
    <3> QED BY <3>1, Zenon DEF Taken
  <2>2. ASSUME NEW n \in 1 .. N
        PROVE  LET e == Unpack1(types[n], G[n - 1], u)
               IN G[n] = Got(e, Append(G[n - 1].got, e.got))
    <3>1. PICK later, had :
            /\ later \in Seq(Tokens)
            /\ G[n - 1] = Reading(s[n], later, had) /\ G[n] = Done(later, Append(had, x[n]))
      BY <2>1 DEF Follows
    <3>2. Unpack1(types[n], G[n - 1], u) = Done(later, x[n])
      BY <1>5, <3>1, SMTT(30)
    <3>3. Done(later, x[n]).got = x[n] /\ G[n - 1].got = had
      BY <3>1 DEF Reading, Done
    <3>4. Got(Done(later, x[n]), Append(had, x[n])) = Done(later, Append(had, x[n]))
      BY DEF Done, Got
    <3> QED BY <3>1, <3>2, <3>3, <3>4
  <2>3. G = Step(G)
    <3>1. G = [n \in 0 .. N |-> G[n]] /\ G[0] = Got(from, << >>)
      BY <2>1 DEF Follows
    <3> HIDE DEF from
    <3>2. ASSUME NEW n \in 0 .. N PROVE G[n] = Step(G)[n]
      <4>1. CASE n = 0
        BY <3>1, <4>1
      <4>2. CASE n # 0
        <5>1. n \in 1 .. N
          BY <4>2
        <5> QED BY <2>2, <4>2, <5>1
      <4> QED BY <4>1, <4>2
    <3>3. Step(G) = [n \in 0 .. N |-> Step(G)[n]]
      OBVIOUS
    <3> HIDE DEF Step
    <3> QED BY <3>1, <3>2, <3>3
  <2>4. F = Step(F)
    BY <2>3
  <2>5. UnpackEach(Unpack1, types, from, u) = F[N]
    BY DEF UnpackEach
  <2> HIDE DEF F, from
  <2> DEFINE T == {n \in 0 .. N : F[n] = G[n]}
  <2>6. 0 \in T
    BY <2>3, <2>4
  <2>7. ASSUME NEW n \in 0 .. N - 1, n \in T PROVE n + 1 \in T
    BY <2>3, <2>4, <2>7
  <2>8. N \in T
    <3>1. N \in 0 .. N
      OBVIOUS
    <3> HIDE DEF T
    <3> QED BY <2>6, <2>7, <3>1, UpTo
  <2> QED BY <2>1, <2>5, <2>8 DEF from
<1> QED BY <1>1, <1>3, <1>4, <1>7 DEF AllRight, x

LEMMA Layer2 ==
  ASSUME NEW type \in Types2, NEW v, IsA(type, v), NEW p \in Int, NEW u \in Int,
         Agree(type, p, u)
  PROVE  Right(Pack2, Unpack2, type, v, p, u)
<1>0. /\ type \in Types4 /\ Types1 \subseteq Types4 /\ "int" \in Types1
      /\ type \notin Atoms => Inner(type) \subseteq Types1
  BY InnerTypes
<1>1. CASE type \in Atoms
  <2>1. Known(type, v, p) = v
    <3>1. type \notin Ranged
      BY <1>1 DEF Atoms, Ranged
    <3> QED BY <3>1, KnownPlain
  <2>2. /\ Pack2(type, v, p) = Tags(type) \o << PackAtom(type, v) >>
        /\ \A r : Unpack2(type, r, u) = UnpackAtom(type, AfterTag(type, r))
    BY <1>1 DEF Pack2, Unpack2, Packing, Unpacking
  <2> QED BY <1>1, <2>1, <2>2, AtomRight DEF Right
<1>2. CASE type \in DOMAIN Lists
  <2> DEFINE list == Elements(type, v)
             N == Len(list)
             e == Lists[type]
             parts == [i \in DOMAIN list |-> << e, list[i] >>]
             types == [i \in 1 .. N |-> e]
             a == Pack1("int", N, p)
             b == PackEach(Pack1, parts, p)
             x == [i \in 1 .. N |-> Known(types[i], parts[i][2], p)]
  <2>0. type \notin Atoms
    BY <1>2 DEF Lists, Atoms
  <2>1. /\ N \in Nat /\ N \in Ints /\ DOMAIN list = 1 .. N
        /\ e \in Inner(type) /\ e \notin {"call", "code"}
        /\ \A i \in 1 .. N : IsA(e, list[i])
        /\ Agree(e, p, u)
        /\ Whole(type, [i \in 1 .. N |-> Known(e, list[i], p)]) = Known(type, v, p)
    BY <1>2, ListOf DEF ListFits
  <2>2. Right(Pack1, Unpack1, "int", N, p, u)
    <3>1. IsA("int", N) /\ Agree("int", p, u)
      BY <2>1 DEF IsA, Agree, Ranged
    <3> QED BY <1>0, <3>1, Layer1
  <2>3. AllRight(Pack1, Unpack1, N, parts, types, p, u)
    <3>1. e \in Types1
      BY <1>0, <2>0, <2>1
    <3>2. DOMAIN parts = 1 .. N /\ Len(types) = N
      BY <2>1
    <3>3. ASSUME NEW i \in 1 .. N
          PROVE  types[i] = parts[i][1] /\ types[i] = e /\ parts[i][2] = list[i]
      BY <2>1
    <3>4. ASSUME NEW i \in 1 .. N
          PROVE  Right(Pack1, Unpack1, e, list[i], p, u)
      BY <2>1, <3>1, Layer1
    <3>5. ASSUME NEW i \in 1 .. N
          PROVE  Right(Pack1, Unpack1, types[i], parts[i][2], p, u)
      BY <3>3, <3>4
    <3> HIDE DEF parts, types, list
    <3> QED BY <2>1, <3>2, <3>3, <3>5, Each1
  <2>4. Whole(type, x) = Known(type, v, p)
    <3>1. x = [i \in 1 .. N |-> Known(e, list[i], p)]
      BY <2>1
    <3> QED BY <2>1, <3>1
  <2>5. /\ a \in Seq(Tokens) /\ Sound(a) /\ b \in Seq(Tokens) /\ Sound(b)
        /\ \A rest \in Seq(Tokens) : \A got :
             Unpack1("int", Reading(a, rest, got), u) = Done(rest, N)
        /\ \A rest \in Seq(Tokens) : \A got :
             UnpackEach(Unpack1, types, Reading(b, rest, got), u) = Done(rest, x)
    <3>1. Known("int", N, p) = N
      BY KnownPlain DEF Ranged
    <3>2. \A i \in 1 .. N : types[i] \notin {"call", "code"}
      BY <2>1
    <3>3. a \in Seq(Tokens) /\ Sound(a)
          /\ \A rest \in Seq(Tokens) : \A got :
               Unpack1("int", Reading(a, rest, got), u) = Done(rest, N)
      BY <2>2, <3>1 DEF Right
    <3>4. /\ b \in Seq(Tokens) /\ Sound(b)
          /\ \A rest \in Seq(Tokens) : \A got :
               UnpackEach(Unpack1, types, Reading(b, rest, got), u) = Done(rest, x)
      <4> HIDE DEF parts, types
      <4> QED BY <2>3, <3>2, Zenon DEF AllRight
    <3> QED BY <3>3, <3>4
  <2>6. Pack2(type, v, p) = Tags(type) \o (a \o b)
    BY <1>2, <2>0 DEF Pack2, Packing, PackList, Elements
  <2>7. ASSUME NEW rest \in Seq(Tokens), NEW got
        PROVE  Unpack2(type, Reading(Tags(type) \o (a \o b), rest, got), u)
                 = Done(rest, Known(type, v, p))
    <3> HIDE DEF a, b, x, list
    <3>1. AfterTag(type, Reading(Tags(type) \o (a \o b), rest, got)) = Reading(a \o b, rest, got)
      <4>1. a \o b \in Seq(Tokens)
        BY <2>5, SizeThen
      <4> DEFINE w == a \o b
      <4> HIDE DEF w
      <4>2. \A later \in Seq(Tokens) : \A had :
              AfterTag(type, Reading(Tags(type) \o w, later, had)) = Reading(w, later, had)
        BY <1>0, <4>1, TagBack DEF w
      <4> QED BY <4>2, Zenon DEF w
    <3>2. /\ Reading(a \o b, rest, got) = Reading(a, b \o rest, got)
          /\ b \o rest \in Seq(Tokens)
          /\ Done(b \o rest, N) = Reading(b, rest, N)
      BY <2>5, SizeThen
    <3>3. Unpack1("int", Reading(a \o b, rest, got), u) = Reading(b, rest, N)
      BY <2>5, <3>2, Zenon
    <3>4. Reading(b, rest, N).ok /\ Reading(b, rest, N).got = N
      BY DEF Reading, Done
    <3>5. UnpackList(Unpack1, type, Reading(b, rest, N), u) = Done(rest, x)
      <4>1. UnpackList(Unpack1, type, Reading(b, rest, N), u)
              = UnpackEach(Unpack1, types, Reading(b, rest, N), u)
        BY <3>4 DEF UnpackList
      <4> HIDE DEF types
      <4> QED BY <2>5, <4>1, Zenon
    <3>6. Got(Done(rest, x), Whole(type, Done(rest, x).got)) = Done(rest, Whole(type, x))
      BY DEF Got, Done
    <3>7. Unpack2(type, Reading(Tags(type) \o (a \o b), rest, got), u)
            = Got(Done(rest, x), Whole(type, Done(rest, x).got))
      BY <1>2, <2>0, <3>1, <3>3, <3>5, Zenon DEF Unpack2, Unpacking
    <3> QED BY <2>4, <3>6, <3>7
  <2>8. /\ Tags(type) \o (a \o b) \in Seq(Tokens)
        /\ Sound(Tags(type) \o (a \o b))
    <3>1. a \o b \in Seq(Tokens) /\ Sound(a \o b)
      <4> HIDE DEF a, b
      <4> QED BY <2>5, SizeThen
    <3>2. type \notin {"int", "size", "unsigned", "code"}
      BY <2>0 DEF Atoms
    <3> HIDE DEF a, b
    <3> QED BY <1>0, <3>1, <3>2, TagBack
  <2> HIDE DEF a, b
  <2> QED BY <2>6, <2>7, <2>8 DEF Right
<1>3. CASE type \notin Atoms /\ type \notin DOMAIN Lists
  <2> DEFINE parts == PackParts(type, v, p)
             types == UnpackParts(type, u)
             N == Len(types)
             b == PackEach(Pack1, parts, p)
             x == [i \in 1 .. N |-> Known(types[i], parts[i][2], p)]
  <2>1. /\ N \in Nat /\ DOMAIN parts = 1 .. N
        /\ \A i \in 1 .. N :
             /\ types[i] = parts[i][1] /\ IsA(types[i], parts[i][2])
             /\ Agree(types[i], p, u) /\ types[i] \in Inner(type)
             /\ type # "call" => types[i] \notin {"call", "code"}
        /\ Whole(type, x) = Known(type, v, p)
    BY <1>0, <1>3, PartsOf DEF PartsFit
  <2>2. Pack2(type, v, p) = Tags(type) \o b
    BY <1>3 DEF Pack2, Packing
  <2>3. \A r : Unpack2(type, r, u)
                 = LET end == UnpackEach(Unpack1, types, AfterTag(type, r), u)
                   IN Got(end, Whole(type, end.got))
    BY <1>3, Zenon DEF Unpack2, Unpacking
  <2> HIDE DEF parts, types
  <2>4. AllRight(Pack1, Unpack1, N, parts, types, p, u)
    <3>1. ASSUME NEW i \in 1 .. N
          PROVE  Right(Pack1, Unpack1, types[i], parts[i][2], p, u)
      <4>1. types[i] \in Types1
        BY <1>0, <1>3, <2>1
      <4> QED BY <2>1, <4>1, Layer1
    <3> QED BY <2>1, <3>1, Each1
  <2>5. /\ b \in Seq(Tokens) /\ (type # "call" => Sound(b))
        /\ \A rest \in Seq(Tokens) : \A got :
             UnpackEach(Unpack1, types, Reading(b, rest, got), u) = Done(rest, x)
    <3>1. type # "call" => \A i \in 1 .. N : types[i] \notin {"call", "code"}
      BY <2>1
    <3> QED BY <2>4, <3>1, Zenon DEF AllRight
  <2> HIDE DEF b, x
  <2>6. /\ Tags(type) \o b \in Seq(Tokens)
        /\ type # "call" => Sound(Tags(type) \o b)
        /\ \A rest \in Seq(Tokens) : \A got :
             AfterTag(type, Reading(Tags(type) \o b, rest, got)) = Reading(b, rest, got)
    <3>1. type \notin {"int", "size", "unsigned", "code"}
      BY <1>3 DEF Atoms
    <3> QED BY <1>0, <2>5, <3>1, TagBack
  <2>7. ASSUME NEW rest \in Seq(Tokens), NEW got
        PROVE  Unpack2(type, Reading(Tags(type) \o b, rest, got), u)
                 = Done(rest, Known(type, v, p))
    <3>1. AfterTag(type, Reading(Tags(type) \o b, rest, got)) = Reading(b, rest, got)
      BY <2>6, Zenon
    <3>2. UnpackEach(Unpack1, types, Reading(b, rest, got), u) = Done(rest, x)
      BY <2>5, Zenon
    <3>3. Got(Done(rest, x), Whole(type, Done(rest, x).got)) = Done(rest, Whole(type, x))
      BY DEF Got, Done
    <3>4. Unpack2(type, Reading(Tags(type) \o b, rest, got), u)
            = Got(Done(rest, x), Whole(type, Done(rest, x).got))
      BY <2>3, <3>1, <3>2, Zenon
    <3> QED BY <2>1, <3>3, <3>4
  <2>8. type = "call" \/ type \notin {"call", "code"}
    BY <1>3 DEF Atoms
  <2> QED BY <2>2, <2>6, <2>7, <2>8 DEF Right
<1> QED BY <1>1, <1>2, <1>3

LEMMA Each2 ==
  ASSUME NEW N \in Nat, NEW parts, DOMAIN parts = 1 .. N, NEW types, Len(types) = N,
         NEW p, NEW u, \A i \in 1 .. N : types[i] = parts[i][1],
         \A i \in 1 .. N : Right(Pack2, Unpack2, types[i], parts[i][2], p, u)
  PROVE  AllRight(Pack2, Unpack2, N, parts, types, p, u)
<1> DEFINE s == [i \in 1 .. N |-> Pack2(types[i], parts[i][2], p)]
           x == [i \in 1 .. N |-> Known(types[i], parts[i][2], p)]
<1>1. PackEach(Pack2, parts, p) = FlattenSeq(s)
  <2>1. [i \in DOMAIN parts |-> Pack2(parts[i][1], parts[i][2], p)] = s
    OBVIOUS
  <2> QED BY <2>1 DEF PackEach
<1>2. s \in [1 .. N -> Seq(Tokens)]
  BY DEF Right
<1>3. FlattenSeq(s) \in Seq(Tokens)
  <2> HIDE DEF s
  <2> QED BY <1>2, FlatTokens
<1>4. (\A i \in 1 .. N : types[i] \notin {"call", "code"}) => Sound(FlattenSeq(s))
  <2>1. (\A i \in 1 .. N : types[i] \notin {"call", "code"}) => \A i \in 1 .. N : Sound(s[i])
    BY DEF Right
  <2> HIDE DEF s
  <2> QED BY <1>2, <2>1, SoundFlat
<1>5. ASSUME NEW n \in 1 .. N, NEW rest \in Seq(Tokens), NEW got
      PROVE  Unpack2(types[n], Reading(s[n], rest, got), u) = Done(rest, x[n])
  BY DEF Right
<1>6. x = [i \in 1 .. N |-> x[i]]
  OBVIOUS
<1> HIDE DEF s, x
<1>7. ASSUME NEW rest \in Seq(Tokens), NEW got
      PROVE  UnpackEach(Unpack2, types, Reading(FlattenSeq(s), rest, got), u) = Done(rest, x)
  <2> DEFINE from == Reading(FlattenSeq(s), rest, got)
             Step(f) == [n \in 0 .. Len(types) |->
                           IF n = 0 THEN Got(from, << >>)
                           ELSE LET before == f[n - 1]
                                    e == Unpack2(types[n], before, u)
                                IN Got(e, Append(before.got, e.got))]
             F == CHOOSE f : f = Step(f)
  <2>1. PICK G : Follows(G, N, s, x, from) /\ G[N] = Done(rest, x)
    <3>1. Taken(N, s, x, rest, got)
      BY <1>2, <1>6, ReadersTake
    <3> QED BY <3>1, Zenon DEF Taken
  <2>2. ASSUME NEW n \in 1 .. N
        PROVE  LET e == Unpack2(types[n], G[n - 1], u)
               IN G[n] = Got(e, Append(G[n - 1].got, e.got))
    <3>1. PICK later, had :
            /\ later \in Seq(Tokens)
            /\ G[n - 1] = Reading(s[n], later, had) /\ G[n] = Done(later, Append(had, x[n]))
      BY <2>1 DEF Follows
    <3>2. Unpack2(types[n], G[n - 1], u) = Done(later, x[n])
      BY <1>5, <3>1, SMTT(30)
    <3>3. Done(later, x[n]).got = x[n] /\ G[n - 1].got = had
      BY <3>1 DEF Reading, Done
    <3>4. Got(Done(later, x[n]), Append(had, x[n])) = Done(later, Append(had, x[n]))
      BY DEF Done, Got
    <3> QED BY <3>1, <3>2, <3>3, <3>4
  <2>3. G = Step(G)
    <3>1. G = [n \in 0 .. N |-> G[n]] /\ G[0] = Got(from, << >>)
      BY <2>1 DEF Follows
    <3> HIDE DEF from
    <3>2. ASSUME NEW n \in 0 .. N PROVE G[n] = Step(G)[n]
      <4>1. CASE n = 0
        BY <3>1, <4>1
      <4>2. CASE n # 0
        <5>1. n \in 1 .. N
          BY <4>2
        <5> QED BY <2>2, <4>2, <5>1
      <4> QED BY <4>1, <4>2
    <3>3. Step(G) = [n \in 0 .. N |-> Step(G)[n]]
      OBVIOUS
    <3> HIDE DEF Step
    <3> QED BY <3>1, <3>2, <3>3
  <2>4. F = Step(F)
    BY <2>3
  <2>5. UnpackEach(Unpack2, types, from, u) = F[N]
    BY DEF UnpackEach
  <2> HIDE DEF F, from
  <2> DEFINE T == {n \in 0 .. N : F[n] = G[n]}
  <2>6. 0 \in T
    BY <2>3, <2>4
  <2>7. ASSUME NEW n \in 0 .. N - 1, n \in T PROVE n + 1 \in T
    BY <2>3, <2>4, <2>7
  <2>8. N \in T
    <3>1. N \in 0 .. N
      OBVIOUS
    <3> HIDE DEF T
    <3> QED BY <2>6, <2>7, <3>1, UpTo
  <2> QED BY <2>1, <2>5, <2>8 DEF from
<1> QED BY <1>1, <1>3, <1>4, <1>7 DEF AllRight, x

LEMMA Layer3 ==
  ASSUME NEW type \in Types3, NEW v, IsA(type, v), NEW p \in Int, NEW u \in Int,
         Agree(type, p, u)
  PROVE  Right(Pack3, Unpack3, type, v, p, u)
<1>0. /\ type \in Types4 /\ Types2 \subseteq Types4 /\ "int" \in Types2
      /\ type \notin Atoms => Inner(type) \subseteq Types2
  BY InnerTypes
<1>1. CASE type \in Atoms
  <2>1. Known(type, v, p) = v
    <3>1. type \notin Ranged
      BY <1>1 DEF Atoms, Ranged
    <3> QED BY <3>1, KnownPlain
  <2>2. /\ Pack3(type, v, p) = Tags(type) \o << PackAtom(type, v) >>
        /\ \A r : Unpack3(type, r, u) = UnpackAtom(type, AfterTag(type, r))
    BY <1>1 DEF Pack3, Unpack3, Packing, Unpacking
  <2> QED BY <1>1, <2>1, <2>2, AtomRight DEF Right
<1>2. CASE type \in DOMAIN Lists
  <2> DEFINE list == Elements(type, v)
             N == Len(list)
             e == Lists[type]
             parts == [i \in DOMAIN list |-> << e, list[i] >>]
             types == [i \in 1 .. N |-> e]
             a == Pack2("int", N, p)
             b == PackEach(Pack2, parts, p)
             x == [i \in 1 .. N |-> Known(types[i], parts[i][2], p)]
  <2>0. type \notin Atoms
    BY <1>2 DEF Lists, Atoms
  <2>1. /\ N \in Nat /\ N \in Ints /\ DOMAIN list = 1 .. N
        /\ e \in Inner(type) /\ e \notin {"call", "code"}
        /\ \A i \in 1 .. N : IsA(e, list[i])
        /\ Agree(e, p, u)
        /\ Whole(type, [i \in 1 .. N |-> Known(e, list[i], p)]) = Known(type, v, p)
    BY <1>2, ListOf DEF ListFits
  <2>2. Right(Pack2, Unpack2, "int", N, p, u)
    <3>1. IsA("int", N) /\ Agree("int", p, u)
      BY <2>1 DEF IsA, Agree, Ranged
    <3> QED BY <1>0, <3>1, Layer2
  <2>3. AllRight(Pack2, Unpack2, N, parts, types, p, u)
    <3>1. e \in Types2
      BY <1>0, <2>0, <2>1
    <3>2. DOMAIN parts = 1 .. N /\ Len(types) = N
      BY <2>1
    <3>3. ASSUME NEW i \in 1 .. N
          PROVE  types[i] = parts[i][1] /\ types[i] = e /\ parts[i][2] = list[i]
      BY <2>1
    <3>4. ASSUME NEW i \in 1 .. N
          PROVE  Right(Pack2, Unpack2, e, list[i], p, u)
      BY <2>1, <3>1, Layer2
    <3>5. ASSUME NEW i \in 1 .. N
          PROVE  Right(Pack2, Unpack2, types[i], parts[i][2], p, u)
      BY <3>3, <3>4
    <3> HIDE DEF parts, types, list
    <3> QED BY <2>1, <3>2, <3>3, <3>5, Each2
  <2>4. Whole(type, x) = Known(type, v, p)
    <3>1. x = [i \in 1 .. N |-> Known(e, list[i], p)]
      BY <2>1
    <3> QED BY <2>1, <3>1
  <2>5. /\ a \in Seq(Tokens) /\ Sound(a) /\ b \in Seq(Tokens) /\ Sound(b)
        /\ \A rest \in Seq(Tokens) : \A got :
             Unpack2("int", Reading(a, rest, got), u) = Done(rest, N)
        /\ \A rest \in Seq(Tokens) : \A got :
             UnpackEach(Unpack2, types, Reading(b, rest, got), u) = Done(rest, x)
    <3>1. Known("int", N, p) = N
      BY KnownPlain DEF Ranged
    <3>2. \A i \in 1 .. N : types[i] \notin {"call", "code"}
      BY <2>1
    <3>3. a \in Seq(Tokens) /\ Sound(a)
          /\ \A rest \in Seq(Tokens) : \A got :
               Unpack2("int", Reading(a, rest, got), u) = Done(rest, N)
      BY <2>2, <3>1 DEF Right
    <3>4. /\ b \in Seq(Tokens) /\ Sound(b)
          /\ \A rest \in Seq(Tokens) : \A got :
               UnpackEach(Unpack2, types, Reading(b, rest, got), u) = Done(rest, x)
      <4> HIDE DEF parts, types
      <4> QED BY <2>3, <3>2, Zenon DEF AllRight
    <3> QED BY <3>3, <3>4
  <2>6. Pack3(type, v, p) = Tags(type) \o (a \o b)
    BY <1>2, <2>0 DEF Pack3, Packing, PackList, Elements
  <2>7. ASSUME NEW rest \in Seq(Tokens), NEW got
        PROVE  Unpack3(type, Reading(Tags(type) \o (a \o b), rest, got), u)
                 = Done(rest, Known(type, v, p))
    <3> HIDE DEF a, b, x, list
    <3>1. AfterTag(type, Reading(Tags(type) \o (a \o b), rest, got)) = Reading(a \o b, rest, got)
      <4>1. a \o b \in Seq(Tokens)
        BY <2>5, SizeThen
      <4> DEFINE w == a \o b
      <4> HIDE DEF w
      <4>2. \A later \in Seq(Tokens) : \A had :
              AfterTag(type, Reading(Tags(type) \o w, later, had)) = Reading(w, later, had)
        BY <1>0, <4>1, TagBack DEF w
      <4> QED BY <4>2, Zenon DEF w
    <3>2. /\ Reading(a \o b, rest, got) = Reading(a, b \o rest, got)
          /\ b \o rest \in Seq(Tokens)
          /\ Done(b \o rest, N) = Reading(b, rest, N)
      BY <2>5, SizeThen
    <3>3. Unpack2("int", Reading(a \o b, rest, got), u) = Reading(b, rest, N)
      BY <2>5, <3>2, Zenon
    <3>4. Reading(b, rest, N).ok /\ Reading(b, rest, N).got = N
      BY DEF Reading, Done
    <3>5. UnpackList(Unpack2, type, Reading(b, rest, N), u) = Done(rest, x)
      <4>1. UnpackList(Unpack2, type, Reading(b, rest, N), u)
              = UnpackEach(Unpack2, types, Reading(b, rest, N), u)
        BY <3>4 DEF UnpackList
      <4> HIDE DEF types
      <4> QED BY <2>5, <4>1, Zenon
    <3>6. Got(Done(rest, x), Whole(type, Done(rest, x).got)) = Done(rest, Whole(type, x))
      BY DEF Got, Done
    <3>7. Unpack3(type, Reading(Tags(type) \o (a \o b), rest, got), u)
            = Got(Done(rest, x), Whole(type, Done(rest, x).got))
      BY <1>2, <2>0, <3>1, <3>3, <3>5, Zenon DEF Unpack3, Unpacking
    <3> QED BY <2>4, <3>6, <3>7
  <2>8. /\ Tags(type) \o (a \o b) \in Seq(Tokens)
        /\ Sound(Tags(type) \o (a \o b))
    <3>1. a \o b \in Seq(Tokens) /\ Sound(a \o b)
      <4> HIDE DEF a, b
      <4> QED BY <2>5, SizeThen
    <3>2. type \notin {"int", "size", "unsigned", "code"}
      BY <2>0 DEF Atoms
    <3> HIDE DEF a, b
    <3> QED BY <1>0, <3>1, <3>2, TagBack
  <2> HIDE DEF a, b
  <2> QED BY <2>6, <2>7, <2>8 DEF Right
<1>3. CASE type \notin Atoms /\ type \notin DOMAIN Lists
  <2> DEFINE parts == PackParts(type, v, p)
             types == UnpackParts(type, u)
             N == Len(types)
             b == PackEach(Pack2, parts, p)
             x == [i \in 1 .. N |-> Known(types[i], parts[i][2], p)]
  <2>1. /\ N \in Nat /\ DOMAIN parts = 1 .. N
        /\ \A i \in 1 .. N :
             /\ types[i] = parts[i][1] /\ IsA(types[i], parts[i][2])
             /\ Agree(types[i], p, u) /\ types[i] \in Inner(type)
             /\ type # "call" => types[i] \notin {"call", "code"}
        /\ Whole(type, x) = Known(type, v, p)
    BY <1>0, <1>3, PartsOf DEF PartsFit
  <2>2. Pack3(type, v, p) = Tags(type) \o b
    BY <1>3 DEF Pack3, Packing
  <2>3. \A r : Unpack3(type, r, u)
                 = LET end == UnpackEach(Unpack2, types, AfterTag(type, r), u)
                   IN Got(end, Whole(type, end.got))
    BY <1>3, Zenon DEF Unpack3, Unpacking
  <2> HIDE DEF parts, types
  <2>4. AllRight(Pack2, Unpack2, N, parts, types, p, u)
    <3>1. ASSUME NEW i \in 1 .. N
          PROVE  Right(Pack2, Unpack2, types[i], parts[i][2], p, u)
      <4>1. types[i] \in Types2
        BY <1>0, <1>3, <2>1
      <4> QED BY <2>1, <4>1, Layer2
    <3> QED BY <2>1, <3>1, Each2
  <2>5. /\ b \in Seq(Tokens) /\ (type # "call" => Sound(b))
        /\ \A rest \in Seq(Tokens) : \A got :
             UnpackEach(Unpack2, types, Reading(b, rest, got), u) = Done(rest, x)
    <3>1. type # "call" => \A i \in 1 .. N : types[i] \notin {"call", "code"}
      BY <2>1
    <3> QED BY <2>4, <3>1, Zenon DEF AllRight
  <2> HIDE DEF b, x
  <2>6. /\ Tags(type) \o b \in Seq(Tokens)
        /\ type # "call" => Sound(Tags(type) \o b)
        /\ \A rest \in Seq(Tokens) : \A got :
             AfterTag(type, Reading(Tags(type) \o b, rest, got)) = Reading(b, rest, got)
    <3>1. type \notin {"int", "size", "unsigned", "code"}
      BY <1>3 DEF Atoms
    <3> QED BY <1>0, <2>5, <3>1, TagBack
  <2>7. ASSUME NEW rest \in Seq(Tokens), NEW got
        PROVE  Unpack3(type, Reading(Tags(type) \o b, rest, got), u)
                 = Done(rest, Known(type, v, p))
    <3>1. AfterTag(type, Reading(Tags(type) \o b, rest, got)) = Reading(b, rest, got)
      BY <2>6, Zenon
    <3>2. UnpackEach(Unpack2, types, Reading(b, rest, got), u) = Done(rest, x)
      BY <2>5, Zenon
    <3>3. Got(Done(rest, x), Whole(type, Done(rest, x).got)) = Done(rest, Whole(type, x))
      BY DEF Got, Done
    <3>4. Unpack3(type, Reading(Tags(type) \o b, rest, got), u)
            = Got(Done(rest, x), Whole(type, Done(rest, x).got))
      BY <2>3, <3>1, <3>2, Zenon
    <3> QED BY <2>1, <3>3, <3>4
  <2>8. type = "call" \/ type \notin {"call", "code"}
    BY <1>3 DEF Atoms
  <2> QED BY <2>2, <2>6, <2>7, <2>8 DEF Right
<1> QED BY <1>1, <1>2, <1>3

LEMMA Each3 ==
  ASSUME NEW N \in Nat, NEW parts, DOMAIN parts = 1 .. N, NEW types, Len(types) = N,
         NEW p, NEW u, \A i \in 1 .. N : types[i] = parts[i][1],
         \A i \in 1 .. N : Right(Pack3, Unpack3, types[i], parts[i][2], p, u)
  PROVE  AllRight(Pack3, Unpack3, N, parts, types, p, u)
<1> DEFINE s == [i \in 1 .. N |-> Pack3(types[i], parts[i][2], p)]
           x == [i \in 1 .. N |-> Known(types[i], parts[i][2], p)]
<1>1. PackEach(Pack3, parts, p) = FlattenSeq(s)
  <2>1. [i \in DOMAIN parts |-> Pack3(parts[i][1], parts[i][2], p)] = s
    OBVIOUS
  <2> QED BY <2>1 DEF PackEach
<1>2. s \in [1 .. N -> Seq(Tokens)]
  BY DEF Right
<1>3. FlattenSeq(s) \in Seq(Tokens)
  <2> HIDE DEF s
  <2> QED BY <1>2, FlatTokens
<1>4. (\A i \in 1 .. N : types[i] \notin {"call", "code"}) => Sound(FlattenSeq(s))
  <2>1. (\A i \in 1 .. N : types[i] \notin {"call", "code"}) => \A i \in 1 .. N : Sound(s[i])
    BY DEF Right
  <2> HIDE DEF s
  <2> QED BY <1>2, <2>1, SoundFlat
<1>5. ASSUME NEW n \in 1 .. N, NEW rest \in Seq(Tokens), NEW got
      PROVE  Unpack3(types[n], Reading(s[n], rest, got), u) = Done(rest, x[n])
  BY DEF Right
<1>6. x = [i \in 1 .. N |-> x[i]]
  OBVIOUS
<1> HIDE DEF s, x
<1>7. ASSUME NEW rest \in Seq(Tokens), NEW got
      PROVE  UnpackEach(Unpack3, types, Reading(FlattenSeq(s), rest, got), u) = Done(rest, x)
  <2> DEFINE from == Reading(FlattenSeq(s), rest, got)
             Step(f) == [n \in 0 .. Len(types) |->
                           IF n = 0 THEN Got(from, << >>)
                           ELSE LET before == f[n - 1]
                                    e == Unpack3(types[n], before, u)
                                IN Got(e, Append(before.got, e.got))]
             F == CHOOSE f : f = Step(f)
  <2>1. PICK G : Follows(G, N, s, x, from) /\ G[N] = Done(rest, x)
    <3>1. Taken(N, s, x, rest, got)
      BY <1>2, <1>6, ReadersTake
    <3> QED BY <3>1, Zenon DEF Taken
  <2>2. ASSUME NEW n \in 1 .. N
        PROVE  LET e == Unpack3(types[n], G[n - 1], u)
               IN G[n] = Got(e, Append(G[n - 1].got, e.got))
    <3>1. PICK later, had :
            /\ later \in Seq(Tokens)
            /\ G[n - 1] = Reading(s[n], later, had) /\ G[n] = Done(later, Append(had, x[n]))
      BY <2>1 DEF Follows
    <3>2. Unpack3(types[n], G[n - 1], u) = Done(later, x[n])
      BY <1>5, <3>1, SMTT(30)
    <3>3. Done(later, x[n]).got = x[n] /\ G[n - 1].got = had
      BY <3>1 DEF Reading, Done
    <3>4. Got(Done(later, x[n]), Append(had, x[n])) = Done(later, Append(had, x[n]))
      BY DEF Done, Got
    <3> QED BY <3>1, <3>2, <3>3, <3>4
  <2>3. G = Step(G)
    <3>1. G = [n \in 0 .. N |-> G[n]] /\ G[0] = Got(from, << >>)
      BY <2>1 DEF Follows
    <3> HIDE DEF from
    <3>2. ASSUME NEW n \in 0 .. N PROVE G[n] = Step(G)[n]
      <4>1. CASE n = 0
        BY <3>1, <4>1
      <4>2. CASE n # 0
        <5>1. n \in 1 .. N
          BY <4>2
        <5> QED BY <2>2, <4>2, <5>1
      <4> QED BY <4>1, <4>2
    <3>3. Step(G) = [n \in 0 .. N |-> Step(G)[n]]
      OBVIOUS
    <3> HIDE DEF Step
    <3> QED BY <3>1, <3>2, <3>3
  <2>4. F = Step(F)
    BY <2>3
  <2>5. UnpackEach(Unpack3, types, from, u) = F[N]
    BY DEF UnpackEach
  <2> HIDE DEF F, from
  <2> DEFINE T == {n \in 0 .. N : F[n] = G[n]}
  <2>6. 0 \in T
    BY <2>3, <2>4
  <2>7. ASSUME NEW n \in 0 .. N - 1, n \in T PROVE n + 1 \in T
    BY <2>3, <2>4, <2>7
  <2>8. N \in T
    <3>1. N \in 0 .. N
      OBVIOUS
    <3> HIDE DEF T
    <3> QED BY <2>6, <2>7, <3>1, UpTo
  <2> QED BY <2>1, <2>5, <2>8 DEF from
<1> QED BY <1>1, <1>3, <1>4, <1>7 DEF AllRight, x

LEMMA Layer4 ==
  ASSUME NEW type \in Types4, NEW v, IsA(type, v), NEW p \in Int, NEW u \in Int,
         Agree(type, p, u)
  PROVE  Right(PackAs, UnpackAs, type, v, p, u)
<1>0. /\ type \in Types4 /\ Types3 \subseteq Types4 /\ "int" \in Types3
      /\ type \notin Atoms => Inner(type) \subseteq Types3
  BY InnerTypes
<1>1. CASE type \in Atoms
  <2>1. Known(type, v, p) = v
    <3>1. type \notin Ranged
      BY <1>1 DEF Atoms, Ranged
    <3> QED BY <3>1, KnownPlain
  <2>2. /\ PackAs(type, v, p) = Tags(type) \o << PackAtom(type, v) >>
        /\ \A r : UnpackAs(type, r, u) = UnpackAtom(type, AfterTag(type, r))
    BY <1>1 DEF PackAs, UnpackAs, Packing, Unpacking
  <2> QED BY <1>1, <2>1, <2>2, AtomRight DEF Right
<1>2. CASE type \in DOMAIN Lists
  <2> DEFINE list == Elements(type, v)
             N == Len(list)
             e == Lists[type]
             parts == [i \in DOMAIN list |-> << e, list[i] >>]
             types == [i \in 1 .. N |-> e]
             a == Pack3("int", N, p)
             b == PackEach(Pack3, parts, p)
             x == [i \in 1 .. N |-> Known(types[i], parts[i][2], p)]
  <2>0. type \notin Atoms
    BY <1>2 DEF Lists, Atoms
  <2>1. /\ N \in Nat /\ N \in Ints /\ DOMAIN list = 1 .. N
        /\ e \in Inner(type) /\ e \notin {"call", "code"}
        /\ \A i \in 1 .. N : IsA(e, list[i])
        /\ Agree(e, p, u)
        /\ Whole(type, [i \in 1 .. N |-> Known(e, list[i], p)]) = Known(type, v, p)
    BY <1>2, ListOf DEF ListFits
  <2>2. Right(Pack3, Unpack3, "int", N, p, u)
    <3>1. IsA("int", N) /\ Agree("int", p, u)
      BY <2>1 DEF IsA, Agree, Ranged
    <3> QED BY <1>0, <3>1, Layer3
  <2>3. AllRight(Pack3, Unpack3, N, parts, types, p, u)
    <3>1. e \in Types3
      BY <1>0, <2>0, <2>1
    <3>2. DOMAIN parts = 1 .. N /\ Len(types) = N
      BY <2>1
    <3>3. ASSUME NEW i \in 1 .. N
          PROVE  types[i] = parts[i][1] /\ types[i] = e /\ parts[i][2] = list[i]
      BY <2>1
    <3>4. ASSUME NEW i \in 1 .. N
          PROVE  Right(Pack3, Unpack3, e, list[i], p, u)
      BY <2>1, <3>1, Layer3
    <3>5. ASSUME NEW i \in 1 .. N
          PROVE  Right(Pack3, Unpack3, types[i], parts[i][2], p, u)
      BY <3>3, <3>4
    <3> HIDE DEF parts, types, list
    <3> QED BY <2>1, <3>2, <3>3, <3>5, Each3
  <2>4. Whole(type, x) = Known(type, v, p)
    <3>1. x = [i \in 1 .. N |-> Known(e, list[i], p)]
      BY <2>1
    <3> QED BY <2>1, <3>1
  <2>5. /\ a \in Seq(Tokens) /\ Sound(a) /\ b \in Seq(Tokens) /\ Sound(b)
        /\ \A rest \in Seq(Tokens) : \A got :
             Unpack3("int", Reading(a, rest, got), u) = Done(rest, N)
        /\ \A rest \in Seq(Tokens) : \A got :
             UnpackEach(Unpack3, types, Reading(b, rest, got), u) = Done(rest, x)
    <3>1. Known("int", N, p) = N
      BY KnownPlain DEF Ranged
    <3>2. \A i \in 1 .. N : types[i] \notin {"call", "code"}
      BY <2>1
    <3>3. a \in Seq(Tokens) /\ Sound(a)
          /\ \A rest \in Seq(Tokens) : \A got :
               Unpack3("int", Reading(a, rest, got), u) = Done(rest, N)
      BY <2>2, <3>1 DEF Right
    <3>4. /\ b \in Seq(Tokens) /\ Sound(b)
          /\ \A rest \in Seq(Tokens) : \A got :
               UnpackEach(Unpack3, types, Reading(b, rest, got), u) = Done(rest, x)
      <4> HIDE DEF parts, types
      <4> QED BY <2>3, <3>2, Zenon DEF AllRight
    <3> QED BY <3>3, <3>4
  <2>6. PackAs(type, v, p) = Tags(type) \o (a \o b)
    BY <1>2, <2>0 DEF PackAs, Packing, PackList, Elements
  <2>7. ASSUME NEW rest \in Seq(Tokens), NEW got
        PROVE  UnpackAs(type, Reading(Tags(type) \o (a \o b), rest, got), u)
                 = Done(rest, Known(type, v, p))
    <3> HIDE DEF a, b, x, list
    <3>1. AfterTag(type, Reading(Tags(type) \o (a \o b), rest, got)) = Reading(a \o b, rest, got)
      <4>1. a \o b \in Seq(Tokens)
        BY <2>5, SizeThen
      <4> DEFINE w == a \o b
      <4> HIDE DEF w
      <4>2. \A later \in Seq(Tokens) : \A had :
              AfterTag(type, Reading(Tags(type) \o w, later, had)) = Reading(w, later, had)
        BY <1>0, <4>1, TagBack DEF w
      <4> QED BY <4>2, Zenon DEF w
    <3>2. /\ Reading(a \o b, rest, got) = Reading(a, b \o rest, got)
          /\ b \o rest \in Seq(Tokens)
          /\ Done(b \o rest, N) = Reading(b, rest, N)
      BY <2>5, SizeThen
    <3>3. Unpack3("int", Reading(a \o b, rest, got), u) = Reading(b, rest, N)
      BY <2>5, <3>2, Zenon
    <3>4. Reading(b, rest, N).ok /\ Reading(b, rest, N).got = N
      BY DEF Reading, Done
    <3>5. UnpackList(Unpack3, type, Reading(b, rest, N), u) = Done(rest, x)
      <4>1. UnpackList(Unpack3, type, Reading(b, rest, N), u)
              = UnpackEach(Unpack3, types, Reading(b, rest, N), u)
        BY <3>4 DEF UnpackList
      <4> HIDE DEF types
      <4> QED BY <2>5, <4>1, Zenon
    <3>6. Got(Done(rest, x), Whole(type, Done(rest, x).got)) = Done(rest, Whole(type, x))
      BY DEF Got, Done
    <3>7. UnpackAs(type, Reading(Tags(type) \o (a \o b), rest, got), u)
            = Got(Done(rest, x), Whole(type, Done(rest, x).got))
      BY <1>2, <2>0, <3>1, <3>3, <3>5, Zenon DEF UnpackAs, Unpacking
    <3> QED BY <2>4, <3>6, <3>7
  <2>8. /\ Tags(type) \o (a \o b) \in Seq(Tokens)
        /\ Sound(Tags(type) \o (a \o b))
    <3>1. a \o b \in Seq(Tokens) /\ Sound(a \o b)
      <4> HIDE DEF a, b
      <4> QED BY <2>5, SizeThen
    <3>2. type \notin {"int", "size", "unsigned", "code"}
      BY <2>0 DEF Atoms
    <3> HIDE DEF a, b
    <3> QED BY <1>0, <3>1, <3>2, TagBack
  <2> HIDE DEF a, b
  <2> QED BY <2>6, <2>7, <2>8 DEF Right
<1>3. CASE type \notin Atoms /\ type \notin DOMAIN Lists
  <2> DEFINE parts == PackParts(type, v, p)
             types == UnpackParts(type, u)
             N == Len(types)
             b == PackEach(Pack3, parts, p)
             x == [i \in 1 .. N |-> Known(types[i], parts[i][2], p)]
  <2>1. /\ N \in Nat /\ DOMAIN parts = 1 .. N
        /\ \A i \in 1 .. N :
             /\ types[i] = parts[i][1] /\ IsA(types[i], parts[i][2])
             /\ Agree(types[i], p, u) /\ types[i] \in Inner(type)
             /\ type # "call" => types[i] \notin {"call", "code"}
        /\ Whole(type, x) = Known(type, v, p)
    BY <1>0, <1>3, PartsOf DEF PartsFit
  <2>2. PackAs(type, v, p) = Tags(type) \o b
    BY <1>3 DEF PackAs, Packing
  <2>3. \A r : UnpackAs(type, r, u)
                 = LET end == UnpackEach(Unpack3, types, AfterTag(type, r), u)
                   IN Got(end, Whole(type, end.got))
    BY <1>3, Zenon DEF UnpackAs, Unpacking
  <2> HIDE DEF parts, types
  <2>4. AllRight(Pack3, Unpack3, N, parts, types, p, u)
    <3>1. ASSUME NEW i \in 1 .. N
          PROVE  Right(Pack3, Unpack3, types[i], parts[i][2], p, u)
      <4>1. types[i] \in Types3
        BY <1>0, <1>3, <2>1
      <4> QED BY <2>1, <4>1, Layer3
    <3> QED BY <2>1, <3>1, Each3
  <2>5. /\ b \in Seq(Tokens) /\ (type # "call" => Sound(b))
        /\ \A rest \in Seq(Tokens) : \A got :
             UnpackEach(Unpack3, types, Reading(b, rest, got), u) = Done(rest, x)
    <3>1. type # "call" => \A i \in 1 .. N : types[i] \notin {"call", "code"}
      BY <2>1
    <3> QED BY <2>4, <3>1, Zenon DEF AllRight
  <2> HIDE DEF b, x
  <2>6. /\ Tags(type) \o b \in Seq(Tokens)
        /\ type # "call" => Sound(Tags(type) \o b)
        /\ \A rest \in Seq(Tokens) : \A got :
             AfterTag(type, Reading(Tags(type) \o b, rest, got)) = Reading(b, rest, got)
    <3>1. type \notin {"int", "size", "unsigned", "code"}
      BY <1>3 DEF Atoms
    <3> QED BY <1>0, <2>5, <3>1, TagBack
  <2>7. ASSUME NEW rest \in Seq(Tokens), NEW got
        PROVE  UnpackAs(type, Reading(Tags(type) \o b, rest, got), u)
                 = Done(rest, Known(type, v, p))
    <3>1. AfterTag(type, Reading(Tags(type) \o b, rest, got)) = Reading(b, rest, got)
      BY <2>6, Zenon
    <3>2. UnpackEach(Unpack3, types, Reading(b, rest, got), u) = Done(rest, x)
      BY <2>5, Zenon
    <3>3. Got(Done(rest, x), Whole(type, Done(rest, x).got)) = Done(rest, Whole(type, x))
      BY DEF Got, Done
    <3>4. UnpackAs(type, Reading(Tags(type) \o b, rest, got), u)
            = Got(Done(rest, x), Whole(type, Done(rest, x).got))
      BY <2>3, <3>1, <3>2, Zenon
    <3> QED BY <2>1, <3>3, <3>4
  <2>8. type = "call" \/ type \notin {"call", "code"}
    BY <1>3 DEF Atoms
  <2> QED BY <2>2, <2>6, <2>7, <2>8 DEF Right
<1> QED BY <1>1, <1>2, <1>3

LEMMA Each4 ==
  ASSUME NEW N \in Nat, NEW parts, DOMAIN parts = 1 .. N, NEW types, Len(types) = N,
         NEW p, NEW u, \A i \in 1 .. N : types[i] = parts[i][1],
         \A i \in 1 .. N : Right(PackAs, UnpackAs, types[i], parts[i][2], p, u)
  PROVE  AllRight(PackAs, UnpackAs, N, parts, types, p, u)
<1> DEFINE s == [i \in 1 .. N |-> PackAs(types[i], parts[i][2], p)]
           x == [i \in 1 .. N |-> Known(types[i], parts[i][2], p)]
<1>1. PackEach(PackAs, parts, p) = FlattenSeq(s)
  <2>1. [i \in DOMAIN parts |-> PackAs(parts[i][1], parts[i][2], p)] = s
    OBVIOUS
  <2> QED BY <2>1 DEF PackEach
<1>2. s \in [1 .. N -> Seq(Tokens)]
  BY DEF Right
<1>3. FlattenSeq(s) \in Seq(Tokens)
  <2> HIDE DEF s
  <2> QED BY <1>2, FlatTokens
<1>4. (\A i \in 1 .. N : types[i] \notin {"call", "code"}) => Sound(FlattenSeq(s))
  <2>1. (\A i \in 1 .. N : types[i] \notin {"call", "code"}) => \A i \in 1 .. N : Sound(s[i])
    BY DEF Right
  <2> HIDE DEF s
  <2> QED BY <1>2, <2>1, SoundFlat
<1>5. ASSUME NEW n \in 1 .. N, NEW rest \in Seq(Tokens), NEW got
      PROVE  UnpackAs(types[n], Reading(s[n], rest, got), u) = Done(rest, x[n])
  BY DEF Right
<1>6. x = [i \in 1 .. N |-> x[i]]
  OBVIOUS
<1> HIDE DEF s, x
<1>7. ASSUME NEW rest \in Seq(Tokens), NEW got
      PROVE  UnpackEach(UnpackAs, types, Reading(FlattenSeq(s), rest, got), u) = Done(rest, x)
  <2> DEFINE from == Reading(FlattenSeq(s), rest, got)
             Step(f) == [n \in 0 .. Len(types) |->
                           IF n = 0 THEN Got(from, << >>)
                           ELSE LET before == f[n - 1]
                                    e == UnpackAs(types[n], before, u)
                                IN Got(e, Append(before.got, e.got))]
             F == CHOOSE f : f = Step(f)
  <2>1. PICK G : Follows(G, N, s, x, from) /\ G[N] = Done(rest, x)
    <3>1. Taken(N, s, x, rest, got)
      BY <1>2, <1>6, ReadersTake
    <3> QED BY <3>1, Zenon DEF Taken
  <2>2. ASSUME NEW n \in 1 .. N
        PROVE  LET e == UnpackAs(types[n], G[n - 1], u)
               IN G[n] = Got(e, Append(G[n - 1].got, e.got))
    <3>1. PICK later, had :
            /\ later \in Seq(Tokens)
            /\ G[n - 1] = Reading(s[n], later, had) /\ G[n] = Done(later, Append(had, x[n]))
      BY <2>1 DEF Follows
    <3>2. UnpackAs(types[n], G[n - 1], u) = Done(later, x[n])
      BY <1>5, <3>1, SMTT(30)
    <3>3. Done(later, x[n]).got = x[n] /\ G[n - 1].got = had
      BY <3>1 DEF Reading, Done
    <3>4. Got(Done(later, x[n]), Append(had, x[n])) = Done(later, Append(had, x[n]))
      BY DEF Done, Got
    <3> QED BY <3>1, <3>2, <3>3, <3>4
  <2>3. G = Step(G)
    <3>1. G = [n \in 0 .. N |-> G[n]] /\ G[0] = Got(from, << >>)
      BY <2>1 DEF Follows
    <3> HIDE DEF from
    <3>2. ASSUME NEW n \in 0 .. N PROVE G[n] = Step(G)[n]
      <4>1. CASE n = 0
        BY <3>1, <4>1
      <4>2. CASE n # 0
        <5>1. n \in 1 .. N
          BY <4>2
        <5> QED BY <2>2, <4>2, <5>1
      <4> QED BY <4>1, <4>2
    <3>3. Step(G) = [n \in 0 .. N |-> Step(G)[n]]
      OBVIOUS
    <3> HIDE DEF Step
    <3> QED BY <3>1, <3>2, <3>3
  <2>4. F = Step(F)
    BY <2>3
  <2>5. UnpackEach(UnpackAs, types, from, u) = F[N]
    BY DEF UnpackEach
  <2> HIDE DEF F, from
  <2> DEFINE T == {n \in 0 .. N : F[n] = G[n]}
  <2>6. 0 \in T
    BY <2>3, <2>4
  <2>7. ASSUME NEW n \in 0 .. N - 1, n \in T PROVE n + 1 \in T
    BY <2>3, <2>4, <2>7
  <2>8. N \in T
    <3>1. N \in 0 .. N
      OBVIOUS
    <3> HIDE DEF T
    <3> QED BY <2>6, <2>7, <3>1, UpTo
  <2> QED BY <2>1, <2>5, <2>8 DEF from
<1> QED BY <1>1, <1>3, <1>4, <1>7 DEF AllRight, x

\* What one side packs (SoapyRPCPacker.cpp) the other side unpacks (SoapyRPCUnpacker.cpp), token
\* by token and to the last one, whatever comes after it: all that a range may lose is the step
\* that a side does not know of.
THEOREM RoundTrip ==
  ASSUME NEW type \in Types4, NEW v, IsA(type, v), NEW p \in Int, NEW u \in Int,
         Agree(type, p, u), NEW rest \in Seq(Tokens)
  PROVE  UnpackAs(type, Reader(PackAs(type, v, p) \o rest), u)
           = [in |-> rest, ok |-> TRUE, got |-> Known(type, v, p)]
<1>1. Right(PackAs, UnpackAs, type, v, p, u)
  BY Layer4
<1>2. Reader(PackAs(type, v, p) \o rest) = Reading(PackAs(type, v, p), rest, 0)
  BY DEF Reader, Reading, Done
<1>3. UnpackAs(type, Reading(PackAs(type, v, p), rest, 0), u) = Done(rest, Known(type, v, p))
  BY <1>1, Zenon DEF Right
<1> QED BY <1>2, <1>3 DEF Done

\* Several values, one after the other.
Through(N, types, values, p, u) ==
  /\ PackAll(types, values, p) \in Seq(Tokens)
  /\ Sound(PackAll(types, values, p))
  /\ \A rest \in Seq(Tokens) : \A got :
       UnpackAll(types, Reading(PackAll(types, values, p), rest, got), u)
         = Done(rest, [i \in 1 .. N |-> Known(types[i], values[i], p)])

LEMMA AllTrip ==
  ASSUME NEW N \in Nat, NEW types, DOMAIN types = 1 .. N, Len(types) = N, NEW values,
         NEW p \in Int, NEW u \in Int,
         \A i \in 1 .. N : /\ types[i] \in Types4 \ {"call", "code"}
                           /\ IsA(types[i], values[i]) /\ Agree(types[i], p, u)
  PROVE  Through(N, types, values, p, u)
<1> DEFINE parts == [i \in 1 .. N |-> << types[i], values[i] >>]
           x == [i \in 1 .. N |-> Known(types[i], parts[i][2], p)]
<1>1. PackAll(types, values, p) = PackEach(PackAs, parts, p)
  BY DEF PackAll
<1>2. \A r : UnpackAll(types, r, u) = UnpackEach(UnpackAs, types, r, u)
  BY DEF UnpackAll
<1>3. x = [i \in 1 .. N |-> Known(types[i], values[i], p)]
  OBVIOUS
<1>4. ASSUME NEW i \in 1 .. N
      PROVE  types[i] = parts[i][1] /\ parts[i][2] = values[i]
  OBVIOUS
<1>5. DOMAIN parts = 1 .. N
  OBVIOUS
<1> HIDE DEF parts
<1>6. ASSUME NEW i \in 1 .. N
      PROVE  Right(PackAs, UnpackAs, types[i], parts[i][2], p, u)
  BY <1>4, Layer4
<1>7. AllRight(PackAs, UnpackAs, N, parts, types, p, u)
  BY <1>4, <1>5, <1>6, Each4
<1>8. \A i \in 1 .. N : types[i] \notin {"call", "code"}
  OBVIOUS
<1> HIDE DEF x
<1>9. /\ PackEach(PackAs, parts, p) \in Seq(Tokens)
      /\ Sound(PackEach(PackAs, parts, p))
      /\ \A rest \in Seq(Tokens) : \A got :
           UnpackEach(UnpackAs, types, Reading(PackEach(PackAs, parts, p), rest, got), u)
             = Done(rest, x)
  BY <1>7, <1>8, Zenon DEF AllRight, x
<1> QED BY <1>1, <1>2, <1>3, <1>9 DEF Through
-----------------------------------------------------------------------------
(* A reader that has thrown is left as it is.                              *)

Failed(rest, got) == [in |-> rest, ok |-> FALSE, got |-> got]

LEMMA FailedStays ==
  ASSUME NEW rest, NEW got
  PROVE  /\ ~ Failed(rest, got).ok /\ Failed(rest, got).in = rest
         /\ \A v : Got(Failed(rest, got), v) = Failed(rest, got)
         /\ Unpack(Failed(rest, got)) = Failed(rest, got)
         /\ \A type : AfterTag(type, Failed(rest, got)) = Failed(rest, got)
         /\ \A type : UnpackAtom(type, Failed(rest, got)) = Failed(rest, got)
<1> DEFINE r == Failed(rest, got)
<1>1. ~ r.ok /\ [r EXCEPT !.ok = FALSE] = r /\ r.in = rest
  <2>1. r \in [in : {rest}, ok : {FALSE}, got : {got}]
    BY DEF Failed
  <2>2. r.ok = FALSE /\ r.in = rest
    BY DEF Failed
  <2> HIDE DEF r
  <2>3. [r EXCEPT !.ok = FALSE] = r
    BY <2>1, <2>2
  <2> QED BY <2>2, <2>3
<1> HIDE DEF r
<1>2. \A v : Got(r, v) = r
  BY <1>1 DEF Got
<1>3. Unpack(r) = r
  BY <1>1 DEF Unpack
<1>4. \A type : AfterTag(type, r) = r
  BY <1>1 DEF AfterTag, TypeIs
<1>5. \A type : UnpackAtom(type, r) = r
  BY <1>2, <1>3 DEF UnpackAtom
<1> QED BY <1>1, <1>2, <1>3, <1>4, <1>5 DEF r

LEMMA NowFailed ==
  ASSUME NEW rest, NEW got, NEW e \in [in : {rest}, ok : BOOLEAN, got : {got}]
  PROVE  [e EXCEPT !.ok = FALSE] = Failed(rest, got)
<1>1. \A f : [e EXCEPT !.ok = f] = [in |-> rest, ok |-> f, got |-> got]
  OBVIOUS
<1> QED BY <1>1, Zenon DEF Failed

\* The types that an unpacker calls for.
LEMMA PartTypes ==
  ASSUME NEW type \in Types4, type \notin Atoms, type \notin DOMAIN Lists, NEW u \in Int
  PROVE  /\ Len(UnpackParts(type, u)) \in Nat
         /\ \A i \in 1 .. Len(UnpackParts(type, u)) : UnpackParts(type, u)[i] \in Inner(type)
<1>1. type \in {"double", "string", "call", "complex", "range", "entry", "argInfo"}
  BY DEF Types4, Types3, Types2, Types1, Types0, Atoms, Lists
<1>2. CASE type = "range"
  <2> DEFINE S == {"double"}
  <2>1. << "double", "double" >> \in Seq(S) /\ << "double" >> \in Seq(S) /\ << >> \in Seq(S)
    OBVIOUS
  <2>2. UnpackParts(type, u) \in Seq(S)
    <3> HIDE DEF S
    <3> QED BY <1>2, <2>1, ConcatProperties DEF UnpackParts, UnpackRange
  <2>3. "double" \in Inner(type)
    BY <1>2 DEF Inner, Types2, Types1, Types0, Atoms
  <2> DEFINE types == UnpackParts(type, u)
  <2> HIDE DEF types
  <2>4. types \in Seq(S)
    BY <2>2 DEF types
  <2>5. Len(types) \in Nat /\ \A i \in 1 .. Len(types) : types[i] \in S
    <3> HIDE DEF S
    <3> QED BY <2>4, LenProperties, ElementOfSeq
  <2> QED BY <2>3, <2>5 DEF types
<1>3. CASE type = "double"
  BY <1>3 DEF UnpackParts, Inner, Types1, Types0, Atoms
<1>4. CASE type = "string"
  BY <1>4 DEF UnpackParts, Inner, Types1, Types0, Atoms
<1>5. CASE type = "call"
  BY <1>5 DEF UnpackParts, Inner, Types1, Types0, Atoms
<1>6. CASE type = "complex"
  BY <1>6 DEF UnpackParts, Inner, Types2, Types1, Types0, Atoms
<1>7. CASE type = "entry"
  BY <1>7 DEF UnpackParts, Inner, Types2, Types1, Types0, Atoms
<1>8. CASE type = "argInfo"
  <2> DEFINE types == << "string", "string", "string", "string", "string", "int", "range",
                         "strings", "strings" >>
  <2>1. UnpackParts(type, u) = types /\ Len(types) = 9
    BY <1>8 DEF UnpackParts
  <2>2. \A i \in 1 .. 9 : types[i] \in {"string", "int", "range", "strings"}
    OBVIOUS
  <2>3. {"string", "int", "range", "strings"} \subseteq Inner(type)
    BY <1>8 DEF Inner, Types3, Types2, Types1, Types0, Atoms
  <2> HIDE DEF types
  <2> QED BY <2>1, <2>2, <2>3
<1> QED BY <1>1, <1>2, <1>3, <1>4, <1>5, <1>6, <1>7, <1>8

LEMMA Stop0 ==
  ASSUME NEW type \in Types0, NEW u \in Int, NEW rest, NEW got
  PROVE  Unpack0(type, Failed(rest, got), u) = Failed(rest, got)
BY FailedStays DEF Unpack0

LEMMA Halt0 ==
  ASSUME NEW types, Len(types) \in Nat, \A i \in 1 .. Len(types) : types[i] \in Types0,
         NEW u \in Int, NEW rest, NEW got
  PROVE  UnpackEach(Unpack0, types, Failed(rest, got), u) = Failed(rest, got)
<1> DEFINE N == Len(types)
           r == Failed(rest, got)
           Step(f) == [n \in 0 .. N |->
                         IF n = 0 THEN Got(r, << >>)
                         ELSE LET before == f[n - 1]
                                  e == Unpack0(types[n], before, u)
                              IN Got(e, Append(before.got, e.got))]
           F == CHOOSE f : f = Step(f)
           G == [n \in 0 .. N |-> r]
<1>1. \A v : Got(r, v) = r
  BY FailedStays
<1>2. \A n \in 1 .. N : Unpack0(types[n], r, u) = r
  BY Stop0
<1> HIDE DEF r
<1>3. G = Step(G)
  <2>1. ASSUME NEW n \in 0 .. N PROVE Step(G)[n] = r
    <3>1. CASE n = 0
      BY <1>1, <3>1
    <3>2. CASE n # 0
      <4>1. n \in 1 .. N /\ n - 1 \in 0 .. N
        BY <3>2
      <4>2. G[n - 1] = r
        BY <4>1
      <4> HIDE DEF G
      <4> QED BY <1>1, <1>2, <3>2, <4>1, <4>2
    <3> QED BY <3>1, <3>2
  <2> HIDE DEF Step
  <2>2. Step(G) = [n \in 0 .. N |-> Step(G)[n]]
    BY DEF Step
  <2> QED BY <2>1, <2>2
<1>4. F = Step(F)
  BY <1>3
<1>5. UnpackEach(Unpack0, types, r, u) = F[N]
  BY DEF UnpackEach
<1> HIDE DEF F
<1> DEFINE T == {n \in 0 .. N : F[n] = r}
<1>6. 0 \in T
  BY <1>1, <1>4
<1>7. ASSUME NEW n \in 0 .. N - 1, n \in T PROVE n + 1 \in T
  <2>1. n + 1 \in 1 .. N /\ n + 1 \in 0 .. N /\ (n + 1) - 1 = n /\ n + 1 # 0
    OBVIOUS
  <2>2. F[n] = r
    BY <1>7
  <2>3. F[n + 1] = LET e == Unpack0(types[n + 1], F[n], u) IN Got(e, Append(F[n].got, e.got))
    BY <1>4, <2>1
  <2>4. F[n + 1] = r
    BY <1>1, <1>2, <2>1, <2>2, <2>3
  <2> QED BY <2>1, <2>4
<1>8. N \in T
  <2>1. N \in 0 .. N
    OBVIOUS
  <2> HIDE DEF T
  <2> QED BY <1>6, <1>7, <2>1, UpTo
<1> QED BY <1>5, <1>8 DEF r

LEMMA Stop1 ==
  ASSUME NEW type \in Types1, NEW u \in Int, NEW rest, NEW got
  PROVE  Unpack1(type, Failed(rest, got), u) = Failed(rest, got)
<1> DEFINE r == Failed(rest, got)
<1>1. /\ ~ r.ok /\ \A v : Got(r, v) = r
      /\ AfterTag(type, r) = r /\ \A t : UnpackAtom(t, r) = r
  BY FailedStays
<1> HIDE DEF r
<1>2. /\ type \in Types4 /\ "int" \in Types0
      /\ type \notin Atoms => Inner(type) \subseteq Types0
  BY InnerTypes
<1>3. CASE type \in Atoms
  BY <1>1, <1>3 DEF Unpack1, Unpacking, r
<1>4. CASE type \in DOMAIN Lists
  <2>1. type \notin Atoms
    BY <1>4 DEF Lists, Atoms
  <2>2. Unpack0("int", r, u) = r
    BY <1>2, Stop0 DEF r
  <2>3. UnpackList(Unpack0, type, r, u) = r
    BY <1>1 DEF UnpackList
  <2>4. Unpack1(type, r, u) = Got(r, Whole(type, r.got))
    BY <1>1, <1>4, <2>1, <2>2, <2>3, Zenon DEF Unpack1, Unpacking
  <2> QED BY <1>1, <2>4 DEF r
<1>5. CASE type \notin Atoms /\ type \notin DOMAIN Lists
  <2> DEFINE types == UnpackParts(type, u)
  <2>1. Len(types) \in Nat /\ \A i \in 1 .. Len(types) : types[i] \in Inner(type)
    BY <1>2, <1>5, PartTypes
  <2>2. Unpack1(type, r, u) = LET end == UnpackEach(Unpack0, types, r, u)
                              IN Got(end, Whole(type, end.got))
    BY <1>1, <1>5, Zenon DEF Unpack1, Unpacking
  <2> HIDE DEF types
  <2>3. \A i \in 1 .. Len(types) : types[i] \in Types0
    BY <1>2, <1>5, <2>1
  <2>4. UnpackEach(Unpack0, types, r, u) = r
    BY <2>1, <2>3, Halt0 DEF r
  <2>5. Unpack1(type, r, u) = Got(r, Whole(type, r.got))
    BY <2>2, <2>4, Zenon
  <2> QED BY <1>1, <2>5 DEF r
<1> QED BY <1>3, <1>4, <1>5 DEF r

LEMMA Halt1 ==
  ASSUME NEW types, Len(types) \in Nat, \A i \in 1 .. Len(types) : types[i] \in Types1,
         NEW u \in Int, NEW rest, NEW got
  PROVE  UnpackEach(Unpack1, types, Failed(rest, got), u) = Failed(rest, got)
<1> DEFINE N == Len(types)
           r == Failed(rest, got)
           Step(f) == [n \in 0 .. N |->
                         IF n = 0 THEN Got(r, << >>)
                         ELSE LET before == f[n - 1]
                                  e == Unpack1(types[n], before, u)
                              IN Got(e, Append(before.got, e.got))]
           F == CHOOSE f : f = Step(f)
           G == [n \in 0 .. N |-> r]
<1>1. \A v : Got(r, v) = r
  BY FailedStays
<1>2. \A n \in 1 .. N : Unpack1(types[n], r, u) = r
  BY Stop1
<1> HIDE DEF r
<1>3. G = Step(G)
  <2>1. ASSUME NEW n \in 0 .. N PROVE Step(G)[n] = r
    <3>1. CASE n = 0
      BY <1>1, <3>1
    <3>2. CASE n # 0
      <4>1. n \in 1 .. N /\ n - 1 \in 0 .. N
        BY <3>2
      <4>2. G[n - 1] = r
        BY <4>1
      <4> HIDE DEF G
      <4> QED BY <1>1, <1>2, <3>2, <4>1, <4>2
    <3> QED BY <3>1, <3>2
  <2> HIDE DEF Step
  <2>2. Step(G) = [n \in 0 .. N |-> Step(G)[n]]
    BY DEF Step
  <2> QED BY <2>1, <2>2
<1>4. F = Step(F)
  BY <1>3
<1>5. UnpackEach(Unpack1, types, r, u) = F[N]
  BY DEF UnpackEach
<1> HIDE DEF F
<1> DEFINE T == {n \in 0 .. N : F[n] = r}
<1>6. 0 \in T
  BY <1>1, <1>4
<1>7. ASSUME NEW n \in 0 .. N - 1, n \in T PROVE n + 1 \in T
  <2>1. n + 1 \in 1 .. N /\ n + 1 \in 0 .. N /\ (n + 1) - 1 = n /\ n + 1 # 0
    OBVIOUS
  <2>2. F[n] = r
    BY <1>7
  <2>3. F[n + 1] = LET e == Unpack1(types[n + 1], F[n], u) IN Got(e, Append(F[n].got, e.got))
    BY <1>4, <2>1
  <2>4. F[n + 1] = r
    BY <1>1, <1>2, <2>1, <2>2, <2>3
  <2> QED BY <2>1, <2>4
<1>8. N \in T
  <2>1. N \in 0 .. N
    OBVIOUS
  <2> HIDE DEF T
  <2> QED BY <1>6, <1>7, <2>1, UpTo
<1> QED BY <1>5, <1>8 DEF r

LEMMA Stop2 ==
  ASSUME NEW type \in Types2, NEW u \in Int, NEW rest, NEW got
  PROVE  Unpack2(type, Failed(rest, got), u) = Failed(rest, got)
<1> DEFINE r == Failed(rest, got)
<1>1. /\ ~ r.ok /\ \A v : Got(r, v) = r
      /\ AfterTag(type, r) = r /\ \A t : UnpackAtom(t, r) = r
  BY FailedStays
<1> HIDE DEF r
<1>2. /\ type \in Types4 /\ "int" \in Types1
      /\ type \notin Atoms => Inner(type) \subseteq Types1
  BY InnerTypes
<1>3. CASE type \in Atoms
  BY <1>1, <1>3 DEF Unpack2, Unpacking, r
<1>4. CASE type \in DOMAIN Lists
  <2>1. type \notin Atoms
    BY <1>4 DEF Lists, Atoms
  <2>2. Unpack1("int", r, u) = r
    BY <1>2, Stop1 DEF r
  <2>3. UnpackList(Unpack1, type, r, u) = r
    BY <1>1 DEF UnpackList
  <2>4. Unpack2(type, r, u) = Got(r, Whole(type, r.got))
    BY <1>1, <1>4, <2>1, <2>2, <2>3, Zenon DEF Unpack2, Unpacking
  <2> QED BY <1>1, <2>4 DEF r
<1>5. CASE type \notin Atoms /\ type \notin DOMAIN Lists
  <2> DEFINE types == UnpackParts(type, u)
  <2>1. Len(types) \in Nat /\ \A i \in 1 .. Len(types) : types[i] \in Inner(type)
    BY <1>2, <1>5, PartTypes
  <2>2. Unpack2(type, r, u) = LET end == UnpackEach(Unpack1, types, r, u)
                              IN Got(end, Whole(type, end.got))
    BY <1>1, <1>5, Zenon DEF Unpack2, Unpacking
  <2> HIDE DEF types
  <2>3. \A i \in 1 .. Len(types) : types[i] \in Types1
    BY <1>2, <1>5, <2>1
  <2>4. UnpackEach(Unpack1, types, r, u) = r
    BY <2>1, <2>3, Halt1 DEF r
  <2>5. Unpack2(type, r, u) = Got(r, Whole(type, r.got))
    BY <2>2, <2>4, Zenon
  <2> QED BY <1>1, <2>5 DEF r
<1> QED BY <1>3, <1>4, <1>5 DEF r

LEMMA Halt2 ==
  ASSUME NEW types, Len(types) \in Nat, \A i \in 1 .. Len(types) : types[i] \in Types2,
         NEW u \in Int, NEW rest, NEW got
  PROVE  UnpackEach(Unpack2, types, Failed(rest, got), u) = Failed(rest, got)
<1> DEFINE N == Len(types)
           r == Failed(rest, got)
           Step(f) == [n \in 0 .. N |->
                         IF n = 0 THEN Got(r, << >>)
                         ELSE LET before == f[n - 1]
                                  e == Unpack2(types[n], before, u)
                              IN Got(e, Append(before.got, e.got))]
           F == CHOOSE f : f = Step(f)
           G == [n \in 0 .. N |-> r]
<1>1. \A v : Got(r, v) = r
  BY FailedStays
<1>2. \A n \in 1 .. N : Unpack2(types[n], r, u) = r
  BY Stop2
<1> HIDE DEF r
<1>3. G = Step(G)
  <2>1. ASSUME NEW n \in 0 .. N PROVE Step(G)[n] = r
    <3>1. CASE n = 0
      BY <1>1, <3>1
    <3>2. CASE n # 0
      <4>1. n \in 1 .. N /\ n - 1 \in 0 .. N
        BY <3>2
      <4>2. G[n - 1] = r
        BY <4>1
      <4> HIDE DEF G
      <4> QED BY <1>1, <1>2, <3>2, <4>1, <4>2
    <3> QED BY <3>1, <3>2
  <2> HIDE DEF Step
  <2>2. Step(G) = [n \in 0 .. N |-> Step(G)[n]]
    BY DEF Step
  <2> QED BY <2>1, <2>2
<1>4. F = Step(F)
  BY <1>3
<1>5. UnpackEach(Unpack2, types, r, u) = F[N]
  BY DEF UnpackEach
<1> HIDE DEF F
<1> DEFINE T == {n \in 0 .. N : F[n] = r}
<1>6. 0 \in T
  BY <1>1, <1>4
<1>7. ASSUME NEW n \in 0 .. N - 1, n \in T PROVE n + 1 \in T
  <2>1. n + 1 \in 1 .. N /\ n + 1 \in 0 .. N /\ (n + 1) - 1 = n /\ n + 1 # 0
    OBVIOUS
  <2>2. F[n] = r
    BY <1>7
  <2>3. F[n + 1] = LET e == Unpack2(types[n + 1], F[n], u) IN Got(e, Append(F[n].got, e.got))
    BY <1>4, <2>1
  <2>4. F[n + 1] = r
    BY <1>1, <1>2, <2>1, <2>2, <2>3
  <2> QED BY <2>1, <2>4
<1>8. N \in T
  <2>1. N \in 0 .. N
    OBVIOUS
  <2> HIDE DEF T
  <2> QED BY <1>6, <1>7, <2>1, UpTo
<1> QED BY <1>5, <1>8 DEF r

LEMMA Stop3 ==
  ASSUME NEW type \in Types3, NEW u \in Int, NEW rest, NEW got
  PROVE  Unpack3(type, Failed(rest, got), u) = Failed(rest, got)
<1> DEFINE r == Failed(rest, got)
<1>1. /\ ~ r.ok /\ \A v : Got(r, v) = r
      /\ AfterTag(type, r) = r /\ \A t : UnpackAtom(t, r) = r
  BY FailedStays
<1> HIDE DEF r
<1>2. /\ type \in Types4 /\ "int" \in Types2
      /\ type \notin Atoms => Inner(type) \subseteq Types2
  BY InnerTypes
<1>3. CASE type \in Atoms
  BY <1>1, <1>3 DEF Unpack3, Unpacking, r
<1>4. CASE type \in DOMAIN Lists
  <2>1. type \notin Atoms
    BY <1>4 DEF Lists, Atoms
  <2>2. Unpack2("int", r, u) = r
    BY <1>2, Stop2 DEF r
  <2>3. UnpackList(Unpack2, type, r, u) = r
    BY <1>1 DEF UnpackList
  <2>4. Unpack3(type, r, u) = Got(r, Whole(type, r.got))
    BY <1>1, <1>4, <2>1, <2>2, <2>3, Zenon DEF Unpack3, Unpacking
  <2> QED BY <1>1, <2>4 DEF r
<1>5. CASE type \notin Atoms /\ type \notin DOMAIN Lists
  <2> DEFINE types == UnpackParts(type, u)
  <2>1. Len(types) \in Nat /\ \A i \in 1 .. Len(types) : types[i] \in Inner(type)
    BY <1>2, <1>5, PartTypes
  <2>2. Unpack3(type, r, u) = LET end == UnpackEach(Unpack2, types, r, u)
                              IN Got(end, Whole(type, end.got))
    BY <1>1, <1>5, Zenon DEF Unpack3, Unpacking
  <2> HIDE DEF types
  <2>3. \A i \in 1 .. Len(types) : types[i] \in Types2
    BY <1>2, <1>5, <2>1
  <2>4. UnpackEach(Unpack2, types, r, u) = r
    BY <2>1, <2>3, Halt2 DEF r
  <2>5. Unpack3(type, r, u) = Got(r, Whole(type, r.got))
    BY <2>2, <2>4, Zenon
  <2> QED BY <1>1, <2>5 DEF r
<1> QED BY <1>3, <1>4, <1>5 DEF r

LEMMA Halt3 ==
  ASSUME NEW types, Len(types) \in Nat, \A i \in 1 .. Len(types) : types[i] \in Types3,
         NEW u \in Int, NEW rest, NEW got
  PROVE  UnpackEach(Unpack3, types, Failed(rest, got), u) = Failed(rest, got)
<1> DEFINE N == Len(types)
           r == Failed(rest, got)
           Step(f) == [n \in 0 .. N |->
                         IF n = 0 THEN Got(r, << >>)
                         ELSE LET before == f[n - 1]
                                  e == Unpack3(types[n], before, u)
                              IN Got(e, Append(before.got, e.got))]
           F == CHOOSE f : f = Step(f)
           G == [n \in 0 .. N |-> r]
<1>1. \A v : Got(r, v) = r
  BY FailedStays
<1>2. \A n \in 1 .. N : Unpack3(types[n], r, u) = r
  BY Stop3
<1> HIDE DEF r
<1>3. G = Step(G)
  <2>1. ASSUME NEW n \in 0 .. N PROVE Step(G)[n] = r
    <3>1. CASE n = 0
      BY <1>1, <3>1
    <3>2. CASE n # 0
      <4>1. n \in 1 .. N /\ n - 1 \in 0 .. N
        BY <3>2
      <4>2. G[n - 1] = r
        BY <4>1
      <4> HIDE DEF G
      <4> QED BY <1>1, <1>2, <3>2, <4>1, <4>2
    <3> QED BY <3>1, <3>2
  <2> HIDE DEF Step
  <2>2. Step(G) = [n \in 0 .. N |-> Step(G)[n]]
    BY DEF Step
  <2> QED BY <2>1, <2>2
<1>4. F = Step(F)
  BY <1>3
<1>5. UnpackEach(Unpack3, types, r, u) = F[N]
  BY DEF UnpackEach
<1> HIDE DEF F
<1> DEFINE T == {n \in 0 .. N : F[n] = r}
<1>6. 0 \in T
  BY <1>1, <1>4
<1>7. ASSUME NEW n \in 0 .. N - 1, n \in T PROVE n + 1 \in T
  <2>1. n + 1 \in 1 .. N /\ n + 1 \in 0 .. N /\ (n + 1) - 1 = n /\ n + 1 # 0
    OBVIOUS
  <2>2. F[n] = r
    BY <1>7
  <2>3. F[n + 1] = LET e == Unpack3(types[n + 1], F[n], u) IN Got(e, Append(F[n].got, e.got))
    BY <1>4, <2>1
  <2>4. F[n + 1] = r
    BY <1>1, <1>2, <2>1, <2>2, <2>3
  <2> QED BY <2>1, <2>4
<1>8. N \in T
  <2>1. N \in 0 .. N
    OBVIOUS
  <2> HIDE DEF T
  <2> QED BY <1>6, <1>7, <2>1, UpTo
<1> QED BY <1>5, <1>8 DEF r

LEMMA Stop4 ==
  ASSUME NEW type \in Types4, NEW u \in Int, NEW rest, NEW got
  PROVE  UnpackAs(type, Failed(rest, got), u) = Failed(rest, got)
<1> DEFINE r == Failed(rest, got)
<1>1. /\ ~ r.ok /\ \A v : Got(r, v) = r
      /\ AfterTag(type, r) = r /\ \A t : UnpackAtom(t, r) = r
  BY FailedStays
<1> HIDE DEF r
<1>2. /\ type \in Types4 /\ "int" \in Types3
      /\ type \notin Atoms => Inner(type) \subseteq Types3
  BY InnerTypes
<1>3. CASE type \in Atoms
  BY <1>1, <1>3 DEF UnpackAs, Unpacking, r
<1>4. CASE type \in DOMAIN Lists
  <2>1. type \notin Atoms
    BY <1>4 DEF Lists, Atoms
  <2>2. Unpack3("int", r, u) = r
    BY <1>2, Stop3 DEF r
  <2>3. UnpackList(Unpack3, type, r, u) = r
    BY <1>1 DEF UnpackList
  <2>4. UnpackAs(type, r, u) = Got(r, Whole(type, r.got))
    BY <1>1, <1>4, <2>1, <2>2, <2>3, Zenon DEF UnpackAs, Unpacking
  <2> QED BY <1>1, <2>4 DEF r
<1>5. CASE type \notin Atoms /\ type \notin DOMAIN Lists
  <2> DEFINE types == UnpackParts(type, u)
  <2>1. Len(types) \in Nat /\ \A i \in 1 .. Len(types) : types[i] \in Inner(type)
    BY <1>2, <1>5, PartTypes
  <2>2. UnpackAs(type, r, u) = LET end == UnpackEach(Unpack3, types, r, u)
                              IN Got(end, Whole(type, end.got))
    BY <1>1, <1>5, Zenon DEF UnpackAs, Unpacking
  <2> HIDE DEF types
  <2>3. \A i \in 1 .. Len(types) : types[i] \in Types3
    BY <1>2, <1>5, <2>1
  <2>4. UnpackEach(Unpack3, types, r, u) = r
    BY <2>1, <2>3, Halt3 DEF r
  <2>5. UnpackAs(type, r, u) = Got(r, Whole(type, r.got))
    BY <2>2, <2>4, Zenon
  <2> QED BY <1>1, <2>5 DEF r
<1> QED BY <1>3, <1>4, <1>5 DEF r

LEMMA Halt4 ==
  ASSUME NEW types, Len(types) \in Nat, \A i \in 1 .. Len(types) : types[i] \in Types4,
         NEW u \in Int, NEW rest, NEW got
  PROVE  UnpackEach(UnpackAs, types, Failed(rest, got), u) = Failed(rest, got)
<1> DEFINE N == Len(types)
           r == Failed(rest, got)
           Step(f) == [n \in 0 .. N |->
                         IF n = 0 THEN Got(r, << >>)
                         ELSE LET before == f[n - 1]
                                  e == UnpackAs(types[n], before, u)
                              IN Got(e, Append(before.got, e.got))]
           F == CHOOSE f : f = Step(f)
           G == [n \in 0 .. N |-> r]
<1>1. \A v : Got(r, v) = r
  BY FailedStays
<1>2. \A n \in 1 .. N : UnpackAs(types[n], r, u) = r
  BY Stop4
<1> HIDE DEF r
<1>3. G = Step(G)
  <2>1. ASSUME NEW n \in 0 .. N PROVE Step(G)[n] = r
    <3>1. CASE n = 0
      BY <1>1, <3>1
    <3>2. CASE n # 0
      <4>1. n \in 1 .. N /\ n - 1 \in 0 .. N
        BY <3>2
      <4>2. G[n - 1] = r
        BY <4>1
      <4> HIDE DEF G
      <4> QED BY <1>1, <1>2, <3>2, <4>1, <4>2
    <3> QED BY <3>1, <3>2
  <2> HIDE DEF Step
  <2>2. Step(G) = [n \in 0 .. N |-> Step(G)[n]]
    BY DEF Step
  <2> QED BY <2>1, <2>2
<1>4. F = Step(F)
  BY <1>3
<1>5. UnpackEach(UnpackAs, types, r, u) = F[N]
  BY DEF UnpackEach
<1> HIDE DEF F
<1> DEFINE T == {n \in 0 .. N : F[n] = r}
<1>6. 0 \in T
  BY <1>1, <1>4
<1>7. ASSUME NEW n \in 0 .. N - 1, n \in T PROVE n + 1 \in T
  <2>1. n + 1 \in 1 .. N /\ n + 1 \in 0 .. N /\ (n + 1) - 1 = n /\ n + 1 # 0
    OBVIOUS
  <2>2. F[n] = r
    BY <1>7
  <2>3. F[n + 1] = LET e == UnpackAs(types[n + 1], F[n], u) IN Got(e, Append(F[n].got, e.got))
    BY <1>4, <2>1
  <2>4. F[n + 1] = r
    BY <1>1, <1>2, <2>1, <2>2, <2>3
  <2> QED BY <2>1, <2>4
<1>8. N \in T
  <2>1. N \in 0 .. N
    OBVIOUS
  <2> HIDE DEF T
  <2> QED BY <1>6, <1>7, <2>1, UpTo
<1> QED BY <1>5, <1>8 DEF r
-----------------------------------------------------------------------------
(* Whole messages.                                                         *)

LEMMA SoundFits ==
  ASSUME NEW w, Sound(w)
  PROVE  IntsFit(w)
<1>1. w \in Seq(Tokens) /\ Len(w) \in Nat
      /\ \A k \in 1 .. Len(w) : w[k] = Tag("int") => k < Len(w) /\ w[k + 1].of \in Ints
  BY DEF Sound
<1>2. ASSUME NEW k \in 4 .. Len(w), w[k - 1].kind = "tag", w[k - 1].of = "INT32"
      PROVE  w[k].of \in -2^(IntBits - 1) .. 2^(IntBits - 1) - 1
  <2>1. k - 1 \in 1 .. Len(w) /\ (k - 1) + 1 = k
    BY <1>1
  <2>2. w[k - 1] \in Tokens
    BY <1>1, <2>1, ElementOfSeq
  <2>3. w[k - 1] = Tag("int")
    <3>1. TypeBytes["int"] = "INT32"
      BY BytesAre
    <3> QED BY <1>2, <2>2, <3>1 DEF Tokens, Tag
  <2>4. w[k].of \in Ints
    BY <1>1, <2>1, <2>3
  <2> DEFINE h == 2^(IntBits - 1)
  <2>5. h \in Nat
    BY WidthsAre
  <2>6. w[k].of \in Int /\ -h <= w[k].of /\ w[k].of < h
    BY <2>4 DEF Ints
  <2> HIDE DEF h
  <2>7. w[k].of \in -h .. h - 1
    BY <2>5, <2>6
  <2> QED BY <2>7 DEF h
<1> QED BY <1>2 DEF IntsFit

\* The sides agree on types other than those with a range, whatever their versions.
LEMMA AgreePlain == \A type : type \notin Ranged => \A p, u : Agree(type, p, u)
BY DEF Agree

\* An operator& that does not throw has found its type byte.
LEMMA HeadIs ==
  ASSUME NEW type \in Types4, type \in DOMAIN TypeBytes, NEW u \in Int,
         NEW m, NEW got, UnpackAs(type, Done(m, got), u).ok
  PROVE  m # << >> /\ Head(m) = Tag(type)
<1> SUFFICES ASSUME ~ (m # << >> /\ Head(m) = Tag(type)) PROVE FALSE
  OBVIOUS
<1>1. AfterTag(type, Done(m, got)) = Failed(m, got)
  <2>1. Done(m, got) \in [in : {m}, ok : BOOLEAN, got : {got}]
    BY DEF Done
  <2>2. Done(m, got).in = m
    BY DEF Done
  <2>3. TypeIs(Done(m, got), type) = [Done(m, got) EXCEPT !.ok = FALSE]
    BY <2>2 DEF TypeIs
  <2>4. [Done(m, got) EXCEPT !.ok = FALSE] = Failed(m, got)
    BY <2>1, NowFailed
  <2> QED BY <2>3, <2>4 DEF AfterTag
<1>2. AfterTag(type, Failed(m, got)) = Failed(m, got)
  BY FailedStays
<1>3. UnpackAs(type, Done(m, got), u) = UnpackAs(type, Failed(m, got), u)
  BY <1>1, <1>2, Zenon DEF UnpackAs, Unpacking
<1>4. UnpackAs(type, Failed(m, got), u) = Failed(m, got)
  BY Stop4
<1>5. ~ Failed(m, got).ok
  BY FailedStays
<1> QED BY <1>3, <1>4, <1>5

\* A message that begins with another type is read as it is.
LEMMA ReceivedPlain ==
  ASSUME NEW type \in Types4, type \in DOMAIN TypeBytes, NEW m, Head(m) = Tag(type)
  PROVE  Received(m) = Done(m, 0)
<1>1. TypeBytes["void"] = "VOID" /\ TypeBytes["exception"] = "EXCEPTION"
  BY DEF TypeBytes
<1>2. TypeBytes[type] \notin {"VOID", "EXCEPTION"}
  <2>1. CASE type \in {"int", "size", "unsigned", "code"}
    <3>1. TypeBytes[type] = "INT32"
      BY <2>1, BytesAre
    <3> QED BY <3>1
  <2>2. CASE type \notin {"int", "size", "unsigned", "code"}
    <3>1. type \in Types4 \ {"int", "size", "unsigned", "code", "bytes", "entry"}
      BY <2>2, BytesAre
    <3> QED BY <3>1, BytesAre
  <2> QED BY <2>1, <2>2
<1>3. Tag(type).of = TypeBytes[type] /\ Tag("void").of = "VOID" /\ Tag("exception").of = "EXCEPTION"
  BY <1>1 DEF Tag
<1>4. Tag(type) # Tag("void") /\ Tag(type) # Tag("exception")
  BY <1>2, <1>3
<1>5. Received(m) = Reader(m)
  BY <1>4 DEF Received
<1> QED BY <1>5 DEF Reader, Done

LEMMA FlatOne ==
  ASSUME NEW S, NEW s \in [1 .. 1 -> Seq(S)]
  PROVE  FlattenSeq(s) = s[1]
<1>1. PICK W : Leaves(W, 1, S, s) /\ W[0] = FlattenSeq(s)
  <2>1. 1 \in Nat
    OBVIOUS
  <2> QED BY <2>1, FlatOf, Zenon
<1>2. W[1] = << >> /\ W[1 - 1] = s[1] \o W[1]
  BY <1>1 DEF Leaves
<1>3. s[1] \in Seq(S)
  OBVIOUS
<1>4. s[1] \o << >> = s[1]
  BY <1>3, ConcatEmptySeq
<1> QED BY <1>1, <1>2, <1>4

LEMMA FlatTwo ==
  ASSUME NEW S, NEW s \in [1 .. 2 -> Seq(S)]
  PROVE  FlattenSeq(s) = s[1] \o s[2]
<1>1. PICK W : Leaves(W, 2, S, s) /\ W[0] = FlattenSeq(s)
  BY FlatOf
<1>2. W[2] = << >> /\ W[0] = s[1] \o W[1] /\ W[1] = s[2] \o W[2]
  <2>1. W[2] = << >> /\ \A i \in 1 .. 2 : W[i - 1] = s[i] \o W[i]
    BY <1>1 DEF Leaves
  <2>2. W[1 - 1] = s[1] \o W[1]
    BY <2>1
  <2>3. W[2 - 1] = s[2] \o W[2]
    <3>1. 2 \in 1 .. 2
      OBVIOUS
    <3> QED BY <2>1, <3>1, Zenon
  <2>4. 1 - 1 = 0 /\ 2 - 1 = 1
    OBVIOUS
  <2> QED BY <2>1, <2>2, <2>3, <2>4
<1>3. s[2] \in Seq(S)
  OBVIOUS
<1>4. s[2] \o << >> = s[2]
  BY <1>3, ConcatEmptySeq
<1> QED BY <1>1, <1>2, <1>4

\* The number of a call and its parameters.
LEMMA CallMessage ==
  ASSUME NEW code \in Calls, NEW w, Sound(w), NEW u \in Int
  PROVE  /\ IntsFit(PackAs("call", code, SoapyRPCVersion) \o w)
         /\ UnpackAs("call", Received(PackAs("call", code, SoapyRPCVersion) \o w), u)
              = Done(w, code)
<1> DEFINE p == SoapyRPCVersion
           a == PackAs("call", code, p)
           m == a \o w
<1>1. w \in Seq(Tokens) /\ p \in Int
  BY WidthAssumption DEF Sound
<1>2. Right(PackAs, UnpackAs, "call", code, p, u)
  <2>1. IsA("call", code)
    BY DEF IsA
  <2>2. "call" \in Types4 /\ "call" \notin Ranged
    BY DEF Types4, Types3, Types2, Types1, Ranged
  <2> QED BY <1>1, <2>1, <2>2, AgreePlain, Layer4
<1>3. Known("call", code, p) = code
  BY KnownPlain DEF Ranged
<1>4. UnpackAs("call", Reading(a, w, 0), u) = Done(w, code) /\ a \in Seq(Tokens)
  BY <1>1, <1>2, <1>3 DEF Right
<1>5. Received(m) = Done(m, 0)
  <2>1. "call" \in Types4 /\ "call" \in DOMAIN TypeBytes
    BY DEF Types4, Types3, Types2, Types1, TypeBytes
  <2>2. UnpackAs("call", Done(m, 0), u).ok
    BY <1>4 DEF Reading, Done
  <2> HIDE DEF m
  <2>3. Head(m) = Tag("call")
    BY <2>1, <2>2, HeadIs
  <2> QED BY <2>1, <2>3, ReceivedPlain
<1>6. Len(a) = 3 /\ a[3].kind = "blob"
  <2> DEFINE b == PackAtom("code", code)
  <2>1. b.kind = "blob" /\ b \in Tokens
    <3>1. IsA("code", code) /\ "code" \in Atoms
      BY DEF IsA, Atoms
    <3> QED BY <3>1, AtomBlob
  <2>2. Tag("call") \in Tokens /\ Tag("code") \in Tokens
        /\ Tags("call") = << Tag("call") >> /\ Tags("code") = << Tag("code") >>
    <3>1. "call" \in DOMAIN TypeBytes /\ "code" \in DOMAIN TypeBytes
      BY DEF TypeBytes
    <3> QED BY <3>1 DEF Tags, Tag, Tokens
  <2>3. Pack3("code", code, p) = << Tag("code") >> \o << b >>
    BY <2>2 DEF Pack3, Packing, Atoms
  <2>4. PackEach(Pack3, PackParts("call", code, p), p) = << Tag("code") >> \o << b >>
    <3> DEFINE s == [i \in 1 .. 1 |-> Pack3("code", code, p)]
    <3>1. PackParts("call", code, p) = << << "code", code >> >>
      BY DEF PackParts
    <3>2. PackEach(Pack3, PackParts("call", code, p), p) = FlattenSeq(s)
      <4>1. [i \in DOMAIN << << "code", code >> >> |->
               Pack3(<< << "code", code >> >>[i][1], << << "code", code >> >>[i][2], p)] = s
        OBVIOUS
      <4> QED BY <3>1, <4>1 DEF PackEach
    <3>3. s \in [1 .. 1 -> Seq(Tokens)]
      <4>1. << Tag("code") >> \o << b >> \in Seq(Tokens)
        <5> HIDE DEF b
        <5>1. << b >> \in Seq(Tokens)
          BY <2>1
        <5> QED BY <2>2, <5>1, FirstToken
      <4> QED BY <2>3, <4>1
    <3>4. s[1] = Pack3("code", code, p)
      OBVIOUS
    <3> HIDE DEF s
    <3>5. FlattenSeq(s) = s[1]
      BY <3>3, FlatOne
    <3> QED BY <2>3, <3>2, <3>4, <3>5
  <2>5. a = << Tag("call") >> \o (<< Tag("code") >> \o << b >>)
    BY <2>2, <2>4 DEF PackAs, Packing, Atoms, Lists
  <2> DEFINE tc == Tag("call")
             td == Tag("code")
             y == << td >> \o << b >>
  <2> HIDE DEF b, tc, td
  <2>6. << tc >> \in Seq(Tokens) /\ << td >> \in Seq(Tokens) /\ << b >> \in Seq(Tokens)
    BY <2>1, <2>2 DEF tc, td
  <2>7. y \in Seq(Tokens) /\ Len(y) = 2 /\ y[2] = b
    <3>1. Len(<< b >>) = 1 /\ << b >>[1] = b /\ td \in Tokens
      BY <2>2 DEF td
    <3>2. /\ y \in Seq(Tokens) /\ Len(y) = Len(<< b >>) + 1
          /\ \A i \in 1 .. Len(<< b >>) : y[i + 1] = << b >>[i]
      BY <2>6, <3>1, FirstToken
    <3>3. y[1 + 1] = << b >>[1]
      BY <3>1, <3>2
    <3> QED BY <3>1, <3>2, <3>3
  <2> HIDE DEF y
  <2>8. Len(<< tc >> \o y) = 3 /\ (<< tc >> \o y)[3] = b
    <3>1. tc \in Tokens
      BY <2>2 DEF tc
    <3>2. /\ Len(<< tc >> \o y) = Len(y) + 1
          /\ \A i \in 1 .. Len(y) : (<< tc >> \o y)[i + 1] = y[i]
      BY <2>7, <3>1, FirstToken
    <3>3. (<< tc >> \o y)[2 + 1] = y[2]
      BY <2>7, <3>2
    <3> QED BY <2>7, <3>2, <3>3
  <2> HIDE DEF a
  <2> QED BY <2>1, <2>5, <2>8 DEF tc, td, y
<1>7. IntsFit(m)
  <2> HIDE DEF a
  <2>1. /\ Len(m) = 3 + Len(w) /\ Len(w) \in Nat
        /\ \A i \in 1 .. 3 + Len(w) : m[i] = IF i <= 3 THEN a[i] ELSE w[i - 3]
    <3>1. /\ Len(m) = Len(a) + Len(w)
          /\ \A i \in 1 .. Len(a) + Len(w) : m[i] = IF i <= Len(a) THEN a[i] ELSE w[i - Len(a)]
      BY <1>1, <1>4, ConcatProperties
    <3>2. Len(a) = 3 /\ Len(w) \in Nat
      BY <1>1, <1>6, LenProperties
    <3> QED BY <3>1, <3>2
  <2> HIDE DEF m
  <2>2. ASSUME NEW k \in 4 .. Len(m), m[k - 1].kind = "tag", m[k - 1].of = "INT32"
        PROVE  m[k].of \in Ints
    <3>1. k - 1 # 3
      <4>1. m[3] = a[3]
        BY <2>1
      <4> QED BY <1>6, <2>2, <4>1
    <3> DEFINE j == k - 4
    <3>2. j \in 1 .. Len(w) /\ m[k - 1] = w[j] /\ m[k] = w[j + 1]
      <4>1. k - 1 \in 1 .. 3 + Len(w) /\ k \in 1 .. 3 + Len(w) /\ k - 1 > 3
            /\ (k - 1) - 3 = j /\ k - 3 = j + 1
        BY <2>1, <3>1
      <4> QED BY <2>1, <4>1
    <3>3. w[j] \in Tokens
      BY <1>1, <3>2, ElementOfSeq
    <3> HIDE DEF j
    <3>4. w[j] = Tag("int")
      <4>1. TypeBytes["int"] = "INT32"
        BY BytesAre
      <4>2. w[j].kind = "tag" /\ w[j].of = "INT32"
        BY <2>2, <3>2
      <4> QED BY <3>3, <4>1, <4>2 DEF Tokens, Tag
    <3> QED BY <3>2, <3>4 DEF Sound
  <2>3. \A x \in Ints : x \in -2^(IntBits - 1) .. 2^(IntBits - 1) - 1
    <3> DEFINE h == 2^(IntBits - 1)
    <3>1. h \in Nat
      BY WidthsAre
    <3>2. \A x \in Ints : x \in Int /\ -h <= x /\ x < h
      BY DEF Ints
    <3> HIDE DEF h
    <3>3. \A x \in Ints : x \in -h .. h - 1
      BY <3>1, <3>2
    <3> QED BY <3>3 DEF h
  <2> QED BY <2>2, <2>3 DEF IntsFit
<1>8. Reading(a, w, 0) = Done(m, 0)
  BY DEF Reading
<1> QED BY <1>4, <1>5, <1>7, <1>8

LEMMA GotDone ==
  ASSUME NEW rest, NEW type, NEW x
  PROVE  Got(Done(rest, x), Whole(type, Done(rest, x).got)) = Done(rest, Whole(type, x))
BY DEF Got, Done

\* An exception is thrown again, and its message is taken apart to the end.
LEMMA ExcuseMessage ==
  ASSUME NEW v, IsA("string", v), NEW p \in Int
  PROVE  /\ IntsFit(PackAs("exception", v, p))
         /\ \E got : Received(PackAs("exception", v, p)) = Failed(<< >>, got)
<1> DEFINE u == SoapyRPCVersion
           m == PackAs("exception", v, p)
           types == << "string" >>
           parts == << << "string", v >> >>
           b == PackEach(Pack3, parts, p)
           t == Tag("exception")
           x == [i \in 1 .. 1 |-> Known(types[i], parts[i][2], p)]
<1>1. u \in Int
  BY WidthAssumption
<1>2. AllRight(Pack3, Unpack3, 1, parts, types, p, u)
  <2>1. "string" \in Types3 /\ "string" \notin Ranged
    BY DEF Types3, Types2, Types1, Ranged
  <2>2. Right(Pack3, Unpack3, "string", v, p, u)
    BY <1>1, <2>1, AgreePlain, Layer3
  <2>3. DOMAIN parts = 1 .. 1 /\ Len(types) = 1 /\ \A i \in 1 .. 1 : types[i] = parts[i][1]
    OBVIOUS
  <2>4. ASSUME NEW i \in 1 .. 1
        PROVE  Right(Pack3, Unpack3, types[i], parts[i][2], p, u)
    <3>1. types[i] = "string" /\ parts[i][2] = v
      OBVIOUS
    <3> QED BY <2>2, <3>1
  <2> HIDE DEF types, parts
  <2> QED BY <1>1, <2>3, <2>4, Each3
<1>3. /\ b \in Seq(Tokens) /\ Sound(b)
      /\ \A rest \in Seq(Tokens) : \A got :
           UnpackEach(Unpack3, types, Reading(b, rest, got), u) = Done(rest, x)
  <2>1. \A i \in 1 .. 1 : types[i] \notin {"call", "code"}
    OBVIOUS
  <2> HIDE DEF types, parts
  <2> QED BY <1>2, <2>1, Zenon DEF AllRight
<1>4. m = << t >> \o b
  <2>1. Tags("exception") = << t >>
    BY DEF Tags, TypeBytes
  <2>2. PackParts("exception", v, p) = parts
    BY DEF PackParts
  <2> HIDE DEF parts, t
  <2> QED BY <2>1, <2>2 DEF PackAs, Packing, Atoms, Lists
<1>5. t \in Tokens /\ t # Tag("int") /\ t # Tag("void")
  <2>1. TypeBytes["exception"] = "EXCEPTION" /\ TypeBytes["int"] = "INT32"
        /\ TypeBytes["void"] = "VOID" /\ "exception" \in DOMAIN TypeBytes
    BY DEF TypeBytes
  <2> QED BY <2>1 DEF Tag, Tokens
<1> HIDE DEF b
<1>6. Sound(m)
  <2>1. << t >> \in Seq(Tokens) /\ Len(<< t >>) = 1 /\ << t >>[1] = t
    BY <1>5
  <2> HIDE DEF t
  <2>2. Sound(<< t >>)
    BY <1>5, <2>1 DEF Sound
  <2> HIDE DEF m
  <2> QED BY <1>3, <1>4, <2>2, SoundConcat
<1>7. m # << >> /\ Head(m) = t /\ Tail(m) = b
  <2> HIDE DEF t, m
  <2> QED BY <1>3, <1>4, <1>5, FirstToken
<1>8. UnpackAs("exception", Reader(m), u).in = << >> /\ UnpackAs("exception", Reader(m), u)
        \in [in : {<< >>}, ok : BOOLEAN, got : {Whole("exception", x)}]
  <2> HIDE DEF m
  <2>1. AfterTag("exception", Reader(m)) = Done(b, 0)
    <3>1. "exception" \in DOMAIN TypeBytes
      BY DEF TypeBytes
    <3> QED BY <1>7, <3>1 DEF AfterTag, TypeIs, Reader, Done
  <2>2. Done(b, 0) = Reading(b, << >>, 0)
    BY <1>3, TokensConcat DEF Reading
  <2>3. UnpackParts("exception", u) = types
    BY DEF UnpackParts
  <2>4. UnpackAs("exception", Reader(m), u)
          = LET end == UnpackEach(Unpack3, types, AfterTag("exception", Reader(m)), u)
            IN Got(end, Whole("exception", end.got))
    <3>1. "exception" \notin Atoms /\ "exception" \notin DOMAIN Lists
      BY DEF Atoms, Lists
    <3> HIDE DEF types
    <3> QED BY <2>3, <3>1, Zenon DEF UnpackAs, Unpacking
  <2> HIDE DEF types, x
  <2>5. UnpackEach(Unpack3, types, AfterTag("exception", Reader(m)), u) = Done(<< >>, x)
    <3>1. AfterTag("exception", Reader(m)) = Reading(b, << >>, 0)
      BY <2>1, <2>2
    <3>2. UnpackEach(Unpack3, types, Reading(b, << >>, 0), u) = Done(<< >>, x)
      BY <1>3, TokensConcat, Zenon
    <3> QED BY <3>1, <3>2, Zenon
  <2>6. UnpackAs("exception", Reader(m), u) = Got(Done(<< >>, x), Whole("exception", Done(<< >>, x).got))
    BY <2>4, <2>5, Zenon
  <2>7. Got(Done(<< >>, x), Whole("exception", Done(<< >>, x).got)) = Done(<< >>, Whole("exception", x))
    BY GotDone
  <2>8. \A y : /\ Done(<< >>, y).in = << >>
              /\ Done(<< >>, y) \in [in : {<< >>}, ok : BOOLEAN, got : {y}]
    BY DEF Done
  <2> QED BY <2>6, <2>7, <2>8
<1>9. Received(m) = [UnpackAs("exception", Reader(m), u) EXCEPT !.ok = FALSE]
  <2> HIDE DEF m
  <2> QED BY <1>5, <1>7 DEF Received
<1>10. Received(m) = Failed(<< >>, Whole("exception", x))
  <2> DEFINE e == UnpackAs("exception", Reader(m), u)
             g == Whole("exception", x)
  <2>1. e \in [in : {<< >>}, ok : BOOLEAN, got : {g}]
    BY <1>8
  <2> HIDE DEF e, g, m
  <2>2. [e EXCEPT !.ok = FALSE] = Failed(<< >>, g)
    BY <2>1, NowFailed
  <2> QED BY <1>9, <2>2 DEF e, g
<1>11. IntsFit(m)
  BY <1>6, SoundFits
<1>12. \E got : Received(m) = Failed(<< >>, got)
  <2> HIDE DEF m, x
  <2> QED BY <1>10
<1> QED BY <1>11, <1>12

\* A reply without a value.
LEMMA VoidMessage ==
  ASSUME NEW p
  PROVE  /\ IntsFit(PackAs("void", 0, p))
         /\ Received(PackAs("void", 0, p)) = Done(<< >>, 0)
<1> DEFINE m == PackAs("void", 0, p)
           t == Tag("void")
<1>1. m = << t >>
  <2>1. Tags("void") = << t >>
    BY DEF Tags, TypeBytes
  <2>2. PackEach(Pack3, PackParts("void", 0, p), p) = << >>
    <3>1. PackParts("void", 0, p) = << >>
      BY DEF PackParts
    <3> DEFINE s == [i \in DOMAIN << >> |-> Pack3(<< >>[i][1], << >>[i][2], p)]
    <3>2. s = << >>
      OBVIOUS
    <3>3. PackEach(Pack3, << >>, p) = FlattenSeq(s)
      BY DEF PackEach
    <3>4. FlattenSeq(<< >>) = << >>
      BY DEF FlattenSeq
    <3> HIDE DEF s
    <3> QED BY <3>1, <3>2, <3>3, <3>4
  <2>3. m = << t >> \o << >>
    <3> HIDE DEF t
    <3> QED BY <2>1, <2>2 DEF PackAs, Packing, Atoms, Lists
  <2>4. << t >> \in Seq({t}) /\ << t >> \o << >> = << t >>
    BY ConcatEmptySeq
  <2> QED BY <2>3, <2>4
<1>2. Head(<< t >>) = t /\ Tail(<< t >>) = << >> /\ << t >> # << >> /\ Len(<< t >>) = 1
  OBVIOUS
<1>3. IntsFit(m)
  <2> HIDE DEF t, m
  <2> QED BY <1>1, <1>2 DEF IntsFit
<1>4. Received(m) = Done(<< >>, 0)
  <2>0. Tag("void") # Tag("exception")
    <3>1. TypeBytes["exception"] = "EXCEPTION" /\ TypeBytes["void"] = "VOID"
      BY DEF TypeBytes
    <3> QED BY <3>1 DEF Tag
  <2>1. Received(<< t >>) = TypeIs(Reader(<< t >>), "void")
    BY <1>2, <2>0 DEF Received
  <2>2. TypeIs(Reader(<< t >>), "void") = Done(<< >>, 0)
    BY <1>2 DEF TypeIs, Reader, Done
  <2> QED BY <1>1, <2>1, <2>2
<1> QED BY <1>3, <1>4

\* The types of parameters and of results.
Sendable == {"char", "bool", "int", "size", "unsigned", "long", "double", "complex", "string",
             "kwargs", "sizes", "unsigneds"}
Awaited == {"bool", "int", "size", "unsigned", "long", "double", "complex", "string", "range",
            "argInfo", "strings", "doubles", "ranges", "unsigneds", "argInfos", "kwargs",
            "kwargsList"}

LEMMA TypesOfCalls ==
  /\ Sendable \subseteq Types4 \ {"call", "code"} /\ Awaited \subseteq Types4 \ {"call", "code"}
  /\ Sendable \subseteq DOMAIN TypeBytes /\ Awaited \subseteq DOMAIN TypeBytes
  /\ Sendable \cap Ranged = {}
BY DEF Sendable, Awaited, Types4, Types3, Types2, Types1, Types0, Atoms, TypeBytes, Ranged

Begins(w, a) == \E rest \in Seq(Tokens) : w = a \o rest

LEMMA FirstOfAll ==
  ASSUME NEW N \in Nat, N >= 1, NEW types, DOMAIN types = 1 .. N, NEW values,
         NEW p \in Int,
         \A i \in 1 .. N : PackAs(types[i], values[i], p) \in Seq(Tokens)
  PROVE  Begins(PackAll(types, values, p), PackAs(types[1], values[1], p))
<1> DEFINE s == [i \in 1 .. N |-> PackAs(types[i], values[i], p)]
           parts == [i \in DOMAIN types |-> << types[i], values[i] >>]
<1>1. PackAll(types, values, p) = FlattenSeq(s)
  <2>1. [i \in DOMAIN parts |-> PackAs(parts[i][1], parts[i][2], p)] = s
    OBVIOUS
  <2> HIDE DEF s
  <2> QED BY <2>1 DEF PackAll, PackEach
<1>2. s \in [1 .. N -> Seq(Tokens)] /\ s[1] = PackAs(types[1], values[1], p)
  OBVIOUS
<1> HIDE DEF s
<1>3. PICK W : Leaves(W, N, Tokens, s) /\ W[0] = FlattenSeq(s)
  BY <1>2, FlatOf
<1>4. W[0] = s[1] \o W[1] /\ W[1] \in Seq(Tokens)
  <2>1. 1 \in 1 .. N /\ 1 \in 0 .. N /\ 1 - 1 = 0
    OBVIOUS
  <2>2. W \in [0 .. N -> Seq(Tokens)] /\ \A i \in 1 .. N : W[i - 1] = s[i] \o W[i]
    BY <1>3 DEF Leaves
  <2>3. W[1 - 1] = s[1] \o W[1]
    BY <2>1, <2>2, Zenon
  <2>4. W[1] \in Seq(Tokens)
    BY <2>1, <2>2
  <2> QED BY <2>1, <2>3, <2>4
<1> QED BY <1>1, <1>2, <1>3, <1>4 DEF Begins

\* The body of a reply with values of the types t, and of one without.
Body(t, values, p, version) ==
  IF t = << >> THEN PackAs("void", 0, version) ELSE PackAll(t, values, p)

\* A reply is read to its end.
LEMMA ReplyTrip ==
  ASSUME NEW t \in Seq(Awaited), NEW values,
         \A i \in 1 .. Len(t) : IsA(t[i], values[i]),
         NEW p \in Int, NEW u \in Int, p >= SoapyRPCVersion <=> u >= SoapyRPCVersion,
         NEW version
  PROVE  /\ IntsFit(Body(t, values, p, version))
         /\ UnpackAll(t, Received(Body(t, values, p, version)), u)
              = Done(<< >>, [i \in 1 .. Len(t) |-> Known(t[i], values[i], p)])
<1> DEFINE N == Len(t)
           m == PackAll(t, values, p)
           x == [i \in 1 .. N |-> Known(t[i], values[i], p)]
<1>1. N \in Nat /\ DOMAIN t = 1 .. N
  BY LenProperties
<1>2. ASSUME NEW i \in 1 .. N
      PROVE  /\ t[i] \in Types4 \ {"call", "code"} /\ t[i] \in DOMAIN TypeBytes
             /\ IsA(t[i], values[i]) /\ Agree(t[i], p, u)
  <2>1. t[i] \in Awaited
    BY ElementOfSeq
  <2> QED BY <2>1, TypesOfCalls DEF Agree
<1>3. /\ m \in Seq(Tokens) /\ Sound(m)
      /\ \A rest \in Seq(Tokens) : \A got : UnpackAll(t, Reading(m, rest, got), u) = Done(rest, x)
  <2>1. \A i \in 1 .. N : /\ t[i] \in Types4 \ {"call", "code"}
                          /\ IsA(t[i], values[i]) /\ Agree(t[i], p, u)
    BY <1>2
  <2>2. Len(t) = N
    OBVIOUS
  <2> HIDE DEF N
  <2>3. Through(N, t, values, p, u)
    BY <1>1, <2>1, <2>2, AllTrip
  <2> QED BY <2>3 DEF Through
<1>4. Reading(m, << >>, 0) = Done(m, 0)
  <2> HIDE DEF m
  <2> QED BY <1>3, TokensConcat DEF Reading
<1>5. UnpackAll(t, Done(m, 0), u) = Done(<< >>, x)
  <2> HIDE DEF m, x
  <2> QED BY <1>3, <1>4, TokensConcat
<1>6. CASE t = << >>
  <2>1. m = << >>
    <3> DEFINE s == [i \in DOMAIN << >> |-> << t[i], values[i] >>]
               z == [i \in DOMAIN << >> |-> PackAs(<< >>[i][1], << >>[i][2], p)]
    <3>1. s = << >> /\ z = << >>
      OBVIOUS
    <3>2. m = PackEach(PackAs, s, p)
      BY <1>6 DEF PackAll
    <3>3. PackEach(PackAs, << >>, p) = FlattenSeq(z)
      BY DEF PackEach
    <3>4. FlattenSeq(<< >>) = << >>
      BY DEF FlattenSeq
    <3> HIDE DEF s, z, m
    <3> QED BY <3>1, <3>2, <3>3, <3>4
  <2>2. Received(Body(t, values, p, version)) = Done(<< >>, 0)
        /\ IntsFit(Body(t, values, p, version))
    BY <1>6, VoidMessage DEF Body
  <2> HIDE DEF m, x
  <2> QED BY <1>5, <2>1, <2>2 DEF x
<1>7. CASE t # << >>
  <2>1. N >= 1
    BY <1>1, <1>7, EmptySeq, SeqEqual
  <2>2. Body(t, values, p, version) = m
    BY <1>7 DEF Body
  <2>3. Right(PackAs, UnpackAs, t[1], values[1], p, u)
        /\ \A i \in 1 .. N : PackAs(t[i], values[i], p) \in Seq(Tokens)
    <3>1. ASSUME NEW i \in 1 .. N PROVE Right(PackAs, UnpackAs, t[i], values[i], p, u)
      BY <1>2, Layer4
    <3>2. 1 \in 1 .. N
      BY <1>1, <2>1
    <3>3. ASSUME NEW i \in 1 .. N PROVE PackAs(t[i], values[i], p) \in Seq(Tokens)
      BY <3>1 DEF Right
    <3> QED BY <3>1, <3>2, <3>3
  <2>4. PICK rest \in Seq(Tokens) : m = PackAs(t[1], values[1], p) \o rest
    <3>1. N \in Nat /\ N >= 1 /\ DOMAIN t = 1 .. N
      BY <1>1, <2>1
    <3>2. \A i \in 1 .. N : PackAs(t[i], values[i], p) \in Seq(Tokens)
      BY <2>3
    <3> HIDE DEF N
    <3>3. Begins(PackAll(t, values, p), PackAs(t[1], values[1], p))
      BY <3>1, <3>2, FirstOfAll
    <3> QED BY <3>3 DEF Begins
  <2>5. Done(m, 0) = Reading(PackAs(t[1], values[1], p), rest, 0)
    BY <2>4 DEF Reading
  <2>6. UnpackAs(t[1], Done(m, 0), u).ok
    <3>1. UnpackAs(t[1], Done(m, 0), u) = Done(rest, Known(t[1], values[1], p))
      <4> HIDE DEF m
      <4> QED BY <2>3, <2>5, Zenon DEF Right
    <3> QED BY <3>1 DEF Done
  <2>7. t[1] \in Types4 /\ t[1] \in DOMAIN TypeBytes
    BY <1>1, <1>2, <2>1
  <2> HIDE DEF m, x
  <2>8. Head(m) = Tag(t[1])
    BY <2>6, <2>7, HeadIs
  <2>9. Received(m) = Done(m, 0)
    BY <2>7, <2>8, ReceivedPlain
  <2>10. IntsFit(m)
    BY <1>3, SoundFits
  <2> QED BY <1>5, <2>2, <2>9, <2>10 DEF x
<1> QED BY <1>6, <1>7
-----------------------------------------------------------------------------
(* The two halves of DeviceCalls fit together.                             *)

LEMMA CallFields ==
  ASSUME NEW m, NEW code, NEW sends, NEW types
  PROVE  LET c == Call(m, code, sends, types)
         IN /\ c.method = m /\ c.code = code /\ c.sends = sends
            /\ c.replies = << types >> /\ c.replies[1] = types
BY DEF Call

LEMMA CaseIfFields ==
  ASSUME NEW feature, NEW code, NEW reads, NEW m, NEW types
  PROVE  LET h == CaseIf(feature, code, reads, m, types)
         IN /\ h.method = m /\ h.code = code /\ h.reads = reads
            /\ h.packs = << types >> /\ h.packs[1] = types /\ h.feature = feature
BY DEF CaseIf

LEMMA CaseFields ==
  ASSUME NEW code, NEW reads, NEW m, NEW types
  PROVE  LET h == Case(code, reads, m, types)
         IN /\ h.method = m /\ h.code = code /\ h.reads = reads
            /\ h.packs = << types >> /\ h.packs[1] = types /\ h.feature = "always"
BY DEF CaseIf, Case

LEMMA SetupFields ==
  ASSUME NEW tcp
  PROVE  SetupStreamCase(tcp).code = "SETUP_STREAM" /\ SetupStreamCase(tcp).feature = "always"
         /\ SetupStreamCase(tcp).reads = SetupParams
BY DEF SetupStreamCase

\* The parameters by their names.  Three names have types that differ from method to method.
Kinds(value, addr, data) ==
  [direction |-> "char", channel |-> "size", name |-> "string", automatic |-> "bool",
   args |-> "kwargs", source |-> "string", what |-> "string", timeNs |-> "long",
   key |-> "string", bank |-> "string", mask |-> "unsigned", dir |-> "unsigned",
   which |-> "string", streamId |-> "int", flags |-> "int", format |-> "string",
   channels |-> "sizes", timeoutUs |-> "int", length |-> "size", numBits |-> "size",
   numBytes |-> "size", numElems |-> "size", bw |-> "double", frequency |-> "double",
   rate |-> "double", balance |-> "complex", offset |-> "complex", mapping |-> "string",
   clientBindPort |-> "string", statusBindPort |-> "string",
   value |-> value, addr |-> addr, data |-> data]
Params(value, addr, data) ==
  {<< n, Kinds(value, addr, data)[n] >> : n \in DOMAIN Kinds(value, addr, data)}
ParamLists(value, addr, data) == Seq(Params(value, addr, data))

LEMMA ParamsAre ==
  ASSUME NEW value \in Sendable, NEW addr \in Sendable, NEW data \in Sendable,
         NEW a \in Params(value, addr, data)
  PROVE  /\ a[2] \in Sendable
         /\ \A b \in Params(value, addr, data) : a[1] = b[1] => a[2] = b[2]
<1> DEFINE K == Kinds(value, addr, data)
<1>1. K \in [DOMAIN K -> Sendable]
  BY DEF Kinds, Sendable
<1> HIDE DEF K
<1>2. \A x \in {<< n, K[n] >> : n \in DOMAIN K} : x[1] \in DOMAIN K /\ x[2] = K[x[1]]
  OBVIOUS
<1> QED BY <1>1, <1>2 DEF Params, K

LEMMA Lone ==
  ASSUME NEW value, NEW addr, NEW data, NEW x \in Params(value, addr, data)
  PROVE  << x >> \in ParamLists(value, addr, data)
BY DEF ParamLists

LEMMA ParamPieces ==
  ASSUME NEW value, NEW addr, NEW data
  PROVE  /\ << >> \in ParamLists(value, addr, data)
         /\ << Direction >> \in ParamLists(value, addr, data)
         /\ Chan \in ParamLists(value, addr, data) /\ Name \in ParamLists(value, addr, data)
         /\ Automatic \in ParamLists(value, addr, data) /\ Args \in ParamLists(value, addr, data)
         /\ Source \in ParamLists(value, addr, data) /\ What \in ParamLists(value, addr, data)
         /\ TimeNs \in ParamLists(value, addr, data) /\ Key \in ParamLists(value, addr, data)
         /\ Bank \in ParamLists(value, addr, data) /\ Mask \in ParamLists(value, addr, data)
         /\ Dir \in ParamLists(value, addr, data) /\ Which \in ParamLists(value, addr, data)
         /\ StreamId \in ParamLists(value, addr, data) /\ Flags \in ParamLists(value, addr, data)
         /\ Format \in ParamLists(value, addr, data) /\ Channels \in ParamLists(value, addr, data)
         /\ Num("timeoutUs") \in ParamLists(value, addr, data)
         /\ \A n \in {"length", "numBits", "numBytes", "numElems"} :
              Size(n) \in ParamLists(value, addr, data)
         /\ \A n \in {"bw", "frequency", "rate"} : Dbl(n) \in ParamLists(value, addr, data)
         /\ \A n \in {"balance", "offset"} : Cplx(n) \in ParamLists(value, addr, data)
         /\ \A n \in {"mapping", "clientBindPort", "statusBindPort"} :
              Str(n) \in ParamLists(value, addr, data)
         /\ << << "value", value >> >> \in ParamLists(value, addr, data)
         /\ << << "addr", addr >> >> \in ParamLists(value, addr, data)
         /\ << << "data", data >> >> \in ParamLists(value, addr, data)
<1> DEFINE K == Kinds(value, addr, data)
           Q == ParamLists(value, addr, data)
<1>1. \A n, t : n \in DOMAIN K /\ K[n] = t => << << n, t >> >> \in Q
  <2>1. \A n, t : n \in DOMAIN K /\ K[n] = t => << n, t >> \in Params(value, addr, data)
    BY DEF Params
  <2> QED BY <2>1, Lone
<1>2. /\ K["direction"] = "char" /\ K["channel"] = "size" /\ K["name"] = "string"
      /\ K["automatic"] = "bool" /\ K["args"] = "kwargs" /\ K["source"] = "string"
      /\ K["what"] = "string" /\ K["timeNs"] = "long" /\ K["key"] = "string"
      /\ K["bank"] = "string" /\ K["mask"] = "unsigned" /\ K["dir"] = "unsigned"
      /\ K["which"] = "string" /\ K["streamId"] = "int" /\ K["flags"] = "int"
      /\ K["format"] = "string" /\ K["channels"] = "sizes" /\ K["timeoutUs"] = "int"
      /\ K["length"] = "size" /\ K["numBits"] = "size" /\ K["numBytes"] = "size"
      /\ K["numElems"] = "size" /\ K["bw"] = "double" /\ K["frequency"] = "double"
      /\ K["rate"] = "double" /\ K["balance"] = "complex" /\ K["offset"] = "complex"
      /\ K["mapping"] = "string" /\ K["clientBindPort"] = "string"
      /\ K["statusBindPort"] = "string"
      /\ K["value"] = value /\ K["addr"] = addr /\ K["data"] = data
  BY DEF Kinds
<1>3. DOMAIN K = {"direction", "channel", "name", "automatic", "args", "source", "what", "timeNs",
                  "key", "bank", "mask", "dir", "which", "streamId", "flags", "format",
                  "channels", "timeoutUs", "length", "numBits", "numBytes", "numElems", "bw",
                  "frequency", "rate", "balance", "offset", "mapping", "clientBindPort",
                  "statusBindPort", "value", "addr", "data"}
  BY DEF Kinds
<1> HIDE DEF K
<1>4. << >> \in Q
  BY EmptySeq DEF ParamLists
<1>5. Chan \in Q
  <2>1. Direction \in Params(value, addr, data) /\ << "channel", "size" >> \in Params(value, addr, data)
    <3>1. \A n \in DOMAIN K : << n, K[n] >> \in Params(value, addr, data)
      BY DEF Params, K
    <3>2. "direction" \in DOMAIN K /\ "channel" \in DOMAIN K
      BY <1>3
    <3>3. << "direction", K["direction"] >> \in Params(value, addr, data)
          /\ << "channel", K["channel"] >> \in Params(value, addr, data)
      BY <3>1, <3>2
    <3> QED BY <1>2, <3>3 DEF Direction
  <2> QED BY <2>1 DEF Chan, ParamLists
<1>6. /\ << Direction >> \in Q /\ Name \in Q /\ Automatic \in Q /\ Args \in Q /\ Source \in Q
      /\ What \in Q /\ TimeNs \in Q
  <2> HIDE DEF Q
  <2>1. /\ << << "direction", "char" >> >> \in Q /\ << << "name", "string" >> >> \in Q
        /\ << << "automatic", "bool" >> >> \in Q /\ << << "args", "kwargs" >> >> \in Q
    BY <1>1, <1>2, <1>3
  <2>2. /\ << << "source", "string" >> >> \in Q /\ << << "what", "string" >> >> \in Q
        /\ << << "timeNs", "long" >> >> \in Q
    BY <1>1, <1>2, <1>3
  <2> QED BY <2>1, <2>2 DEF Direction, Name, Automatic, Args, Source, What, TimeNs
<1>7. /\ Key \in Q /\ Bank \in Q /\ Mask \in Q /\ Dir \in Q /\ Which \in Q /\ StreamId \in Q
      /\ Flags \in Q /\ Format \in Q /\ Channels \in Q /\ Num("timeoutUs") \in Q
  <2> HIDE DEF Q
  <2>1. /\ << << "key", "string" >> >> \in Q /\ << << "bank", "string" >> >> \in Q
        /\ << << "mask", "unsigned" >> >> \in Q /\ << << "dir", "unsigned" >> >> \in Q
        /\ << << "which", "string" >> >> \in Q
    BY <1>1, <1>2, <1>3
  <2>2. /\ << << "streamId", "int" >> >> \in Q /\ << << "flags", "int" >> >> \in Q
        /\ << << "format", "string" >> >> \in Q /\ << << "channels", "sizes" >> >> \in Q
        /\ << << "timeoutUs", "int" >> >> \in Q
    BY <1>1, <1>2, <1>3
  <2> QED BY <2>1, <2>2 DEF Key, Bank, Mask, Dir, Which, StreamId, Flags, Format, Channels, Num
<1>8. /\ \A n \in {"length", "numBits", "numBytes", "numElems"} : Size(n) \in Q
      /\ \A n \in {"bw", "frequency", "rate"} : Dbl(n) \in Q
      /\ \A n \in {"balance", "offset"} : Cplx(n) \in Q
      /\ \A n \in {"mapping", "clientBindPort", "statusBindPort"} : Str(n) \in Q
  <2> HIDE DEF Q
  <2>1. \A n \in {"length", "numBits", "numBytes", "numElems"} : << << n, "size" >> >> \in Q
    BY <1>1, <1>2, <1>3
  <2>2. \A n \in {"bw", "frequency", "rate"} : << << n, "double" >> >> \in Q
    BY <1>1, <1>2, <1>3
  <2>3. \A n \in {"balance", "offset"} : << << n, "complex" >> >> \in Q
    BY <1>1, <1>2, <1>3
  <2>4. \A n \in {"mapping", "clientBindPort", "statusBindPort"} : << << n, "string" >> >> \in Q
    BY <1>1, <1>2, <1>3
  <2> QED BY <2>1, <2>2, <2>3, <2>4 DEF Size, Dbl, Cplx, Str
<1>9. << << "value", value >> >> \in Q /\ << << "addr", addr >> >> \in Q
      /\ << << "data", data >> >> \in Q
  <2> HIDE DEF Q
  <2> QED BY <1>1, <1>2, <1>3
<1> HIDE DEF Q
<1> QED BY <1>4, <1>5, <1>6, <1>7, <1>8, <1>9 DEF Q

LEMMA ParamConcat ==
  ASSUME NEW value, NEW addr, NEW data
  PROVE  \A a, b \in ParamLists(value, addr, data) : a \o b \in ParamLists(value, addr, data)
BY ConcatProperties DEF ParamLists

AwaitedLists == Seq(Awaited)

LEMMA ReplyPieces ==
  /\ << >> \in AwaitedLists
  /\ \A x \in Awaited : << x >> \in AwaitedLists
  /\ << "string", "double" >> \in AwaitedLists /\ << "int", "string" >> \in AwaitedLists
<1>1. "string" \in Awaited /\ "double" \in Awaited /\ "int" \in Awaited
  BY DEF Awaited
<1> QED BY <1>1, EmptySeq DEF AwaitedLists

\* A parameter list of a call: types that can be sent, and a name has one type.
ParamsFit(ps) ==
  /\ Len(ps) \in Nat /\ DOMAIN ps = 1 .. Len(ps)
  /\ \A i \in 1 .. Len(ps) :
       /\ ps[i][2] \in Sendable
       /\ \A j \in 1 .. Len(ps) : ps[i][1] = ps[j][1] => ps[i][2] = ps[j][2]

LEMMA ParamListsFit ==
  ASSUME NEW value \in Sendable, NEW addr \in Sendable, NEW data \in Sendable
  PROVE  \A ps \in ParamLists(value, addr, data) : ParamsFit(ps)
<1> SUFFICES ASSUME NEW ps \in ParamLists(value, addr, data) PROVE ParamsFit(ps)
  OBVIOUS
<1>1. Len(ps) \in Nat /\ DOMAIN ps = 1 .. Len(ps)
      /\ \A i \in 1 .. Len(ps) : ps[i] \in Params(value, addr, data)
  BY LenProperties, ElementOfSeq DEF ParamLists
<1>2. \A a \in Params(value, addr, data) :
        /\ a[2] \in Sendable
        /\ \A b \in Params(value, addr, data) : a[1] = b[1] => a[2] = b[2]
  BY ParamsAre
<1> QED BY <1>1, <1>2, Zenon DEF ParamsFit

\* What holds of every call of the client, and of the case that it meets.
Proper(c) ==
  /\ ParamsFit(c.sends)
  /\ c.replies = << c.replies[1] >> /\ c.replies[1] \in AwaitedLists
  /\ c.code = "GET_HARDWARE_INFO" => c.replies[1] = << "kwargs" >>
  /\ c.method # "setupStream/tcp"
Meets(c, h) == /\ h.code = c.code /\ h.reads = c.sends /\ h.method = c.method
               /\ h.packs = c.replies
Defaulted == {<< >>, << "bool" >>, << "double" >>, << "unsigned" >>, << "string" >>,
              << "strings" >>, << "ranges" >>, << "unsigneds" >>, << "argInfos" >>,
              << "kwargs" >>}
\* A case that may be absent gives nothing or one value that has a default.
Lacks(h) == h.feature # "always" =>
  /\ h.code # "GET_HARDWARE_INFO"
  /\ h.packs = << h.packs[1] >> /\ h.packs[1] \in Defaulted

LEMMA FactoryFits ==
  /\ \A c \in FactoryCalls \cup MakeCalls : Proper(c) /\ \E h \in FactoryCases : Meets(c, h)
  /\ \A h \in FactoryCases : Lacks(h)
<1> DEFINE Q == ParamLists("double", "unsigned", "string")
<1>1. \A q \in Q : ParamsFit(q)
  BY ParamListsFit DEF Sendable
<1>3. \A a, b \in Q : a \o b \in Q
  BY ParamConcat
<1>4. \A c \in FactoryCalls \cup MakeCalls : c.sends \in Q
  <2>1. /\ << >> \in Q /\ Args \in Q
    BY ParamPieces
  <2> HIDE DEF Q
  <2> QED BY CallFields, <1>3, <2>1 DEF FactoryCalls, MakeCalls
<1>5. \A c \in FactoryCalls \cup MakeCalls :
        /\ c.replies = << c.replies[1] >> /\ c.replies[1] \in AwaitedLists
        /\ c.code = "GET_HARDWARE_INFO" => c.replies[1] = << "kwargs" >>
        /\ c.method # "setupStream/tcp"
  <2>1. /\ << >> \in AwaitedLists
        /\ \A x \in Awaited : << x >> \in AwaitedLists
        /\ << "string", "double" >> \in AwaitedLists
    BY ReplyPieces
  <2> QED BY CallFields, <2>1 DEF FactoryCalls, MakeCalls, Awaited
<1>6. \A c \in FactoryCalls \cup MakeCalls :
        \/ Case(c.code, c.sends, c.method, c.replies[1]) \in FactoryCases
  BY CallFields DEF FactoryCalls, MakeCalls, FactoryCases
<1>7. \A h \in FactoryCases : Lacks(h)
  BY CaseFields DEF Lacks, Defaulted, FactoryCases
<1>8. ASSUME NEW c \in FactoryCalls \cup MakeCalls PROVE \E h \in FactoryCases : Meets(c, h)
  <2>1. CASE Case(c.code, c.sends, c.method, c.replies[1]) \in FactoryCases
    <3>1. Meets(c, Case(c.code, c.sends, c.method, c.replies[1]))
      BY <1>5, CaseFields DEF Meets
    <3> QED BY <2>1, <3>1
  <2> QED BY <1>6, <2>1
<1> HIDE DEF Q
<1> QED BY <1>1, <1>4, <1>5, <1>7, <1>8 DEF Proper

LEMMA IdentificationFits ==
  /\ \A c \in IdentificationCalls : Proper(c) /\ \E h \in IdentificationCases : Meets(c, h)
  /\ \A h \in IdentificationCases : Lacks(h)
<1> DEFINE Q == ParamLists("double", "unsigned", "string")
<1>1. \A q \in Q : ParamsFit(q)
  BY ParamListsFit DEF Sendable
<1>3. \A a, b \in Q : a \o b \in Q
  BY ParamConcat
<1>4. \A c \in IdentificationCalls : c.sends \in Q
  <2>1. /\ << >> \in Q /\ << Direction >> \in Q /\ Chan \in Q /\ Str("mapping") \in Q
    BY ParamPieces
  <2> HIDE DEF Q
  <2> QED BY CallFields, <1>3, <2>1 DEF IdentificationCalls
<1>5. \A c \in IdentificationCalls :
        /\ c.replies = << c.replies[1] >> /\ c.replies[1] \in AwaitedLists
        /\ c.code = "GET_HARDWARE_INFO" => c.replies[1] = << "kwargs" >>
        /\ c.method # "setupStream/tcp"
  <2>1. /\ << >> \in AwaitedLists
        /\ \A x \in Awaited : << x >> \in AwaitedLists
        /\ << "string", "double" >> \in AwaitedLists
    BY ReplyPieces
  <2> QED BY CallFields, <2>1 DEF IdentificationCalls, Awaited
<1>6. \A c \in IdentificationCalls :
        \/ Case(c.code, c.sends, c.method, c.replies[1]) \in IdentificationCases
        \/ CaseIf("GET_CHANNEL_INFO", c.code, c.sends, c.method, c.replies[1]) \in IdentificationCases
  BY CallFields DEF IdentificationCalls, IdentificationCases
<1>7. \A h \in IdentificationCases : Lacks(h)
  BY CaseFields, CaseIfFields DEF Lacks, Defaulted, IdentificationCases
<1>8. ASSUME NEW c \in IdentificationCalls PROVE \E h \in IdentificationCases : Meets(c, h)
  <2>1. CASE Case(c.code, c.sends, c.method, c.replies[1]) \in IdentificationCases
    <3>1. Meets(c, Case(c.code, c.sends, c.method, c.replies[1]))
      BY <1>5, CaseFields DEF Meets
    <3> QED BY <2>1, <3>1
  <2>2. CASE CaseIf("GET_CHANNEL_INFO", c.code, c.sends, c.method, c.replies[1]) \in IdentificationCases
    <3>1. Meets(c, CaseIf("GET_CHANNEL_INFO", c.code, c.sends, c.method, c.replies[1]))
      BY <1>5, CaseIfFields DEF Meets
    <3> QED BY <2>2, <3>1
  <2> QED BY <1>6, <2>1, <2>2
<1> HIDE DEF Q
<1> QED BY <1>1, <1>4, <1>5, <1>7, <1>8 DEF Proper

LEMMA StreamInfoFits ==
  /\ \A c \in StreamInfoCalls : Proper(c) /\ \E h \in StreamInfoCases : Meets(c, h)
  /\ \A h \in StreamInfoCases : Lacks(h)
<1> DEFINE Q == ParamLists("double", "unsigned", "string")
<1>1. \A q \in Q : ParamsFit(q)
  BY ParamListsFit DEF Sendable
<1>3. \A a, b \in Q : a \o b \in Q
  BY ParamConcat
<1>4. \A c \in StreamInfoCalls : c.sends \in Q
  <2>1. /\ << >> \in Q /\ Chan \in Q
    BY ParamPieces
  <2> HIDE DEF Q
  <2> QED BY CallFields, <1>3, <2>1 DEF StreamInfoCalls
<1>5. \A c \in StreamInfoCalls :
        /\ c.replies = << c.replies[1] >> /\ c.replies[1] \in AwaitedLists
        /\ c.code = "GET_HARDWARE_INFO" => c.replies[1] = << "kwargs" >>
        /\ c.method # "setupStream/tcp"
  <2>1. /\ << >> \in AwaitedLists
        /\ \A x \in Awaited : << x >> \in AwaitedLists
        /\ << "string", "double" >> \in AwaitedLists
    BY ReplyPieces
  <2> QED BY CallFields, <2>1 DEF StreamInfoCalls, Awaited
<1>6. \A c \in StreamInfoCalls :
        \/ Case(c.code, c.sends, c.method, c.replies[1]) \in StreamInfoCases
  BY CallFields DEF StreamInfoCalls, StreamInfoCases
<1>7. \A h \in StreamInfoCases : Lacks(h)
  BY CaseFields DEF Lacks, Defaulted, StreamInfoCases
<1>8. ASSUME NEW c \in StreamInfoCalls PROVE \E h \in StreamInfoCases : Meets(c, h)
  <2>1. CASE Case(c.code, c.sends, c.method, c.replies[1]) \in StreamInfoCases
    <3>1. Meets(c, Case(c.code, c.sends, c.method, c.replies[1]))
      BY <1>5, CaseFields DEF Meets
    <3> QED BY <2>1, <3>1
  <2> QED BY <1>6, <2>1
<1> HIDE DEF Q
<1> QED BY <1>1, <1>4, <1>5, <1>7, <1>8 DEF Proper

LEMMA StreamFits ==
  /\ \A c \in StreamCalls \cup BypassCalls : Proper(c) /\ \E h \in StreamCases : Meets(c, h)
  /\ \A h \in StreamCases : Lacks(h)
<1> DEFINE Q == ParamLists("double", "unsigned", "string")
<1>1. \A q \in Q : ParamsFit(q)
  BY ParamListsFit DEF Sendable
<1>3. \A a, b \in Q : a \o b \in Q
  BY ParamConcat
<1>4. \A c \in StreamCalls \cup BypassCalls : c.sends \in Q
  <2>1. /\ << >> \in Q /\ << Direction >> \in Q /\ Args \in Q /\ TimeNs \in Q /\ StreamId \in Q
        /\ Flags \in Q /\ Format \in Q /\ Channels \in Q /\ Size("numElems") \in Q
    BY ParamPieces
  <2> HIDE DEF Q
  <2> QED BY CallFields, <1>3, <2>1 DEF StreamCalls, BypassCalls
<1>5. \A c \in StreamCalls \cup BypassCalls :
        /\ c.replies = << c.replies[1] >> /\ c.replies[1] \in AwaitedLists
        /\ c.code = "GET_HARDWARE_INFO" => c.replies[1] = << "kwargs" >>
        /\ c.method # "setupStream/tcp"
  <2>1. /\ << >> \in AwaitedLists
        /\ \A x \in Awaited : << x >> \in AwaitedLists
        /\ << "string", "double" >> \in AwaitedLists
    BY ReplyPieces
  <2> QED BY CallFields, <2>1 DEF StreamCalls, BypassCalls, Awaited
<1>6. \A c \in StreamCalls \cup BypassCalls :
        \/ Case(c.code, c.sends, c.method, c.replies[1]) \in StreamCases
  BY CallFields DEF StreamCalls, BypassCalls, StreamCases
<1>7. \A h \in StreamCases : Lacks(h)
  BY CaseFields DEF Lacks, Defaulted, StreamCases
<1>8. ASSUME NEW c \in StreamCalls \cup BypassCalls PROVE \E h \in StreamCases : Meets(c, h)
  <2>1. CASE Case(c.code, c.sends, c.method, c.replies[1]) \in StreamCases
    <3>1. Meets(c, Case(c.code, c.sends, c.method, c.replies[1]))
      BY <1>5, CaseFields DEF Meets
    <3> QED BY <2>1, <3>1
  <2> QED BY <1>6, <2>1
<1> HIDE DEF Q
<1> QED BY <1>1, <1>4, <1>5, <1>7, <1>8 DEF Proper

LEMMA AntennaFits ==
  /\ \A c \in AntennaCalls : Proper(c) /\ \E h \in AntennaCases : Meets(c, h)
  /\ \A h \in AntennaCases : Lacks(h)
<1> DEFINE Q == ParamLists("double", "unsigned", "string")
<1>1. \A q \in Q : ParamsFit(q)
  BY ParamListsFit DEF Sendable
<1>3. \A a, b \in Q : a \o b \in Q
  BY ParamConcat
<1>4. \A c \in AntennaCalls : c.sends \in Q
  <2>1. /\ << >> \in Q /\ Chan \in Q /\ Name \in Q
    BY ParamPieces
  <2> HIDE DEF Q
  <2> QED BY CallFields, <1>3, <2>1 DEF AntennaCalls
<1>5. \A c \in AntennaCalls :
        /\ c.replies = << c.replies[1] >> /\ c.replies[1] \in AwaitedLists
        /\ c.code = "GET_HARDWARE_INFO" => c.replies[1] = << "kwargs" >>
        /\ c.method # "setupStream/tcp"
  <2>1. /\ << >> \in AwaitedLists
        /\ \A x \in Awaited : << x >> \in AwaitedLists
        /\ << "string", "double" >> \in AwaitedLists
    BY ReplyPieces
  <2> QED BY CallFields, <2>1 DEF AntennaCalls, Awaited
<1>6. \A c \in AntennaCalls :
        \/ Case(c.code, c.sends, c.method, c.replies[1]) \in AntennaCases
  BY CallFields DEF AntennaCalls, AntennaCases
<1>7. \A h \in AntennaCases : Lacks(h)
  BY CaseFields DEF Lacks, Defaulted, AntennaCases
<1>8. ASSUME NEW c \in AntennaCalls PROVE \E h \in AntennaCases : Meets(c, h)
  <2>1. CASE Case(c.code, c.sends, c.method, c.replies[1]) \in AntennaCases
    <3>1. Meets(c, Case(c.code, c.sends, c.method, c.replies[1]))
      BY <1>5, CaseFields DEF Meets
    <3> QED BY <2>1, <3>1
  <2> QED BY <1>6, <2>1
<1> HIDE DEF Q
<1> QED BY <1>1, <1>4, <1>5, <1>7, <1>8 DEF Proper

LEMMA DCOffsetFits ==
  /\ \A c \in DCOffsetCalls : Proper(c) /\ \E h \in DCOffsetCases : Meets(c, h)
  /\ \A h \in DCOffsetCases : Lacks(h)
<1> DEFINE Q == ParamLists("double", "unsigned", "string")
<1>1. \A q \in Q : ParamsFit(q)
  BY ParamListsFit DEF Sendable
<1>3. \A a, b \in Q : a \o b \in Q
  BY ParamConcat
<1>4. \A c \in DCOffsetCalls : c.sends \in Q
  <2>1. /\ << >> \in Q /\ Chan \in Q /\ Automatic \in Q /\ Cplx("offset") \in Q
    BY ParamPieces
  <2> HIDE DEF Q
  <2> QED BY CallFields, <1>3, <2>1 DEF DCOffsetCalls
<1>5. \A c \in DCOffsetCalls :
        /\ c.replies = << c.replies[1] >> /\ c.replies[1] \in AwaitedLists
        /\ c.code = "GET_HARDWARE_INFO" => c.replies[1] = << "kwargs" >>
        /\ c.method # "setupStream/tcp"
  <2>1. /\ << >> \in AwaitedLists
        /\ \A x \in Awaited : << x >> \in AwaitedLists
        /\ << "string", "double" >> \in AwaitedLists
    BY ReplyPieces
  <2> QED BY CallFields, <2>1 DEF DCOffsetCalls, Awaited
<1>6. \A c \in DCOffsetCalls :
        \/ Case(c.code, c.sends, c.method, c.replies[1]) \in DCOffsetCases
  BY CallFields DEF DCOffsetCalls, DCOffsetCases
<1>7. \A h \in DCOffsetCases : Lacks(h)
  BY CaseFields DEF Lacks, Defaulted, DCOffsetCases
<1>8. ASSUME NEW c \in DCOffsetCalls PROVE \E h \in DCOffsetCases : Meets(c, h)
  <2>1. CASE Case(c.code, c.sends, c.method, c.replies[1]) \in DCOffsetCases
    <3>1. Meets(c, Case(c.code, c.sends, c.method, c.replies[1]))
      BY <1>5, CaseFields DEF Meets
    <3> QED BY <2>1, <3>1
  <2> QED BY <1>6, <2>1
<1> HIDE DEF Q
<1> QED BY <1>1, <1>4, <1>5, <1>7, <1>8 DEF Proper

LEMMA CorrectionFits ==
  /\ \A c \in CorrectionCalls : Proper(c) /\ \E h \in IQBalanceCases \cup CorrectionCases : Meets(c, h)
  /\ \A h \in IQBalanceCases \cup CorrectionCases : Lacks(h)
<1> DEFINE Q == ParamLists("double", "unsigned", "string")
<1>1. \A q \in Q : ParamsFit(q)
  BY ParamListsFit DEF Sendable
<1>3. \A a, b \in Q : a \o b \in Q
  BY ParamConcat
<1>4. \A c \in CorrectionCalls : c.sends \in Q
  <2>1. /\ << >> \in Q /\ Chan \in Q /\ Automatic \in Q /\ Value \in Q /\ Cplx("balance") \in Q
    BY ParamPieces DEF Value
  <2> HIDE DEF Q
  <2> QED BY CallFields, <1>3, <2>1 DEF CorrectionCalls
<1>5. \A c \in CorrectionCalls :
        /\ c.replies = << c.replies[1] >> /\ c.replies[1] \in AwaitedLists
        /\ c.code = "GET_HARDWARE_INFO" => c.replies[1] = << "kwargs" >>
        /\ c.method # "setupStream/tcp"
  <2>1. /\ << >> \in AwaitedLists
        /\ \A x \in Awaited : << x >> \in AwaitedLists
        /\ << "string", "double" >> \in AwaitedLists
    BY ReplyPieces
  <2> QED BY CallFields, <2>1 DEF CorrectionCalls, Awaited
<1>6. \A c \in CorrectionCalls :
        \/ Case(c.code, c.sends, c.method, c.replies[1]) \in IQBalanceCases \cup CorrectionCases
        \/ CaseIf(IQMode, c.code, c.sends, c.method, c.replies[1]) \in IQBalanceCases \cup CorrectionCases
        \/ CaseIf(Correction, c.code, c.sends, c.method, c.replies[1]) \in IQBalanceCases \cup CorrectionCases
  BY CallFields DEF CorrectionCalls, IQBalanceCases, CorrectionCases, IQMode, Correction
<1>7. \A h \in IQBalanceCases \cup CorrectionCases : Lacks(h)
  BY CaseFields, CaseIfFields DEF Lacks, Defaulted, IQBalanceCases, CorrectionCases, IQMode, Correction
<1>8. ASSUME NEW c \in CorrectionCalls PROVE \E h \in IQBalanceCases \cup CorrectionCases : Meets(c, h)
  <2>1. CASE Case(c.code, c.sends, c.method, c.replies[1]) \in IQBalanceCases \cup CorrectionCases
    <3>1. Meets(c, Case(c.code, c.sends, c.method, c.replies[1]))
      BY <1>5, CaseFields DEF Meets
    <3> QED BY <2>1, <3>1
  <2>2. CASE CaseIf(IQMode, c.code, c.sends, c.method, c.replies[1]) \in IQBalanceCases \cup CorrectionCases
    <3>1. Meets(c, CaseIf(IQMode, c.code, c.sends, c.method, c.replies[1]))
      BY <1>5, CaseIfFields DEF Meets
    <3> QED BY <2>2, <3>1
  <2>3. CASE CaseIf(Correction, c.code, c.sends, c.method, c.replies[1]) \in IQBalanceCases \cup CorrectionCases
    <3>1. Meets(c, CaseIf(Correction, c.code, c.sends, c.method, c.replies[1]))
      BY <1>5, CaseIfFields DEF Meets
    <3> QED BY <2>3, <3>1
  <2> QED BY <1>6, <2>1, <2>2, <2>3
<1> HIDE DEF Q
<1> QED BY <1>1, <1>4, <1>5, <1>7, <1>8 DEF Proper

LEMMA GainFits ==
  /\ \A c \in GainCalls : Proper(c) /\ \E h \in GainCases : Meets(c, h)
  /\ \A h \in GainCases : Lacks(h)
<1> DEFINE Q == ParamLists("double", "unsigned", "string")
<1>1. \A q \in Q : ParamsFit(q)
  BY ParamListsFit DEF Sendable
<1>3. \A a, b \in Q : a \o b \in Q
  BY ParamConcat
<1>4. \A c \in GainCalls : c.sends \in Q
  <2>1. /\ << >> \in Q /\ Chan \in Q /\ Name \in Q /\ Automatic \in Q /\ Value \in Q
    BY ParamPieces DEF Value
  <2> HIDE DEF Q
  <2> QED BY CallFields, <1>3, <2>1 DEF GainCalls
<1>5. \A c \in GainCalls :
        /\ c.replies = << c.replies[1] >> /\ c.replies[1] \in AwaitedLists
        /\ c.code = "GET_HARDWARE_INFO" => c.replies[1] = << "kwargs" >>
        /\ c.method # "setupStream/tcp"
  <2>1. /\ << >> \in AwaitedLists
        /\ \A x \in Awaited : << x >> \in AwaitedLists
        /\ << "string", "double" >> \in AwaitedLists
    BY ReplyPieces
  <2> QED BY CallFields, <2>1 DEF GainCalls, Awaited
<1>6. \A c \in GainCalls :
        \/ Case(c.code, c.sends, c.method, c.replies[1]) \in GainCases
  BY CallFields DEF GainCalls, GainCases
<1>7. \A h \in GainCases : Lacks(h)
  BY CaseFields DEF Lacks, Defaulted, GainCases
<1>8. ASSUME NEW c \in GainCalls PROVE \E h \in GainCases : Meets(c, h)
  <2>1. CASE Case(c.code, c.sends, c.method, c.replies[1]) \in GainCases
    <3>1. Meets(c, Case(c.code, c.sends, c.method, c.replies[1]))
      BY <1>5, CaseFields DEF Meets
    <3> QED BY <2>1, <3>1
  <2> QED BY <1>6, <2>1
<1> HIDE DEF Q
<1> QED BY <1>1, <1>4, <1>5, <1>7, <1>8 DEF Proper

LEMMA FrequencyFits ==
  /\ \A c \in FrequencyCalls : Proper(c) /\ \E h \in FrequencyCases : Meets(c, h)
  /\ \A h \in FrequencyCases : Lacks(h)
<1> DEFINE Q == ParamLists("double", "unsigned", "string")
<1>1. \A q \in Q : ParamsFit(q)
  BY ParamListsFit DEF Sendable
<1>3. \A a, b \in Q : a \o b \in Q
  BY ParamConcat
<1>4. \A c \in FrequencyCalls : c.sends \in Q
  <2>1. /\ << >> \in Q /\ Chan \in Q /\ Name \in Q /\ Args \in Q /\ Dbl("frequency") \in Q
    BY ParamPieces
  <2> HIDE DEF Q
  <2> QED BY CallFields, <1>3, <2>1 DEF FrequencyCalls
<1>5. \A c \in FrequencyCalls :
        /\ c.replies = << c.replies[1] >> /\ c.replies[1] \in AwaitedLists
        /\ c.code = "GET_HARDWARE_INFO" => c.replies[1] = << "kwargs" >>
        /\ c.method # "setupStream/tcp"
  <2>1. /\ << >> \in AwaitedLists
        /\ \A x \in Awaited : << x >> \in AwaitedLists
        /\ << "string", "double" >> \in AwaitedLists
    BY ReplyPieces
  <2> QED BY CallFields, <2>1 DEF FrequencyCalls, Awaited
<1>6. \A c \in FrequencyCalls :
        \/ Case(c.code, c.sends, c.method, c.replies[1]) \in FrequencyCases
  BY CallFields DEF FrequencyCalls, FrequencyCases
<1>7. \A h \in FrequencyCases : Lacks(h)
  BY CaseFields DEF Lacks, Defaulted, FrequencyCases
<1>8. ASSUME NEW c \in FrequencyCalls PROVE \E h \in FrequencyCases : Meets(c, h)
  <2>1. CASE Case(c.code, c.sends, c.method, c.replies[1]) \in FrequencyCases
    <3>1. Meets(c, Case(c.code, c.sends, c.method, c.replies[1]))
      BY <1>5, CaseFields DEF Meets
    <3> QED BY <2>1, <3>1
  <2> QED BY <1>6, <2>1
<1> HIDE DEF Q
<1> QED BY <1>1, <1>4, <1>5, <1>7, <1>8 DEF Proper

LEMMA RateFits ==
  /\ \A c \in RateCalls : Proper(c) /\ \E h \in RateCases \cup BandwidthCases : Meets(c, h)
  /\ \A h \in RateCases \cup BandwidthCases : Lacks(h)
<1> DEFINE Q == ParamLists("double", "unsigned", "string")
<1>1. \A q \in Q : ParamsFit(q)
  BY ParamListsFit DEF Sendable
<1>3. \A a, b \in Q : a \o b \in Q
  BY ParamConcat
<1>4. \A c \in RateCalls : c.sends \in Q
  <2>1. /\ << >> \in Q /\ Chan \in Q /\ Dbl("bw") \in Q /\ Dbl("rate") \in Q
    BY ParamPieces
  <2> HIDE DEF Q
  <2> QED BY CallFields, <1>3, <2>1 DEF RateCalls
<1>5. \A c \in RateCalls :
        /\ c.replies = << c.replies[1] >> /\ c.replies[1] \in AwaitedLists
        /\ c.code = "GET_HARDWARE_INFO" => c.replies[1] = << "kwargs" >>
        /\ c.method # "setupStream/tcp"
  <2>1. /\ << >> \in AwaitedLists
        /\ \A x \in Awaited : << x >> \in AwaitedLists
        /\ << "string", "double" >> \in AwaitedLists
    BY ReplyPieces
  <2> QED BY CallFields, <2>1 DEF RateCalls, Awaited
<1>6. \A c \in RateCalls :
        \/ Case(c.code, c.sends, c.method, c.replies[1]) \in RateCases \cup BandwidthCases
        \/ CaseIf("GET_SAMPLE_RATE_RANGE", c.code, c.sends, c.method, c.replies[1]) \in RateCases \cup BandwidthCases
        \/ CaseIf("GET_BANDWIDTH_RANGE", c.code, c.sends, c.method, c.replies[1]) \in RateCases \cup BandwidthCases
  BY CallFields DEF RateCalls, RateCases, BandwidthCases
<1>7. \A h \in RateCases \cup BandwidthCases : Lacks(h)
  BY CaseFields, CaseIfFields DEF Lacks, Defaulted, RateCases, BandwidthCases
<1>8. ASSUME NEW c \in RateCalls PROVE \E h \in RateCases \cup BandwidthCases : Meets(c, h)
  <2>1. CASE Case(c.code, c.sends, c.method, c.replies[1]) \in RateCases \cup BandwidthCases
    <3>1. Meets(c, Case(c.code, c.sends, c.method, c.replies[1]))
      BY <1>5, CaseFields DEF Meets
    <3> QED BY <2>1, <3>1
  <2>2. CASE CaseIf("GET_SAMPLE_RATE_RANGE", c.code, c.sends, c.method, c.replies[1]) \in RateCases \cup BandwidthCases
    <3>1. Meets(c, CaseIf("GET_SAMPLE_RATE_RANGE", c.code, c.sends, c.method, c.replies[1]))
      BY <1>5, CaseIfFields DEF Meets
    <3> QED BY <2>2, <3>1
  <2>3. CASE CaseIf("GET_BANDWIDTH_RANGE", c.code, c.sends, c.method, c.replies[1]) \in RateCases \cup BandwidthCases
    <3>1. Meets(c, CaseIf("GET_BANDWIDTH_RANGE", c.code, c.sends, c.method, c.replies[1]))
      BY <1>5, CaseIfFields DEF Meets
    <3> QED BY <2>3, <3>1
  <2> QED BY <1>6, <2>1, <2>2, <2>3
<1> HIDE DEF Q
<1> QED BY <1>1, <1>4, <1>5, <1>7, <1>8 DEF Proper

LEMMA ClockFits ==
  /\ \A c \in ClockCalls : Proper(c) /\ \E h \in ClockCases : Meets(c, h)
  /\ \A h \in ClockCases : Lacks(h)
<1> DEFINE Q == ParamLists("double", "unsigned", "string")
<1>1. \A q \in Q : ParamsFit(q)
  BY ParamListsFit DEF Sendable
<1>3. \A a, b \in Q : a \o b \in Q
  BY ParamConcat
<1>4. \A c \in ClockCalls : c.sends \in Q
  <2>1. /\ << >> \in Q /\ Source \in Q /\ Dbl("rate") \in Q
    BY ParamPieces
  <2> HIDE DEF Q
  <2> QED BY CallFields, <1>3, <2>1 DEF ClockCalls
<1>5. \A c \in ClockCalls :
        /\ c.replies = << c.replies[1] >> /\ c.replies[1] \in AwaitedLists
        /\ c.code = "GET_HARDWARE_INFO" => c.replies[1] = << "kwargs" >>
        /\ c.method # "setupStream/tcp"
  <2>1. /\ << >> \in AwaitedLists
        /\ \A x \in Awaited : << x >> \in AwaitedLists
        /\ << "string", "double" >> \in AwaitedLists
    BY ReplyPieces
  <2> QED BY CallFields, <2>1 DEF ClockCalls, Awaited
<1>6. \A c \in ClockCalls :
        \/ Case(c.code, c.sends, c.method, c.replies[1]) \in ClockCases
        \/ CaseIf(RefClock, c.code, c.sends, c.method, c.replies[1]) \in ClockCases
  BY CallFields DEF ClockCalls, ClockCases, RefClock
<1>7. \A h \in ClockCases : Lacks(h)
  BY CaseFields, CaseIfFields DEF Lacks, Defaulted, ClockCases, RefClock
<1>8. ASSUME NEW c \in ClockCalls PROVE \E h \in ClockCases : Meets(c, h)
  <2>1. CASE Case(c.code, c.sends, c.method, c.replies[1]) \in ClockCases
    <3>1. Meets(c, Case(c.code, c.sends, c.method, c.replies[1]))
      BY <1>5, CaseFields DEF Meets
    <3> QED BY <2>1, <3>1
  <2>2. CASE CaseIf(RefClock, c.code, c.sends, c.method, c.replies[1]) \in ClockCases
    <3>1. Meets(c, CaseIf(RefClock, c.code, c.sends, c.method, c.replies[1]))
      BY <1>5, CaseIfFields DEF Meets
    <3> QED BY <2>2, <3>1
  <2> QED BY <1>6, <2>1, <2>2
<1> HIDE DEF Q
<1> QED BY <1>1, <1>4, <1>5, <1>7, <1>8 DEF Proper

LEMMA TimeFits ==
  /\ \A c \in TimeCalls : Proper(c) /\ \E h \in TimeCases : Meets(c, h)
  /\ \A h \in TimeCases : Lacks(h)
<1> DEFINE Q == ParamLists("double", "unsigned", "string")
<1>1. \A q \in Q : ParamsFit(q)
  BY ParamListsFit DEF Sendable
<1>3. \A a, b \in Q : a \o b \in Q
  BY ParamConcat
<1>4. \A c \in TimeCalls : c.sends \in Q
  <2>1. /\ << >> \in Q /\ Source \in Q /\ What \in Q /\ TimeNs \in Q
    BY ParamPieces
  <2> HIDE DEF Q
  <2> QED BY CallFields, <1>3, <2>1 DEF TimeCalls
<1>5. \A c \in TimeCalls :
        /\ c.replies = << c.replies[1] >> /\ c.replies[1] \in AwaitedLists
        /\ c.code = "GET_HARDWARE_INFO" => c.replies[1] = << "kwargs" >>
        /\ c.method # "setupStream/tcp"
  <2>1. /\ << >> \in AwaitedLists
        /\ \A x \in Awaited : << x >> \in AwaitedLists
        /\ << "string", "double" >> \in AwaitedLists
    BY ReplyPieces
  <2> QED BY CallFields, <2>1 DEF TimeCalls, Awaited
<1>6. \A c \in TimeCalls :
        \/ Case(c.code, c.sends, c.method, c.replies[1]) \in TimeCases
  BY CallFields DEF TimeCalls, TimeCases
<1>7. \A h \in TimeCases : Lacks(h)
  BY CaseFields DEF Lacks, Defaulted, TimeCases
<1>8. ASSUME NEW c \in TimeCalls PROVE \E h \in TimeCases : Meets(c, h)
  <2>1. CASE Case(c.code, c.sends, c.method, c.replies[1]) \in TimeCases
    <3>1. Meets(c, Case(c.code, c.sends, c.method, c.replies[1]))
      BY <1>5, CaseFields DEF Meets
    <3> QED BY <2>1, <3>1
  <2> QED BY <1>6, <2>1
<1> HIDE DEF Q
<1> QED BY <1>1, <1>4, <1>5, <1>7, <1>8 DEF Proper

LEMMA SensorFits ==
  /\ \A c \in SensorCalls : Proper(c) /\ \E h \in SensorCases : Meets(c, h)
  /\ \A h \in SensorCases : Lacks(h)
<1> DEFINE Q == ParamLists("double", "unsigned", "string")
<1>1. \A q \in Q : ParamsFit(q)
  BY ParamListsFit DEF Sendable
<1>3. \A a, b \in Q : a \o b \in Q
  BY ParamConcat
<1>4. \A c \in SensorCalls : c.sends \in Q
  <2>1. /\ << >> \in Q /\ Chan \in Q /\ Name \in Q
    BY ParamPieces
  <2> HIDE DEF Q
  <2> QED BY CallFields, <1>3, <2>1 DEF SensorCalls
<1>5. \A c \in SensorCalls :
        /\ c.replies = << c.replies[1] >> /\ c.replies[1] \in AwaitedLists
        /\ c.code = "GET_HARDWARE_INFO" => c.replies[1] = << "kwargs" >>
        /\ c.method # "setupStream/tcp"
  <2>1. /\ << >> \in AwaitedLists
        /\ \A x \in Awaited : << x >> \in AwaitedLists
        /\ << "string", "double" >> \in AwaitedLists
    BY ReplyPieces
  <2> QED BY CallFields, <2>1 DEF SensorCalls, Awaited
<1>6. \A c \in SensorCalls :
        \/ Case(c.code, c.sends, c.method, c.replies[1]) \in SensorCases
  BY CallFields DEF SensorCalls, SensorCases
<1>7. \A h \in SensorCases : Lacks(h)
  BY CaseFields DEF Lacks, Defaulted, SensorCases
<1>8. ASSUME NEW c \in SensorCalls PROVE \E h \in SensorCases : Meets(c, h)
  <2>1. CASE Case(c.code, c.sends, c.method, c.replies[1]) \in SensorCases
    <3>1. Meets(c, Case(c.code, c.sends, c.method, c.replies[1]))
      BY <1>5, CaseFields DEF Meets
    <3> QED BY <2>1, <3>1
  <2> QED BY <1>6, <2>1
<1> HIDE DEF Q
<1> QED BY <1>1, <1>4, <1>5, <1>7, <1>8 DEF Proper

LEMMA RegisterFits ==
  /\ \A c \in RegisterCalls : Proper(c) /\ \E h \in RegisterCases : Meets(c, h)
  /\ \A h \in RegisterCases : Lacks(h)
<1> DEFINE Q == ParamLists("unsigned", "unsigned", "string")
<1>1. \A q \in Q : ParamsFit(q)
  BY ParamListsFit DEF Sendable
<1>2. ParamsFit(Name \o Addr \o << << "value", "unsigneds" >> >>)
  <2> DEFINE R == ParamLists("unsigneds", "unsigned", "string")
  <2>1. \A q \in R : ParamsFit(q)
    BY ParamListsFit DEF Sendable
  <2>2. Name \in R /\ Addr \in R /\ << << "value", "unsigneds" >> >> \in R
    BY ParamPieces DEF Addr
  <2>3. \A a, b \in R : a \o b \in R
    BY ParamConcat
  <2> HIDE DEF R
  <2> QED BY <2>1, <2>2, <2>3
<1>3. \A a, b \in Q : a \o b \in Q
  BY ParamConcat
<1>4. \A c \in RegisterCalls : c.sends \in Q \/ ParamsFit(c.sends)
  <2>1. /\ << >> \in Q /\ Name \in Q /\ Addr \in Q /\ Reg \in Q /\ Size("length") \in Q
    BY ParamPieces DEF Addr, Reg
  <2> HIDE DEF Q
  <2> QED BY CallFields, <1>3, <2>1, <1>2 DEF RegisterCalls
<1>5. \A c \in RegisterCalls :
        /\ c.replies = << c.replies[1] >> /\ c.replies[1] \in AwaitedLists
        /\ c.code = "GET_HARDWARE_INFO" => c.replies[1] = << "kwargs" >>
        /\ c.method # "setupStream/tcp"
  <2>1. /\ << >> \in AwaitedLists
        /\ \A x \in Awaited : << x >> \in AwaitedLists
        /\ << "string", "double" >> \in AwaitedLists
    BY ReplyPieces
  <2> QED BY CallFields, <2>1 DEF RegisterCalls, Awaited
<1>6. \A c \in RegisterCalls :
        \/ Case(c.code, c.sends, c.method, c.replies[1]) \in RegisterCases
        \/ CaseIf(NamedReg, c.code, c.sends, c.method, c.replies[1]) \in RegisterCases
        \/ CaseIf(NamedRegs, c.code, c.sends, c.method, c.replies[1]) \in RegisterCases
  BY CallFields DEF RegisterCalls, RegisterCases, NamedReg, NamedRegs
<1>7. \A h \in RegisterCases : Lacks(h)
  BY CaseFields, CaseIfFields DEF Lacks, Defaulted, RegisterCases, NamedReg, NamedRegs
<1>8. ASSUME NEW c \in RegisterCalls PROVE \E h \in RegisterCases : Meets(c, h)
  <2>1. CASE Case(c.code, c.sends, c.method, c.replies[1]) \in RegisterCases
    <3>1. Meets(c, Case(c.code, c.sends, c.method, c.replies[1]))
      BY <1>5, CaseFields DEF Meets
    <3> QED BY <2>1, <3>1
  <2>2. CASE CaseIf(NamedReg, c.code, c.sends, c.method, c.replies[1]) \in RegisterCases
    <3>1. Meets(c, CaseIf(NamedReg, c.code, c.sends, c.method, c.replies[1]))
      BY <1>5, CaseIfFields DEF Meets
    <3> QED BY <2>2, <3>1
  <2>3. CASE CaseIf(NamedRegs, c.code, c.sends, c.method, c.replies[1]) \in RegisterCases
    <3>1. Meets(c, CaseIf(NamedRegs, c.code, c.sends, c.method, c.replies[1]))
      BY <1>5, CaseIfFields DEF Meets
    <3> QED BY <2>3, <3>1
  <2> QED BY <1>6, <2>1, <2>2, <2>3
<1> HIDE DEF Q
<1> QED BY <1>1, <1>4, <1>5, <1>7, <1>8 DEF Proper

LEMMA SettingFits ==
  /\ \A c \in SettingCalls : Proper(c) /\ \E h \in SettingCases : Meets(c, h)
  /\ \A h \in SettingCases : Lacks(h)
<1> DEFINE Q == ParamLists("string", "unsigned", "string")
<1>1. \A q \in Q : ParamsFit(q)
  BY ParamListsFit DEF Sendable
<1>3. \A a, b \in Q : a \o b \in Q
  BY ParamConcat
<1>4. \A c \in SettingCalls : c.sends \in Q
  <2>1. /\ << >> \in Q /\ Chan \in Q /\ Key \in Q /\ Setting \in Q
    BY ParamPieces DEF Setting
  <2> HIDE DEF Q
  <2> QED BY CallFields, <1>3, <2>1 DEF SettingCalls
<1>5. \A c \in SettingCalls :
        /\ c.replies = << c.replies[1] >> /\ c.replies[1] \in AwaitedLists
        /\ c.code = "GET_HARDWARE_INFO" => c.replies[1] = << "kwargs" >>
        /\ c.method # "setupStream/tcp"
  <2>1. /\ << >> \in AwaitedLists
        /\ \A x \in Awaited : << x >> \in AwaitedLists
        /\ << "string", "double" >> \in AwaitedLists
    BY ReplyPieces
  <2> QED BY CallFields, <2>1 DEF SettingCalls, Awaited
<1>6. \A c \in SettingCalls :
        \/ Case(c.code, c.sends, c.method, c.replies[1]) \in SettingCases
        \/ CaseIf(ChanSettings, c.code, c.sends, c.method, c.replies[1]) \in SettingCases
  BY CallFields DEF SettingCalls, SettingCases, ChanSettings
<1>7. \A h \in SettingCases : Lacks(h)
  BY CaseFields, CaseIfFields DEF Lacks, Defaulted, SettingCases, ChanSettings
<1>8. ASSUME NEW c \in SettingCalls PROVE \E h \in SettingCases : Meets(c, h)
  <2>1. CASE Case(c.code, c.sends, c.method, c.replies[1]) \in SettingCases
    <3>1. Meets(c, Case(c.code, c.sends, c.method, c.replies[1]))
      BY <1>5, CaseFields DEF Meets
    <3> QED BY <2>1, <3>1
  <2>2. CASE CaseIf(ChanSettings, c.code, c.sends, c.method, c.replies[1]) \in SettingCases
    <3>1. Meets(c, CaseIf(ChanSettings, c.code, c.sends, c.method, c.replies[1]))
      BY <1>5, CaseIfFields DEF Meets
    <3> QED BY <2>2, <3>1
  <2> QED BY <1>6, <2>1, <2>2
<1> HIDE DEF Q
<1> QED BY <1>1, <1>4, <1>5, <1>7, <1>8 DEF Proper

LEMMA GPIOFits ==
  /\ \A c \in GPIOCalls : Proper(c) /\ \E h \in GPIOCases : Meets(c, h)
  /\ \A h \in GPIOCases : Lacks(h)
<1> DEFINE Q == ParamLists("unsigned", "unsigned", "string")
<1>1. \A q \in Q : ParamsFit(q)
  BY ParamListsFit DEF Sendable
<1>3. \A a, b \in Q : a \o b \in Q
  BY ParamConcat
<1>4. \A c \in GPIOCalls : c.sends \in Q
  <2>1. /\ << >> \in Q /\ Reg \in Q /\ Bank \in Q /\ Mask \in Q /\ Dir \in Q
    BY ParamPieces DEF Reg
  <2> HIDE DEF Q
  <2> QED BY CallFields, <1>3, <2>1 DEF GPIOCalls
<1>5. \A c \in GPIOCalls :
        /\ c.replies = << c.replies[1] >> /\ c.replies[1] \in AwaitedLists
        /\ c.code = "GET_HARDWARE_INFO" => c.replies[1] = << "kwargs" >>
        /\ c.method # "setupStream/tcp"
  <2>1. /\ << >> \in AwaitedLists
        /\ \A x \in Awaited : << x >> \in AwaitedLists
        /\ << "string", "double" >> \in AwaitedLists
    BY ReplyPieces
  <2> QED BY CallFields, <2>1 DEF GPIOCalls, Awaited
<1>6. \A c \in GPIOCalls :
        \/ Case(c.code, c.sends, c.method, c.replies[1]) \in GPIOCases
  BY CallFields DEF GPIOCalls, GPIOCases
<1>7. \A h \in GPIOCases : Lacks(h)
  BY CaseFields DEF Lacks, Defaulted, GPIOCases
<1>8. ASSUME NEW c \in GPIOCalls PROVE \E h \in GPIOCases : Meets(c, h)
  <2>1. CASE Case(c.code, c.sends, c.method, c.replies[1]) \in GPIOCases
    <3>1. Meets(c, Case(c.code, c.sends, c.method, c.replies[1]))
      BY <1>5, CaseFields DEF Meets
    <3> QED BY <2>1, <3>1
  <2> QED BY <1>6, <2>1
<1> HIDE DEF Q
<1> QED BY <1>1, <1>4, <1>5, <1>7, <1>8 DEF Proper

LEMMA BusFits ==
  /\ \A c \in BusCalls : Proper(c) /\ \E h \in BusCases : Meets(c, h)
  /\ \A h \in BusCases : Lacks(h)
<1> DEFINE Q == ParamLists("double", "int", "string")
<1>1. \A q \in Q : ParamsFit(q)
  BY ParamListsFit DEF Sendable
<1>2. ParamsFit(BusAddr \o << << "data", "unsigned" >> >> \o Size("numBits"))
  <2> DEFINE R == ParamLists("double", "int", "unsigned")
  <2>1. \A q \in R : ParamsFit(q)
    BY ParamListsFit DEF Sendable
  <2>2. BusAddr \in R /\ << << "data", "unsigned" >> >> \in R /\ Size("numBits") \in R
    BY ParamPieces DEF BusAddr
  <2>3. \A a, b \in R : a \o b \in R
    BY ParamConcat
  <2> HIDE DEF R
  <2> QED BY <2>1, <2>2, <2>3
<1>3. \A a, b \in Q : a \o b \in Q
  BY ParamConcat
<1>4. \A c \in BusCalls : c.sends \in Q \/ ParamsFit(c.sends)
  <2>1. /\ << >> \in Q /\ BusAddr \in Q /\ Data \in Q /\ Which \in Q /\ Num("timeoutUs") \in Q
        /\ Size("numBits") \in Q /\ Size("numBytes") \in Q
    BY ParamPieces DEF BusAddr, Data
  <2> HIDE DEF Q
  <2> QED BY CallFields, <1>3, <2>1, <1>2 DEF BusCalls
<1>5. \A c \in BusCalls :
        /\ c.replies = << c.replies[1] >> /\ c.replies[1] \in AwaitedLists
        /\ c.code = "GET_HARDWARE_INFO" => c.replies[1] = << "kwargs" >>
        /\ c.method # "setupStream/tcp"
  <2>1. /\ << >> \in AwaitedLists
        /\ \A x \in Awaited : << x >> \in AwaitedLists
        /\ << "string", "double" >> \in AwaitedLists
    BY ReplyPieces
  <2> QED BY CallFields, <2>1 DEF BusCalls, Awaited
<1>6. \A c \in BusCalls :
        \/ Case(c.code, c.sends, c.method, c.replies[1]) \in BusCases
  BY CallFields DEF BusCalls, BusCases
<1>7. \A h \in BusCases : Lacks(h)
  BY CaseFields DEF Lacks, Defaulted, BusCases
<1>8. ASSUME NEW c \in BusCalls PROVE \E h \in BusCases : Meets(c, h)
  <2>1. CASE Case(c.code, c.sends, c.method, c.replies[1]) \in BusCases
    <3>1. Meets(c, Case(c.code, c.sends, c.method, c.replies[1]))
      BY <1>5, CaseFields DEF Meets
    <3> QED BY <2>1, <3>1
  <2> QED BY <1>6, <2>1
<1> HIDE DEF Q
<1> QED BY <1>1, <1>4, <1>5, <1>7, <1>8 DEF Proper

\* A call to set up a stream has a reply of two values, after one of its own over TCP.
LEMMA SetupFits ==
  /\ ParamsFit(SetupParams)
  /\ \A c \in SetupStreamCalls :
       /\ c.sends = SetupParams /\ c.code = "SETUP_STREAM"
       /\ \/ c.method = "setupStream" /\ c.replies = << << "int", "string" >> >>
          \/ /\ c.method = "setupStream/tcp"
             /\ c.replies = << << "string" >>, << "int", "string" >> >>
       /\ Meets(c, SetupStreamCase(c.method = "setupStream/tcp"))
<1>1. ParamsFit(SetupParams)
  <2> DEFINE Q == ParamLists("double", "unsigned", "string")
  <2>1. \A q \in Q : ParamsFit(q)
    BY ParamListsFit DEF Sendable
  <2>2. /\ << Direction >> \in Q /\ Format \in Q /\ Channels \in Q /\ Args \in Q
        /\ Str("clientBindPort") \in Q /\ Str("statusBindPort") \in Q
    BY ParamPieces
  <2>3. \A a, b \in Q : a \o b \in Q
    BY ParamConcat
  <2> HIDE DEF Q
  <2> QED BY <2>1, <2>2, <2>3 DEF SetupParams
<1>2. ASSUME NEW c \in SetupStreamCalls
      PROVE  /\ c.sends = SetupParams /\ c.code = "SETUP_STREAM"
             /\ \/ c.method = "setupStream" /\ c.replies = << << "int", "string" >> >>
                \/ /\ c.method = "setupStream/tcp"
                   /\ c.replies = << << "string" >>, << "int", "string" >> >>
  BY CallFields DEF SetupStreamCalls
<1>3. ASSUME NEW c \in SetupStreamCalls
      PROVE  Meets(c, SetupStreamCase(c.method = "setupStream/tcp"))
  BY <1>2 DEF Meets, SetupStreamCase
<1> QED BY <1>1, <1>2, <1>3

\* What holds of every call.
Fit(c) ==
  /\ ParamsFit(c.sends)
  /\ \/ c.replies = << c.replies[1] >> /\ c.replies[1] \in AwaitedLists
     \/ c.replies = << << "string" >>, << "int", "string" >> >>
  /\ c.code = "GET_HARDWARE_INFO" => c.replies = << << "kwargs" >> >>

LEMMA CallsFit ==
  ASSUME NEW c \in ClientCalls
  PROVE  /\ Fit(c)
         /\ \E h \in HandlerCases(c.method = "setupStream/tcp") : Meets(c, h)
<1> DEFINE H == HandlerCases(c.method = "setupStream/tcp")
<1>1. ASSUME Proper(c) PROVE Fit(c)
  BY <1>1 DEF Proper, Fit
<1>2. UNION {FactoryCases, IdentificationCases, StreamInfoCases,
             {SetupStreamCase(c.method = "setupStream/tcp")},
             StreamCases, AntennaCases, DCOffsetCases, IQBalanceCases, CorrectionCases, GainCases,
             FrequencyCases, RateCases, BandwidthCases, ClockCases, TimeCases, SensorCases,
             RegisterCases, SettingCases, GPIOCases, BusCases} = H
  BY DEF HandlerCases
<1>3. /\ FactoryCases \subseteq H /\ IdentificationCases \subseteq H /\ StreamInfoCases \subseteq H
      /\ StreamCases \subseteq H /\ AntennaCases \subseteq H /\ DCOffsetCases \subseteq H
      /\ IQBalanceCases \subseteq H /\ CorrectionCases \subseteq H /\ GainCases \subseteq H
      /\ FrequencyCases \subseteq H
  <2> HIDE DEF H
  <2> QED BY <1>2
<1>4. /\ RateCases \subseteq H /\ BandwidthCases \subseteq H /\ ClockCases \subseteq H
      /\ TimeCases \subseteq H /\ SensorCases \subseteq H /\ RegisterCases \subseteq H
      /\ SettingCases \subseteq H /\ GPIOCases \subseteq H /\ BusCases \subseteq H
      /\ SetupStreamCase(c.method = "setupStream/tcp") \in H
  <2> HIDE DEF H
  <2> QED BY <1>2
<1>5. CASE c \in SetupStreamCalls
  <2>1. Fit(c)
    BY <1>5, SetupFits, ReplyPieces DEF Fit
  <2>2. Meets(c, SetupStreamCase(c.method = "setupStream/tcp"))
    BY <1>5, SetupFits
  <2> QED BY <1>4, <2>1, <2>2
<1>6. CASE c \in FactoryCalls \cup MakeCalls
  BY <1>1, <1>3, <1>6, FactoryFits
<1>7. CASE c \in IdentificationCalls
  BY <1>1, <1>3, <1>7, IdentificationFits
<1>8. CASE c \in StreamInfoCalls
  BY <1>1, <1>3, <1>8, StreamInfoFits
<1>9. CASE c \in StreamCalls \cup BypassCalls
  BY <1>1, <1>3, <1>9, StreamFits
<1>10. CASE c \in AntennaCalls
  BY <1>1, <1>3, <1>10, AntennaFits
<1>11. CASE c \in DCOffsetCalls
  BY <1>1, <1>3, <1>11, DCOffsetFits
<1>12. CASE c \in CorrectionCalls
  BY <1>1, <1>3, <1>12, CorrectionFits
<1>13. CASE c \in GainCalls
  BY <1>1, <1>3, <1>13, GainFits
<1>14. CASE c \in FrequencyCalls
  BY <1>1, <1>3, <1>14, FrequencyFits
<1>15. CASE c \in RateCalls
  BY <1>1, <1>4, <1>15, RateFits
<1>16. CASE c \in ClockCalls
  BY <1>1, <1>4, <1>16, ClockFits
<1>17. CASE c \in TimeCalls
  BY <1>1, <1>4, <1>17, TimeFits
<1>18. CASE c \in SensorCalls
  BY <1>1, <1>4, <1>18, SensorFits
<1>19. CASE c \in RegisterCalls
  BY <1>1, <1>4, <1>19, RegisterFits
<1>20. CASE c \in SettingCalls
  BY <1>1, <1>4, <1>20, SettingFits
<1>21. CASE c \in GPIOCalls
  BY <1>1, <1>4, <1>21, GPIOFits
<1>22. CASE c \in BusCalls
  BY <1>1, <1>4, <1>22, BusFits
<1>23. \/ c \in SetupStreamCalls \/ c \in FactoryCalls \cup MakeCalls \/ c \in IdentificationCalls
       \/ c \in StreamInfoCalls \/ c \in StreamCalls \cup BypassCalls \/ c \in AntennaCalls
       \/ c \in DCOffsetCalls \/ c \in CorrectionCalls \/ c \in GainCalls \/ c \in FrequencyCalls
       \/ c \in RateCalls \/ c \in ClockCalls \/ c \in TimeCalls \/ c \in SensorCalls
       \/ c \in RegisterCalls \/ c \in SettingCalls \/ c \in GPIOCalls \/ c \in BusCalls
  BY DEF ClientCalls
<1> HIDE DEF H
<1>24. CASE \/ c \in SetupStreamCalls \/ c \in FactoryCalls \cup MakeCalls
            \/ c \in IdentificationCalls \/ c \in StreamInfoCalls
            \/ c \in StreamCalls \cup BypassCalls \/ c \in AntennaCalls
            \/ c \in DCOffsetCalls \/ c \in CorrectionCalls \/ c \in GainCalls
  BY <1>5, <1>6, <1>7, <1>8, <1>9, <1>10, <1>11, <1>12, <1>13, <1>24, Zenon DEF H
<1>25. CASE \/ c \in FrequencyCalls \/ c \in RateCalls \/ c \in ClockCalls \/ c \in TimeCalls
            \/ c \in SensorCalls \/ c \in RegisterCalls \/ c \in SettingCalls
            \/ c \in GPIOCalls \/ c \in BusCalls
  BY <1>14, <1>15, <1>16, <1>17, <1>18, <1>19, <1>20, <1>21, <1>22, <1>25, Zenon DEF H
<1> QED BY <1>23, <1>24, <1>25, Zenon

\* The handler has one case for each call.
Cases1(tcp) == UNION {FactoryCases, IdentificationCases, StreamInfoCases, {SetupStreamCase(tcp)},
                      StreamCases, AntennaCases, DCOffsetCases}
Cases2 == UNION {IQBalanceCases, CorrectionCases, GainCases, FrequencyCases}
Cases3 == UNION {RateCases, BandwidthCases, ClockCases, TimeCases}
Cases4 == UNION {SensorCases, RegisterCases, SettingCases, GPIOCases, BusCases}

LEMMA CodesApart ==
  ASSUME NEW tcp
  PROVE  \A h, g \in HandlerCases(tcp) : h.code = g.code => h = g
<1> DEFINE H1 == Cases1(tcp)
<1>1. \A h, g \in H1 : h.code = g.code => h = g
  BY CaseFields, CaseIfFields, SetupFields, SMTT(60)
     DEF Cases1, FactoryCases, IdentificationCases, StreamInfoCases, StreamCases, AntennaCases,
         DCOffsetCases
<1>2. \A h, g \in Cases2 : h.code = g.code => h = g
  BY CaseFields, CaseIfFields, SMTT(60)
     DEF Cases2, IQBalanceCases, CorrectionCases, GainCases, FrequencyCases, IQMode, Correction
<1>3. \A h, g \in Cases3 : h.code = g.code => h = g
  BY CaseFields, CaseIfFields, SMTT(60)
     DEF Cases3, RateCases, BandwidthCases, ClockCases, TimeCases, RefClock
<1>4. \A h, g \in Cases4 : h.code = g.code => h = g
  BY CaseFields, CaseIfFields, SMTT(60)
     DEF Cases4, SensorCases, RegisterCases, SettingCases, GPIOCases, BusCases, NamedReg, NamedRegs,
         ChanSettings
<1>5. \A h \in H1, g \in Cases2 : h.code # g.code
  BY CaseFields, CaseIfFields, SetupFields, SMTT(60)
     DEF Cases1, FactoryCases, IdentificationCases, StreamInfoCases, StreamCases, AntennaCases,
         DCOffsetCases,
         Cases2, IQBalanceCases, CorrectionCases, GainCases, FrequencyCases, IQMode, Correction
<1>6. \A h \in H1, g \in Cases3 : h.code # g.code
  BY CaseFields, CaseIfFields, SetupFields, SMTT(60)
     DEF Cases1, FactoryCases, IdentificationCases, StreamInfoCases, StreamCases, AntennaCases,
         DCOffsetCases,
         Cases3, RateCases, BandwidthCases, ClockCases, TimeCases, RefClock
<1>7. \A h \in H1, g \in Cases4 : h.code # g.code
  BY CaseFields, CaseIfFields, SetupFields, SMTT(60)
     DEF Cases1, FactoryCases, IdentificationCases, StreamInfoCases, StreamCases, AntennaCases,
         DCOffsetCases,
         Cases4, SensorCases, RegisterCases, SettingCases, GPIOCases, BusCases, NamedReg, NamedRegs,
         ChanSettings
<1>8. \A h \in Cases2, g \in Cases3 : h.code # g.code
  BY CaseFields, CaseIfFields, SMTT(60)
     DEF Cases2, IQBalanceCases, CorrectionCases, GainCases, FrequencyCases, IQMode, Correction,
         Cases3, RateCases, BandwidthCases, ClockCases, TimeCases, RefClock
<1>9. \A h \in Cases2, g \in Cases4 : h.code # g.code
  BY CaseFields, CaseIfFields, SMTT(60)
     DEF Cases2, IQBalanceCases, CorrectionCases, GainCases, FrequencyCases, IQMode, Correction,
         Cases4, SensorCases, RegisterCases, SettingCases, GPIOCases, BusCases, NamedReg, NamedRegs,
         ChanSettings
<1>10. \A h \in Cases3, g \in Cases4 : h.code # g.code
  BY CaseFields, CaseIfFields, SMTT(60)
     DEF Cases3, RateCases, BandwidthCases, ClockCases, TimeCases, RefClock,
         Cases4, SensorCases, RegisterCases, SettingCases, GPIOCases, BusCases, NamedReg, NamedRegs,
         ChanSettings
<1>11. HandlerCases(tcp) = H1 \cup Cases2 \cup Cases3 \cup Cases4
  BY DEF HandlerCases, Cases1, Cases2, Cases3, Cases4
<1> HIDE DEF H1
<1> QED BY <1>1, <1>2, <1>3, <1>4, <1>5, <1>6, <1>7, <1>8, <1>9, <1>10, <1>11

LEMMA CasesLack ==
  ASSUME NEW tcp
  PROVE  \A h \in HandlerCases(tcp) : Lacks(h)
<1>1. Lacks(SetupStreamCase(tcp))
  BY SetupFields DEF Lacks
<1>2. \A h \in Cases1(tcp) : Lacks(h)
  BY <1>1, FactoryFits, IdentificationFits, StreamInfoFits, StreamFits, AntennaFits, DCOffsetFits
     DEF Cases1
<1>3. \A h \in Cases2 \cup Cases3 : Lacks(h)
  BY CorrectionFits, GainFits, FrequencyFits, RateFits, ClockFits, TimeFits DEF Cases2, Cases3
<1>4. \A h \in Cases4 : Lacks(h)
  BY SensorFits, RegisterFits, SettingFits, GPIOFits, BusFits DEF Cases4
<1>5. HandlerCases(tcp) = Cases1(tcp) \cup Cases2 \cup Cases3 \cup Cases4
  BY DEF HandlerCases, Cases1, Cases2, Cases3, Cases4
<1> QED BY <1>2, <1>3, <1>4, <1>5

-----------------------------------------------------------------------------
(* The values of a call.                                                   *)

\* An element of a product has an element of each set.
LEMMA ProductsOf ==
  ASSUME NEW N \in Nat, NEW sets, DOMAIN sets = 1 .. N, Len(sets) = N, NEW v \in Products(sets)
  PROVE  /\ Len(v) = N /\ DOMAIN v = 1 .. N /\ v = [i \in 1 .. N |-> v[i]]
         /\ \A i \in 1 .. N : v[i] \in sets[i]
<1> DEFINE U == UNION {sets[i] : i \in 1 .. N}
           Q == SUBSET Seq(U)
           More(q, n) == {Append(s, x) : s \in q, x \in sets[n]}
           step == [n \in 1 .. N |-> [q \in Q |-> More(q, n)]]
           Step(f) == [n \in 0 .. N |-> IF n = 0 THEN {<< >>} ELSE More(f[n - 1], n)]
           F == CHOOSE f : f = Step(f)
<1>1. {<< >>} \in Q
  BY EmptySeq
<1>2. ASSUME NEW n \in 1 .. N, NEW q \in Q
      PROVE  More(q, n) \in Q
  <2>1. \A x \in sets[n] : x \in U
    OBVIOUS
  <2>2. \A s \in Seq(U) : \A x \in U : Append(s, x) \in Seq(U)
    BY AppendProperties
  <2> HIDE DEF U
  <2> QED BY <2>1, <2>2
<1>2a. Products(sets) = F[N]
  BY DEF Products
<1>2b. \A q, n : \A s \in More(q, n) : \E t \in q : \E x \in sets[n] : s = Append(t, x)
  OBVIOUS
<1> HIDE DEF More
<1>3. step \in [1 .. N -> [Q -> Q]]
  <2> HIDE DEF Q
  <2> QED BY <1>2
<1>4. PICK B : Runs(B, N, Q, {<< >>}, step)
  <2> HIDE DEF step, Q
  <2> QED BY <1>1, <1>3, Recursion
<1>5. B \in [0 .. N -> Q] /\ B[0] = {<< >>} /\ \A n \in 1 .. N : B[n] = step[n][B[n - 1]]
  <2> HIDE DEF step, Q
  <2> QED BY <1>4 DEF Runs
<1>6. ASSUME NEW n \in 1 .. N
      PROVE  B[n] = More(B[n - 1], n)
  <2>1. B[n - 1] \in Q
    <3> HIDE DEF Q, step
    <3>1. n - 1 \in 0 .. N
      OBVIOUS
    <3> QED BY <1>5, <3>1
  <2> HIDE DEF Q
  <2>2. step[n][B[n - 1]] = More(B[n - 1], n)
    BY <2>1
  <2> QED BY <1>5, <2>2
<1>7. B = Step(B)
  <2>1. ASSUME NEW n \in 0 .. N PROVE B[n] = Step(B)[n]
    <3>1. CASE n = 0
      <4> HIDE DEF Q, step
      <4> QED BY <1>5, <3>1
    <3>2. CASE n # 0
      <4>1. n \in 1 .. N
        BY <3>2
      <4> QED BY <1>6, <3>2, <4>1
    <3> QED BY <3>1, <3>2
  <2> HIDE DEF Step, Q, step
  <2>2. Step(B) = [n \in 0 .. N |-> Step(B)[n]]
    BY DEF Step
  <2> QED BY <1>5, <2>1, <2>2
<1>8. F = Step(F)
  <2> HIDE DEF Step
  <2> QED BY <1>7
<1> HIDE DEF F, step, Q
<1> DEFINE Ok(s, n) == /\ s \in Seq(U) /\ Len(s) = n /\ \A i \in 1 .. n : s[i] \in sets[i]
           T == {n \in 0 .. N : \A s \in F[n] : Ok(s, n)}
<1>10. 0 \in T
  <2>1. F[0] = {<< >>}
    BY <1>8
  <2>2. Ok(<< >>, 0)
    BY EmptySeq
  <2> HIDE DEF Ok
  <2> QED BY <2>1, <2>2
<1>11. ASSUME NEW n \in 0 .. N - 1, n \in T PROVE n + 1 \in T
  <2> DEFINE m == n + 1
  <2>1. m \in 1 .. N /\ m \in 0 .. N /\ m - 1 = n /\ m # 0
    OBVIOUS
  <2> HIDE DEF m
  <2>2. F[m] = More(F[n], m)
    BY <1>8, <2>1
  <2>3. ASSUME NEW s \in F[n], NEW x \in sets[m] PROVE Ok(Append(s, x), m)
    <3>1. Ok(s, n)
      BY <1>11
    <3>2. x \in U
      BY <2>1
    <3>3. s \in Seq(U) /\ Len(s) = n /\ \A i \in 1 .. n : s[i] \in sets[i]
      BY <3>1
    <3> HIDE DEF U
    <3>4. /\ Append(s, x) \in Seq(U) /\ Len(Append(s, x)) = n + 1
          /\ \A i \in 1 .. n : Append(s, x)[i] = s[i]
          /\ Append(s, x)[n + 1] = x
      BY <3>2, <3>3, AppendProperties
    <3>5. n + 1 = m
      BY DEF m
    <3>6. ASSUME NEW i \in 1 .. m PROVE Append(s, x)[i] \in sets[i]
      <4>1. CASE i = m
        BY <3>4, <3>5, <4>1
      <4>2. CASE i # m
        <5>1. i \in 1 .. n
          BY <2>1, <4>2
        <5> QED BY <3>3, <3>4, <5>1
      <4> QED BY <4>1, <4>2
    <3> QED BY <3>4, <3>5, <3>6
  <2> HIDE DEF Ok
  <2>4. ASSUME NEW w \in F[m] PROVE Ok(w, m)
    <3>1. w \in More(F[n], m)
      BY <2>2
    <3>2. PICK s \in F[n] : \E x \in sets[m] : w = Append(s, x)
      BY <1>2b, <3>1
    <3>3. PICK x \in sets[m] : w = Append(s, x)
      BY <3>2
    <3> QED BY <2>3, <3>3
  <2> QED BY <2>1, <2>4 DEF m
<1>12. N \in T
  <2>1. N \in 0 .. N
    OBVIOUS
  <2> HIDE DEF T
  <2> QED BY <1>10, <1>11, <2>1, UpTo
<1>13. Ok(v, N)
  <2> HIDE DEF Ok
  <2> QED BY <1>2a, <1>12
<1> QED BY <1>13, LenProperties

Met(c, tcp) == \E h \in HandlerCases(tcp) : Meets(c, h)

LEMMA MethodsFit ==
  ASSUME NEW m \in Methods
  PROVE  LET c == CallOf[m]
         IN /\ c \in ClientCalls /\ c.method = m /\ c.code \in Calls /\ c.code \in Codes
            /\ Fit(c)
            /\ Met(c, Tcp(m))
<1> DEFINE c == CallOf[m]
<1>1. PICK d \in ClientCalls : d.method = m
  BY DEF Methods
<1>2. c = CHOOSE x \in ClientCalls : x.method = m
  BY DEF CallOf
<1>3. c \in ClientCalls /\ c.method = m
  BY <1>1, <1>2
<1> HIDE DEF c
<1>4. c.code \in Calls /\ c.code \in Codes
  BY <1>3, CallsAssumption DEF Codes
<1>5. Fit(c) /\ Met(c, c.method = "setupStream/tcp")
  BY <1>3, CallsFit DEF Met
<1>6. Tcp(m) = (c.method = "setupStream/tcp")
  BY <1>3 DEF Tcp
<1> QED BY <1>3, <1>4, <1>5, <1>6 DEF c

LEMMA CaseIs ==
  ASSUME NEW m \in Methods
  PROVE  \E h : CaseOf[Tcp(m)][CallOf[m].code] = {h} /\ Meets(CallOf[m], h) /\ Lacks(h)
<1> DEFINE c == CallOf[m]
           tcp == Tcp(m)
<1>1. c.code \in Codes /\ tcp \in BOOLEAN
  BY MethodsFit DEF Tcp
<1>2. Met(c, tcp)
  BY MethodsFit
<1> HIDE DEF c, tcp
<1>3. CaseOf[tcp][c.code] = CasesFor(tcp, c.code)
  BY <1>1 DEF CaseOf
<1>4. PICK h \in HandlerCases(tcp) : Meets(c, h)
  BY <1>2 DEF Met
<1>5. h.code = c.code
  BY <1>4 DEF Meets
<1>6. Lacks(h)
  BY CasesLack
<1>7. \A g \in HandlerCases(tcp) : g.code = h.code => g = h
  BY CodesApart
<1>8. CasesFor(tcp, c.code) = {h}
  BY <1>5, <1>7 DEF CasesFor
<1> QED BY <1>3, <1>4, <1>6, <1>8 DEF c, tcp

\* The arguments of a call in the order of its parameters.
Values0(m, a) == [i \in DOMAIN CallOf[m].sends |-> a[CallOf[m].sends[i][1]]]

LEMMA PassedAre ==
  ASSUME NEW m \in Methods, NEW a \in Passed[m]
  PROVE  LET ps == CallOf[m].sends
         IN /\ Len(ps) \in Nat /\ DOMAIN ps = 1 .. Len(ps)
            /\ Len(Types(ps)) = Len(ps) /\ DOMAIN Types(ps) = 1 .. Len(ps)
            /\ \A i \in 1 .. Len(ps) : /\ Types(ps)[i] = ps[i][2] /\ ps[i][2] \in Sendable
                                       /\ IsA(ps[i][2], Values0(m, a)[i])
            /\ Values0(m, a) = [i \in 1 .. Len(ps) |-> Values0(m, a)[i]]
            /\ Named(ps, Values0(m, a)) = a
<1> DEFINE ps == CallOf[m].sends
           N == Len(ps)
           vals == [i \in DOMAIN ps |-> a[ps[i][1]]]
           names == {ps[i][1] : i \in 1 .. N}
           At(n) == CHOOSE i \in 1 .. N : ps[i][1] = n
           sets == [i \in 1 .. N |-> Samples(ps[i][2])]
<1>1. ParamsFit(ps)
  BY MethodsFit DEF Fit
<1>2. a \in {Named(ps, v) : v \in ValuesOf(Types(ps))}
  BY DEF Passed
<1>3. Values0(m, a) = vals
  BY DEF Values0
<1> HIDE DEF ps
<1>4. N \in Nat /\ DOMAIN ps = 1 .. N
      /\ \A i \in 1 .. N : /\ ps[i][2] \in Sendable
                           /\ \A j \in 1 .. N : ps[i][1] = ps[j][1] => ps[i][2] = ps[j][2]
  BY <1>1 DEF ParamsFit
<1> HIDE DEF N
<1>5. Types(ps) = [i \in 1 .. N |-> ps[i][2]]
  BY <1>4 DEF Types
<1>6. Len(Types(ps)) = N /\ DOMAIN Types(ps) = 1 .. N
  BY <1>4, <1>5, LenProperties, SeqDef
<1>7. ValuesOf(Types(ps)) = Products(sets)
  <2>1. [i \in DOMAIN Types(ps) |-> Samples(Types(ps)[i])] = sets
    BY <1>5, <1>6
  <2> HIDE DEF sets
  <2> QED BY <2>1 DEF ValuesOf
<1>8. DOMAIN sets = 1 .. N /\ Len(sets) = N
  BY <1>4, LenProperties, SeqDef
<1>9. PICK v \in ValuesOf(Types(ps)) : a = Named(ps, v)
  BY <1>2
<1>10. \A i \in 1 .. N : v[i] \in Samples(ps[i][2])
  <2>1. \A i \in 1 .. N : v[i] \in sets[i]
    <3> HIDE DEF sets
    <3> QED BY <1>4, <1>7, <1>8, ProductsOf
  <2> QED BY <2>1
<1>11. a = [n \in names |-> v[At(n)]]
  <2>1. Named(ps, v) = [n \in {ps[i][1] : i \in 1 .. N} |-> v[CHOOSE i \in 1 .. N : ps[i][1] = n]]
    BY <1>4 DEF Named
  <2> QED BY <1>9, <2>1
<1>12. \A n \in names : At(n) \in 1 .. N /\ ps[At(n)][1] = n
  OBVIOUS
<1> HIDE DEF At
<1>13. \A i \in 1 .. N : ps[i][1] \in names
  OBVIOUS
<1> HIDE DEF names
<1>14. ASSUME NEW i \in 1 .. N PROVE IsA(ps[i][2], vals[i])
  <2> DEFINE j == At(ps[i][1])
  <2>1. j \in 1 .. N /\ ps[j][1] = ps[i][1]
    BY <1>12, <1>13
  <2>2. vals[i] = v[j]
    BY <1>4, <1>11, <1>13
  <2> HIDE DEF j
  <2>3. v[j] \in Samples(ps[i][2])
    <3>1. ps[j][2] = ps[i][2]
      BY <1>4, <2>1
    <3> QED BY <1>10, <2>1, <3>1
  <2>4. ps[i][2] \in DOMAIN TypeBytes
    BY <1>4, TypesOfCalls
  <2> QED BY <2>2, <2>3, <2>4, SamplesAssumption
<1>15. Named(ps, vals) = a
  <2>1. Named(ps, vals) = [n \in names |-> vals[At(n)]]
    BY <1>4 DEF Named, names, At
  <2>2. \A n \in names : vals[At(n)] = a[n]
    BY <1>4, <1>12
  <2> HIDE DEF vals
  <2> QED BY <1>11, <2>1, <2>2
<1>16. vals = [i \in 1 .. N |-> vals[i]]
  BY <1>4
<1> HIDE DEF vals
<1> QED BY <1>3, <1>4, <1>5, <1>6, <1>14, <1>15, <1>16 DEF ps, N

\* The message of a call, and how the handler takes it apart.
Asked(m, a) == PackAs("call", CallOf[m].code, SoapyRPCVersion)
               \o PackAll(Types(CallOf[m].sends), Values0(m, a), SoapyRPCVersion)

LEMMA RequestTrip ==
  ASSUME NEW m \in Methods, NEW a \in Passed[m], NEW u \in Int
  PROVE  /\ IntsFit(Asked(m, a))
         /\ UnpackAs("call", Received(Asked(m, a)), u).ok
         /\ UnpackAs("call", Received(Asked(m, a)), u).got = CallOf[m].code
         /\ UnpackAll(Types(CallOf[m].sends), UnpackAs("call", Received(Asked(m, a)), u), u)
              = Done(<< >>, Values0(m, a))
<1> DEFINE c == CallOf[m]
           types == Types(c.sends)
           N == Len(c.sends)
           vals == Values0(m, a)
           p == SoapyRPCVersion
           w == PackAll(types, vals, p)
           x == [i \in 1 .. N |-> Known(types[i], vals[i], p)]
<1>1. c.code \in Calls
  BY MethodsFit
<1>2. /\ N \in Nat /\ Len(types) = N /\ DOMAIN types = 1 .. N
      /\ \A i \in 1 .. N : /\ types[i] = c.sends[i][2] /\ c.sends[i][2] \in Sendable
                           /\ IsA(c.sends[i][2], vals[i])
      /\ vals = [i \in 1 .. N |-> vals[i]]
  BY PassedAre
<1>3. Asked(m, a) = PackAs("call", c.code, p) \o w
  BY DEF Asked
<1> HIDE DEF c, types, N, vals
<1>4. ASSUME NEW i \in 1 .. N
      PROVE  /\ types[i] \in Types4 \ {"call", "code"} /\ types[i] \notin Ranged
             /\ IsA(types[i], vals[i]) /\ Agree(types[i], p, u)
  <2>1. types[i] \in Sendable /\ IsA(types[i], vals[i])
    BY <1>2
  <2>2. types[i] \in Types4 \ {"call", "code"} /\ types[i] \notin Ranged
    BY <2>1, TypesOfCalls
  <2> QED BY <2>1, <2>2, AgreePlain
<1>5. p \in Int
  BY WidthAssumption
<1>6. Through(N, types, vals, p, u)
  BY <1>2, <1>4, <1>5, AllTrip
<1>7. x = vals
  <2>1. \A i \in 1 .. N : Known(types[i], vals[i], p) = vals[i]
    BY <1>4, KnownPlain
  <2> QED BY <1>2, <2>1
<1>8. /\ w \in Seq(Tokens) /\ Sound(w)
      /\ \A rest \in Seq(Tokens) : \A got :
           UnpackAll(types, Reading(w, rest, got), u) = Done(rest, x)
  <2> HIDE DEF x
  <2> QED BY <1>6 DEF Through, x
<1> HIDE DEF w, x, p
<1>9. IntsFit(PackAs("call", c.code, p) \o w)
      /\ UnpackAs("call", Received(PackAs("call", c.code, p) \o w), u) = Done(w, c.code)
  BY <1>1, <1>8, CallMessage DEF p
<1>10. Reading(w, << >>, c.code) = Done(w, c.code)
  BY <1>8, TokensConcat DEF Reading
<1>11. UnpackAll(types, Done(w, c.code), u) = Done(<< >>, vals)
  BY <1>7, <1>8, <1>10, TokensConcat
<1>12. Done(w, c.code).ok /\ Done(w, c.code).got = c.code
  BY DEF Done
<1> HIDE DEF w
<1> QED BY <1>3, <1>9, <1>11, <1>12 DEF c, types, vals, p

\* The replies of a call: one, or two of which the first has one value.
LEMMA Shape ==
  ASSUME NEW c, Fit(c)
  PROVE  LET packs == c.replies
             From(i) == Len(AllTypes(SubSeq(packs, 1, i - 1))) + 1
         IN \/ /\ packs = << packs[1] >> /\ packs[1] \in AwaitedLists
               /\ AllTypes(packs) = packs[1] /\ From(1) = 1
            \/ /\ packs = << << "string" >>, << "int", "string" >> >>
               /\ AllTypes(packs) = << "string", "int", "string" >> /\ From(1) = 1 /\ From(2) = 2
<1> DEFINE packs == c.replies
           one == << "string" >>
           two == << "int", "string" >>
           From(i) == Len(AllTypes(SubSeq(packs, 1, i - 1))) + 1
<1>1. \/ packs = << packs[1] >> /\ packs[1] \in AwaitedLists
      \/ packs = << one, two >>
  BY DEF Fit
<1>2. AllTypes(<< >>) = << >>
  BY DEF AllTypes, FlattenSeq
<1>3. \A t \in AwaitedLists : AllTypes(<< t >>) = t
  <2> SUFFICES ASSUME NEW t \in AwaitedLists PROVE AllTypes(<< t >>) = t
    OBVIOUS
  <2>1. << t >> \in [1 .. 1 -> Seq(Awaited)] /\ << t >>[1] = t
    BY DEF AwaitedLists
  <2> QED BY <2>1, FlatOne DEF AllTypes
<1>4. one \in AwaitedLists /\ two \in AwaitedLists
  BY ReplyPieces DEF Awaited
<1>5. From(1) = 1
  <2>1. SubSeq(packs, 1, 0) = << >>
    BY SubSeqEmpty
  <2>2. 1 - 1 = 0 /\ Len(<< >>) = 0
    OBVIOUS
  <2> HIDE DEF packs
  <2>3. From(1) = Len(<< >>) + 1
    BY <1>2, <2>1, <2>2
  <2> QED BY <2>2, <2>3
<1>5a. one \o two = << "string", "int", "string" >> /\ Len(one) = 1
  <2>1. one \in Seq(Awaited) /\ two \in Seq(Awaited)
    BY <1>4 DEF AwaitedLists
  <2> DEFINE z == one \o two
  <2>2. /\ z \in Seq(Awaited) /\ Len(z) = 3
        /\ \A i \in 1 .. 3 : z[i] = IF i <= 1 THEN one[i] ELSE two[i - 1]
    <3>1. Len(one) = 1 /\ Len(two) = 2
      OBVIOUS
    <3> HIDE DEF one, two
    <3>2. /\ z \in Seq(Awaited) /\ Len(z) = Len(one) + Len(two)
          /\ \A i \in 1 .. Len(one) + Len(two) :
               z[i] = IF i <= Len(one) THEN one[i] ELSE two[i - Len(one)]
      BY <2>1, ConcatProperties
    <3> HIDE DEF z
    <3> QED BY <3>1, <3>2
  <2> HIDE DEF z
  <2>3. z[1] = "string" /\ z[2] = "int" /\ z[3] = "string"
    <3>1. z[1] = one[1] /\ z[2] = two[2 - 1] /\ z[3] = two[3 - 1]
      <4> HIDE DEF one, two
      <4> QED BY <2>2
    <3> QED BY <3>1
  <2>4. z = << z[1], z[2], z[3] >>
    BY <2>2
  <2> QED BY <2>3, <2>4 DEF z
<1>6. CASE packs = << packs[1] >> /\ packs[1] \in AwaitedLists
  <2>1. AllTypes(packs) = packs[1]
    BY <1>3, <1>6
  <2> QED BY <1>5, <1>6, <2>1
<1>7. ASSUME packs = << one, two >>
      PROVE  AllTypes(packs) = one \o two /\ From(2) = 2
  <2>1. << one, two >> \in [1 .. 2 -> Seq(Awaited)]
        /\ << one, two >>[1] = one /\ << one, two >>[2] = two
    <3>1. one \in Seq(Awaited) /\ two \in Seq(Awaited)
      BY <1>4 DEF AwaitedLists
    <3> HIDE DEF one, two
    <3> QED BY <3>1
  <2>2. SubSeq(packs, 1, 1) = << one >>
    <3> HIDE DEF one, two, packs
    <3>1. \A i \in 1 .. 1 : packs[i] \in {one}
      BY <1>7
    <3>2. /\ SubSeq(packs, 1, 1) \in Seq({one}) /\ Len(SubSeq(packs, 1, 1)) = 1
          /\ SubSeq(packs, 1, 1)[1] = packs[1]
      <4>1. /\ SubSeq(packs, 1, 1) \in Seq({one})
            /\ Len(SubSeq(packs, 1, 1)) = IF 1 <= 1 THEN 1 - 1 + 1 ELSE 0
            /\ \A i \in 1 .. 1 - 1 + 1 : SubSeq(packs, 1, 1)[i] = packs[1 + i - 1]
        BY <3>1, SubSeqProperties
      <4> QED BY <4>1
    <3>3. packs[1] = one
      BY <1>7
    <3> DEFINE z == SubSeq(packs, 1, 1)
    <3>4. z \in Seq({one}) /\ Len(z) = 1 /\ z[1] = one
      BY <3>2, <3>3
    <3> HIDE DEF z
    <3>5. z = << z[1] >>
      BY <3>4
    <3> QED BY <3>4, <3>5 DEF z
  <2>3. AllTypes(packs) = one \o two
    <3> HIDE DEF one, two, packs
    <3> QED BY <1>7, <2>1, FlatTwo DEF AllTypes
  <2>4. 2 - 1 = 1 /\ 1 + 1 = 2
    OBVIOUS
  <2>5. From(2) = Len(AllTypes(SubSeq(packs, 1, 1))) + 1
    <3> HIDE DEF packs
    <3> QED BY <2>4
  <2> HIDE DEF packs, one, From
  <2>6. From(2) = 2
    BY <1>3, <1>4, <1>5a, <2>2, <2>4, <2>5
  <2> QED BY <2>3, <2>6
<1>8. CASE packs = << one, two >>
  BY <1>5, <1>5a, <1>7, <1>8
<1> QED BY <1>1, <1>6, <1>8

\* Values of some types.
AllFit(types, values) ==
  /\ Len(types) \in Nat /\ DOMAIN types = 1 .. Len(types)
  /\ values = [i \in 1 .. Len(types) |-> values[i]] /\ Len(values) = Len(types)
  /\ \A i \in 1 .. Len(types) : IsA(types[i], values[i])

LEMMA TypesOfReplies ==
  ASSUME NEW m \in Methods
  PROVE  LET types == AllTypes(CallOf[m].replies) IN
         /\ Len(types) \in Nat /\ DOMAIN types = 1 .. Len(types)
         /\ \A i \in 1 .. Len(types) : types[i] \in Awaited
<1> DEFINE c == CallOf[m]
           types == AllTypes(c.replies)
<1>1. Fit(c)
  BY MethodsFit
<1>2. types \in AwaitedLists
  <2>1. << "string", "int", "string" >> \in AwaitedLists
    <3>1. "string" \in Awaited /\ "int" \in Awaited
      BY DEF Awaited
    <3> QED BY <3>1 DEF AwaitedLists
  <2> HIDE DEF c
  <2> QED BY <1>1, <2>1, Shape
<1> HIDE DEF types
<1> QED BY <1>2, LenProperties, ElementOfSeq DEF AwaitedLists, types

LEMMA ValuesFit ==
  ASSUME NEW types, Len(types) \in Nat, DOMAIN types = 1 .. Len(types), NEW sets,
         sets = [i \in 1 .. Len(types) |-> sets[i]], NEW v \in Products(sets),
         \A i \in 1 .. Len(types) : \A x \in sets[i] : IsA(types[i], x)
  PROVE  AllFit(types, v)
<1> DEFINE N == Len(types)
<1>1. N \in Nat /\ DOMAIN sets = 1 .. N /\ Len(sets) = N
  <2>1. DOMAIN sets = 1 .. N
    OBVIOUS
  <2>2. sets \in Seq({sets[i] : i \in 1 .. N})
    OBVIOUS
  <2> QED BY <2>1, <2>2, LenProperties
<1> HIDE DEF N
<1>2. /\ Len(v) = N /\ v = [i \in 1 .. N |-> v[i]] /\ \A i \in 1 .. N : v[i] \in sets[i]
  BY <1>1, ProductsOf
<1> QED BY <1>1, <1>2 DEF AllFit, N

\* What the device gives fits, also with the entry that the handler adds.
LEMMA GivenAre ==
  ASSUME NEW m \in Methods, NEW g \in Given[m]
  PROVE  \/ g = Threw
         \/ /\ ~ g.threw
            /\ AllFit(AllTypes(CallOf[m].replies), Amended(CallOf[m].code, g.values))
<1> DEFINE c == CallOf[m]
           types == AllTypes(c.replies)
           sets == [i \in DOMAIN types |-> Samples(types[i])]
<1>1. /\ Len(types) \in Nat /\ DOMAIN types = 1 .. Len(types)
      /\ \A i \in 1 .. Len(types) : types[i] \in Awaited
  BY TypesOfReplies
<1>2. Given[m] = {Threw} \cup {Values(v) : v \in Products(sets)}
  BY DEF Given, ValuesOf
<1>3. Fit(c)
  BY MethodsFit
<1> HIDE DEF c
<1>4. SUFFICES ASSUME g # Threw
               PROVE  ~ g.threw /\ AllFit(types, Amended(c.code, g.values))
  BY DEF c
<1>5. PICK v \in Products(sets) : g = Values(v)
  BY <1>2, <1>4
<1>6. g.values = v /\ ~ g.threw
  BY <1>5 DEF Values
<1>7. ASSUME NEW i \in 1 .. Len(types), NEW x \in sets[i] PROVE IsA(types[i], x)
  <2>1. types[i] \in DOMAIN TypeBytes /\ x \in Samples(types[i])
    BY <1>1, TypesOfCalls
  <2> QED BY <2>1, SamplesAssumption
<1>8. AllFit(types, v)
  <2>1. sets = [i \in 1 .. Len(types) |-> sets[i]]
    BY <1>1
  <2> HIDE DEF sets, types
  <2> QED BY <1>1, <1>7, <2>1, ValuesFit
<1>9. CASE c.code = "GET_HARDWARE_INFO"
  <2> DEFINE D == DOMAIN v[1]
             a == << 9 >>
             e == WithVersion(v[1])
  <2>1. types = << "kwargs" >>
    <3>1. c.replies = << << "kwargs" >> >>
      BY <1>3, <1>9 DEF Fit
    <3>2. AllTypes(c.replies) = c.replies[1]
      BY <1>3, <3>1, Shape
    <3> QED BY <3>1, <3>2
  <2>2. v[1] \in Samples("kwargs")
    <3>1. sets[1] = Samples("kwargs")
      BY <2>1
    <3>2. v[1] \in sets[1]
      <4>1. DOMAIN sets = 1 .. 1 /\ Len(sets) = 1
        BY <2>1, LenProperties, SeqDef
      <4> HIDE DEF sets
      <4>2. \A i \in 1 .. 1 : v[i] \in sets[i]
        BY <4>1, ProductsOf
      <4> QED BY <4>2
    <3> QED BY <3>1, <3>2
  <2>3. IsKwargs(v[1]) /\ Cardinality(D) + 1 \in Ints
    <3>1. "kwargs" \in DOMAIN TypeBytes
      BY DEF TypeBytes
    <3>2. IsA("kwargs", v[1])
      BY <2>2, <3>1, SamplesAssumption
    <3> QED BY <2>2, <3>2, SamplesAssumption DEF IsA
  <2>4. a \in Texts
    <3>1. a \in Seq(Nat) /\ Len(a) = 1
      OBVIOUS
    <3>2. 1 \in Ints
      <4>1. 2^(IntBits - 1) \in Nat /\ 2^(IntBits - 1) >= 2
        BY WidthsAre
      <4> QED BY <4>1 DEF Ints
    <3> QED BY <3>1, <3>2 DEF Texts, ListsOf
  <2>5. IsFiniteSet(D) /\ Cardinality(D) \in Ints /\ \A k \in D : k \in Texts /\ v[1][k] \in Texts
    BY <2>3 DEF IsKwargs
  <2>6. /\ DOMAIN e = D \cup {a} /\ e = [k \in DOMAIN e |-> e[k]]
        /\ \A k \in DOMAIN e : e[k] = IF k = a THEN a ELSE v[1][k]
    BY DEF WithVersion, a
  <2> HIDE DEF e, D, a
  <2>7. IsFiniteSet(D \cup {a}) /\ Cardinality(D \cup {a}) \in Ints
    <3>1. IsFiniteSet(D \cup {a})
          /\ Cardinality(D \cup {a}) = IF a \in D THEN Cardinality(D) ELSE Cardinality(D) + 1
      BY <2>5, FS_AddElement
    <3> QED BY <2>3, <2>5, <3>1
  <2>8. IsKwargs(e)
    BY <2>4, <2>5, <2>6, <2>7 DEF IsKwargs
  <2>9. Amended(c.code, g.values) = << e >>
    BY <1>6, <1>9 DEF Amended, e
  <2>10. IsA("kwargs", e)
    BY <2>8 DEF IsA
  <2>11. AllFit(<< "kwargs" >>, << e >>)
    BY <2>10 DEF AllFit
  <2> QED BY <1>6, <2>1, <2>9, <2>11
<1>10. CASE c.code # "GET_HARDWARE_INFO"
  <2>1. Amended(c.code, g.values) = v
    BY <1>6, <1>10 DEF Amended
  <2> QED BY <1>6, <1>8, <2>1
<1> QED BY <1>9, <1>10

LEMMA DefaultsFit ==
  ASSUME NEW code,
         NEW type \in {"bool", "double", "unsigned", "string", "strings", "ranges", "unsigneds",
                      "argInfos", "kwargs"},
         NEW x \in Default(code, type)
  PROVE  IsA(type, x)
<1>1. 0 \in Ints
  <2>1. 2^(IntBits - 1) \in Nat /\ 2^(IntBits - 1) >= 2
    BY WidthsAre
  <2> QED BY <2>1 DEF Ints
<1>2. \A S : << >> \in ListsOf(S)
  BY <1>1, EmptySeq DEF ListsOf
<1>3. CASE type = "bool"
  BY <1>3 DEF Default, IsA
<1>4. CASE type = "unsigned"
  <2>1. 2^IntBits \in Nat /\ 2^IntBits >= 1
    BY WidthsAre
  <2> QED BY <1>4, <2>1 DEF Default, IsA, Unsigneds
<1>5. CASE type = "double"
  <2>1. x \in Samples("double") \/ x = Double(0, 0)
    BY <1>5 DEF Default
  <2>2. "double" \in DOMAIN TypeBytes
    BY DEF TypeBytes
  <2>3. Double(0, 0) \in DoubleValues
    <3>1. Double(0, 0) = [man |-> 0, exp |-> 0]
      BY DEF Double
    <3>2. 2^MantBits \in Nat /\ 2^MantBits >= 1
      BY PowerOf, TopIs DEF Top
    <3>3. Bits(0) = 0 /\ Abs(0) = 0
      BY DEF Bits, Abs
    <3> QED BY <1>1, <3>1, <3>2, <3>3 DEF DoubleValues
  <2> QED BY <1>5, <2>1, <2>2, <2>3, SamplesAssumption DEF IsA
<1>6. CASE type = "kwargs"
  <2>1. x = << >>
    BY <1>6 DEF Default
  <2>2. DOMAIN x = {} /\ x = [k \in {} |-> x[k]]
    BY <2>1
  <2>3. Cardinality({}) = 0 /\ IsFiniteSet({})
    BY FS_EmptySet
  <2>4. IsKwargs(x)
    BY <1>1, <2>2, <2>3 DEF IsKwargs
  <2> QED BY <1>6, <2>4 DEF IsA
<1>7. CASE type \in {"string", "strings", "ranges", "unsigneds", "argInfos"}
  <2>1. x = << >>
    BY <1>7 DEF Default
  <2> QED BY <1>2, <1>7, <2>1 DEF IsA, Texts
<1> QED BY <1>3, <1>4, <1>5, <1>6, <1>7

\* So do the defaults.
LEMMA StandAre ==
  ASSUME NEW m \in Optional, NEW g \in Stand[m]
  PROVE  /\ m \in Methods /\ ~ g.threw
         /\ AllFit(AllTypes(CallOf[m].replies), g.values)
         /\ Amended(CallOf[m].code, g.values) = g.values
<1> DEFINE c == CallOf[m]
           types == AllTypes(c.replies)
           sets == [i \in DOMAIN types |-> Default(c.code, types[i])]
<1>1. m \in Methods
  BY DEF Optional
<1>2. PICK h : CaseOf[Tcp(m)][c.code] = {h} /\ Meets(c, h) /\ Lacks(h)
  BY <1>1, CaseIs
<1>3. h.feature # "always"
  BY <1>2 DEF Optional
<1>4. Stand[m] = {Values(v) : v \in Products(sets)}
  BY <1>1 DEF Stand
<1>5. Fit(c) /\ Len(types) \in Nat /\ DOMAIN types = 1 .. Len(types)
  BY <1>1, MethodsFit, TypesOfReplies
<1> HIDE DEF c
<1>6. c.code # "GET_HARDWARE_INFO" /\ c.replies[1] \in Defaulted
  BY <1>2, <1>3 DEF Lacks, Meets
<1>7. types = c.replies[1]
  <2>1. c.replies = << c.replies[1] >>
    BY <1>2, <1>3 DEF Lacks, Meets
  <2> QED BY <1>5, <2>1, Shape, SMTT(30)
<1>8. ASSUME NEW i \in 1 .. Len(types), NEW x \in sets[i] PROVE IsA(types[i], x)
  <2>1. x \in Default(c.code, types[i])
    BY <1>5
  <2>2. types[i] \in {"bool", "double", "unsigned", "string", "strings", "ranges", "unsigneds",
                      "argInfos", "kwargs"}
    <3> HIDE DEF types
    <3> QED BY <1>6, <1>7 DEF Defaulted
  <2> QED BY <2>1, <2>2, DefaultsFit
<1>9. PICK v \in Products(sets) : g = Values(v)
  BY <1>4
<1>10. g.values = v /\ ~ g.threw
  BY <1>9 DEF Values
<1>11. AllFit(types, v)
  <2>1. sets = [i \in 1 .. Len(types) |-> sets[i]]
    BY <1>5
  <2> HIDE DEF sets, types
  <2> QED BY <1>5, <1>8, <2>1, ValuesFit
<1>12. Amended(c.code, g.values) = g.values
  BY <1>6 DEF Amended
<1> QED BY <1>1, <1>10, <1>11, <1>12 DEF c

\* Both sides decide alike on the step of a range.
LEMMA AgreedAre ==
  ASSUME NEW b \in Builds
  PROVE  /\ b.client \in Int /\ b.server \in Int
         /\ Agreed(b.server, b.client) \in Int /\ Agreed(b.client, b.server) \in Int
         /\ Agreed(b.server, b.client) >= SoapyRPCVersion <=> {b.client, b.server} = {SoapyRPCVersion}
         /\ Agreed(b.client, b.server) >= SoapyRPCVersion <=> {b.client, b.server} = {SoapyRPCVersion}
<1> DEFINE n == SoapyRPCVersion
           o == OldVersion
<1>1. n \in Int /\ o \in Int /\ o < n
  BY WidthAssumption, VersionAssumption
<1>2. /\ b.client \in {n, o} /\ b.server \in {n, o}
      /\ ~ (b.client = o /\ b.server = o)
  <2>1. b \in {[client |-> n, server |-> n, full |-> TRUE],
               [client |-> o, server |-> n, full |-> TRUE],
               [client |-> n, server |-> o, full |-> TRUE],
               [client |-> n, server |-> n, full |-> FALSE]}
    BY DEF Builds
  <2> HIDE DEF n, o
  <2>2. /\ b.client \in {n, o} /\ b.server \in {n, o}
        /\ b.client = n \/ b.server = n
    BY <2>1
  <2> QED BY <1>1, <2>2
<1> HIDE DEF n, o
<1>3. {b.client, b.server} = {n} <=> b.client = n /\ b.server = n
  OBVIOUS
<1> QED BY <1>1, <1>2, <1>3 DEF Agreed, n

\* One reply of a call, for the values from the fth on.
OneTrip(t, values, f, p, u, version) ==
  LET tokens == Body(t, SubSeq(values, f, f + Len(t) - 1), p, version)
  IN /\ IntsFit(tokens)
     /\ UnpackAll(t, Received(tokens), u)
          = Done(<< >>, [k \in 1 .. Len(t) |-> Known(t[k], values[f + k - 1], p)])

LEMMA OneReply ==
  ASSUME NEW t \in AwaitedLists, NEW values, NEW f \in Nat, f >= 1,
         \A k \in 1 .. Len(t) : IsA(t[k], values[f + k - 1]),
         NEW p \in Int, NEW u \in Int, p >= SoapyRPCVersion <=> u >= SoapyRPCVersion,
         NEW version
  PROVE  OneTrip(t, values, f, p, u, version)
<1> DEFINE N == Len(t)
           sub == SubSeq(values, f, f + N - 1)
<1>1. t \in Seq(Awaited) /\ N \in Nat
  BY LenProperties DEF AwaitedLists
<1> HIDE DEF N
<1>2. \A k \in 1 .. N : sub[k] = values[f + k - 1]
  <2> DEFINE S == {values[i] : i \in f .. f + N - 1}
             l == f + N - 1
  <2>1. l \in Int /\ \A i \in f .. l : values[i] \in S
    BY <1>1
  <2>2. l - f + 1 = N
    BY <1>1
  <2> HIDE DEF S, l
  <2>3. \A k \in 1 .. l - f + 1 : SubSeq(values, f, l)[k] = values[f + k - 1]
    BY <2>1, SubSeqProperties
  <2> QED BY <2>2, <2>3 DEF l
<1> HIDE DEF sub
<1>3. \A k \in 1 .. N : IsA(t[k], sub[k])
  BY <1>2 DEF N
<1>4. /\ IntsFit(Body(t, sub, p, version))
      /\ UnpackAll(t, Received(Body(t, sub, p, version)), u)
           = Done(<< >>, [k \in 1 .. N |-> Known(t[k], sub[k], p)])
  BY <1>1, <1>3, ReplyTrip DEF N
<1>5. [k \in 1 .. N |-> Known(t[k], sub[k], p)] = [k \in 1 .. N |-> Known(t[k], values[f + k - 1], p)]
  BY <1>2
<1> QED BY <1>4, <1>5 DEF N, sub, OneTrip

\* The replies of a call come to the client as the values that the device gave.
Reads(packs, i, rs) ==
  UnpackAll(packs[i], Received(rs[i].tokens), Agreed(build.client, rs[i].version))

LEMMA AnswerTrip ==
  ASSUME NEW m \in Methods, NEW values, AllFit(AllTypes(CallOf[m].replies), values),
         build \in Builds, request[1].version = build.client
  PROVE  LET packs == CallOf[m].replies
             types == AllTypes(packs)
             rs == Replies(packs, values)
         IN /\ DOMAIN rs = DOMAIN packs /\ Len(rs) = Len(packs)
            /\ DOMAIN packs = 1 .. Len(packs) /\ Len(packs) \in {1, 2}
            /\ \A i \in DOMAIN packs : /\ IntsFit(rs[i].tokens)
                                       /\ Reads(packs, i, rs).ok /\ Reads(packs, i, rs).in = << >>
            /\ FlattenSeq([i \in DOMAIN packs |-> Reads(packs, i, rs).in]) = << >>
            /\ FlattenSeq([i \in DOMAIN packs |-> Reads(packs, i, rs).got])
                 = [i \in 1 .. Len(types) |->
                      Known(types[i], values[i], Agreed(build.server, build.client))]
<1> DEFINE c == CallOf[m]
           packs == c.replies
           types == AllTypes(packs)
           rs == Replies(packs, values)
           p == Agreed(build.server, build.client)
           u == Agreed(build.client, build.server)
           From(i) == Len(AllTypes(SubSeq(packs, 1, i - 1))) + 1
           Sub(i) == SubSeq(values, From(i), From(i) + Len(packs[i]) - 1)
           Got1(i, f) == [k \in 1 .. Len(packs[i]) |-> Known(packs[i][k], values[f + k - 1], p)]
<1>1. Fit(c)
  BY MethodsFit
<1>2. p \in Int /\ u \in Int /\ (p >= SoapyRPCVersion <=> u >= SoapyRPCVersion)
  BY AgreedAre
<1>3. AllFit(types, values)
  OBVIOUS
<1>4. rs = [i \in DOMAIN packs |-> [version |-> build.server,
                                    tokens |-> Body(packs[i], Sub(i), p, build.server)]]
  BY DEF Replies, Body
<1> HIDE DEF c, rs, p, u
<1>5. \/ /\ packs = << packs[1] >> /\ packs[1] \in AwaitedLists /\ types = packs[1] /\ From(1) = 1
      \/ /\ packs = << << "string" >>, << "int", "string" >> >>
         /\ types = << "string", "int", "string" >> /\ From(1) = 1 /\ From(2) = 2
  BY <1>1, Shape
<1> HIDE DEF packs, From, types
<1>6. ASSUME NEW i \in DOMAIN packs, packs[i] \in AwaitedLists, From(i) \in Nat, From(i) >= 1,
             \A k \in 1 .. Len(packs[i]) : IsA(packs[i][k], values[From(i) + k - 1])
      PROVE  IntsFit(rs[i].tokens) /\ Reads(packs, i, rs) = Done(<< >>, Got1(i, From(i)))
  <2>1. rs[i].version = build.server /\ rs[i].tokens = Body(packs[i], Sub(i), p, build.server)
    BY <1>4
  <2>2. /\ IntsFit(Body(packs[i], Sub(i), p, build.server))
        /\ UnpackAll(packs[i], Received(Body(packs[i], Sub(i), p, build.server)), u)
             = Done(<< >>, Got1(i, From(i)))
    <3> DEFINE t == packs[i]
               f == From(i)
    <3>1. /\ t \in AwaitedLists /\ f \in Nat /\ f >= 1
          /\ \A k \in 1 .. Len(t) : IsA(t[k], values[f + k - 1])
      BY <1>6
    <3> HIDE DEF t, f
    <3>2. OneTrip(t, values, f, p, u, build.server)
      BY <1>2, <3>1, OneReply
    <3> QED BY <3>2 DEF t, f, OneTrip
  <2> HIDE DEF Sub, Got1
  <2> QED BY <2>1, <2>2 DEF Reads, u
<1>7. /\ Len(types) \in Nat /\ DOMAIN types = 1 .. Len(types)
      /\ \A i \in 1 .. Len(types) : IsA(types[i], values[i])
  BY <1>3 DEF AllFit
<1>8. \A g : Done(<< >>, g).ok /\ Done(<< >>, g).in = << >> /\ Done(<< >>, g).got = g
  BY DEF Done
<1>9. CASE packs = << packs[1] >> /\ packs[1] \in AwaitedLists /\ types = packs[1] /\ From(1) = 1
  <2>1. DOMAIN packs = 1 .. 1 /\ Len(packs) = 1
    BY <1>9
  <2>2. \A k \in 1 .. Len(packs[1]) : k = From(1) + k - 1
    BY <1>7, <1>9
  <2>3. IntsFit(rs[1].tokens) /\ Reads(packs, 1, rs) = Done(<< >>, Got1(1, From(1)))
    <3>1. 1 \in DOMAIN packs /\ From(1) \in Nat /\ From(1) >= 1
      BY <1>9, <2>1
    <3>2. \A k \in 1 .. Len(packs[1]) : IsA(packs[1][k], values[From(1) + k - 1])
      BY <1>7, <1>9, <2>2
    <3> HIDE DEF Got1
    <3> QED BY <1>6, <1>9, <3>1, <3>2
  <2>4. Got1(1, From(1)) = [i \in 1 .. Len(types) |-> Known(types[i], values[i], p)]
    BY <1>9, <2>2
  <2> DEFINE x == [i \in 1 .. Len(types) |-> Known(types[i], values[i], p)]
             s == [i \in DOMAIN packs |-> Reads(packs, i, rs).got]
             e == [i \in DOMAIN packs |-> Reads(packs, i, rs).in]
  <2> HIDE DEF Got1
  <2>5. s[1] = x /\ e[1] = << >> /\ Reads(packs, 1, rs).ok /\ Reads(packs, 1, rs).in = << >>
    BY <1>8, <2>1, <2>3, <2>4
  <2>6. FlattenSeq(s) = x
    <3>1. s \in [1 .. 1 -> Seq({x[i] : i \in 1 .. Len(types)})]
      <4>1. x \in Seq({x[i] : i \in 1 .. Len(types)})
        BY <1>7
      <4>2. s = [i \in 1 .. 1 |-> s[i]]
        BY <2>1
      <4> HIDE DEF s, x
      <4> QED BY <2>5, <4>1, <4>2
    <3> HIDE DEF s, x
    <3> QED BY <2>5, <3>1, FlatOne
  <2>7. FlattenSeq(e) = << >>
    <3>1. e \in [1 .. 1 -> Seq({})]
      <4>1. << >> \in Seq({})
        BY EmptySeq
      <4>2. \A i \in 1 .. 1 : e[i] = << >>
        BY <2>5
      <4>3. e = [i \in 1 .. 1 |-> e[i]]
        BY <2>1
      <4> HIDE DEF e
      <4> QED BY <4>1, <4>2, <4>3
    <3> HIDE DEF e
    <3> QED BY <2>5, <3>1, FlatOne
  <2>8. DOMAIN rs = DOMAIN packs /\ Len(rs) = Len(packs)
    <3>1. rs = [i \in 1 .. 1 |-> rs[i]]
      BY <1>4, <2>1
    <3> QED BY <2>1, <3>1
  <2>9. \A i \in DOMAIN packs : /\ IntsFit(rs[i].tokens)
                                /\ Reads(packs, i, rs).ok /\ Reads(packs, i, rs).in = << >>
    BY <2>1, <2>3, <2>5
  <2>10. Len(packs) \in {1, 2} /\ DOMAIN packs = 1 .. Len(packs)
    BY <2>1
  <2> HIDE DEF x
  <2> QED BY <2>6, <2>7, <2>8, <2>9, <2>10 DEF x, s, e, packs, types, rs, p, c
<1>10. CASE /\ packs = << << "string" >>, << "int", "string" >> >>
            /\ types = << "string", "int", "string" >> /\ From(1) = 1 /\ From(2) = 2
  <2>1. /\ DOMAIN packs = 1 .. 2 /\ Len(packs) = 2 /\ Len(types) = 3
        /\ packs[1] = << "string" >> /\ packs[2] = << "int", "string" >>
        /\ Len(packs[1]) = 1 /\ Len(packs[2]) = 2
        /\ packs[1][1] = types[1] /\ packs[2][1] = types[2] /\ packs[2][2] = types[3]
    BY <1>10
  <2>2. packs[1] \in AwaitedLists /\ packs[2] \in AwaitedLists
    <3>1. "string" \in Awaited
      BY DEF Awaited
    <3> QED BY <2>1, <3>1, ReplyPieces
  <2>3. 1 \in 1 .. 3 /\ 2 \in 1 .. 3 /\ 3 \in 1 .. 3
        /\ 1 + 1 - 1 = 1 /\ 2 + 1 - 1 = 2 /\ 2 + 2 - 1 = 3
    OBVIOUS
  <2>4. IntsFit(rs[1].tokens) /\ Reads(packs, 1, rs) = Done(<< >>, Got1(1, 1))
    <3>1. 1 \in DOMAIN packs /\ From(1) \in Nat /\ From(1) >= 1
      BY <1>10, <2>1
    <3>2. \A k \in 1 .. Len(packs[1]) : IsA(packs[1][k], values[From(1) + k - 1])
      BY <1>7, <1>10, <2>1, <2>3
    <3> HIDE DEF Got1
    <3> QED BY <1>6, <1>10, <2>2, <3>1, <3>2
  <2>5. IntsFit(rs[2].tokens) /\ Reads(packs, 2, rs) = Done(<< >>, Got1(2, 2))
    <3>1. 2 \in DOMAIN packs /\ From(2) \in Nat /\ From(2) >= 1
      BY <1>10, <2>1
    <3>2. \A k \in 1 .. Len(packs[2]) : IsA(packs[2][k], values[From(2) + k - 1])
      <4>1. \A k \in 1 .. 2 : k = 1 \/ k = 2
        OBVIOUS
      <4> QED BY <1>7, <1>10, <2>1, <2>3, <4>1
    <3> HIDE DEF Got1
    <3> QED BY <1>6, <1>10, <2>2, <3>1, <3>2
  <2> DEFINE x == [i \in 1 .. Len(types) |-> Known(types[i], values[i], p)]
             s == [i \in DOMAIN packs |-> Reads(packs, i, rs).got]
             e == [i \in DOMAIN packs |-> Reads(packs, i, rs).in]
             a == Got1(1, 1)
             b == Got1(2, 2)
  <2>6. /\ a = [k \in 1 .. 1 |-> a[k]] /\ a[1] = x[1]
        /\ b = [k \in 1 .. 2 |-> b[k]] /\ b[1] = x[2] /\ b[2] = x[3]
        /\ x = [i \in 1 .. 3 |-> x[i]]
    BY <2>1, <2>3
  <2>7. s[1] = a /\ s[2] = b /\ s = [i \in 1 .. 2 |-> s[i]]
    BY <1>8, <2>1, <2>4, <2>5
  <2>8. e[1] = << >> /\ e[2] = << >> /\ e = [i \in 1 .. 2 |-> e[i]]
    BY <1>8, <2>1, <2>4, <2>5
  <2>9. \A i \in DOMAIN packs : /\ IntsFit(rs[i].tokens)
                                /\ Reads(packs, i, rs).ok /\ Reads(packs, i, rs).in = << >>
    <3>1. \A i \in DOMAIN packs : i = 1 \/ i = 2
      BY <2>1
    <3> HIDE DEF a, b, Got1
    <3> QED BY <1>8, <2>4, <2>5, <3>1
  <2>10. DOMAIN rs = DOMAIN packs /\ Len(rs) = Len(packs)
    <3>1. rs = [i \in 1 .. 2 |-> rs[i]]
      BY <1>4, <2>1
    <3> QED BY <2>1, <3>1
  <2> HIDE DEF x, s, e, a, b
  <2>11. FlattenSeq(s) = x
    <3> DEFINE S == {x[1], x[2], x[3]}
    <3>1. a \in Seq(S) /\ b \in Seq(S) /\ Len(a) = 1 /\ Len(b) = 2
      BY <2>6
    <3>2. s \in [1 .. 2 -> Seq(S)]
      <4>1. \A i \in 1 .. 2 : s[i] = a \/ s[i] = b
        BY <2>7
      <4> HIDE DEF S
      <4> QED BY <2>7, <3>1, <4>1
    <3>3. FlattenSeq(s) = a \o b
      <4> HIDE DEF S
      <4> QED BY <2>7, <3>2, FlatTwo
    <3> DEFINE z == a \o b
    <3>4. /\ z \in Seq(S) /\ Len(z) = 3
          /\ \A i \in 1 .. 3 : z[i] = IF i <= 1 THEN a[i] ELSE b[i - 1]
      <4>1. /\ z \in Seq(S) /\ Len(z) = Len(a) + Len(b)
            /\ \A i \in 1 .. Len(a) + Len(b) :
                 z[i] = IF i <= Len(a) THEN a[i] ELSE b[i - Len(a)]
        <5> HIDE DEF S
        <5> QED BY <3>1, ConcatProperties
      <4> HIDE DEF z, S
      <4> QED BY <3>1, <4>1
    <3> HIDE DEF z, S
    <3>5. z[1] = x[1] /\ z[2] = x[2] /\ z[3] = x[3]
      <4>1. z[1] = a[1] /\ z[2] = b[2 - 1] /\ z[3] = b[3 - 1]
        BY <3>4
      <4>2. 2 - 1 = 1 /\ 3 - 1 = 2
        OBVIOUS
      <4> QED BY <2>6, <4>1, <4>2
    <3>6. z = x
      <4>1. z = [i \in 1 .. 3 |-> z[i]]
        BY <3>4
      <4>2. \A i \in 1 .. 3 : z[i] = x[i]
        BY <3>5
      <4> QED BY <2>6, <4>1, <4>2
    <3> QED BY <3>3, <3>6 DEF z
  <2>12. FlattenSeq(e) = << >>
    <3>1. << >> \in Seq({}) /\ << >> \o << >> = << >>
      BY EmptySeq, ConcatEmptySeq
    <3>2. \A i \in 1 .. 2 : e[i] = << >>
      BY <2>8
    <3>3. e \in [1 .. 2 -> Seq({})]
      BY <2>8, <3>1, <3>2
    <3> QED BY <2>8, <3>1, <3>3, FlatTwo
  <2>13. Len(packs) \in {1, 2} /\ DOMAIN packs = 1 .. Len(packs)
    BY <2>1
  <2> QED BY <2>9, <2>10, <2>11, <2>12, <2>13 DEF x, s, e, packs, types, rs, p, c
<1> QED BY <1>5, <1>9, <1>10 DEF packs, types, rs, p, c

\* An exception comes to the client as an exception, whatever it waits for.
LEMMA ExcuseTrip ==
  ASSUME NEW m \in Methods, build \in Builds
  PROVE  LET packs == CallOf[m].replies
         IN /\ Len(Excuse) = 1 /\ DOMAIN Excuse = {1} /\ 1 \in DOMAIN packs
            /\ IntsFit(Excuse[1].tokens)
            /\ ~ Reads(packs, 1, Excuse).ok /\ Reads(packs, 1, Excuse).in = << >>
<1> DEFINE c == CallOf[m]
           packs == c.replies
           w == PackAs("exception", << 1 >>, build.server)
           u == Agreed(build.client, Excuse[1].version)
<1>1. build.server \in Int /\ u \in Int
  BY AgreedAre DEF Excuse
<1>2. IsA("string", << 1 >>)
  <2>1. << 1 >> \in Seq(Nat) /\ Len(<< 1 >>) = 1
    OBVIOUS
  <2>2. 1 \in Ints
    <3> DEFINE k == IntBits - 2
               h == 2^(IntBits - 1)
    <3>1. k \in 0 .. Top /\ k \in 0 .. Top - 1 /\ k + 1 = IntBits - 1
      BY TopIs DEF Top
    <3>2. 2^(k + 1) = 2 * 2^k /\ 2^k \in Nat /\ 2^k >= 1
      <4> HIDE DEF k
      <4> QED BY <3>1, PowerOf
    <3>3. h \in Nat /\ h >= 2
      BY <3>1, <3>2
    <3> HIDE DEF h, k
    <3>4. -h <= 1 /\ 1 < h
      BY <3>3
    <3> QED BY <3>4 DEF Ints, h
  <2> QED BY <2>1, <2>2 DEF IsA, Texts, ListsOf
<1>3. /\ IntsFit(w) /\ \E got : Received(w) = Failed(<< >>, got)
  BY <1>1, <1>2, ExcuseMessage
<1>4. PICK got : Received(w) = Failed(<< >>, got)
  BY <1>3
<1>5. /\ Excuse[1].tokens = w /\ Len(Excuse) = 1 /\ DOMAIN Excuse = {1}
  <2> HIDE DEF w
  <2>1. Excuse = << [version |-> build.server, tokens |-> w] >>
    BY DEF Excuse, w
  <2> QED BY <2>1
<1>6. /\ 1 \in DOMAIN packs /\ Len(packs[1]) \in Nat
      /\ \A i \in 1 .. Len(packs[1]) : packs[1][i] \in Types4
  <2>1. Fit(c)
    BY MethodsFit
  <2> HIDE DEF c
  <2>2. 1 \in DOMAIN packs /\ packs[1] \in AwaitedLists
    <3>1. << "string" >> \in AwaitedLists
      BY ReplyPieces DEF Awaited
    <3>2. CASE packs = << packs[1] >> /\ packs[1] \in AwaitedLists
      <4> HIDE DEF packs
      <4> QED BY <3>2
    <3>3. CASE packs = << << "string" >>, << "int", "string" >> >>
      BY <3>1, <3>3
    <3> QED BY <2>1, <3>2, <3>3 DEF Fit
  <2> HIDE DEF packs
  <2> QED BY <2>2, TypesOfCalls, LenProperties, ElementOfSeq DEF AwaitedLists
<1> HIDE DEF c, packs, w, u
<1>7. UnpackAll(packs[1], Received(w), u) = Failed(<< >>, got)
  <2>1. UnpackEach(UnpackAs, packs[1], Failed(<< >>, got), u) = Failed(<< >>, got)
    BY <1>1, <1>6, Halt4
  <2> QED BY <1>4, <2>1 DEF UnpackAll
<1>8. Reads(packs, 1, Excuse) = Failed(<< >>, got)
  BY <1>5, <1>7 DEF Reads, u
<1>9. ~ Failed(<< >>, got).ok /\ Failed(<< >>, got).in = << >>
  BY FailedStays
<1> QED BY <1>3, <1>5, <1>6, <1>8, <1>9 DEF packs, c, w

-----------------------------------------------------------------------------
(* The invariant, and the steps of a call.                                 *)

\* The device did what was asked, or there is a default from a server without the method.
Answered ==
  \/ /\ ~ Absent(method, build)
     /\ \E g \in Given[method] :
          /\ device = << [method |-> method, args |-> args, gave |-> g] >>
          /\ replies = IF g.threw THEN Excuse
                       ELSE Replies(CallOf[method].replies, Amended(CallOf[method].code, g.values))
  \/ /\ Absent(method, build) /\ device = << >>
     /\ \E v \in Stand[method] : replies = Replies(CallOf[method].replies, v.values)

\* What every part of the state is while a call is under way.
Stage ==
  /\ at \in {"idle", "asked", "answered", "done"} /\ build \in Builds /\ unread = 0
  /\ at = "idle" => /\ method = "none" /\ args = << >> /\ device = << >>
                    /\ request = << >> /\ replies = << >>
  /\ at # "idle" => /\ method \in Methods /\ args \in Passed[method]
                    /\ request = << [version |-> build.client, tokens |-> Asked(method, args)] >>
  /\ at = "asked" => device = << >> /\ replies = << >>
  /\ at \in {"answered", "done"} => Answered
  /\ at # "done" => outcome = << >>
  /\ at = "done" => Len(outcome) = 1

LEMMA InitStage ==
  ASSUME Init PROVE Stage /\ Local!Init
BY DEF Init, Stage, Local!Init

LEMMA AskStep ==
  ASSUME Stage, NEW m \in Methods, Ask(m)
  PROVE  Stage' /\ Local!Ask
<1>1. request' = << [version |-> build.client, tokens |-> Asked(m, args')] >>
  BY DEF Ask, Asked, Values0
<1>2. /\ at = "idle" /\ at' = "asked" /\ method' = m /\ args' \in Passed[m]
      /\ UNCHANGED << device, outcome, build, replies, unread >>
  BY DEF Ask
<1>3. Stage'
  BY <1>1, <1>2 DEF Stage
<1>4. Local!Ask
  BY <1>2 DEF Local!Ask
<1> QED BY <1>3, <1>4

LEMMA AnswerStep ==
  ASSUME Stage, Answer
  PROVE  Stage' /\ (Local!Do \/ Local!Lack)
<1> DEFINE m == method
           c == CallOf[m]
           code == UnpackAs("call", Received(request[1].tokens), request[1].version)
           cases == IF code.ok THEN CaseOf[Tcp(m)][code.got] ELSE {}
           case == CHOOSE h \in cases : TRUE
           read == UnpackAll(Types(case.reads), code, request[1].version)
<1>1. /\ at = "asked" /\ at' = "answered" /\ device = << >> /\ outcome = << >>
      /\ m \in Methods /\ args \in Passed[m] /\ build \in Builds
      /\ request = << [version |-> build.client, tokens |-> Asked(m, args)] >>
      /\ UNCHANGED << method, args, outcome, build, request >>
  BY DEF Stage, Answer
<1>2. /\ request[1].version = build.client /\ request[1].tokens = Asked(m, args)
      /\ build.client \in Int
  <2>1. \A v, t : << [version |-> v, tokens |-> t] >>[1].version = v
                  /\ << [version |-> v, tokens |-> t] >>[1].tokens = t
    OBVIOUS
  <2> HIDE DEF m
  <2> QED BY <1>1, <2>1, AgreedAre
<1>3. /\ code.ok /\ code.got = c.code
      /\ UnpackAll(Types(c.sends), code, request[1].version) = Done(<< >>, Values0(m, args))
  <2> HIDE DEF m
  <2> QED BY <1>1, <1>2, RequestTrip
<1>4. PICK h : CaseOf[Tcp(m)][c.code] = {h} /\ Meets(c, h) /\ Lacks(h)
  <2> HIDE DEF m
  <2> QED BY <1>1, CaseIs
<1> HIDE DEF code
<1>5. cases = {h} /\ case = h /\ cases # {}
  BY <1>3, <1>4
<1>6. /\ h.reads = c.sends /\ h.method = m /\ h.packs = c.replies /\ h.code = c.code
  <2>1. c.method = m
    <3> HIDE DEF m
    <3> QED BY <1>1, MethodsFit
  <2> QED BY <1>4, <2>1 DEF Meets
<1>7. read.ok /\ Len(read.in) = 0 /\ Named(case.reads, read.got) = args
  <2>1. read = Done(<< >>, Values0(m, args))
    <3> HIDE DEF c, case
    <3> QED BY <1>3, <1>5, <1>6
  <2>2. \A x : Done(<< >>, x).ok /\ Len(Done(<< >>, x).in) = 0 /\ Done(<< >>, x).got = x
    BY DEF Done
  <2>3. Named(c.sends, Values0(m, args)) = args
    <3> HIDE DEF m
    <3> QED BY <1>1, PassedAre
  <2> HIDE DEF c, case, read
  <2> QED BY <1>5, <1>6, <2>1, <2>2, <2>3
<1>8. Absent(m, build) <=> ~ build.full /\ h.feature # "always"
  BY <1>1, <1>4 DEF Absent, Optional
<1>9. /\ unread' = Len(read.in)
      /\ \/ /\ case.feature = "always" \/ build.full
            /\ \E g \in Given[case.method] :
                 /\ device' = << [method |-> case.method,
                                  args |-> Named(case.reads, read.got), gave |-> g] >>
                 /\ replies' = IF g.threw THEN Excuse
                               ELSE Replies(case.packs, Amended(case.code, g.values))
         \/ /\ case.feature # "always" /\ ~ build.full
            /\ device' = << >>
            /\ \E v \in Stand[case.method] : replies' = Replies(case.packs, v.values)
  <2>1. ~ (cases = {} \/ ~ read.ok)
    BY <1>5, <1>7
  <2>2. Answer
    OBVIOUS
  <2> QED BY <2>1, <2>2 DEF Answer, code
<1> HIDE DEF c, cases, case, read
<1>10. Answered' /\ (Local!Do \/ Local!Lack)
  <2>0. /\ CallOf[m].replies = h.packs /\ CallOf[m].code = h.code
        /\ Excuse' = Excuse /\ \A x : Replies(h.packs, x)' = Replies(h.packs, x)
    BY <1>1, <1>6 DEF c, Excuse, Replies
  <2>1. CASE /\ case.feature = "always" \/ build.full
             /\ \E g \in Given[case.method] :
                  /\ device' = << [method |-> case.method,
                                   args |-> Named(case.reads, read.got), gave |-> g] >>
                  /\ replies' = IF g.threw THEN Excuse
                                ELSE Replies(case.packs, Amended(case.code, g.values))
    <3>1. PICK g \in Given[m] :
            /\ device' = << [method |-> m, args |-> args, gave |-> g] >>
            /\ replies' = IF g.threw THEN Excuse ELSE Replies(h.packs, Amended(h.code, g.values))
      BY <1>5, <1>6, <1>7, <2>1
    <3>2. ~ Absent(m, build)
      BY <1>5, <1>8, <2>1
    <3>3. Answered'
      BY <1>1, <2>0, <3>1, <3>2 DEF Answered, Absent
    <3>4. Local!Do
      BY <1>1, <3>1, <3>2 DEF Local!Do
    <3> QED BY <3>3, <3>4
  <2>2. CASE /\ case.feature # "always" /\ ~ build.full
             /\ device' = << >>
             /\ \E v \in Stand[case.method] : replies' = Replies(case.packs, v.values)
    <3>1. Absent(m, build)
      BY <1>5, <1>8, <2>2
    <3>2. Answered'
      BY <1>1, <1>5, <1>6, <2>0, <2>2, <3>1 DEF Answered, Absent
    <3>3. Local!Lack
      BY <1>1, <2>2, <3>1 DEF Local!Lack
    <3> QED BY <3>2, <3>3
  <2> QED BY <1>9, <2>1, <2>2
<1>11. Stage'
  BY <1>1, <1>7, <1>9, <1>10 DEF Stage
<1> QED BY <1>10, <1>11

\* The client gets what the device gave, as far as both sides know of it.
LEMMA ReturnValues ==
  ASSUME Stage, Return, NEW values,
         AllFit(AllTypes(CallOf[method].replies), values),
         replies = Replies(CallOf[method].replies, values)
  PROVE  LET types == AllTypes(CallOf[method].replies)
         IN /\ unread' = 0
            /\ outcome' = << Values([i \in DOMAIN types |->
                                       IF {build.client, build.server} = {SoapyRPCVersion}
                                       THEN values[i] ELSE Stepless(types[i], values[i])]) >>
<1> DEFINE awaits == CallOf[method].replies
           types == AllTypes(awaits)
           Read(i) == IF i > Len(replies) THEN [Reader(<< >>) EXCEPT !.ok = FALSE]
                      ELSE UnpackAll(awaits[i], Received(replies[i].tokens),
                                     Agreed(build.client, replies[i].version))
           fine == \A i \in DOMAIN awaits : Read(i).ok
           p == Agreed(build.server, build.client)
           gots == [i \in DOMAIN awaits |-> Read(i).got]
           ins == [i \in DOMAIN awaits |-> Read(i).in]
<1>1. /\ method \in Methods /\ build \in Builds /\ unread = 0
      /\ request[1].version = build.client
  <2>1. /\ method \in Methods /\ build \in Builds /\ unread = 0
        /\ request = << [version |-> build.client, tokens |-> Asked(method, args)] >>
    BY DEF Stage, Return
  <2>2. \A v, t : << [version |-> v, tokens |-> t] >>[1].version = v
    OBVIOUS
  <2> QED BY <2>1, <2>2
<1>2. /\ DOMAIN replies = DOMAIN awaits /\ Len(replies) = Len(awaits)
      /\ DOMAIN awaits = 1 .. Len(awaits) /\ Len(awaits) \in {1, 2}
      /\ \A i \in DOMAIN awaits : Reads(awaits, i, replies).ok
      /\ FlattenSeq([i \in DOMAIN awaits |-> Reads(awaits, i, replies).in]) = << >>
      /\ FlattenSeq([i \in DOMAIN awaits |-> Reads(awaits, i, replies).got])
           = [i \in 1 .. Len(types) |-> Known(types[i], values[i], p)]
  <2> DEFINE m == method
             packs == CallOf[m].replies
             rs == Replies(packs, values)
  <2>1. m \in Methods /\ AllFit(AllTypes(CallOf[m].replies), values)
    BY <1>1
  <2>2. rs = replies /\ packs = awaits
    OBVIOUS
  <2> HIDE DEF m
  <2>3. /\ DOMAIN rs = DOMAIN packs /\ Len(rs) = Len(packs)
        /\ DOMAIN packs = 1 .. Len(packs) /\ Len(packs) \in {1, 2}
        /\ \A i \in DOMAIN packs : /\ IntsFit(rs[i].tokens)
                                   /\ Reads(packs, i, rs).ok /\ Reads(packs, i, rs).in = << >>
        /\ FlattenSeq([i \in DOMAIN packs |-> Reads(packs, i, rs).in]) = << >>
        /\ FlattenSeq([i \in DOMAIN packs |-> Reads(packs, i, rs).got])
             = [i \in 1 .. Len(AllTypes(packs)) |-> Known(AllTypes(packs)[i], values[i], p)]
    BY <1>1, <2>1, AnswerTrip
  <2> HIDE DEF rs, packs, awaits
  <2> QED BY <2>2, <2>3 DEF types
<1>3. /\ outcome' = << IF fine THEN Values(FlattenSeq(gots)) ELSE Threw >>
      /\ unread' = unread + IF fine THEN Len(FlattenSeq(ins)) ELSE Len(Read(1).in)
  BY DEF Return
<1>4. \A i \in DOMAIN awaits : Read(i) = Reads(awaits, i, replies)
  <2>1. \A i \in DOMAIN awaits : ~ (i > Len(replies))
    <3> HIDE DEF awaits
    <3> QED BY <1>2
  <2> HIDE DEF awaits
  <2> QED BY <2>1 DEF Reads
<1>5. DOMAIN types = 1 .. Len(types)
  BY <1>1, TypesOfReplies
<1> HIDE DEF awaits, types, Read
<1>6. /\ gots = [i \in DOMAIN awaits |-> Reads(awaits, i, replies).got]
      /\ ins = [i \in DOMAIN awaits |-> Reads(awaits, i, replies).in]
      /\ fine
  BY <1>2, <1>4
<1> HIDE DEF gots, ins, fine
<1>7. /\ outcome' = << Values([i \in 1 .. Len(types) |-> Known(types[i], values[i], p)]) >>
      /\ unread' = 0
  BY <1>1, <1>2, <1>3, <1>6
<1>8. p >= SoapyRPCVersion <=> {build.client, build.server} = {SoapyRPCVersion}
  BY <1>1, AgreedAre
<1> HIDE DEF p
<1>9. [i \in 1 .. Len(types) |-> Known(types[i], values[i], p)]
        = [i \in DOMAIN types |-> IF {build.client, build.server} = {SoapyRPCVersion}
                                  THEN values[i] ELSE Stepless(types[i], values[i])]
  BY <1>5, <1>8 DEF Known
<1> QED BY <1>7, <1>9 DEF types, awaits

LEMMA ReturnExcuse ==
  ASSUME Stage, Return, replies = Excuse
  PROVE  unread' = 0 /\ outcome' = << Threw >>
<1> DEFINE awaits == CallOf[method].replies
           Read(i) == IF i > Len(replies) THEN [Reader(<< >>) EXCEPT !.ok = FALSE]
                      ELSE UnpackAll(awaits[i], Received(replies[i].tokens),
                                     Agreed(build.client, replies[i].version))
           fine == \A i \in DOMAIN awaits : Read(i).ok
           gots == [i \in DOMAIN awaits |-> Read(i).got]
           ins == [i \in DOMAIN awaits |-> Read(i).in]
<1>1. method \in Methods /\ build \in Builds /\ unread = 0
  BY DEF Stage, Return
<1>2. /\ Len(replies) = 1 /\ 1 \in DOMAIN awaits
      /\ ~ Reads(awaits, 1, replies).ok /\ Reads(awaits, 1, replies).in = << >>
  BY <1>1, ExcuseTrip
<1>3. /\ outcome' = << IF fine THEN Values(FlattenSeq(gots)) ELSE Threw >>
      /\ unread' = unread + IF fine THEN Len(FlattenSeq(ins)) ELSE Len(Read(1).in)
  BY DEF Return
<1>4. Read(1) = Reads(awaits, 1, replies)
  <2> HIDE DEF awaits
  <2> QED BY <1>2 DEF Reads
<1> HIDE DEF awaits, Read
<1>5. ~ fine
  BY <1>2, <1>4
<1> HIDE DEF gots, ins, fine
<1> QED BY <1>1, <1>2, <1>3, <1>4, <1>5

LEMMA ReturnStep ==
  ASSUME Stage, Return
  PROVE  Stage' /\ Local!Return
<1> DEFINE m == method
           c == CallOf[m]
           types == AllTypes(c.replies)
           Arrived(values) == [i \in DOMAIN types |->
                                 IF {build.client, build.server} = {SoapyRPCVersion}
                                 THEN values[i] ELSE Stepless(types[i], values[i])]
<1>1. /\ at = "answered" /\ at' = "done" /\ m \in Methods /\ build \in Builds /\ Answered
      /\ args \in Passed[m]
      /\ request = << [version |-> build.client, tokens |-> Asked(m, args)] >>
      /\ UNCHANGED << method, args, device, build, request, replies >>
  BY DEF Stage, Return
<1>2. /\ unread' = 0 /\ Len(outcome') = 1
      /\ IF device # << >>
         THEN outcome' = << Delivered(m, build, device[1].gave) >>
         ELSE \E g \in Stand[m] : outcome' = << Delivered(m, build, g) >>
  <2> DEFINE good(values) == unread' = 0 /\ outcome' = << Values(Arrived(values)) >>
  <2>0. ASSUME NEW values, AllFit(types, values), replies = Replies(c.replies, values)
        PROVE  good(values)
    BY <2>0, ReturnValues
  <2>00. \A g : Delivered(m, build, g) = IF g.threw THEN Threw
                                        ELSE Values(Arrived(Amended(c.code, g.values)))
    BY DEF Delivered
  <2> HIDE DEF Arrived, types
  <2>1. CASE /\ ~ Absent(m, build)
             /\ \E g \in Given[m] :
                  /\ device = << [method |-> m, args |-> args, gave |-> g] >>
                  /\ replies = IF g.threw THEN Excuse
                               ELSE Replies(c.replies, Amended(c.code, g.values))
    <3>1. PICK g \in Given[m] :
            /\ device = << [method |-> m, args |-> args, gave |-> g] >>
            /\ replies = IF g.threw THEN Excuse
                         ELSE Replies(c.replies, Amended(c.code, g.values))
      BY <2>1
    <3>2. device # << >> /\ device[1].gave = g
      <4> HIDE DEF m
      <4> QED BY <3>1
    <3>3. \/ g = Threw /\ g.threw
          \/ ~ g.threw /\ AllFit(types, Amended(c.code, g.values))
      <4> HIDE DEF m
      <4>1. Threw.threw
        BY DEF Threw
      <4> QED BY <1>1, <4>1, GivenAre DEF types
    <3>4. CASE g.threw
      <4>1. unread' = 0 /\ outcome' = << Threw >>
        BY <3>1, <3>4, ReturnExcuse
      <4>2. Delivered(m, build, g) = Threw
        BY <2>00, <3>4
      <4> HIDE DEF m
      <4> QED BY <3>2, <4>1, <4>2
    <3>5. CASE ~ g.threw
      <4>1. good(Amended(c.code, g.values))
        <5> HIDE DEF good, c
        <5> QED BY <2>0, <3>1, <3>3, <3>5
      <4>2. Delivered(m, build, g) = Values(Arrived(Amended(c.code, g.values)))
        BY <2>00, <3>5
      <4> HIDE DEF m, c
      <4> QED BY <3>2, <4>1, <4>2
    <3> QED BY <3>4, <3>5
  <2>2. CASE /\ Absent(m, build) /\ device = << >>
             /\ \E v \in Stand[m] : replies = Replies(c.replies, v.values)
    <3>1. PICK v \in Stand[m] : replies = Replies(c.replies, v.values)
      BY <2>2
    <3>2. ~ v.threw /\ AllFit(types, v.values) /\ Amended(c.code, v.values) = v.values
      <4>1. m \in Optional
        BY <2>2 DEF Absent
      <4> HIDE DEF m
      <4> QED BY <4>1, StandAre DEF types
    <3>3. good(v.values)
      <4> HIDE DEF good, c
      <4> QED BY <2>0, <3>1, <3>2
    <3>4. Delivered(m, build, v) = Values(Arrived(v.values))
      BY <2>00, <3>2
    <3> HIDE DEF m, c
    <3> QED BY <2>2, <3>3, <3>4
  <2> QED BY <1>1, <2>1, <2>2 DEF Answered
<1>3. Answered'
  <2>1. Excuse' = Excuse /\ \A x : Replies(c.replies, x)' = Replies(c.replies, x)
    BY <1>1 DEF Excuse, Replies
  <2> QED BY <1>1, <2>1 DEF Answered, Absent
<1>4. Stage'
  BY <1>1, <1>2, <1>3 DEF Stage
<1>5. Local!Return
  BY <1>1, <1>2 DEF Local!Return
<1> QED BY <1>4, <1>5

LEMMA RestStep ==
  ASSUME Stage, Rest
  PROVE  Stage' /\ Local!Rest
BY DEF Stage, Rest, Local!Rest

LEMMA StageStep ==
  ASSUME Stage, [Next]_vars
  PROVE  Stage' /\ [Local!Next]_(Local!vars)
<1>1. CASE \E m \in Methods : Ask(m)
  BY <1>1, AskStep DEF Local!Next
<1>2. CASE Answer
  BY <1>2, AnswerStep DEF Local!Next
<1>3. CASE Return
  BY <1>3, ReturnStep DEF Local!Next
<1>4. CASE Rest
  BY <1>4, RestStep DEF Local!Next
<1>5. CASE UNCHANGED vars
  <2>1. Excuse' = Excuse /\ \A packs, x : Replies(packs, x)' = Replies(packs, x)
    BY <1>5 DEF vars, Excuse, Replies
  <2>2. Answered' = Answered
    BY <1>5, <2>1 DEF vars, Answered, Absent
  <2> QED BY <1>5, <2>2 DEF vars, Stage, Local!vars
<1> QED BY <1>1, <1>2, <1>3, <1>4, <1>5 DEF Next

LEMMA StageAlways == Spec => []Stage
<1>1. Init => Stage
  BY InitStage
<1>2. Stage /\ [Next]_vars => Stage'
  BY StageStep
<1> QED BY <1>1, <1>2, PTL DEF Spec

\* Every message of a call is well formed.
LEMMA StageGives ==
  ASSUME Stage
  PROVE  CallInv
<1>1. /\ at \in {"idle", "asked", "answered", "done"} /\ build \in Builds /\ unread = 0
      /\ method \in Methods \cup {"none"} /\ unread \in Nat
      /\ Len(outcome) = IF at = "done" THEN 1 ELSE 0
  <2>1. Len(<< >>) = 0
    OBVIOUS
  <2> QED BY <2>1 DEF Stage
<1>2. \A i \in DOMAIN request : IntsFit(request[i].tokens)
  <2>1. CASE request = << >>
    BY <2>1
  <2>2. CASE /\ method \in Methods /\ args \in Passed[method]
             /\ request = << [version |-> build.client, tokens |-> Asked(method, args)] >>
    <3>1. IntsFit(Asked(method, args))
      BY <1>1, <2>2, AgreedAre, RequestTrip
    <3> DEFINE t == Asked(method, args)
    <3> HIDE DEF t
    <3>2. \A i \in DOMAIN request : request[i].tokens = t
      BY <2>2 DEF t
    <3> QED BY <3>1, <3>2 DEF t
  <2> QED BY <2>1, <2>2 DEF Stage
<1>3. \A i \in DOMAIN replies : IntsFit(replies[i].tokens)
  <2>1. CASE replies = << >>
    BY <2>1
  <2>2. CASE method \in Methods /\ replies = Excuse
    <3>1. DOMAIN Excuse = {1} /\ IntsFit(Excuse[1].tokens)
      BY <1>1, <2>2, ExcuseTrip
    <3> QED BY <2>2, <3>1
  <2>3. ASSUME NEW values, method \in Methods, request[1].version = build.client,
               AllFit(AllTypes(CallOf[method].replies), values),
               replies = Replies(CallOf[method].replies, values)
        PROVE  \A i \in DOMAIN replies : IntsFit(replies[i].tokens)
    <3> DEFINE m == method
               packs == CallOf[m].replies
               rs == Replies(packs, values)
    <3>1. m \in Methods /\ AllFit(AllTypes(CallOf[m].replies), values)
      BY <2>3
    <3>2. rs = replies
      BY <2>3
    <3> HIDE DEF m
    <3>3. DOMAIN rs = DOMAIN packs /\ \A i \in DOMAIN packs : IntsFit(rs[i].tokens)
      BY <1>1, <2>3, <3>1, AnswerTrip
    <3> HIDE DEF rs, packs
    <3> QED BY <3>2, <3>3
  <2>4. CASE at \in {"answered", "done"}
    <3>1. /\ method \in Methods /\ Answered
          /\ request = << [version |-> build.client, tokens |-> Asked(method, args)] >>
      BY <2>4 DEF Stage
    <3>2. request[1].version = build.client
      <4>1. \A v, t : << [version |-> v, tokens |-> t] >>[1].version = v
        OBVIOUS
      <4> QED BY <3>1, <4>1
    <3>3. CASE \E g \in Given[method] :
                 replies = IF g.threw THEN Excuse
                           ELSE Replies(CallOf[method].replies,
                                        Amended(CallOf[method].code, g.values))
      <4>1. PICK g \in Given[method] :
              replies = IF g.threw THEN Excuse
                        ELSE Replies(CallOf[method].replies,
                                     Amended(CallOf[method].code, g.values))
        BY <3>3
      <4>2. \/ g.threw
            \/ AllFit(AllTypes(CallOf[method].replies), Amended(CallOf[method].code, g.values))
        <5>1. Threw.threw
          BY DEF Threw
        <5> QED BY <3>1, <5>1, GivenAre
      <4> QED BY <2>2, <2>3, <3>1, <3>2, <4>1, <4>2
    <3>4. CASE /\ Absent(method, build)
               /\ \E v \in Stand[method] : replies = Replies(CallOf[method].replies, v.values)
      <4>1. PICK v \in Stand[method] : replies = Replies(CallOf[method].replies, v.values)
        BY <3>4
      <4>2. AllFit(AllTypes(CallOf[method].replies), v.values)
        <5>1. method \in Optional
          BY <3>4 DEF Absent
        <5> QED BY <5>1, StandAre
      <4> QED BY <2>3, <3>1, <3>2, <4>1, <4>2
    <3> QED BY <3>1, <3>3, <3>4 DEF Answered
  <2> QED BY <2>1, <2>4 DEF Stage
<1>4. \A msgs \in {"request", "replies"} :
        \A i \in DOMAIN Messages(msgs) : IntsFit(Messages(msgs)[i].tokens)
  BY <1>2, <1>3 DEF Messages
<1> QED BY <1>1, <1>4 DEF CallInv, TypeOK, AllConsumed

\* With every build of both sides, every argument and every value the device gives, the
\* messages of a call (ClientHandler.cpp handleOnce, Settings.cpp) fit the wire and are
\* taken apart to their end, on both sides.
THEOREM SpecCallInv == Spec => []CallInv
<1>1. Stage => CallInv
  BY StageGives
<1> QED BY <1>1, StageAlways, PTL

\* A call of SoapyRemoteDevice is a call of the device of the server: the same method and
\* arguments there, and the same values or exception here.
THEOREM SpecLocal == Spec => LocalSpec
<1>1. Init => Local!Init
  BY InitStage
<1>2. Stage /\ [Next]_vars => [Local!Next]_(Local!vars)
  BY StageStep
<1> QED BY <1>1, <1>2, StageAlways, PTL DEF Spec, LocalSpec, Local!Spec
=============================================================================
