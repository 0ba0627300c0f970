------------------------------ MODULE RpcTypes ------------------------------
(***************************************************************************)
(* How values travel in an RPC message: the operators & of the packer      *)
(* (common/SoapyRPCPacker.cpp) and of the unpacker                         *)
(* (common/SoapyRPCUnpacker.cpp).                                          *)
(*                                                                         *)
(* A message is a sequence of tokens, as the code writes it a byte for     *)
(* each type and a blob for each number or string.  Byte order is left     *)
(* out: a blob holds the number itself, in the width the code gives it.    *)
(* A finite double is [man, exp] with the value man * 2^exp and man odd or *)
(* 0; a string is a sequence of bytes; Kwargs is a function from strings   *)
(* to strings.                                                             *)
(***************************************************************************)
EXTENDS Integers, Sequences, FiniteSets, SequencesExt

CONSTANTS IntBits,          \* width of int and unsigned, 32 in the code
          MantBits,         \* DBL_MANT_DIG, 53 in the code
          SoapyRPCVersion,  \* the version of this code
          Calls             \* the names of the calls, which stand for their numbers

ASSUME WidthAssumption ==
  IntBits \in Nat \ {0, 1} /\ MantBits \in Nat \ {0} /\ SoapyRPCVersion \in Int

\* What is used of powers, which the provers do not know.
ASSUME PowerAssumption ==
  2^0 = 1 /\ \A k \in 0 .. 2 * (IntBits + MantBits) : 2^k \in Nat /\ 2^(k + 1) = 2 * 2^k
-----------------------------------------------------------------------------
(* Numbers.                                                                *)

\* int(x): the value of the low IntBits bits, in two's complement.
ToInt(x) == LET low == x % 2^IntBits
            IN IF low < 2^(IntBits - 1) THEN low ELSE low - 2^IntBits

\* unsigned(x), also as the element of a std::vector<unsigned>.
ToUnsigned(x) == x % 2^IntBits

\* An int assigned to a size_t, which is twice as wide.
ToSize(x) == x % 2^(2 * IntBits)

Abs(x) == IF x < 0 THEN -x ELSE x

\* The exponent that std::frexp gives to an integer: Abs(x) < 2^Bits(x).
Bits(x) == IF x = 0 THEN 0
           ELSE CHOOSE b \in 1 .. MantBits : 2^(b - 1) <= Abs(x) /\ Abs(x) < 2^b

\* The double with the value man * 2^exp.
Double(man, exp) ==
  IF man = 0 THEN [man |-> 0, exp |-> 0]
  ELSE LET z == CHOOSE k \in 0 .. MantBits : man % 2^k = 0 /\ man % 2^(k + 1) # 0
       IN [man |-> man \div 2^z, exp |-> exp + z]
-----------------------------------------------------------------------------
(* The types.  A type byte goes before each value, but for the entries of  *)
(* a map and the bytes of a string; both sides name it, operator& by       *)
(* operator&, and agree.                                                   *)

Lists == [strings |-> "string", doubles |-> "double", ranges |-> "range",
          sizes |-> "size", unsigneds |-> "unsigned", argInfos |-> "argInfo",
          kwargs |-> "entry", kwargsList |-> "kwargs"]
TypeBytes ==
  [char |-> "CHAR", bool |-> "BOOL", int |-> "INT32", size |-> "INT32", unsigned |-> "INT32",
   long |-> "INT64", double |-> "FLOAT64", complex |-> "COMPLEX128", string |-> "STRING",
   range |-> "RANGE", argInfo |-> "ARG_INFO", strings |-> "STRING_LIST",
   doubles |-> "FLOAT64_LIST", ranges |-> "RANGE_LIST", sizes |-> "SIZE_LIST",
   unsigneds |-> "SIZE_LIST", argInfos |-> "ARG_INFO_LIST", kwargs |-> "KWARGS",
   kwargsList |-> "KWARGS_LIST", call |-> "CALL", code |-> "INT32", void |-> "VOID",
   exception |-> "EXCEPTION"]
Atoms == {"char", "bool", "int", "size", "unsigned", "long", "bytes", "code"}

Tag(type) == [kind |-> "tag", of |-> TypeBytes[type]]
Blob(x)   == [kind |-> "blob", of |-> x]
-----------------------------------------------------------------------------
(* The packer.  The parts of a value are what its operator& calls for,     *)
(* each the type of an overload and a value.                               *)

\* A size or an unsigned is cast by the caller to an int.
PackAtom(type, v) == Blob(CASE type = "bool" -> IF v THEN 1 ELSE 0
                            [] type \in {"size", "unsigned"} -> ToInt(v)
                            [] OTHER -> v)

\* frexp and ldexp: a fraction below 1 scaled to MantBits bits, and its exponent.
PackDouble(v) == << << "int", v.exp + Bits(v.man) >>,
                    << "long", v.man * 2^(MantBits - Bits(v.man)) >> >>

\* A faulty variant: the step goes to every peer.
PackRangeAlways(v, remote) ==
  << << "double", v.min >>, << "double", v.max >>, << "double", v.step >> >>

\* The step of a range goes to a peer that is not older than this code.
PackRange(v, remote) ==
  << << "double", v.min >>, << "double", v.max >> >>
  \o IF remote >= SoapyRPCVersion THEN << << "double", v.step >> >> ELSE << >>

PackArgInfo(v) ==
  << << "string", v.key >>, << "string", v.value >>, << "string", v.name >>,
     << "string", v.description >>, << "string", v.units >>, << "int", v.type >>,
     << "range", v.range >>, << "strings", v.options >>, << "strings", v.optionNames >> >>

\* The entries of a map, in the order of its iterator.
Entries(v) == LET keys == SetToSeq(DOMAIN v)
              IN [i \in DOMAIN keys |-> << keys[i], v[keys[i]] >>]

PackParts(type, v, remote) ==
  CASE type = "double"    -> PackDouble(v)
    [] type = "complex"   -> << << "double", v.re >>, << "double", v.im >> >>
    [] type = "string"    -> << << "int", Len(v) >>, << "bytes", v >> >>
    [] type = "range"     -> PackRange(v, remote)
    [] type = "argInfo"   -> PackArgInfo(v)
    [] type = "entry"     -> << << "string", v[1] >>, << "string", v[2] >> >>
    [] type = "call"      -> << << "code", v >> >>
    [] type = "exception" -> << << "string", v >> >>
    [] type = "void"      -> << >>

Tags(type) == IF type \in DOMAIN TypeBytes THEN << Tag(type) >> ELSE << >>

PackEach(Part(_, _, _), parts, remote) ==
  FlattenSeq([i \in DOMAIN parts |-> Part(parts[i][1], parts[i][2], remote)])

\* A size, then the elements.
PackList(Part(_, _, _), type, v, remote) ==
  LET list == IF type = "kwargs" THEN Entries(v) ELSE v
  IN Part("int", Len(list), remote)
     \o PackEach(Part, [i \in DOMAIN list |-> << Lists[type], list[i] >>], remote)

\* An operator& calls those of simpler types only: four of them deep at the most.
Packing(Part(_, _, _), type, v, remote) ==
  Tags(type) \o IF type \in Atoms THEN << PackAtom(type, v) >>
                ELSE IF type \in DOMAIN Lists THEN PackList(Part, type, v, remote)
                ELSE PackEach(Part, PackParts(type, v, remote), remote)
Pack0(type, v, remote) == Tags(type) \o << PackAtom(type, v) >>
Pack1(type, v, remote) == Packing(Pack0, type, v, remote)
Pack2(type, v, remote) == Packing(Pack1, type, v, remote)
Pack3(type, v, remote) == Packing(Pack2, type, v, remote)
PackAs(type, v, remote) == Packing(Pack3, type, v, remote)

\* Several values, one operator& after the other.
PackAll(types, values, remote) ==
  PackEach(PackAs, [i \in DOMAIN types |-> << types[i], values[i] >>], remote)
-----------------------------------------------------------------------------
(* The unpacker.  A reader has the tokens that are left, whether nothing   *)
(* was thrown so far, and what the last operator& gave.                    *)

Reader(tokens) == [in |-> tokens, ok |-> TRUE, got |-> 0]

\* The end of an operator&, which is not reached after an exception.
Got(r, v) == IF r.ok THEN [r EXCEPT !.got = v] ELSE r

\* UNPACK_TYPE_HELPER: the next byte has to be the expected type.
TypeIs(r, type) ==
  IF r.ok /\ r.in # << >> /\ Head(r.in) = Tag(type)
  THEN [r EXCEPT !.in = Tail(@)]
  ELSE [r EXCEPT !.ok = FALSE]

\* unpack(): the next blob, unless it lies beyond the payload.
Unpack(r) == IF r.ok /\ r.in # << >> /\ Head(r.in).kind = "blob"
             THEN [r EXCEPT !.in = Tail(@), !.got = Head(r.in).of]
             ELSE [r EXCEPT !.ok = FALSE]

\* What a caller makes of an int: a bool, a size, an unsigned.
Atom(type, x) == CASE type = "bool"     -> x # 0
                   [] type = "size"     -> ToSize(x)
                   [] type = "unsigned" -> ToUnsigned(x)
                   [] OTHER             -> x

\* The step of a range comes from a peer that is not older than this code.
UnpackRange(remote) ==
  << "double", "double" >> \o IF remote >= SoapyRPCVersion THEN << "double" >> ELSE << >>

\* The types of the parts of a value.
UnpackParts(type, remote) ==
  CASE type = "double"    -> << "int", "long" >>
    [] type = "complex"   -> << "double", "double" >>
    [] type = "string"    -> << "int", "bytes" >>
    [] type = "range"     -> UnpackRange(remote)
    [] type = "argInfo"   -> << "string", "string", "string", "string", "string", "int",
                                "range", "strings", "strings" >>
    [] type = "entry"     -> << "string", "string" >>
    [] type = "call"      -> << "code" >>
    [] type = "exception" -> << "string" >>
    [] type = "void"      -> << >>

\* The entries go back into a map, a later one over an earlier one.
KwargsOf(entries) ==
  LET At(k) == CHOOSE i \in DOMAIN entries :
                 entries[i][1] = k /\ \A j \in DOMAIN entries : entries[j][1] = k => j <= i
  IN [k \in {entries[i][1] : i \in DOMAIN entries} |-> entries[At(k)][2]]

\* A value from its parts, or from its elements.
Whole(type, x) ==
  CASE type = "double"  -> Double(x[2], x[1] - MantBits)
    [] type = "complex" -> [re |-> x[1], im |-> x[2]]
    [] type = "string"  -> SubSeq(x[2], 1, x[1])
    [] type = "range"   -> [min |-> x[1], max |-> x[2],
                            step |-> IF Len(x) = 3 THEN x[3] ELSE Double(0, 0)]
    [] type = "argInfo" -> [key |-> x[1], value |-> x[2], name |-> x[3], description |-> x[4],
                            units |-> x[5], type |-> x[6], range |-> x[7], options |-> x[8],
                            optionNames |-> x[9]]
    [] type = "kwargs"  -> KwargsOf(x)
    [] type = "call"    -> x[1]
    [] OTHER            -> x

UnpackEach(Part(_, _, _), types, r, remote) ==
  LET list[n \in 0 .. Len(types)] ==
        IF n = 0 THEN Got(r, << >>)
        ELSE LET before == list[n - 1]
                 e == Part(types[n], before, remote)
             IN Got(e, Append(before.got, e.got))
  IN list[Len(types)]

UnpackAtom(type, body) == LET end == Unpack(body) IN Got(end, Atom(type, end.got))
\* The elements of a list, after the size.
UnpackList(Part(_, _, _), type, size, remote) ==
  IF size.ok THEN UnpackEach(Part, [i \in 1 .. size.got |-> Lists[type]], size, remote) ELSE size

AfterTag(type, r) == IF type \in DOMAIN TypeBytes THEN TypeIs(r, type) ELSE r
Unpacking(Part(_, _, _), type, r, remote) ==
  LET body == AfterTag(type, r)
      end == IF type \in DOMAIN Lists
             THEN UnpackList(Part, type, Part("int", body, remote), remote)
             ELSE UnpackEach(Part, UnpackParts(type, remote), body, remote)
  IN IF type \in Atoms THEN UnpackAtom(type, body) ELSE Got(end, Whole(type, end.got))
Unpack0(type, r, remote) == UnpackAtom(type, AfterTag(type, r))
Unpack1(type, r, remote) == Unpacking(Unpack0, type, r, remote)
Unpack2(type, r, remote) == Unpacking(Unpack1, type, r, remote)
Unpack3(type, r, remote) == Unpacking(Unpack2, type, r, remote)
UnpackAs(type, r, remote) == Unpacking(Unpack3, type, r, remote)

UnpackAll(types, r, remote) == UnpackEach(UnpackAs, types, r, remote)

\* recv(): a VOID is consumed, an exception is thrown again.
Received(tokens) ==
  LET r == Reader(tokens)
  IN CASE Head(tokens) = Tag("void")      -> TypeIs(r, "void")
       [] Head(tokens) = Tag("exception") ->
            [UnpackAs("exception", r, SoapyRPCVersion) EXCEPT !.ok = FALSE]
       [] OTHER                           -> r
-----------------------------------------------------------------------------
(* The values of each type that the wire can carry: numbers fit the width  *)
(* in which they travel, and so do the sizes of strings, lists and maps.   *)

Ints == {x \in Int : -2^(IntBits - 1) <= x /\ x < 2^(IntBits - 1)}
Sizes == {x \in Ints : x >= 0}
Unsigneds == {x \in Nat : x < 2^IntBits}
DoubleValues ==
  {v \in [man : Int, exp : Int] : /\ IF v.man = 0 THEN v.exp = 0 ELSE v.man % 2 = 1
                                 /\ Abs(v.man) < 2^MantBits
                                 /\ v.exp + Bits(v.man) \in Ints}
ListsOf(S) == {s \in Seq(S) : Len(s) \in Ints}
Texts == ListsOf(Nat)
RangeValues == [min : DoubleValues, max : DoubleValues, step : DoubleValues]
ArgInfoValues ==
  [key : Texts, value : Texts, name : Texts, description : Texts, units : Texts, type : Ints,
   range : RangeValues, options : ListsOf(Texts), optionNames : ListsOf(Texts)]
IsKwargs(v) ==
  /\ v = [k \in DOMAIN v |-> v[k]] /\ IsFiniteSet(DOMAIN v)
  /\ Cardinality(DOMAIN v) \in Ints
  /\ \A k \in DOMAIN v : k \in Texts /\ v[k] \in Texts

IsA(type, v) ==
  CASE type = "bool"       -> v \in BOOLEAN
    [] type = "int"        -> v \in Ints
    [] type = "size"       -> v \in Sizes
    [] type = "unsigned"   -> v \in Unsigneds
    [] type = "char"       -> v \in Int
    [] type = "long"       -> v \in Int
    [] type = "bytes"      -> v \in Seq(Nat)
    [] type = "code"       -> v \in Calls
    [] type = "double"     -> v \in DoubleValues
    [] type = "complex"    -> v \in [re : DoubleValues, im : DoubleValues]
    [] type = "string"     -> v \in Texts
    [] type = "range"      -> v \in RangeValues
    [] type = "argInfo"    -> v \in ArgInfoValues
    [] type = "entry"      -> v \in Texts \X Texts
    [] type = "kwargs"     -> IsKwargs(v)
    [] type = "strings"    -> v \in ListsOf(Texts)
    [] type = "doubles"    -> v \in ListsOf(DoubleValues)
    [] type = "ranges"     -> v \in ListsOf(RangeValues)
    [] type = "sizes"      -> v \in ListsOf(Sizes)
    [] type = "unsigneds"  -> v \in ListsOf(Unsigneds)
    [] type = "argInfos"   -> v \in ListsOf(ArgInfoValues)
    [] type = "kwargsList" -> v \in ListsOf(Range(v)) /\ \A i \in DOMAIN v : IsKwargs(v[i])
    [] type = "call"       -> v \in Calls
    [] type = "exception"  -> v \in Texts
    [] OTHER               -> type = "void"

\* What a side that is too old for the step of a range leaves of a value.
Stepless(type, v) ==
  CASE type = "range"    -> [v EXCEPT !.step = Double(0, 0)]
    [] type = "ranges"   -> [i \in DOMAIN v |-> [v[i] EXCEPT !.step = Double(0, 0)]]
    [] type = "argInfo"  -> [v EXCEPT !.range.step = Double(0, 0)]
    [] type = "argInfos" -> [i \in DOMAIN v |-> [v[i] EXCEPT !.range.step = Double(0, 0)]]
    [] OTHER             -> v
Known(type, v, remote) == IF remote >= SoapyRPCVersion THEN v ELSE Stepless(type, v)
=============================================================================
