----------------------------- MODULE SampleFormats -----------------------------
(***************************************************************************)
(* The formats of samples: which one setupStream asks the server for, and  *)
(* the conversions of ClientStreamData between the format of the           *)
(* application and that of the server (client/Streaming.cpp and            *)
(* client/ClientStreamData.cpp).                                           *)
(*                                                                         *)
(* A conversion is given for one number, I or Q, and for both where they   *)
(* share a byte.  A float f is the integer f * One; with a scale that is a *)
(* power of two, as a full scale usually is, all floats here are exact.    *)
(* Sending gives the set of outcomes that a build may produce: what C++    *)
(* leaves undefined has several.                                           *)
(***************************************************************************)
EXTENDS Integers

Formats == {"CF64", "CF32", "CS16", "CS12", "CS8", "CU8"}

-----------------------------------------------------------------------------
(* The choice of formats.                                                  *)

\* The pairs for which setupStream finds a conversion, and does not throw.
Converts(local, remote) ==
  \/ local = remote
  \/ << local, remote >> \in {<< "CF32", "CS16" >>, << "CF32", "CS12" >>, << "CS16", "CS12" >>,
                              << "CS16", "CS8" >>, << "CF32", "CS8" >>, << "CF32", "CU8" >>}

\* The pairs for which it uses the native format of the device.
useNative(local, native) ==
  \/ local = native
  \/ << local, native >> \in {<< "CF32", "CS16" >>, << "CF32", "CS12" >>, << "CS16", "CS12" >>,
                              << "CS16", "CS8" >>, << "CF32", "CS8" >>, << "CF32", "CU8" >>}

\* The remote format when no argument names one.
remoteFormat(local, native) == IF useNative(local, native) THEN native ELSE local

\* getStreamFormats: what the device lists, and CF32 where it converts.
streamFormats(listed) ==
  listed \cup IF listed \cap {"CS16", "CS8", "CU8"} # {} THEN {"CF32"} ELSE {}

\* The scale for a remote format that is not native: half the range of an integer.
defaultScale(format) ==
  CASE format = "CS16" -> 32768 [] format = "CS12" -> 2048 [] format \in {"CS8", "CU8"} -> 128

-----------------------------------------------------------------------------
(* Numbers of a width.                                                     *)
One == 32768

Signed(x, range) == ((x + range \div 2) % range) - range \div 2
int8(x) == Signed(x, 256)
int16(x) == Signed(x, 65536)
uint8(x) == x % 256
uint16(x) == x % 65536

\* Division that rounds to zero.
Quotient(x, y) == IF x >= 0 THEN x \div y ELSE -((-x) \div y)

\* A float becomes a signed integer, of which the build takes the low bits.
AsInt(f) == Quotient(f, One)

\* A float becomes unsigned: a negative one is undefined, and some processors take the
\* low bits where others saturate at zero.
AsUint16(f) == IF AsInt(f) >= 0 THEN {uint16(AsInt(f))} ELSE {uint16(AsInt(f)), 0}

-----------------------------------------------------------------------------
(* Three bytes of CS12 hold two numbers of twelve bits, left-aligned here. *)

\* A faulty variant: the two halves of the middle byte are swapped.
FromCS12Swapped(b) ==
  << int16((b[2] \div 16) * 4096 + b[1] * 16), int16(b[3] * 256 + (b[2] % 16) * 16) >>

FromCS12(b) ==
  << int16((b[2] % 16) * 4096 + b[1] * 16), int16(b[3] * 256 + (b[2] \div 16) * 16) >>
ToCS12(i, q) == << uint8(i \div 16), (uint8(q) \div 16) * 16 + i \div 4096, uint8(q \div 256) >>

-----------------------------------------------------------------------------
(* convertRecvBuffs: the number of the application, from that of the wire. *)

\* The x of CS12 is the left-aligned number of FromCS12.
Recv(local, remote, x, scale) ==
  CASE local = remote                        -> x
    [] << local, remote >> = << "CF32", "CS16" >> -> x * (One \div scale)
    [] << local, remote >> = << "CF32", "CS12" >> -> x * (One \div (16 * scale))
    [] << local, remote >> = << "CS16", "CS12" >> -> x
    [] << local, remote >> = << "CS16", "CS8" >>  -> int16(x * (32768 \div scale))
    [] << local, remote >> = << "CF32", "CS8" >>  -> x * (One \div scale)
    [] << local, remote >> = << "CF32", "CU8" >>  -> (int8(x) - 127) * (One \div scale)

-----------------------------------------------------------------------------
(* convertSendBuffs: what may become of a number of the application.       *)

\* The divisor of CS16 to CS8; it is zero, and the program dies, below a scale of 127.
SendDivisor(scale) == (scale + 1) \div 128

Send(local, remote, x, scale) ==
  CASE local = remote                        -> {x}
    [] << local, remote >> = << "CF32", "CS16" >> -> {int16(AsInt(x * scale))}
    [] << local, remote >> = << "CF32", "CS12" >> -> AsUint16(x * 16 * scale)
    [] << local, remote >> = << "CS16", "CS12" >> -> {uint16(x)}
    [] << local, remote >> = << "CS16", "CS8" >>  -> {int8(Quotient(x, SendDivisor(scale)))}
    [] << local, remote >> = << "CF32", "CS8" >>  -> {int8(AsInt(x * scale))}
    [] << local, remote >> = << "CF32", "CU8" >>  -> {uint8(int8(AsInt(x * scale)) + 127)}

-----------------------------------------------------------------------------
(* Properties.                                                             *)

\* An application that asks for a format of the device's list, with the arguments it
\* finds there, gets a stream: a conversion exists, and the server is asked for a format
\* that the device lists.  Where CF32 was added to the list, this takes a native format
\* that converts to it: only then is the comment of line 35 right.
FormatsServed ==
  \A listed \in SUBSET Formats : \A native \in listed, local \in streamFormats(listed) :
    LET remote == remoteFormat(local, native)
    IN /\ Converts(local, remote)
       /\ local \in listed \/ native \in {"CS16", "CS12", "CS8", "CU8"} => remote \in listed

\* Numbers of the wire; those of CS12 are left-aligned.
Edges == {-32768, -32752, -4096, -16, 0, 16, 256, 2032, 4096, 32752}
Numbers(remote) ==
  CASE remote = "CS16" -> Edges \cup {-32767, -1, 1, 32767}
    [] remote = "CS12" -> Edges
    [] remote = "CS8"  -> -128 .. 127
Bytes == {0, 1, 15, 16, 127, 128, 240, 255}

\* What is received and sent again is what it was: the two directions of a conversion
\* agree on scale, width and the layout of the bytes.  Left out are CU8, which is received
\* as signed; CS16 of CS8, whose two directions expect different scales; and negative
\* numbers of CS12 from floats, where the build decides.
LoopbackExact ==
  /\ \A b \in Bytes \X Bytes \X Bytes :
       ToCS12(uint16(FromCS12(b)[1]), uint16(FromCS12(b)[2])) = b
  /\ \A pair \in {<< "CF32", "CS16" >>, << "CF32", "CS12" >>, << "CS16", "CS12" >>,
                   << "CF32", "CS8" >>} :
       LET remote == pair[2]
           scale == defaultScale(remote)
       IN \A x \in Numbers(remote) :
            LET sent == Send(pair[1], remote, Recv(pair[1], remote, x, scale), scale)
            IN IF remote # "CS12" THEN sent = {x}
               ELSE uint16(x) \in sent /\ (pair[1] = "CS16" \/ x >= 0 => sent = {uint16(x)})

\* A sample has the same level as CF32 and as CS16, whichever the application asks for,
\* and no float exceeds the full scale ("used to scale remote samples to full-scale
\* floats", Streaming.cpp:110).
SameLevel ==
  \A remote \in {"CS12", "CS8"} : \A x \in Numbers(remote) :
    LET f == Recv("CF32", remote, x, defaultScale(remote))
    IN /\ f = Recv("CS16", remote, x, defaultScale(remote)) * (One \div 32768)
       /\ -One <= f /\ f <= One

\* The same level of CU8, which has 127 for zero ("Support CU8 native conversion to CF32",
\* Changelog.txt:121).  It is violated: the bytes are read as signed, and those above the
\* zero level come out below minus full scale.
Cu8Level ==
  \A byte \in 0 .. 255 :
    Recv("CF32", "CU8", byte, defaultScale("CU8")) = (byte - 127) * (One \div defaultScale("CU8"))
=============================================================================
