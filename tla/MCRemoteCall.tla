---------------------------- MODULE MCRemoteCall ----------------------------
(***************************************************************************)
(* Values for RemoteCall: a few of each type, two that differ where a      *)
(* method has two parameters of it, and the ends of the range of numbers   *)
(* that are cast.                                                          *)
(***************************************************************************)
EXTENDS RemoteCall

MCCalls == {c.code : c \in ClientCalls}

Doubles == {Double(0, 0), Double(-3, 1)}
Strings == {<< >>, << 1, 2 >>}
TheRange == [min |-> Double(-1, 0), max |-> Double(3, -2), step |-> Double(1, -1)]
TheKwargs == (<< 1, 2 >> :> << >>) @@ (<< >> :> << 3 >>)
TheArgInfo(key) ==
  [key |-> key, value |-> << >>, name |-> << 2 >>, description |-> << 3 >>, units |-> << >>,
   type |-> 1, range |-> TheRange, options |-> << << >>, << 1 >> >>,
   optionNames |-> << << 2 >> >>]

MCSamples(type) ==
  CASE type = "char"       -> {1}
    [] type = "bool"       -> BOOLEAN
    [] type = "int"        -> {-2^(IntBits - 1), 1}
    [] type = "size"       -> {0, 2^(IntBits - 1) - 1}
    [] type = "unsigned"   -> {1, 2^(IntBits - 1), 2^IntBits - 1}
    [] type = "long"       -> {-5, 2^IntBits}
    [] type = "double"     -> Doubles
    [] type = "complex"    -> {[re |-> Double(0, 0), im |-> Double(1, -1)],
                               [re |-> Double(-3, 1), im |-> Double(0, 0)]}
    [] type = "string"     -> Strings
    [] type = "range"      -> {TheRange}
    [] type = "ranges"     -> {<< >>, << TheRange, TheRange >>}
    [] type = "strings"    -> {<< >>, << << 1, 2 >>, << >> >>}
    [] type = "doubles"    -> {<< >>, << Double(1, 0), Double(0, 0) >>}
    [] type = "kwargs"     -> {TheKwargs}
    [] type = "kwargsList" -> {<< >>, << << >>, TheKwargs >>}
    [] type = "sizes"      -> {<< 0, 1 >>}
    [] type = "unsigneds"  -> {<< >>, << 2^IntBits - 1, 0 >>}
    [] type = "argInfo"    -> {TheArgInfo(<< 1 >>)}
    [] type = "argInfos"   -> {<< >>, << TheArgInfo(<< 1 >>), TheArgInfo(<< >>) >>}
    [] OTHER               -> {}
=============================================================================
