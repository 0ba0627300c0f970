----------------------------- MODULE HandlePool -----------------------------
(***************************************************************************)
(* What an endpoint promises about its buffers, without the ring: a buffer *)
(* given to the caller is not given again until the caller has returned    *)
(* it and every buffer given out before it.  "outstanding" lists buffers   *)
(* in the order they were given out, "held" those not yet returned.        *)
(***************************************************************************)
EXTENDS Integers, Sequences, FiniteSets

CONSTANT Buffers

VARIABLES outstanding, held

vars == <<outstanding, held>>

Listed(s) == {s[i] : i \in DOMAIN s}

(* The suffix of a list that starts at its first buffer in the set.        *)
FromFirstIn(s, S) ==
  LET k == CHOOSE k \in 0..Len(s) :
             /\ \A i \in 1..k : s[i] \notin S
             /\ k < Len(s) => s[k + 1] \in S
  IN  SubSeq(s, k + 1, Len(s))

Init == outstanding = <<>> /\ held = {}

Give == \E b \in Buffers \ Listed(outstanding) :
          /\ outstanding' = Append(outstanding, b)
          /\ held' = held \cup {b}

Return(b) ==
  /\ b \in held
  /\ held' = held \ {b}
  /\ outstanding' = FromFirstIn(outstanding, held')

Next == Give \/ \E b \in Buffers : Return(b)

Spec == Init /\ [][Next]_vars
=============================================================================
