----------------------------- MODULE LocalCalls -----------------------------
(***************************************************************************)
(* What a remote device promises: its methods can be called as if the      *)
(* device were local.  The device sees the arguments that the caller       *)
(* passed, and the caller gets what the device gave, be it values or an    *)
(* exception.  There are two exceptions: a method that the SoapySDR of the *)
(* server does not have gives a default, and what the other side is too    *)
(* old to know of a value is lost on the way.                              *)
(***************************************************************************)
EXTENDS Sequences

CONSTANTS Methods,          \* the methods of a device
          Passed,           \* Passed[m]: the arguments m may be called with
          Given,            \* Given[m]: what the device may give for m
          Absent(_, _),     \* Absent(m, b): a server of build b has no m
          Stand,            \* Stand[m]: what is given instead of an absent m
          Delivered(_, _, _)\* Delivered(m, b, g): what arrives of g in build b

VARIABLES at,       \* where the call is
          method, args,
          device,   \* what the device saw and gave: << >> or one record
          outcome,  \* what the caller got: << >> or one element
          build     \* the versions that take part

vars == << at, method, args, device, outcome, build >>

Init == at = "idle" /\ method = "none" /\ args = << >> /\ device = << >> /\ outcome = << >>

\* The application calls a method.
Ask == /\ at = "idle" /\ at' = "asked"
       /\ method' \in Methods /\ args' \in Passed[method']
       /\ UNCHANGED << device, outcome, build >>

\* The device does what the caller asked for.
Do == /\ at = "asked" /\ at' = "answered"
      /\ ~ Absent(method, build)
      /\ \E g \in Given[method] :
           device' = << [method |-> method, args |-> args, gave |-> g] >>
      /\ UNCHANGED << method, args, outcome, build >>

\* There is no such method.
Lack == /\ at = "asked" /\ at' = "answered"
        /\ Absent(method, build)
        /\ UNCHANGED << method, args, device, outcome, build >>

\* The call ends.
Return == /\ at = "answered" /\ at' = "done"
          /\ IF device # << >>
             THEN outcome' = << Delivered(method, build, device[1].gave) >>
             ELSE \E g \in Stand[method] : outcome' = << Delivered(method, build, g) >>
          /\ UNCHANGED << method, args, device, build >>

\* The caller goes on.
Rest == /\ at = "done" /\ at' = "idle"
        /\ method' = "none" /\ args' = << >> /\ device' = << >> /\ outcome' = << >>
        /\ UNCHANGED build

Next == Ask \/ Do \/ Lack \/ Return \/ Rest

Spec == Init /\ [][Next]_vars
=============================================================================
