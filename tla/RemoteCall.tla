----------------------------- MODULE RemoteCall -----------------------------
(***************************************************************************)
(* What the host library promises a tool on a healthy line: a call is a    *)
(* request that the device carries out exactly once, and what the call     *)
(* returns is the reply the device gave to that request and to no other.   *)
(* HostLink, the library with the command interpreter, implements it.      *)
(***************************************************************************)
EXTENDS Integers, Sequences

VARIABLES call, \* the request of the call in progress, << >> between calls
          did,  \* the reply of the device that has carried it out, or << >>
          told  \* what the last call returned

vars == <<call, did, told>>

Init == call = << >> /\ did = << >> /\ told = << >>

Ask ==
  /\ call = << >>
  /\ call' # << >>
  /\ UNCHANGED <<did, told>>

Do ==
  /\ call # << >> /\ did = << >>
  /\ did' # << >>
  /\ UNCHANGED <<call, told>>

Tell ==
  /\ call # << >> /\ did # << >>
  /\ told' = did
  /\ call' = << >> /\ did' = << >>

Next == Ask \/ Do \/ Tell

Spec == Init /\ [][Next]_vars
=============================================================================
