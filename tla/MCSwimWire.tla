---- MODULE MCSwimWire ----
(* Instances of SwimWire for TLC: the counter wraps in the middle of calls. *)
EXTENDS SwimWire

MCStarts == {300 * i : i \in 0 .. 6}
====
