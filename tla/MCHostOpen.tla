---- MODULE MCHostOpen ----
(* An instance of HostOpen for TLC, with the byte codes of MCSerialTask. *)
EXTENDS HostOpen

MCSwimErrors == {-4}
MCDurations  == {0}
MCGarbled    == {3, 4}  \* an unknown command, a reset

(* Nothing, a byte of the banner, an unread answer of another version. *)
MCLeftovers == {<< >>, <<3>>, <<6, 0, 0, 1>>}
====
