---- MODULE MCHostLink ----
(* Instances of HostLink for TLC, with the byte codes of MCSerialTask. *)
EXTENDS HostLink

MCSwimErrors == {-4}
MCDurations  == {9}         \* the synchronisation pulse, in two bytes
MCAddresses  == {<<1>>, <<2>>}
MCOneAddress == {<<1>>}
====
