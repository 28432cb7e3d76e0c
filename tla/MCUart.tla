---- MODULE MCUart ----
(* Instances of Uart for TLC. *)
EXTENDS Uart

MCSdkLines == {<<"x", "\n">>}
====
