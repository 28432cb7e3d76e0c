---- MODULE MCSerialTask ----
(* Instances of RecordedTask for TLC. With ByteMax = 6 the codes are SRST 0,  *)
(* ROTF 1, WOTF 2, RESET 4, INIT 5, VERSION 6 and the unknown command 3.     *)
EXTENDS RecordedTask

MCSwimErrors == {-1, -4}
MCDurations  == {0, 9}  \* 9 needs both bytes of the reply
====
