---------------------------- MODULE RecordedTask ----------------------------
(***************************************************************************)
(* SerialTask with a history variable, for what it implements: a reply is  *)
(* to hold what the driver returned for this very command, and neither the *)
(* buffer nor the reply tells what that was.                               *)
(***************************************************************************)
EXTENDS SerialTask

VARIABLE outcome  \* what the driver returned in the last step, << >> if it was not called

recorded == <<vars, outcome>>

RecordedInit == Init /\ outcome = << >>

Records ==
  \/ \E out \in Outcomes : Serve(out) /\ outcome' = out
  \/ (RecvArgument \/ RecvLast \/ HostSends \/ HostReads) /\ outcome' = << >>

RecordedSpec == RecordedInit /\ [][Records]_recorded

RecordedFairSpec == RecordedSpec /\ Fairness

(* The arguments of the driver call made while a command is served: the    *)
(* pointer cmd_buf + 1 with the length that the callee reads.              *)
DriverArgs ==
  IF pc = "recv" THEN << >>
  ELSE LET n == CASE cmd_buf[0] = CMD_ROTF  -> Header - 1
                  [] cmd_buf[0] = CMD_WOTF  -> Header - 1 + cmd_buf[1]
                  [] cmd_buf[0] = CMD_RESET -> 1
                  [] OTHER -> 0
       IN [k \in 1 .. n |-> cmd_buf[k]]

(* The task implements the bufferless server: although cmd_buf still holds *)
(* bytes of earlier commands and of earlier replies, none of them ever     *)
(* completes a request, reaches the driver or shows up in a reply.  Each   *)
(* request gets one acknowledgement and one reply, of which every byte is  *)
(* this request's, this driver call's or the version's.                    *)
Server == INSTANCE CommandServer WITH
            req  <- Bytes(cmd_buf, cmd_buf_idx),
            busy <- pc = "exec",
            args <- DriverArgs

ImplementsServer == Server!Spec
=============================================================================
