------------------------------ MODULE HostLink ------------------------------
(***************************************************************************)
(* The host library lib/libespstlink.c talking to the command interpreter  *)
(* of SerialTask.  A call writes its request and then runs error_check: it *)
(* waits at most 10 ms for the first byte, reads the acknowledgement, the  *)
(* status byte and then the payload or the error code.  Nothing numbers or *)
(* frames requests and replies: both ends rely on being in step.           *)
(*                                                                         *)
(* rx holds the bytes on their way to the interpreter, tx those on their   *)
(* way to the host or in its tty.  A read takes some of them: a tty that   *)
(* cfmakeraw has set up returns what is there, one byte at least.          *)
(***************************************************************************)
EXTENDS Integers, Sequences, SequencesExt

CONSTANTS ByteMax, AddrLen, SwimErrors, Durations, ReadBytes,  \* see SerialTask
          Addresses,  \* the addresses of reads and writes, as address bytes
          Sizes,      \* the sizes a caller asks for
          WriteBytes, \* the bytes it writes
          Late,       \* an answer may take longer than is_data_available waits
          SplitCodes, \* the two bytes of an error code may come apart
          MaxAsked,   \* bound: requests the device has not carried out
          MaxTx       \* bound: unread bytes when a call starts

VARIABLES rx, tx, cmd_buf, cmd_buf_idx, pc, \* the interpreter, see SerialTask
          hpc,     \* where error_check is, "idle" between calls
          cmd,     \* the request it was called for
          size,    \* the payload it wants
          resp,    \* the bytes in resp_buf
          result,  \* what the last call got from the device, << >> if nothing
          error,   \* error.code, which a success leaves as it is
          version, \* pgm->version
          asked,   \* history: requests sent and not yet carried out
          did      \* history: the device's reply to the last one

firmware == <<rx, tx, cmd_buf, cmd_buf_idx, pc>>
host     == <<hpc, cmd, size, resp, result, error, version>>
vars     == <<firmware, host, asked, did>>

Firmware == INSTANCE SerialTask WITH HostBytes <- {}, MaxRx <- 0

Byte == 0 .. ByteMax
Echo == 1 + AddrLen  \* the count and address a reply repeats: 4 in the code

ASSUME LinkAssumption ==
  /\ ByteMax \in Nat /\ ByteMax >= 5 /\ AddrLen \in Nat /\ AddrLen <= ByteMax
  /\ SwimErrors \subseteq {-n : n \in 1 .. ByteMax}
  /\ Durations \subseteq Nat /\ ReadBytes \subseteq Byte
  /\ Addresses \subseteq [1 .. AddrLen -> Byte]
  /\ Sizes \subseteq Nat /\ WriteBytes \subseteq Byte
  /\ Late \in BOOLEAN /\ SplitCodes \in BOOLEAN
  /\ MaxAsked \in Nat /\ MaxTx \in Nat

ESPSTLINK_ERROR_READ    == 1
ESPSTLINK_ERROR_DATA    == 2
ESPSTLINK_ERROR_COMM    == 3
ESPSTLINK_ERROR_VERSION == 4
-----------------------------------------------------------------------------
Init ==
  /\ Firmware!Init
  /\ hpc = "idle" /\ cmd = << >> /\ size = 0 /\ resp = << >>
  /\ result = << >> /\ error = 0 /\ version = -1
  /\ asked = << >> /\ did = << >>

(* write() of the request, and the call of error_check. *)
Ask(request, payload) ==
  /\ hpc = "idle"
  /\ Len(asked) < MaxAsked /\ Len(tx) <= MaxTx
  /\ rx' = rx \o request
  /\ hpc' = "ack"
  /\ cmd' = request /\ size' = payload /\ resp' = << >>
  /\ asked' = Append(asked, request) /\ did' = << >>
  /\ UNCHANGED <<tx, cmd_buf, cmd_buf_idx, pc, result, error, version>>

FetchVersion == version = -1 /\ Ask(<<Firmware!CMD_VERSION>>, 2)
SwimEntry    == Ask(<<Firmware!CMD_INIT>>, 2)
Reset        == \E on \in {0, 1, ByteMax} : Ask(<<Firmware!CMD_RESET, on>>, 0)
Srst         == Ask(<<Firmware!CMD_SRST>>, 0)

(* Mutation: the size is not truncated. *)
CountWide(n) == n

Count(n) == n % (ByteMax + 1)  \* the size as a byte of the command

Read ==
  \E n \in Sizes, addr \in Addresses :
    Ask(<<Firmware!CMD_ROTF, Count(n)>> \o addr, Count(n) + Echo)

(* Mutation: the data is written in full, the count truncated. *)
WriteWhole ==
  \E n \in Sizes, addr \in Addresses, b \in WriteBytes :
    Ask(<<Firmware!CMD_WOTF, Count(n)>> \o addr \o [k \in 1 .. n |-> b], Echo)

(* Mutation: one byte of the echo is not waited for. *)
WriteHasty ==
  \E n \in Sizes, addr \in Addresses, b \in WriteBytes :
    Ask(<<Firmware!CMD_WOTF, Count(n)>> \o addr \o [k \in 1 .. Count(n) |-> b], Echo - 1)

Write ==
  \E n \in Sizes, addr \in Addresses, b \in WriteBytes :
    Ask(<<Firmware!CMD_WOTF, Count(n)>> \o addr \o [k \in 1 .. Count(n) |-> b], Echo)

Calls == FetchVersion \/ SwimEntry \/ Reset \/ Srst \/ Read \/ Write
-----------------------------------------------------------------------------
(* read(): n of the bytes that are there. *)
Take(n) == tx' = SubSeq(tx, n + 1, Len(tx))
AtMost(n) == 1 .. (IF Len(tx) < n THEN Len(tx) ELSE n)

Fail(code) ==
  /\ hpc' = "idle" /\ error' = code /\ result' = << >>
  /\ UNCHANGED version

(* Mutation: any version will do. *)
SucceedUnchecked(payload) ==
  LET value == payload[1] * (ByteMax + 1) + payload[2] IN
  /\ hpc' = "idle" /\ UNCHANGED error
  /\ result' = <<0>> \o payload
  /\ version' = IF cmd[1] = Firmware!CMD_VERSION THEN value ELSE version

(* The end of a call whose payload is complete. *)
Succeed(payload) ==
  LET value == payload[1] * (ByteMax + 1) + payload[2] IN
  IF cmd[1] = Firmware!CMD_VERSION /\ value > 2
  THEN Fail(ESPSTLINK_ERROR_VERSION)
  ELSE /\ hpc' = "idle" /\ UNCHANGED error
       /\ result' = <<0>> \o payload
       /\ version' = IF cmd[1] = Firmware!CMD_VERSION THEN value ELSE version

HostOnly == UNCHANGED <<rx, cmd_buf, cmd_buf_idx, pc, cmd, size, asked, did>>

NothingThere ==
  /\ hpc = "ack" /\ Late
  /\ Fail(ESPSTLINK_ERROR_READ)
  /\ HostOnly /\ UNCHANGED <<tx, resp>>

ReadAck ==
  /\ hpc = "ack" /\ tx # << >>
  /\ Take(1)
  /\ hpc' = IF tx[1] = cmd[1] THEN "status" ELSE "unexpected"
  /\ HostOnly /\ UNCHANGED <<resp, result, error, version>>

(* Mutation: an error is taken for the end of the reply. *)
ReadStatusShort ==
  /\ hpc = "status" /\ tx # << >>
  /\ Take(1)
  /\ IF tx[1] = 0 /\ size = 0 THEN Succeed(<< >>)
     ELSE IF tx[1] = ByteMax THEN Fail(ESPSTLINK_ERROR_COMM)
     ELSE /\ hpc' = IF tx[1] = 0 THEN "payload" ELSE "badStatus"
          /\ UNCHANGED <<result, error, version>>
  /\ HostOnly /\ UNCHANGED resp

ReadStatus ==
  /\ hpc = "status" /\ tx # << >>
  /\ Take(1)
  /\ IF tx[1] = 0 /\ size = 0 THEN Succeed(<< >>)
     ELSE /\ hpc' = CASE tx[1] = 0 -> "payload" [] tx[1] = ByteMax -> "code" [] OTHER -> "badStatus"
          /\ UNCHANGED <<result, error, version>>
  /\ HostOnly /\ UNCHANGED resp

(* The loop asks for the whole size again each time round. *)
ReadPayload ==
  /\ hpc = "payload"
  /\ \E n \in AtMost(size) :
       /\ Take(n)
       /\ resp' = resp \o SubSeq(tx, 1, n)
       /\ IF Len(resp') < size THEN UNCHANGED <<hpc, result, error, version>>
                               ELSE Succeed(resp')
  /\ HostOnly

(* One read for the two bytes of the code. *)
ReadCode ==
  /\ hpc = "code"
  /\ \E n \in AtMost(2) :
       /\ ~SplitCodes => n = 2
       /\ Take(n)
       /\ IF n < 2 THEN Fail(ESPSTLINK_ERROR_DATA)
          ELSE /\ hpc' = "idle" /\ error' = ESPSTLINK_ERROR_COMM
               /\ result' = <<ByteMax>> \o SubSeq(tx, 1, 2)
               /\ UNCHANGED version
  /\ HostOnly /\ UNCHANGED resp

(* One more read, for the error message. *)
ReadUnexpected ==
  /\ hpc \in {"unexpected", "badStatus"}
  /\ \E n \in AtMost(IF hpc = "unexpected" THEN ByteMax ELSE ByteMax - 1) : Take(n)
  /\ Fail(ESPSTLINK_ERROR_DATA)
  /\ HostOnly /\ UNCHANGED resp

ErrorCheck ==
  \/ NothingThere \/ ReadAck \/ ReadStatus
  \/ ReadPayload \/ ReadCode \/ ReadUnexpected
-----------------------------------------------------------------------------
(* The firmware; the history variables note what it carries out. *)
Receive ==
  /\ Firmware!RecvArgument \/ Firmware!RecvLast
  /\ UNCHANGED <<host, asked, did>>

Execute ==
  /\ Firmware!Execute
  /\ asked' = IF asked = << >> THEN asked ELSE Tail(asked)
  /\ did' = SubSeq(tx', Len(tx) + 1, Len(tx'))
  /\ UNCHANGED host

Next == Calls \/ ErrorCheck \/ Receive \/ Execute

Spec == Init /\ [][Next]_vars

(* The library runs and the interpreter takes what is there. *)
LineFairness == WF_vars(ErrorCheck) /\ WF_vars(Receive)

(* The driver may be held for ever by its resends (SwimLink, CallsReturn). *)
SpecStalling == Spec /\ LineFairness
FairSpec     == SpecStalling /\ WF_vars(Execute)
-----------------------------------------------------------------------------
TypeOK ==
  /\ Firmware!TypeOK
  /\ hpc \in {"idle", "ack", "status", "payload", "code", "unexpected", "badStatus"}
  /\ cmd \in Seq(Byte) /\ size \in Nat
  /\ resp \in Seq(Byte) /\ result \in Seq(Byte)
  /\ error \in 0 .. 4
  /\ version \in {-1} \cup Nat
  /\ asked \in Seq(Seq(Byte)) /\ did \in Seq(Byte)

(* However late the answers and whatever the library makes of them, the    *)
(* interpreter's buffer and the bytes behind it are the requests, whole    *)
(* and in order, and each is served as itself: a size of more than a byte  *)
(* and a call that gave up on its answer never break the framing of the    *)
(* requests (libespstlink.c:304-317, serial.c:68-70).                      *)
Framed ==
  LET gathered == Firmware!Bytes(cmd_buf, cmd_buf_idx) IN
  /\ gathered \o rx = FlattenSeq(asked)
  /\ pc = "exec" => gathered = Head(asked)

(* The two ends are in step between calls, after successes and after       *)
(* errors of the device alike: nothing is left in either direction that    *)
(* the next call could take for its answer.                                *)
LockStep ==
  hpc = "idle" => rx = << >> /\ tx = << >> /\ pc = "recv" /\ cmd_buf_idx = 0

(* The sizes of the resp_buf arrays of the callers of error_check. *)
RespSize ==
  CASE cmd[1] = Firmware!CMD_ROTF -> 2 * (ByteMax + 1)
    [] cmd[1] = Firmware!CMD_WOTF -> Echo
    [] OTHER -> 2

(* The payload loop, which asks for size bytes at every turn, stays inside *)
(* resp_buf: in step with the firmware it finds no byte too many.          *)
ReplyFits == cmd # << >> => Len(resp) <= RespSize

(* On a line without late answers the library and the interpreter make a   *)
(* remote call: carried out once, and the reply returned is that of the    *)
(* request asked, however the reply is cut up by read().                   *)
Remote == INSTANCE RemoteCall WITH
            call <- IF hpc = "idle" THEN << >> ELSE cmd,
            did  <- IF hpc = "idle" THEN << >> ELSE did,
            told <- result

ImplementsRemoteCall == Remote!Spec

(* Every call of the library returns while the device answers.             *)
(* libespstlink.c:86 sets a "0.1 seconds read timeout", with which it would *)
(* return from a device that stalls after its acknowledgement, too.         *)
(* Refuted then: cfmakeraw (line 90) undoes the setting, read() waits.      *)
CallsReturn == hpc # "idle" ~> hpc = "idle"
=============================================================================
