------------------------------ MODULE HostOpen ------------------------------
(***************************************************************************)
(* espstlink_open of lib/libespstlink.c: the tty at the fast rate, a flush *)
(* and a version query; when that fails, the slow rate of older firmware,  *)
(* a second flush and a second query.  error_check is that of HostLink,    *)
(* the device the interpreter of SerialTask, which may be in the middle of *)
(* a command of an earlier session and talks at a rate of its own.         *)
(*                                                                         *)
(* A byte sent at one rate and received at another is lost or is garbled.  *)
(* The line holds what the device has sent and the tty has not received:   *)
(* tcflush cannot reach it, and its bytes meet the rate of their arrival.  *)
(***************************************************************************)
EXTENDS Integers, Sequences

CONSTANTS ByteMax, AddrLen, SwimErrors, Durations, ReadBytes,  \* see SerialTask
          Garbled,   \* what a byte at the wrong rate may look like
          Leftovers  \* what an earlier session or the boot has left in the tty

VARIABLES rx, line, cmd_buf, cmd_buf_idx, pc, \* the interpreter; line is its tx
          device, \* the rate of the device
          rate,   \* the rate of the tty
          tty,    \* its input buffer
          phase,  \* how far espstlink_open is
          hpc, cmd, size, resp, result, error, version, \* error_check, see HostLink
          late,   \* history: given up on or flushed in front of bytes under way
          astray  \* history: the device took a byte of a query for an argument

interpreter == <<rx, line, cmd_buf, cmd_buf_idx, pc>>
check       == <<hpc, cmd, size, resp, result, error, version>>
vars        == <<interpreter, device, rate, tty, phase, check, late, astray>>

Dev == INSTANCE SerialTask WITH tx <- line, HostBytes <- {}, MaxRx <- 0, MaxTx <- 0

Lib == INSTANCE HostLink WITH
         tx <- tty, asked <- << >>, did <- << >>,
         Addresses <- {}, Sizes <- {}, WriteBytes <- {},
         Late <- TRUE, SplitCodes <- TRUE, MaxAsked <- 0, MaxTx <- 0

ASSUME OpenAssumption ==
  /\ ByteMax \in Nat /\ ByteMax >= 5 /\ AddrLen \in Nat
  /\ SwimErrors \subseteq {-n : n \in 1 .. ByteMax}
  /\ Durations \subseteq Nat /\ ReadBytes \subseteq Dev!Byte
  /\ Leftovers \subseteq Seq(Dev!Byte)

(* Noise does not look like the answer to a version query. *)
ASSUME GarbledAssumption == Garbled \subseteq Dev!Byte \ {Dev!CMD_VERSION}

ESPSTLINK_ERROR_SERIAL == 5

(* Bytes on their way, or an answer that is still to be sent. *)
UnderWay == line # << >> \/ rx # << >> \/ pc = "exec"
-----------------------------------------------------------------------------
(* A device between commands, or one that waits for the argument of a reset. *)
Init ==
  /\ rx = << >> /\ pc = "recv"
  /\ cmd_buf_idx \in {0, 1}
  /\ cmd_buf = [k \in 0 .. Dev!BufSize - 1 |->
                  IF k < cmd_buf_idx THEN Dev!CMD_RESET ELSE 0]
  /\ line \in Leftovers /\ tty \in Leftovers
  /\ device \in {"fast", "slow"} /\ rate \in {"fast", "slow"}
  /\ phase = "closed" /\ hpc = "idle" /\ cmd = << >> /\ size = 0 /\ resp = << >> /\ result = << >>
  /\ error = 0 /\ version = -1
  /\ late = FALSE /\ astray = FALSE

TtyFails ==
  /\ phase \in {"closed", "flushed"}
  /\ phase' = "failed" /\ error' = ESPSTLINK_ERROR_SERIAL
  /\ UNCHANGED <<interpreter, device, rate, tty, hpc, cmd, size, resp, result,
                 version, late, astray>>

Flush ==
  /\ tty' = << >>
  /\ late' = (late \/ UnderWay)

(* Mutation: the tty is set up without a flush. *)
SetUpUnflushed ==
  /\ phase = "closed"
  /\ rate' = "fast" /\ phase' = "set up"
  /\ UNCHANGED <<interpreter, device, tty, check, late, astray>>

(* From open() to the allocation of pgm. *)
SetUp ==
  /\ phase = "closed"
  /\ Flush
  /\ rate' = "fast" /\ phase' = "set up"
  /\ UNCHANGED <<interpreter, device, check, astray>>

(* The query of espstlink_fetch_version at the tty's rate. *)
Query(at) ==
  /\ rx' \in {rx \o q : q \in IF at = device THEN {<<Dev!CMD_VERSION>>}
                              ELSE {<< >>} \cup {<<b>> : b \in Garbled}}
  /\ hpc' = "ack" /\ cmd' = <<Dev!CMD_VERSION>> /\ size' = 2 /\ resp' = << >>
  /\ UNCHANGED <<line, cmd_buf, cmd_buf_idx, pc, device, tty, result, error, version,
                 late, astray>>

FirstQuery ==
  /\ phase = "set up" /\ phase' = "first"
  /\ Query(rate)
  /\ UNCHANGED rate

(* Mutation: the answer to the first query is not flushed. *)
FlushAgainNot ==
  /\ phase = "first" /\ hpc = "idle" /\ version = -1
  /\ phase' = "flushed"
  /\ UNCHANGED <<interpreter, device, rate, tty, check, late, astray>>

FlushAgain ==
  /\ phase = "first" /\ hpc = "idle" /\ version = -1
  /\ Flush
  /\ phase' = "flushed"
  /\ UNCHANGED <<interpreter, device, rate, check, astray>>

(* tcsetattr at the other rate, which keeps what has come meanwhile. *)
SecondQuery ==
  /\ phase = "flushed" /\ phase' = "second"
  /\ rate' = "slow"
  /\ Query(rate')

Opened ==
  /\ phase \in {"first", "second"} /\ hpc = "idle" /\ version # -1
  /\ phase' = "opened"
  /\ UNCHANGED <<interpreter, device, rate, tty, check, late, astray>>

Failed ==
  /\ phase = "second" /\ hpc = "idle" /\ version = -1
  /\ phase' = "failed"
  /\ UNCHANGED <<interpreter, device, rate, tty, check, late, astray>>

(* error_check, and the rest of fetch_version.  select() gives up on an     *)
(* empty tty.                                                               *)
TimesOut == hpc = "ack" /\ hpc' = "idle"

(* Mutation: no select(), the first read() waits for the answer. *)
ErrorCheckWaits ==
  /\ Lib!ErrorCheck /\ ~TimesOut
  /\ UNCHANGED <<line, device, rate, phase, late, astray>>

ErrorCheck ==
  /\ Lib!ErrorCheck
  /\ TimesOut => tty = << >>
  /\ late' = (late \/ (TimesOut /\ UnderWay))
  /\ UNCHANGED <<line, device, rate, phase, astray>>

Open ==
  \/ TtyFails \/ SetUp \/ FirstQuery \/ FlushAgain \/ SecondQuery
  \/ Opened \/ Failed \/ ErrorCheck

Interpreter ==
  /\ Dev!Task
  /\ astray' = (astray \/ (pc = "recv" /\ cmd_buf_idx > 0))
  /\ UNCHANGED <<device, rate, tty, phase, check, late>>

(* A byte comes in at the tty's rate, until the tty is closed. *)
Arrives ==
  /\ line # << >> /\ phase # "failed"
  /\ line' = Tail(line)
  /\ \E b \in IF rate = device THEN {<<Head(line)>>}
              ELSE {<< >>} \cup {<<g>> : g \in Garbled} : tty' = tty \o b
  /\ UNCHANGED <<rx, cmd_buf, cmd_buf_idx, pc, device, rate, phase, check, late, astray>>

Next == Open \/ Interpreter \/ Arrives

Spec == Init /\ [][Next]_vars

(* The library and the interpreter run on, and the line delivers.  The      *)
(* driver calls of a command left unfinished are supposed to return.        *)
FairSpec == Spec /\ WF_vars(Open) /\ WF_vars(Interpreter) /\ WF_vars(Arrives)
-----------------------------------------------------------------------------
TypeOK ==
  /\ Dev!TypeOK
  /\ device \in {"fast", "slow"} /\ rate \in {"fast", "slow"}
  /\ tty \in Seq(Dev!Byte)
  /\ phase \in {"closed", "set up", "first", "flushed", "second", "opened", "failed"}
  /\ hpc \in {"idle", "ack", "status", "payload", "code", "unexpected", "badStatus"}
  /\ cmd \in Seq(Dev!Byte) /\ size \in {0, 2}
  /\ resp \in Seq(Dev!Byte) /\ result \in Seq(Dev!Byte)
  /\ error \in 0 .. 5 /\ version \in {-1} \cup 0 .. 2
  /\ late \in BOOLEAN /\ astray \in BOOLEAN

(* A device that was opened can be talked to: the tty has its rate, its     *)
(* version is the one it sent, and nothing is left on the line, in the tty  *)
(* or in the interpreter that would be taken for a part of the next call,   *)
(* whatever an earlier session left behind (libespstlink.c:93, 103-115).    *)
(* Only a byte that was under way at a flush or a timeout can break this.   *)
OpenInStep ==
  phase = "opened" /\ ~late =>
    /\ rate = device
    /\ version = Dev!FIRMWARE_VERSION_MAJOR * (ByteMax + 1) + Dev!FIRMWARE_VERSION_MINOR
    /\ tty = << >> /\ ~UnderWay /\ cmd_buf_idx = 0

(* A read() of error_check past the first byte, which no select() guards    *)
(* and nothing will end (libespstlink.c:198, 201, 212, 227).                *)
Blocked == hpc \notin {"idle", "ack"} /\ tty = << >> /\ ~UnderWay

(* A device that answers in time is not missed, neither by an open that     *)
(* fails nor by one that never returns, but for two reasons.  It took a     *)
(* query for the argument of another command; or it is of the slow rate,    *)
(* something of the garbled first exchange came through, and the library    *)
(* waits for the rest of the unexpected data instead of trying the slow     *)
(* rate (libespstlink.c:103-119, 196-198).  What the first query stirs up   *)
(* at the wrong rate does not spoil the second.                             *)
OpenFinds ==
  ~late /\ ~astray =>
    /\ phase = "failed" => error = ESPSTLINK_ERROR_SERIAL
    /\ Blocked => phase = "first" /\ device = "slow" /\ hpc = "unexpected"

(* An open comes to an end, with a device or without, or it is in a read()  *)
(* that OpenFinds speaks of: no other wait of the library is for ever       *)
(* (libespstlink.c:169-189).                                                *)
OpenSettles == <>(phase \in {"opened", "failed"} \/ Blocked)
=============================================================================
