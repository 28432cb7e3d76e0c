----------------------------- MODULE SerialTask -----------------------------
(***************************************************************************)
(* serial_recvTask of src/user/serial.c: the command interpreter of the    *)
(* firmware.  It takes one byte at a time from the UART into cmd_buf, a    *)
(* static buffer that also holds the answer, decides after each byte       *)
(* whether the command has all its arguments, acknowledges it, calls the   *)
(* SWIM driver and sends the reply.  cmd_buf keeps the bytes of earlier    *)
(* commands: only cmd_buf_idx is reset.                                    *)
(*                                                                         *)
(* The SWIM driver is an outcome here (any of its return codes); SwimLink  *)
(* models it.  The host is any sequence of bytes: nothing in the firmware  *)
(* frames the stream, so after a lost byte every byte may come anywhere.   *)
(***************************************************************************)
EXTENDS Integers, Sequences

CONSTANTS ByteMax,    \* 255: largest byte; codes and sizes scale with it
          AddrLen,    \* 3: address bytes in a ROTF or WOTF command
          SwimErrors, \* the driver's error codes, see SwimLink
          Durations,  \* what swim_entry returns when it succeeds
          HostBytes,  \* the bytes the host sends
          ReadBytes,  \* the bytes the target returns
          MaxRx,      \* bound: bytes in flight to the firmware
          MaxTx       \* bound: unread bytes while the host still sends

Byte == 0 .. ByteMax

ASSUME SizesAssumption ==
  /\ ByteMax \in Nat /\ ByteMax >= 5  \* the six command codes are distinct
  /\ AddrLen \in Nat
  /\ MaxRx \in Nat /\ MaxTx \in Nat

ASSUME SwimAssumption ==
  /\ SwimErrors \subseteq {-n : n \in 1 .. ByteMax}
  /\ Durations \subseteq Nat

ASSUME BytesAssumption == HostBytes \subseteq Byte /\ ReadBytes \subseteq Byte

VARIABLES rx,          \* UART RX FIFO: bytes the host sent, not yet taken
          tx,          \* bytes sent to the host, not yet read by it
          cmd_buf,     \* static uint8_t cmd_buf[1 + 4 + 255]
          cmd_buf_idx, \* static int
          pc           \* "recv": loop head; "exec": acknowledged, serving

vars == <<rx, tx, cmd_buf, cmd_buf_idx, pc>>

CMD_SRST    == 0
CMD_ROTF    == 1
CMD_WOTF    == 2
CMD_RESET   == ByteMax - 2
CMD_INIT    == ByteMax - 1
CMD_VERSION == ByteMax

Header  == 2 + AddrLen  \* command, count and address: 5 in the code
BufSize == Header + ByteMax

FIRMWARE_VERSION_MAJOR == 0
FIRMWARE_VERSION_MINOR == 2

High(code) == (code \div (ByteMax + 1)) % (ByteMax + 1)  \* code >> 8
Low(code)  == code % (ByteMax + 1)

(* The n first bytes of a buffer, as uart0_tx_buffer sends them. *)
Bytes(buf, n) == [k \in 1 .. n |-> buf[k - 1]]
-----------------------------------------------------------------------------
(* Mutation: the count is compared as if the header were a byte longer. *)
IncompleteLongWrite(buf, idx) ==
  \/ buf[0] = CMD_ROTF  /\ idx < Header
  \/ buf[0] = CMD_WOTF  /\ buf[1] # idx - Header - 1
  \/ buf[0] = CMD_RESET /\ idx < 2

(* The three tests that keep the task reading (continue). *)
Incomplete(buf, idx) ==
  \/ buf[0] = CMD_ROTF  /\ idx < Header
  \/ buf[0] = CMD_WOTF  /\ buf[1] # idx - Header
  \/ buf[0] = CMD_RESET /\ idx < 2

(* send_error: 0xFF and the negated code in two bytes. *)
ErrorReply(result) == <<ByteMax, High(-result), Low(-result)>>

(* Mutation: the command byte is kept for another attempt at a failed command. *)
FinishKeepsCommand(buf, idx, result) ==
  /\ IF result < 0
     THEN tx' = tx \o ErrorReply(result) /\ cmd_buf' = buf /\ cmd_buf_idx' = 1
     ELSE /\ cmd_buf' = [buf EXCEPT ![0] = 0]
          /\ tx' = tx \o Bytes(cmd_buf', idx)
          /\ cmd_buf_idx' = 0
  /\ pc' = "recv"
  /\ UNCHANGED rx

(* Mutation: a failed command is tried again instead of reported. *)
FinishRetries(buf, idx, result) ==
  /\ IF result < 0
     THEN cmd_buf' = buf /\ UNCHANGED <<tx, cmd_buf_idx, pc>>
     ELSE /\ cmd_buf' = [buf EXCEPT ![0] = 0]
          /\ tx' = tx \o Bytes(cmd_buf', idx)
          /\ cmd_buf_idx' = 0
          /\ pc' = "recv"
  /\ UNCHANGED rx

(* The end of the loop body: the reply, an error or the buffer's idx first *)
(* bytes behind a zero status byte, and the reset of the index.            *)
Finish(buf, idx, result) ==
  /\ IF result < 0
     THEN tx' = tx \o ErrorReply(result) /\ cmd_buf' = buf
     ELSE /\ cmd_buf' = [buf EXCEPT ![0] = 0]
          /\ tx' = tx \o Bytes(cmd_buf', idx)
  /\ cmd_buf_idx' = 0
  /\ pc' = "recv"
  /\ UNCHANGED rx

Serving(cmd) == pc = "exec" /\ cmd_buf[0] = cmd
-----------------------------------------------------------------------------
Init ==
  /\ rx = << >> /\ tx = << >>
  /\ cmd_buf = [k \in 0 .. BufSize - 1 |-> 0]
  /\ cmd_buf_idx = 0
  /\ pc = "recv"

(* READ_BYTE_FROM_SERIAL into the buffer. *)
TakeByte ==
  /\ pc = "recv" /\ rx # << >>
  /\ cmd_buf' = [cmd_buf EXCEPT ![cmd_buf_idx] = Head(rx)]
  /\ cmd_buf_idx' = cmd_buf_idx + 1
  /\ rx' = Tail(rx)

(* A byte that leaves the command incomplete. *)
RecvArgument ==
  /\ TakeByte
  /\ Incomplete(cmd_buf', cmd_buf_idx')
  /\ UNCHANGED <<tx, pc>>

(* The last byte of a command: send_ack before the command runs. *)
RecvLast ==
  /\ TakeByte
  /\ ~Incomplete(cmd_buf', cmd_buf_idx')
  /\ tx' = Append(tx, cmd_buf'[0])
  /\ pc' = "exec"

(* What the call made for the command in cmd_buf comes back with: its      *)
(* result, and the bytes a read has stored, all of them or those before it *)
(* failed.  reset and the version know no failure, an unknown command no   *)
(* success.                                                                *)
Outcomes ==
  CASE cmd_buf[0] \in {CMD_SRST, CMD_WOTF} -> [result : SwimErrors \cup {0}, data : {<< >>}]
    [] cmd_buf[0] = CMD_ROTF ->
         {out \in [result : SwimErrors \cup {0},
                   data : UNION {[1 .. n -> ReadBytes] : n \in 0 .. cmd_buf[1]}] :
            out.result = 0 => Len(out.data) = cmd_buf[1]}
    [] cmd_buf[0] = CMD_INIT -> [result : SwimErrors \cup Durations, data : {<< >>}]
    [] cmd_buf[0] \in {CMD_RESET, CMD_VERSION} -> {[result |-> 0, data |-> << >>]}
    [] OTHER -> {[result |-> -1, data |-> << >>]}

DoSrst(out) == Serving(CMD_SRST) /\ Finish(cmd_buf, cmd_buf_idx, out.result)

(* The buffer once d is stored from the place p on. *)
Stored(p, d) ==
  [k \in 0 .. BufSize - 1 |-> IF k \in p .. p + Len(d) - 1 THEN d[k - p + 1] ELSE cmd_buf[k]]

(* Mutation: a read's bytes are stored one place too far. *)
DoRotfShifted(out) ==
  /\ Serving(CMD_ROTF)
  /\ Finish(Stored(Header + 1, out.data), cmd_buf_idx + cmd_buf[1], out.result)

(* rotf fills the buffer behind the header, byte by byte until it fails. *)
DoRotf(out) ==
  /\ Serving(CMD_ROTF)
  /\ Finish(Stored(Header, out.data), cmd_buf_idx + cmd_buf[1], out.result)

(* Mutation: the reply to a write repeats its data. *)
DoWotfWhole(out) == Serving(CMD_WOTF) /\ Finish(cmd_buf, cmd_buf_idx, out.result)

DoWotf(out) == Serving(CMD_WOTF) /\ Finish(cmd_buf, Header, out.result)

(* Mutation: the duration is stored without truncating it to a byte. *)
DoInitUntruncated(out) ==
  /\ Serving(CMD_INIT)
  /\ Finish([cmd_buf EXCEPT ![cmd_buf_idx] = High(out.result),
                            ![cmd_buf_idx + 1] = out.result],
            cmd_buf_idx + 2, out.result)

DoInit(out) ==
  /\ Serving(CMD_INIT)
  /\ Finish([cmd_buf EXCEPT ![cmd_buf_idx] = High(out.result),
                            ![cmd_buf_idx + 1] = Low(out.result)],
            cmd_buf_idx + 2, out.result)

DoReset(out) == Serving(CMD_RESET) /\ Finish(cmd_buf, 1, out.result)

(* Mutation: the index is advanced past the minor version, which is left out. *)
DoVersionMajorOnly(out) ==
  /\ Serving(CMD_VERSION)
  /\ Finish([cmd_buf EXCEPT ![cmd_buf_idx] = FIRMWARE_VERSION_MAJOR],
            cmd_buf_idx + 2, out.result)

DoVersion(out) ==
  /\ Serving(CMD_VERSION)
  /\ Finish([cmd_buf EXCEPT ![cmd_buf_idx] = FIRMWARE_VERSION_MAJOR,
                            ![cmd_buf_idx + 1] = FIRMWARE_VERSION_MINOR],
            cmd_buf_idx + 2, out.result)

DoUnknown(out) ==
  /\ pc = "exec"
  /\ cmd_buf[0] \notin {CMD_SRST, CMD_ROTF, CMD_WOTF, CMD_RESET, CMD_INIT, CMD_VERSION}
  /\ Finish(cmd_buf, cmd_buf_idx, out.result)

Serve(out) ==
  \/ DoSrst(out) \/ DoRotf(out) \/ DoWotf(out) \/ DoInit(out)
  \/ DoReset(out) \/ DoVersion(out) \/ DoUnknown(out)

Execute == \E out \in Outcomes : Serve(out)

Task == RecvArgument \/ RecvLast \/ Execute

(* The host, outside this module: it sends and reads at any time. *)
HostSends ==
  /\ Len(rx) < MaxRx /\ Len(tx) <= MaxTx
  /\ \E b \in HostBytes : rx' = Append(rx, b)
  /\ UNCHANGED <<tx, cmd_buf, cmd_buf_idx, pc>>

HostReads ==
  /\ tx # << >>
  /\ tx' = << >>
  /\ UNCHANGED <<rx, cmd_buf, cmd_buf_idx, pc>>

Next == Task \/ HostSends \/ HostReads

Spec == Init /\ [][Next]_vars

(* The task runs whenever the UART has data; the host goes on sending and *)
(* reading.                                                                *)
Fairness == WF_vars(Task) /\ WF_vars(HostSends) /\ WF_vars(HostReads)

FairSpec == Spec /\ Fairness
-----------------------------------------------------------------------------
TypeOK ==
  /\ rx \in Seq(Byte)
  /\ tx \in Seq(Byte)
  /\ cmd_buf \in [0 .. BufSize - 1 -> Byte]
  /\ cmd_buf_idx \in Nat
  /\ pc \in {"recv", "exec"}

(* The bytes uart0_tx_buffer sends if the command being served succeeds. *)
ReplySize ==
  CASE cmd_buf[0] = CMD_ROTF -> cmd_buf_idx + cmd_buf[1]
    [] cmd_buf[0] = CMD_WOTF -> Header
    [] cmd_buf[0] \in {CMD_INIT, CMD_VERSION} -> cmd_buf_idx + 2
    [] OTHER -> 1

(* The unchecked cmd_buf[cmd_buf_idx++] of serial.c:64 always stores inside *)
(* the buffer, and no reply is longer than it, whatever bytes the host      *)
(* sends: the size byte of a WOTF bounds its own command because the        *)
(* equality test of line 69 cannot be stepped over.                         *)
InBounds ==
  /\ pc = "recv" => cmd_buf_idx < BufSize
  /\ pc = "exec" => cmd_buf_idx <= BufSize /\ ReplySize <= BufSize

(* No byte stream wedges the interpreter: as long as the host goes on       *)
(* sending, it comes back to the start of a command, which is all that lets *)
(* a host that has lost the framing recover.                                *)
Resynchronises == []<>(pc = "recv" /\ cmd_buf_idx = 0)
=============================================================================
