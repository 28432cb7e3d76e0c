--------------------------- MODULE HostOpenProofs ---------------------------
(***************************************************************************)
(* Proofs about HostOpen, for every byte width, address length, noise and  *)
(* leftovers of earlier sessions: a device that espstlink_open returns has *)
(* been heard answering its version query, and one that it reports missing *)
(* has taken a query for the argument of another command.                  *)
(***************************************************************************)
EXTENDS HostOpen, SequenceTheorems, TLAPS

(* What the interpreter keeps, as in SerialTaskProofs: an incomplete        *)
(* command while it reads, a whole one while it serves.                     *)
Partial ==
  pc = "recv" /\ cmd_buf_idx > 0 =>
    \/ cmd_buf[0] = Dev!CMD_ROTF  /\ cmd_buf_idx < Dev!Header
    \/ cmd_buf[0] = Dev!CMD_WOTF  /\ cmd_buf_idx < Dev!Header + cmd_buf[1]
    \/ cmd_buf[0] = Dev!CMD_RESET /\ cmd_buf_idx < 2

Whole ==
  pc = "exec" =>
    cmd_buf_idx = CASE cmd_buf[0] = Dev!CMD_ROTF  -> Dev!Header
                    [] cmd_buf[0] = Dev!CMD_WOTF  -> Dev!Header + cmd_buf[1]
                    [] cmd_buf[0] = Dev!CMD_RESET -> 2
                    [] OTHER -> 1

DevInv == Dev!TypeOK /\ Partial /\ Whole

(* error_check runs only after a query, and with the query's request. *)
Checking ==
  hpc # "idle" => phase \in {"first", "second"} /\ cmd = <<Dev!CMD_VERSION>> /\ size = 2

(* The version is found by a query, and the next phase knows of it. *)
Unopened == phase \in {"closed", "set up", "flushed"} => version = -1

(* Nothing moves: no byte on its way to or from the device, none in the tty. *)
Quiet == tty = << >> /\ ~UnderWay

(* The device's answer to a query: acknowledgement, status and version. *)
Answer(i) == CASE i = 1 -> Dev!CMD_VERSION
               [] i = 4 -> Dev!FIRMWARE_VERSION_MINOR
               [] OTHER -> 0

(* A sequence that is the part of the answer behind its h first bytes. *)
Says(s, h) == \A i \in 1 .. Len(s) : s[i] = Answer(h + i)

(* How much of it the device has sent and error_check has taken. *)
Sent == IF pc = "exec" THEN 1 ELSE IF rx # << >> THEN 0 ELSE 4

Heard == CASE hpc = "ack"     -> 0
           [] hpc = "status"  -> 1
           [] hpc = "payload" -> 2 + Len(resp)
           [] OTHER           -> 4

(* The device answers the query: what is under way is the answer's middle. *)
Answering ==
  /\ rate = device
  /\ \/ pc = "recv" /\ rx = <<Dev!CMD_VERSION>> /\ cmd_buf_idx = 0
     \/ pc = "exec" /\ rx = << >> /\ cmd_buf[0] = Dev!CMD_VERSION
     \/ pc = "recv" /\ rx = << >> /\ cmd_buf_idx = 0
  /\ \/ hpc \in {"ack", "status"} /\ version = -1 /\ resp = << >>
     \/ hpc = "payload" /\ version = -1 /\ (resp = << >> \/ resp = <<0>>)
     \/ hpc = "idle" /\ version = Dev!FIRMWARE_VERSION_MINOR
  /\ Heard + Len(tty) + Len(line) = Sent
  /\ Says(tty, Heard) /\ Says(line, Heard + Len(tty))

(* The device takes the query for an argument and answers the command that *)
(* was waiting for it, if it answers.                                      *)
Missed ==
  /\ rate = device /\ version = -1 /\ hpc \in {"ack", "unexpected", "idle"}
  /\ \/ /\ hpc = "ack" /\ pc = "recv" /\ rx # << >> /\ cmd_buf_idx > 0
        /\ Len(rx) = 1 /\ line = << >> /\ tty = << >>
     \/ /\ astray /\ rx = << >>
        /\ hpc = "ack" => \/ tty # << >> /\ tty[1] # Dev!CMD_VERSION
                          \/ tty = << >> /\ line # << >> /\ line[1] # Dev!CMD_VERSION
                          \/ tty = << >> /\ line = << >> /\ pc = "recv"

(* The query and what comes back are noise. *)
Deaf ==
  /\ rate # device /\ version = -1 /\ hpc \in {"ack", "unexpected", "idle"}
  /\ \A i \in 1 .. Len(tty) : tty[i] # Dev!CMD_VERSION

Trying == Answering \/ Missed \/ Deaf

(* How far an open has come whose bytes were all in time. *)
Stage ==
  /\ phase = "set up"  => Quiet /\ rate = "fast"
  /\ phase = "first"   => rate = "fast" /\ Trying
  /\ phase = "flushed" => Quiet /\ (device = "fast" => astray)
  /\ phase = "second"  => /\ rate = "slow" /\ Trying
                          /\ device = "fast" => astray
  /\ phase = "opened"  => /\ rate = device /\ Quiet /\ cmd_buf_idx = 0
                          /\ version = Dev!FIRMWARE_VERSION_MINOR
  /\ phase = "failed"  => hpc = "idle" /\ (astray \/ error = ESPSTLINK_ERROR_SERIAL)

(* The inductive invariant. *)
IInv ==
  /\ TypeOK /\ DevInv /\ Checking /\ Unopened
  /\ phase = "closed" => rx = << >> /\ pc = "recv"
  /\ late \/ Stage
(* The end of a command: one reply on the line, and back to the loop head. *)
Replies ==
  /\ pc' = "recv" /\ cmd_buf_idx' = 0 /\ rx' = rx
  /\ \E a \in Seq(Dev!Byte) : line' = line \o a
-----------------------------------------------------------------------------
LEMMA Codes ==
  /\ Dev!CMD_SRST \in Dev!Byte /\ Dev!CMD_ROTF \in Dev!Byte /\ Dev!CMD_WOTF \in Dev!Byte
  /\ Dev!CMD_RESET \in Dev!Byte /\ Dev!CMD_INIT \in Dev!Byte /\ Dev!CMD_VERSION \in Dev!Byte
  /\ Dev!CMD_WOTF # Dev!CMD_ROTF /\ Dev!CMD_RESET \notin {Dev!CMD_ROTF, Dev!CMD_WOTF}
  /\ {Dev!CMD_INIT, Dev!CMD_VERSION} \cap {Dev!CMD_ROTF, Dev!CMD_WOTF, Dev!CMD_RESET} = {}
  /\ Dev!Header \in Nat /\ Dev!Header >= 2
  /\ Dev!BufSize \in Nat /\ Dev!BufSize >= 7 /\ Dev!BufSize = Dev!Header + ByteMax
  /\ 0 \in 0 .. Dev!BufSize - 1 /\ 1 \in 0 .. Dev!BufSize - 1
BY OpenAssumption
DEF Dev!CMD_SRST, Dev!CMD_ROTF, Dev!CMD_WOTF, Dev!CMD_RESET, Dev!CMD_INIT, Dev!CMD_VERSION, Dev!Byte, Dev!Header, Dev!BufSize

(* Every prefix of the buffer is a sequence of bytes of the length asked for. *)
LEMMA BytesType ==
  ASSUME NEW buf \in [0 .. Dev!BufSize - 1 -> Dev!Byte], NEW n \in 0 .. Dev!BufSize
  PROVE  Dev!Bytes(buf, n) \in Seq(Dev!Byte) /\ Len(Dev!Bytes(buf, n)) = n
<1>1. \A k \in 1 .. n : k - 1 \in 0 .. Dev!BufSize - 1
  BY Codes
<1>2. Dev!Bytes(buf, n) \in [1 .. n -> Dev!Byte]
  BY <1>1 DEF Dev!Bytes
<1> QED
  BY <1>2

(* The two bytes of a number are bytes. *)
LEMMA HighLow ==
  ASSUME NEW n \in Int
  PROVE  Dev!High(n) \in Dev!Byte /\ Dev!Low(n) \in Dev!Byte
<1>1. ByteMax + 1 \in Nat /\ ByteMax + 1 > 0
  BY OpenAssumption
<1>2. n \div (ByteMax + 1) \in Int
  BY <1>1
<1>3. /\ n % (ByteMax + 1) \in 0 .. ByteMax
      /\ (n \div (ByteMax + 1)) % (ByteMax + 1) \in 0 .. ByteMax
  BY <1>1, <1>2, OpenAssumption
<1> QED
  BY <1>3 DEF Dev!High, Dev!Low, Dev!Byte

(* An error code leaves as three bytes. *)
LEMMA ErrorReplyType ==
  ASSUME NEW res \in Int
  PROVE  Dev!ErrorReply(res) \in Seq(Dev!Byte)
<1>1. Dev!High(-res) \in Dev!Byte /\ Dev!Low(-res) \in Dev!Byte
  BY HighLow
<1>2. ByteMax \in Dev!Byte
  BY OpenAssumption DEF Dev!Byte
<1> QED
  BY <1>1, <1>2 DEF Dev!ErrorReply

(* Whatever the command did, the end of the loop body restores the         *)
(* invariant: this is where cmd_buf_idx goes back to zero.                 *)
LEMMA FinishInv ==
  ASSUME Dev!TypeOK,
         NEW buf \in [0 .. Dev!BufSize - 1 -> Dev!Byte],
         NEW idx \in 0 .. Dev!BufSize,
         NEW res \in Int,
         Dev!Finish(buf, idx, res)
  PROVE  DevInv' /\ Replies
<1>1. cmd_buf' \in [0 .. Dev!BufSize - 1 -> Dev!Byte]
  BY Codes, OpenAssumption DEF Dev!Finish, Dev!Byte
<1>2. PICK a \in Seq(Dev!Byte) : line' = line \o a
  <2>1. CASE res < 0
    <3>1. line' = line \o Dev!ErrorReply(res)
      BY <2>1 DEF Dev!Finish
    <3> QED
      BY <3>1, ErrorReplyType
  <2>2. CASE ~(res < 0)
    <3>1. line' = line \o Dev!Bytes(cmd_buf', idx)
      BY <2>2 DEF Dev!Finish
    <3>2. Dev!Bytes(cmd_buf', idx) \in Seq(Dev!Byte)
      BY <1>1, BytesType
    <3> QED
      BY <3>1, <3>2
  <2> QED
    BY <2>1, <2>2
<1>3. rx' = rx /\ cmd_buf_idx' = 0 /\ pc' = "recv"
  BY DEF Dev!Finish
<1>4. line' \in Seq(Dev!Byte)
  BY <1>2, ConcatProperties DEF Dev!TypeOK
<1>5. DevInv'
  BY <1>1, <1>3, <1>4 DEF DevInv, Dev!TypeOK, Partial, Whole
<1> QED
  BY <1>2, <1>3, <1>5 DEF Replies

-----------------------------------------------------------------------------
(* The index is inside the buffer whenever the invariant holds. *)
LEMMA Bounds == DevInv => Dev!InBounds
<1> SUFFICES ASSUME DevInv PROVE Dev!InBounds
  OBVIOUS
<1>1. cmd_buf[0] \in 0 .. ByteMax /\ cmd_buf[1] \in 0 .. ByteMax
  BY Codes, OpenAssumption DEF DevInv, Dev!TypeOK, Dev!Byte
<1>2. pc = "recv" => cmd_buf_idx < Dev!BufSize
  BY <1>1, Codes, OpenAssumption DEF DevInv, Dev!TypeOK, Partial
<1>3. ASSUME pc = "exec"
      PROVE  cmd_buf_idx <= Dev!BufSize /\ Dev!ReplySize <= Dev!BufSize
  <2>1. CASE cmd_buf[0] = Dev!CMD_ROTF
    <3>1. cmd_buf_idx = Dev!Header /\ Dev!ReplySize = cmd_buf_idx + cmd_buf[1]
      BY <1>3, <2>1, Codes DEF DevInv, Whole, Dev!ReplySize
    <3> QED
      BY <3>1, <1>1, Codes, OpenAssumption
  <2>2. CASE cmd_buf[0] = Dev!CMD_WOTF
    <3>1. cmd_buf_idx = Dev!Header + cmd_buf[1] /\ Dev!ReplySize = Dev!Header
      BY <1>3, <2>2, Codes DEF DevInv, Whole, Dev!ReplySize
    <3> QED
      BY <3>1, <1>1, Codes, OpenAssumption
  <2>3. CASE cmd_buf[0] \notin {Dev!CMD_ROTF, Dev!CMD_WOTF}
    <3>1. cmd_buf_idx \in 1 .. 2
      BY <1>3, <2>3 DEF DevInv, Whole
    <3>2. Dev!ReplySize \in {1, cmd_buf_idx + 2}
      BY <2>3 DEF Dev!ReplySize
    <3> QED
      BY <3>1, <3>2, Codes
  <2> QED
    BY <2>1, <2>2, <2>3
<1> QED
  BY <1>2, <1>3 DEF Dev!InBounds

(* Storing a byte keeps the buffer typed. *)
LEMMA TakeByteType ==
  ASSUME DevInv, Dev!TakeByte
  PROVE  /\ rx' \in Seq(Dev!Byte)
         /\ Head(rx) \in Dev!Byte
         /\ cmd_buf' \in [0 .. Dev!BufSize - 1 -> Dev!Byte]
         /\ cmd_buf_idx' = cmd_buf_idx + 1
         /\ cmd_buf_idx \in 0 .. Dev!BufSize - 1
         /\ cmd_buf'[cmd_buf_idx] = Head(rx)
         /\ cmd_buf_idx > 0 => cmd_buf'[0] = cmd_buf[0]
         /\ cmd_buf_idx > 1 => cmd_buf'[1] = cmd_buf[1]
<1>1. cmd_buf_idx \in 0 .. Dev!BufSize - 1
  BY Bounds, Codes DEF DevInv, Dev!TypeOK, Dev!InBounds, Dev!TakeByte
<1>2. rx \in Seq(Dev!Byte) /\ rx # << >>
  BY DEF DevInv, Dev!TypeOK, Dev!TakeByte
<1>3. Head(rx) \in Dev!Byte /\ Tail(rx) \in Seq(Dev!Byte)
  BY <1>2
<1> QED
  BY <1>1, <1>3, Codes DEF DevInv, Dev!TypeOK, Dev!TakeByte

LEMMA RecvArgumentInv ==
  ASSUME DevInv, Dev!RecvArgument
  PROVE  DevInv'
<1>1. Dev!TakeByte /\ Dev!Incomplete(cmd_buf', cmd_buf_idx') /\ line' = line /\ pc' = pc /\ pc = "recv"
  BY DEF Dev!RecvArgument, Dev!TakeByte
<1>2. Dev!TypeOK'
  BY <1>1, TakeByteType DEF DevInv, Dev!TypeOK
<1>3. cmd_buf'[0] \in 0 .. ByteMax /\ cmd_buf'[1] \in 0 .. ByteMax
  BY <1>1, TakeByteType, Codes DEF Dev!Byte
<1>4. cmd_buf'[0] = Dev!CMD_WOTF => cmd_buf_idx' < Dev!Header + cmd_buf'[1]
  <2> SUFFICES ASSUME cmd_buf'[0] = Dev!CMD_WOTF
               PROVE  cmd_buf_idx' < Dev!Header + cmd_buf'[1]
    OBVIOUS
  <2>1. cmd_buf'[1] # cmd_buf_idx' - Dev!Header
    BY <1>1, Codes DEF Dev!Incomplete
  <2>2. CASE cmd_buf_idx <= 1
    <3>1. cmd_buf_idx \in Nat /\ cmd_buf_idx' = cmd_buf_idx + 1
      BY <1>1, TakeByteType, Codes
    <3>2. cmd_buf'[1] \in Nat /\ Dev!Header \in Nat /\ Dev!Header >= 2
      BY <1>3, Codes, OpenAssumption
    <3> QED
      BY <3>1, <3>2, <2>1, <2>2
  <2>3. CASE cmd_buf_idx > 1
    <3>1. /\ cmd_buf_idx \in Nat /\ cmd_buf_idx' = cmd_buf_idx + 1
          /\ cmd_buf'[0] = cmd_buf[0] /\ cmd_buf'[1] = cmd_buf[1]
      BY <1>1, <2>3, TakeByteType, Codes
    <3>2. cmd_buf_idx < Dev!Header + cmd_buf[1]
      BY <1>1, <2>3, <3>1, Codes DEF DevInv, Partial
    <3>3. cmd_buf[1] \in Nat /\ cmd_buf[1] # (cmd_buf_idx + 1) - Dev!Header
      BY <1>3, <2>1, <3>1, OpenAssumption
    <3> QED
      BY <3>1, <3>2, <3>3, Codes
  <2> QED
    BY <2>2, <2>3, <1>1, TakeByteType
<1>5. Partial'
  BY <1>1, <1>4 DEF Partial, Dev!Incomplete
<1> QED
  BY <1>1, <1>2, <1>5 DEF DevInv, Whole

LEMMA RecvLastInv ==
  ASSUME DevInv, Dev!RecvLast
  PROVE  DevInv'
<1>1. Dev!TakeByte /\ ~Dev!Incomplete(cmd_buf', cmd_buf_idx') /\ pc' = "exec" /\ pc = "recv"
  BY DEF Dev!RecvLast, Dev!TakeByte
<1>2. cmd_buf'[0] \in Dev!Byte /\ line' \in Seq(Dev!Byte)
  <2>1. cmd_buf'[0] \in Dev!Byte
    BY <1>1, TakeByteType, Codes
  <2> QED
    BY <2>1, AppendProperties DEF Dev!RecvLast, DevInv, Dev!TypeOK
<1>3. Dev!TypeOK'
  <2>1. cmd_buf' \in [0 .. Dev!BufSize - 1 -> Dev!Byte] /\ rx' \in Seq(Dev!Byte)
    BY <1>1, TakeByteType
  <2>2. cmd_buf_idx' \in Nat
    BY <1>1, TakeByteType, Codes
  <2> QED
    BY <1>1, <1>2, <2>1, <2>2 DEF Dev!TypeOK
<1>4. cmd_buf'[0] \in 0 .. ByteMax /\ cmd_buf'[1] \in 0 .. ByteMax
  <2>1. cmd_buf' \in [0 .. Dev!BufSize - 1 -> Dev!Byte]
    BY <1>3 DEF Dev!TypeOK
  <2>2. 0 \in 0 .. Dev!BufSize - 1 /\ 1 \in 0 .. Dev!BufSize - 1
    BY Codes
  <2> QED
    BY <2>1, <2>2 DEF Dev!Byte
<1>5. Whole'
  <2>1. CASE cmd_buf_idx = 0
    <3>1. cmd_buf_idx' = 1
      BY <1>1, <2>1, TakeByteType
    <3>2. ~Dev!Incomplete(cmd_buf', 1)
      BY <1>1, <3>1
    <3> QED
      BY <3>1, <3>2, <1>4, Codes, OpenAssumption DEF Whole, Dev!Incomplete
  <2>2. CASE cmd_buf_idx > 0
    <3>1. cmd_buf_idx \in Nat /\ cmd_buf_idx' = cmd_buf_idx + 1 /\ cmd_buf'[0] = cmd_buf[0]
      BY <2>2, <1>1, TakeByteType, Codes
    <3>2. CASE cmd_buf[0] = Dev!CMD_ROTF
      <4>1. cmd_buf_idx < Dev!Header /\ ~(cmd_buf_idx' < Dev!Header)
        BY <3>1, <3>2, <2>2, <1>1, Codes DEF Dev!Incomplete, DevInv, Partial
      <4>2. cmd_buf_idx' = Dev!Header
        BY <4>1, <3>1, Codes
      <4> QED
        BY <4>2, <3>1, <3>2, Codes DEF Whole
    <3>3. CASE cmd_buf[0] = Dev!CMD_WOTF
      <4>1. cmd_buf'[1] = cmd_buf_idx' - Dev!Header
        BY <3>1, <3>3, <1>1, Codes DEF Dev!Incomplete
      <4>2. cmd_buf_idx' = Dev!Header + cmd_buf'[1]
        BY <4>1, <3>1, <1>4, Codes
      <4> QED
        BY <4>2, <3>1, <3>3, Codes DEF Whole
    <3>4. CASE cmd_buf[0] = Dev!CMD_RESET
      <4>1. cmd_buf_idx < 2 /\ ~(cmd_buf_idx' < 2)
        BY <3>1, <3>4, <2>2, <1>1, Codes DEF Dev!Incomplete, DevInv, Partial
      <4>2. cmd_buf_idx' = 2
        BY <4>1, <3>1
      <4> QED
        BY <4>2, <3>1, <3>4, Codes DEF Whole
    <3> QED
      BY <3>2, <3>3, <3>4, <2>2, <1>1 DEF DevInv, Partial
  <2> QED
    BY <2>1, <2>2, <1>1, TakeByteType
<1> QED
  BY <1>1, <1>3, <1>5 DEF DevInv, Partial

LEMMA CodesDiffer ==
  /\ Dev!CMD_SRST \notin {Dev!CMD_ROTF, Dev!CMD_WOTF, Dev!CMD_RESET, Dev!CMD_INIT, Dev!CMD_VERSION}
  /\ Dev!CMD_ROTF \notin {Dev!CMD_WOTF, Dev!CMD_RESET, Dev!CMD_INIT, Dev!CMD_VERSION}
  /\ Dev!CMD_WOTF \notin {Dev!CMD_RESET, Dev!CMD_INIT, Dev!CMD_VERSION}
  /\ Dev!CMD_RESET \notin {Dev!CMD_INIT, Dev!CMD_VERSION}
  /\ Dev!CMD_INIT # Dev!CMD_VERSION
BY OpenAssumption DEF Dev!CMD_SRST, Dev!CMD_ROTF, Dev!CMD_WOTF, Dev!CMD_RESET, Dev!CMD_INIT,
   Dev!CMD_VERSION

(* What an outcome of the driver can be. *)
LEMMA OutcomeIs ==
  ASSUME NEW out \in Dev!Outcomes
  PROVE  /\ out.result \in Int
         /\ cmd_buf[0] \in {Dev!CMD_RESET, Dev!CMD_VERSION} => out.result = 0
         /\ cmd_buf[0] = Dev!CMD_ROTF => \E n \in 0 .. cmd_buf[1] : out.data \in [1 .. n -> ReadBytes]
<1>0. \A r \in SwimErrors \cup Durations \cup {0, -1} : r \in Int
  <2>1. \A n \in 1 .. ByteMax : -n \in Int
    BY OpenAssumption
  <2>2. \A r \in SwimErrors : r \in Int
    BY <2>1, OpenAssumption
  <2>3. \A r \in Durations : r \in Int
    BY OpenAssumption
  <2> QED
    BY <2>2, <2>3
<1>1. CASE cmd_buf[0] \in {Dev!CMD_SRST, Dev!CMD_WOTF}
  <2>1. out \in [result : SwimErrors \cup {0}, data : {<< >>}]
    BY <1>1, CodesDiffer DEF Dev!Outcomes
  <2> QED
    BY <1>0, <1>1, <2>1, CodesDiffer
<1>2. CASE cmd_buf[0] = Dev!CMD_ROTF
  <2>1. out \in [result : SwimErrors \cup {0},
                data : UNION {[1 .. n -> ReadBytes] : n \in 0 .. cmd_buf[1]}]
    BY <1>2, CodesDiffer DEF Dev!Outcomes
  <2> QED
    BY <1>0, <1>2, <2>1, CodesDiffer
<1>3. CASE cmd_buf[0] = Dev!CMD_INIT
  <2>1. out \in [result : SwimErrors \cup Durations, data : {<< >>}]
    BY <1>3, CodesDiffer DEF Dev!Outcomes
  <2> QED
    BY <1>0, <1>3, <2>1, CodesDiffer
<1>4. CASE cmd_buf[0] \in {Dev!CMD_RESET, Dev!CMD_VERSION}
  <2>1. out = [result |-> 0, data |-> << >>]
    BY <1>4, CodesDiffer DEF Dev!Outcomes
  <2> QED
    BY <1>4, <2>1, CodesDiffer
<1>5. CASE cmd_buf[0] \notin {Dev!CMD_SRST, Dev!CMD_ROTF, Dev!CMD_WOTF, Dev!CMD_RESET,
                             Dev!CMD_INIT, Dev!CMD_VERSION}
  <2>1. out = [result |-> -1, data |-> << >>]
    BY <1>5 DEF Dev!Outcomes
  <2> QED
    BY <1>0, <1>5, <2>1
<1> QED
  BY <1>1, <1>2, <1>3, <1>4, <1>5

(* The buffer with a read's bytes in it. *)
LEMMA StoredType ==
  ASSUME NEW out \in Dev!Outcomes, cmd_buf[0] = Dev!CMD_ROTF,
         cmd_buf \in [0 .. Dev!BufSize - 1 -> Dev!Byte], cmd_buf[1] \in 0 .. ByteMax
  PROVE  Dev!Stored(Dev!Header, out.data) \in [0 .. Dev!BufSize - 1 -> Dev!Byte]
<1>1. PICK n \in 0 .. cmd_buf[1] : out.data \in [1 .. n -> ReadBytes]
  BY OutcomeIs
<1>2. /\ Len(out.data) = n /\ n \in Nat
      /\ \A k \in 1 .. n : out.data[k] \in Dev!Byte
  <2>1. n \in Nat
    OBVIOUS
  <2>2. \A k \in 1 .. n : out.data[k] \in ReadBytes
    BY <1>1
  <2>3. ReadBytes \subseteq Dev!Byte
    BY OpenAssumption DEF Dev!Byte
  <2>4. out.data \in Seq(ReadBytes) /\ Len(out.data) = n
    BY <1>1, <2>1
  <2> QED
    BY <2>1, <2>2, <2>3, <2>4
<1>3. Dev!Header \in Nat /\ Dev!BufSize \in Nat
  BY Codes
<1>4. \A k \in 0 .. Dev!BufSize - 1 :
        k \in Dev!Header .. Dev!Header + n - 1 => k - Dev!Header + 1 \in 1 .. n
  BY <1>2, <1>3
<1>5. Dev!Stored(Dev!Header, out.data) =
        [k \in 0 .. Dev!BufSize - 1 |->
           IF k \in Dev!Header .. Dev!Header + n - 1 THEN out.data[k - Dev!Header + 1] ELSE cmd_buf[k]]
  BY <1>2 DEF Dev!Stored
<1> QED
  BY <1>2, <1>4, <1>5

(* Every command ends in Finish with a well-typed buffer. *)
LEMMA ExecuteInv ==
  ASSUME DevInv, Dev!Execute
  PROVE  DevInv' /\ Replies
<1>0. PICK out \in Dev!Outcomes : Dev!Serve(out)
  BY DEF Dev!Execute
<1>1. pc = "exec" /\ Dev!TypeOK
  BY <1>0 DEF Dev!Serve, Dev!Serving, Dev!DoSrst, Dev!DoRotf, Dev!DoWotf, Dev!DoInit, Dev!DoReset, Dev!DoVersion, Dev!DoUnknown, DevInv
<1>2. /\ cmd_buf_idx \in 0 .. Dev!BufSize
      /\ cmd_buf \in [0 .. Dev!BufSize - 1 -> Dev!Byte]
      /\ cmd_buf[1] \in 0 .. ByteMax
  <2>1. cmd_buf_idx \in Nat /\ cmd_buf_idx <= Dev!BufSize
    BY <1>1, Bounds DEF Dev!TypeOK, Dev!InBounds
  <2> QED
    <3>1. cmd_buf \in [0 .. Dev!BufSize - 1 -> Dev!Byte]
      BY <1>1 DEF Dev!TypeOK
    <3>2. cmd_buf[1] \in 0 .. ByteMax
      BY <3>1, Codes DEF Dev!Byte
    <3>3. cmd_buf_idx \in 0 .. Dev!BufSize
      BY <2>1, Codes
    <3> QED
      BY <3>1, <3>2, <3>3
<1>3. out.result \in Int
  BY OutcomeIs
<1>4. CASE Dev!DoSrst(out)
  BY <1>1, <1>2, <1>3, <1>4, FinishInv DEF Dev!DoSrst
<1>5. CASE Dev!DoRotf(out)
  <2>1. Dev!Finish(Dev!Stored(Dev!Header, out.data), cmd_buf_idx + cmd_buf[1], out.result)
    BY <1>5 DEF Dev!DoRotf
  <2>2. cmd_buf[0] = Dev!CMD_ROTF
    BY <1>5 DEF Dev!DoRotf, Dev!Serving
  <2>3. Dev!Stored(Dev!Header, out.data) \in [0 .. Dev!BufSize - 1 -> Dev!Byte]
    BY <1>2, <2>2, StoredType
  <2>4. cmd_buf_idx + cmd_buf[1] \in 0 .. Dev!BufSize
    <3>1. cmd_buf_idx = Dev!Header
      BY <1>1, <1>5, Codes DEF Dev!DoRotf, Dev!Serving, DevInv, Whole
    <3> QED
      BY <3>1, <1>2, Codes, OpenAssumption
  <2> QED
    BY <2>1, <2>3, <2>4, <1>1, <1>3, FinishInv
<1>6. CASE Dev!DoWotf(out)
  BY <1>1, <1>2, <1>3, <1>6, FinishInv, Codes, OpenAssumption DEF Dev!DoWotf
<1>7. CASE Dev!DoInit(out)
  <2>0. cmd_buf_idx = 1
    BY <1>1, <1>7, Codes DEF Dev!DoInit, Dev!Serving, DevInv, Whole
  <2>1. cmd_buf_idx + 2 \in 0 .. Dev!BufSize
    BY <2>0, Codes
  <2>2. Dev!Finish([cmd_buf EXCEPT ![cmd_buf_idx] = Dev!High(out.result),
                                   ![cmd_buf_idx + 1] = Dev!Low(out.result)],
                   cmd_buf_idx + 2, out.result)
    BY <1>7 DEF Dev!DoInit
  <2>3. [cmd_buf EXCEPT ![cmd_buf_idx] = Dev!High(out.result), ![cmd_buf_idx + 1] = Dev!Low(out.result)]
          \in [0 .. Dev!BufSize - 1 -> Dev!Byte]
    BY <1>2, <1>3, HighLow
  <2> QED
    BY <2>1, <2>2, <2>3, <1>1, <1>3, FinishInv
<1>8. CASE Dev!DoReset(out)
  BY <1>1, <1>2, <1>3, <1>8, FinishInv, Codes DEF Dev!DoReset
<1>9. CASE Dev!DoVersion(out)
  <2> DEFINE buf == [cmd_buf EXCEPT ![cmd_buf_idx] = Dev!FIRMWARE_VERSION_MAJOR,
                                    ![cmd_buf_idx + 1] = Dev!FIRMWARE_VERSION_MINOR]
  <2>1. cmd_buf_idx = 1
    BY <1>1, <1>9, Codes DEF Dev!DoVersion, Dev!Serving, DevInv, Whole
  <2>2. cmd_buf_idx + 2 \in 0 .. Dev!BufSize
    BY <2>1, Codes
  <2>3. Dev!FIRMWARE_VERSION_MAJOR \in Dev!Byte /\ Dev!FIRMWARE_VERSION_MINOR \in Dev!Byte
    BY OpenAssumption DEF Dev!Byte, Dev!FIRMWARE_VERSION_MAJOR, Dev!FIRMWARE_VERSION_MINOR
  <2>4. buf \in [0 .. Dev!BufSize - 1 -> Dev!Byte]
    BY <2>3, <1>2
  <2>5. Dev!Finish(buf, cmd_buf_idx + 2, out.result)
    BY <1>9 DEF Dev!DoVersion
  <2> HIDE DEF buf
  <2> QED
    BY <2>2, <2>4, <2>5, <1>1, <1>3, FinishInv
<1>10. CASE Dev!DoUnknown(out)
  BY <1>1, <1>2, <1>3, <1>10, FinishInv DEF Dev!DoUnknown
<1> QED
  BY <1>0, <1>4, <1>5, <1>6, <1>7, <1>8, <1>9, <1>10 DEF Dev!Serve
-----------------------------------------------------------------------------
LEMMA VersionCode ==
  /\ Dev!CMD_VERSION \in Dev!Byte /\ Lib!Firmware!CMD_VERSION = Dev!CMD_VERSION
  /\ Dev!CMD_VERSION \notin {Dev!CMD_SRST, Dev!CMD_ROTF, Dev!CMD_WOTF, Dev!CMD_RESET, Dev!CMD_INIT}
  /\ Dev!CMD_VERSION # 0 /\ 0 \in Dev!Byte
  /\ Dev!FIRMWARE_VERSION_MAJOR = 0 /\ Dev!FIRMWARE_VERSION_MINOR = 2 /\ 2 \in Dev!Byte
BY OpenAssumption DEF Dev!CMD_SRST, Dev!CMD_ROTF, Dev!CMD_WOTF, Dev!CMD_RESET, Dev!CMD_INIT,
   Dev!CMD_VERSION, Dev!Byte, Lib!Firmware!CMD_VERSION, Dev!FIRMWARE_VERSION_MAJOR,
   Dev!FIRMWARE_VERSION_MINOR

LEMMA AnswerIs ==
  Answer(1) = Dev!CMD_VERSION /\ Answer(2) = 0 /\ Answer(3) = 0 /\ Answer(4) = 2
BY VersionCode DEF Answer

(* The reply to a version query. *)
LEMMA VersionReply ==
  ASSUME DevInv, Dev!Execute, cmd_buf[0] = Dev!CMD_VERSION
  PROVE  \E a \in Seq(Dev!Byte) : line' = line \o a /\ Len(a) = 3 /\ Says(a, 1)
<1>0. PICK out \in Dev!Outcomes : Dev!Serve(out)
  BY DEF Dev!Execute
<1>1. Dev!DoVersion(out) /\ out.result = 0
  BY <1>0, OutcomeIs, VersionCode DEF Dev!Serve, Dev!DoSrst, Dev!DoRotf, Dev!DoWotf, Dev!DoInit, Dev!DoReset,
     Dev!DoUnknown, Dev!Serving
<1>2. pc = "exec" /\ cmd_buf \in [0 .. Dev!BufSize - 1 -> Dev!Byte]
  BY <1>1 DEF Dev!DoVersion, Dev!Serving, DevInv, Dev!TypeOK
<1>3. cmd_buf_idx = 1
  BY <1>2, VersionCode DEF DevInv, Whole
<1> DEFINE buf == [cmd_buf EXCEPT ![1] = 0, ![2] = 2]
           a   == Dev!Bytes(cmd_buf', 3)
<1>4. cmd_buf' = [buf EXCEPT ![0] = 0] /\ line' = line \o a
  <2>1. 1 + 1 = 2 /\ 1 + 2 = 3 /\ ~(0 < 0)
    OBVIOUS
  <2>2. Dev!Finish(buf, 3, 0)
    BY <1>1, <1>3, <2>1, VersionCode DEF Dev!DoVersion
  <2> QED
    BY <2>1, <2>2 DEF Dev!Finish
<1>5. {0, 1, 2} \subseteq 0 .. Dev!BufSize - 1 /\ 3 \in 0 .. Dev!BufSize
  BY Codes
<1>6. /\ cmd_buf' \in [0 .. Dev!BufSize - 1 -> Dev!Byte]
      /\ cmd_buf'[0] = 0 /\ cmd_buf'[1] = 0 /\ cmd_buf'[2] = 2
  BY <1>2, <1>4, <1>5, VersionCode
<1>7. a \in Seq(Dev!Byte) /\ Len(a) = 3
  BY <1>5, <1>6, BytesType
<1>8. a[1] = 0 /\ a[2] = 0 /\ a[3] = 2
  BY <1>6 DEF Dev!Bytes
<1> HIDE DEF a
<1>9. \A i \in 1 .. Len(a) : a[i] = Answer(1 + i)
  <2>1. ASSUME NEW i \in 1 .. 3 PROVE i = 1 \/ i = 2 \/ i = 3
    OBVIOUS
  <2>2. 1 + 1 = 2 /\ 1 + 2 = 3 /\ 1 + 3 = 4
    OBVIOUS
  <2> QED
    BY <1>7, <1>8, <2>1, <2>2, AnswerIs
<1> QED
  BY <1>4, <1>7, <1>9 DEF Says

(* Parts of the answer: one behind the other, and one without its head. *)
LEMMA SaysMore ==
  ASSUME NEW s \in Seq(Dev!Byte), NEW a \in Seq(Dev!Byte), NEW h \in Nat,
         Says(s, h), Says(a, h + Len(s))
  PROVE  /\ s \o a \in Seq(Dev!Byte) /\ Len(s \o a) = Len(s) + Len(a)
         /\ Says(s \o a, h)
<1>1. /\ s \o a \in Seq(Dev!Byte) /\ Len(s \o a) = Len(s) + Len(a)
      /\ Len(s) \in Nat /\ Len(a) \in Nat
      /\ \A i \in 1 .. Len(s) + Len(a) :
           (s \o a)[i] = IF i <= Len(s) THEN s[i] ELSE a[i - Len(s)]
  BY ConcatProperties, LenProperties
<1>2. ASSUME NEW i \in 1 .. Len(s) + Len(a) PROVE (s \o a)[i] = Answer(h + i)
  <2>1. CASE i <= Len(s)
    <3>1. i \in 1 .. Len(s)
      BY <1>1, <2>1
    <3> QED
      BY <1>1, <2>1, <3>1 DEF Says
  <2>2. CASE ~(i <= Len(s))
    <3>1. i - Len(s) \in 1 .. Len(a) /\ (h + Len(s)) + (i - Len(s)) = h + i
      BY <1>1, <2>2
    <3> QED
      BY <1>1, <2>2, <3>1 DEF Says
  <2> QED
    BY <2>1, <2>2
<1> QED
  BY <1>1, <1>2 DEF Says

LEMMA TakeIs ==
  ASSUME NEW s \in Seq(Dev!Byte), NEW n \in 1 .. Len(s)
  PROVE  LET t == SubSeq(s, n + 1, Len(s))
         IN  /\ t \in Seq(Dev!Byte) /\ Len(t) = Len(s) - n /\ Len(t) \in Nat
             /\ \A i \in 1 .. Len(t) : n + i \in 1 .. Len(s) /\ t[i] = s[n + i]
<1> DEFINE t == SubSeq(s, n + 1, Len(s))
<1>1. Len(s) \in Nat /\ n \in Nat /\ n >= 1 /\ n <= Len(s)
  OBVIOUS
<1>2. \A k \in 1 .. Len(s) : s[k] \in Dev!Byte
  BY ElementOfSeq
<1>3. \A k \in n + 1 .. Len(s) : s[k] \in Dev!Byte
  BY <1>1, <1>2
<1>4. /\ t \in Seq(Dev!Byte)
      /\ Len(t) = IF n + 1 <= Len(s) THEN Len(s) - (n + 1) + 1 ELSE 0
      /\ \A i \in 1 .. Len(s) - (n + 1) + 1 : t[i] = s[(n + 1) + i - 1]
  BY <1>1, <1>3, SubSeqProperties
<1> HIDE DEF t
<1>5. Len(t) = Len(s) - n /\ Len(t) \in Nat /\ Len(s) - (n + 1) + 1 = Len(s) - n
  BY <1>1, <1>4
<1>6. ASSUME NEW i \in 1 .. Len(t) PROVE n + i \in 1 .. Len(s) /\ t[i] = s[n + i]
  <2>1. n + i \in 1 .. Len(s) /\ (n + 1) + i - 1 = n + i /\ i \in 1 .. Len(s) - (n + 1) + 1
    BY <1>1, <1>5
  <2>2. t[i] = s[(n + 1) + i - 1]
    BY <1>4, <2>1
  <2> QED
    BY <2>1, <2>2
<1> QED
  BY <1>4, <1>5, <1>6 DEF t

LEMMA SaysRest ==
  ASSUME NEW s \in Seq(Dev!Byte), NEW n \in 1 .. Len(s), NEW h \in Nat, Says(s, h)
  PROVE  Says(SubSeq(s, n + 1, Len(s)), h + n)
<1> DEFINE t == SubSeq(s, n + 1, Len(s))
<1>1. \A i \in 1 .. Len(t) : n + i \in 1 .. Len(s) /\ t[i] = s[n + i] /\ Len(t) \in Nat
  BY TakeIs
<1> HIDE DEF t
<1>2. ASSUME NEW i \in 1 .. Len(t) PROVE t[i] = Answer((h + n) + i)
  <2>1. n + i \in 1 .. Len(s) /\ t[i] = s[n + i] /\ i \in Int /\ n \in Int
    BY <1>1
  <2>2. h + (n + i) = (h + n) + i
    BY <2>1
  <2> QED
    BY <2>1, <2>2 DEF Says
<1> QED
  BY <1>2 DEF Says, t
-----------------------------------------------------------------------------
(* The library's error_check. *)
LEMMA CheckKeeps ==
  ASSUME ErrorCheck
  PROVE  /\ UNCHANGED <<rx, line, cmd_buf, cmd_buf_idx, pc, device, rate, phase, cmd, size, astray>>
         /\ late' = (late \/ (TimesOut /\ UnderWay)) /\ hpc # "idle"
BY DEF ErrorCheck, Lib!ErrorCheck, Lib!NothingThere, Lib!ReadAck, Lib!ReadStatus, Lib!ReadPayload,
   Lib!ReadCode, Lib!ReadUnexpected, Lib!HostOnly

LEMMA CheckKnows ==
  ASSUME IInv, hpc # "idle"
  PROVE  /\ phase \in {"first", "second"} /\ cmd = <<Dev!CMD_VERSION>> /\ size = 2
         /\ late \/ Trying
         /\ rx \in Seq(Dev!Byte) /\ line \in Seq(Dev!Byte) /\ tty \in Seq(Dev!Byte)
         /\ resp \in Seq(Dev!Byte) /\ result \in Seq(Dev!Byte)
         /\ pc \in {"recv", "exec"} /\ error \in 0 .. 5 /\ version \in {-1} \cup 0 .. 2
BY DEF IInv, Checking, Stage, TypeOK, Dev!TypeOK

(* What is left to show of a step of error_check. *)
LEMMA CheckInv ==
  ASSUME IInv, ErrorCheck,
         tty' \in Seq(Dev!Byte), resp' \in Seq(Dev!Byte), result' \in Seq(Dev!Byte),
         hpc' \in {"idle", "ack", "status", "payload", "code", "unexpected", "badStatus"},
         error' \in 0 .. 5, version' \in {-1} \cup 0 .. 2,
         late' \/ Trying'
  PROVE  IInv'
<1>1. /\ UNCHANGED <<rx, line, cmd_buf, cmd_buf_idx, pc, device, rate, phase, cmd, size, astray>>
      /\ late' = (late \/ (TimesOut /\ UnderWay)) /\ hpc # "idle"
  BY CheckKeeps
<1>2. phase \in {"first", "second"} /\ cmd = <<Dev!CMD_VERSION>> /\ size = 2
  BY <1>1, CheckKnows
<1>3. late' \in BOOLEAN
  BY <1>1
<1>4. TypeOK'
  BY <1>1, <1>3 DEF IInv, TypeOK, Dev!TypeOK
<1>5. DevInv'
  BY <1>1 DEF IInv, DevInv, Dev!TypeOK, Partial, Whole
<1>6. late' \/ Stage'
  <2>1. late \/ Stage
    BY DEF IInv
  <2> QED
    BY <1>1, <1>2, <2>1 DEF Stage
<1> QED
  BY <1>1, <1>2, <1>4, <1>5, <1>6 DEF IInv, Checking, Unopened

LEMMA NothingThereInv ==
  ASSUME IInv, ErrorCheck, Lib!NothingThere
  PROVE  IInv'
<1>1. /\ UNCHANGED <<rx, line, cmd_buf, cmd_buf_idx, pc, device, rate, phase, cmd, size, astray>>
      /\ late' = (late \/ (TimesOut /\ UnderWay)) /\ hpc # "idle"
  BY CheckKeeps
<1>2. /\ hpc = "ack" /\ hpc' = "idle" /\ error' = 1 /\ result' = << >>
      /\ UNCHANGED <<version, tty, resp>>
  BY DEF Lib!NothingThere, Lib!Fail, Lib!ESPSTLINK_ERROR_READ
<1>3. TimesOut /\ tty = << >>
  BY <1>2 DEF ErrorCheck, TimesOut
<1>4. /\ late \/ Trying
      /\ rx \in Seq(Dev!Byte) /\ line \in Seq(Dev!Byte) /\ tty \in Seq(Dev!Byte)
      /\ resp \in Seq(Dev!Byte) /\ version \in {-1} \cup 0 .. 2 /\ pc \in {"recv", "exec"}
  BY <1>1, CheckKnows
<1>5. ASSUME ~late' PROVE Trying'
  <2>1. ~late /\ Trying /\ line = << >> /\ rx = << >> /\ pc = "recv"
    BY <1>1, <1>3, <1>4, <1>5 DEF UnderWay
  <2>2. ~Answering
    <3>1. Sent = 4
      BY <2>1 DEF Sent
    <3>2. Heard = 0 /\ Len(tty) = 0 /\ Len(line) = 0
      BY <1>2, <1>3, <2>1 DEF Heard
    <3> QED
      BY <3>1, <3>2 DEF Answering
  <2>3. CASE Missed
    BY <1>1, <1>2, <2>1, <2>3 DEF Missed, Trying
  <2>4. CASE Deaf
    BY <1>1, <1>2, <2>4 DEF Deaf, Trying
  <2> QED
    BY <2>1, <2>2, <2>3, <2>4 DEF Trying
<1>6. error' \in 0 .. 5 /\ result' \in Seq(Dev!Byte)
  BY <1>2
<1> QED
  BY <1>2, <1>4, <1>5, <1>6, CheckInv

LEMMA ReadAckInv ==
  ASSUME IInv, ErrorCheck, Lib!ReadAck
  PROVE  IInv'
<1>1. /\ UNCHANGED <<rx, line, cmd_buf, cmd_buf_idx, pc, device, rate, phase, cmd, size, astray>>
      /\ late' = (late \/ (TimesOut /\ UnderWay)) /\ hpc # "idle"
  BY CheckKeeps
<1>2. /\ hpc = "ack" /\ tty # << >> /\ tty' = SubSeq(tty, 1 + 1, Len(tty))
      /\ hpc' = IF tty[1] = cmd[1] THEN "status" ELSE "unexpected"
      /\ UNCHANGED <<resp, result, error, version>>
  BY DEF Lib!ReadAck, Lib!Take
<1>3. /\ late \/ Trying
      /\ cmd[1] = Dev!CMD_VERSION /\ tty \in Seq(Dev!Byte) /\ resp \in Seq(Dev!Byte)
      /\ result \in Seq(Dev!Byte) /\ error \in 0 .. 5 /\ version \in {-1} \cup 0 .. 2
  BY <1>1, CheckKnows
<1>4. 1 \in 1 .. Len(tty) /\ Len(tty) \in Nat
  BY <1>2, <1>3
<1>5. /\ tty' \in Seq(Dev!Byte) /\ Len(tty') = Len(tty) - 1
      /\ \A i \in 1 .. Len(tty') : 1 + i \in 1 .. Len(tty) /\ tty'[i] = tty[1 + i]
  BY <1>2, <1>3, <1>4, TakeIs
<1>6. ASSUME ~late' PROVE Trying'
  <2>1. Trying
    BY <1>1, <1>3, <1>6
  <2>2. CASE Answering
    <3>1. Heard = 0 /\ resp = << >> /\ version = -1 /\ Says(tty, 0)
      BY <1>2, <2>2 DEF Answering, Heard
    <3>2. tty[1] = Dev!CMD_VERSION
      BY <1>4, <3>1, AnswerIs DEF Says
    <3>3. hpc' = "status" /\ Heard' = 1 /\ Sent' = Sent
      BY <1>1, <1>2, <1>3, <3>2 DEF Heard, Sent
    <3>4. Says(tty', 1)
      <4>1. Says(tty', 0 + 1)
        BY <1>2, <1>3, <1>4, <3>1, SaysRest
      <4> QED
        BY <4>1
    <3>5. Heard' + Len(tty') = Heard + Len(tty)
      BY <1>4, <1>5, <3>1, <3>3
    <3>6. Says(tty', Heard') /\ Says(line', Heard' + Len(tty'))
      BY <1>1, <2>2, <3>3, <3>4, <3>5 DEF Answering
    <3>7. Heard' + Len(tty') + Len(line') = Sent'
      BY <1>1, <2>2, <3>3, <3>5 DEF Answering
    <3>8. Says(tty, Heard)' /\ Says(line, Heard + Len(tty))'
      BY <3>6 DEF Says, Answer
    <3> QED
      BY <1>1, <1>2, <2>2, <3>1, <3>3, <3>7, <3>8 DEF Answering, Trying
  <2>3. CASE Missed
    <3>1. tty[1] # Dev!CMD_VERSION
      BY <1>2, <2>3 DEF Missed
    <3> QED
      BY <1>1, <1>2, <1>3, <2>3, <3>1 DEF Missed, Trying
  <2>4. CASE Deaf
    <3>1. hpc' = "unexpected"
      BY <1>2, <1>3, <1>4, <2>4 DEF Deaf
    <3>2. \A i \in 1 .. Len(tty') : tty'[i] # Dev!CMD_VERSION
      BY <1>5, <2>4 DEF Deaf
    <3> QED
      BY <1>1, <1>2, <2>4, <3>1, <3>2 DEF Deaf, Trying
  <2> QED
    BY <2>1, <2>2, <2>3, <2>4 DEF Trying
<1> QED
  BY <1>2, <1>3, <1>5, <1>6, CheckInv

LEMMA ReadStatusInv ==
  ASSUME IInv, ErrorCheck, Lib!ReadStatus
  PROVE  IInv'
<1>1. /\ UNCHANGED <<rx, line, cmd_buf, cmd_buf_idx, pc, device, rate, phase, cmd, size, astray>>
      /\ late' = (late \/ (TimesOut /\ UnderWay)) /\ hpc # "idle"
  BY CheckKeeps
<1>2. /\ late \/ Trying
      /\ size = 2 /\ tty \in Seq(Dev!Byte) /\ resp \in Seq(Dev!Byte)
      /\ result \in Seq(Dev!Byte) /\ error \in 0 .. 5 /\ version \in {-1} \cup 0 .. 2
  BY <1>1, CheckKnows
<1>3. /\ hpc = "status" /\ tty # << >> /\ tty' = SubSeq(tty, 1 + 1, Len(tty))
      /\ hpc' \in {"payload", "code", "badStatus"} /\ (tty[1] = 0 => hpc' = "payload")
      /\ UNCHANGED <<resp, result, error, version>>
  <2>1. /\ hpc = "status" /\ tty # << >> /\ tty' = SubSeq(tty, 1 + 1, Len(tty)) /\ resp' = resp
        /\ IF tty[1] = 0 /\ size = 0 THEN Lib!Succeed(<< >>)
           ELSE /\ hpc' = CASE tty[1] = 0 -> "payload" [] tty[1] = ByteMax -> "code"
                            [] OTHER -> "badStatus"
                /\ UNCHANGED <<result, error, version>>
    BY DEF Lib!ReadStatus, Lib!Take
  <2>2. /\ hpc' = CASE tty[1] = 0 -> "payload" [] tty[1] = ByteMax -> "code"
                      [] OTHER -> "badStatus"
        /\ UNCHANGED <<result, error, version>>
    BY <1>2, <2>1
  <2>3. CASE tty[1] = 0
    BY <2>1, <2>2, <2>3, OpenAssumption
  <2>4. CASE tty[1] # 0
    BY <2>1, <2>2, <2>4
  <2> QED
    BY <2>3, <2>4
<1>4. 1 \in 1 .. Len(tty) /\ Len(tty) \in Nat
  BY <1>2, <1>3
<1>5. tty' \in Seq(Dev!Byte) /\ Len(tty') = Len(tty) - 1
  BY <1>2, <1>3, <1>4, TakeIs
<1>6. ASSUME ~late' PROVE Trying'
  <2>1. Answering
    BY <1>1, <1>2, <1>3, <1>6 DEF Trying, Missed, Deaf
  <2>2. Heard = 1 /\ resp = << >> /\ version = -1 /\ Says(tty, 1)
    BY <1>3, <2>1 DEF Answering, Heard
  <2>3. tty[1] = 0
    <3>1. 1 + 1 = 2
      OBVIOUS
    <3> QED
      BY <1>4, <2>2, <3>1, AnswerIs DEF Says
  <2>4. hpc' = "payload" /\ Heard' = 2 /\ Sent' = Sent
    BY <1>1, <1>3, <2>2, <2>3 DEF Heard, Sent
  <2>5. Says(tty', 2)
    <3>1. Says(tty', 1 + 1)
      BY <1>2, <1>3, <1>4, <2>2, SaysRest
    <3> QED
      BY <3>1
  <2>6. Heard' + Len(tty') = Heard + Len(tty)
    BY <1>4, <1>5, <2>2, <2>4
  <2>7. Says(tty', Heard') /\ Says(line', Heard' + Len(tty'))
    BY <1>1, <2>1, <2>4, <2>5, <2>6 DEF Answering
  <2>8. Heard' + Len(tty') + Len(line') = Sent'
    BY <1>1, <2>1, <2>4, <2>6 DEF Answering
  <2>9. Says(tty, Heard)' /\ Says(line, Heard + Len(tty))'
    BY <2>7 DEF Says, Answer
  <2> QED
    BY <1>1, <1>3, <2>1, <2>2, <2>4, <2>8, <2>9 DEF Answering, Trying
<1> QED
  BY <1>2, <1>3, <1>5, <1>6, CheckInv

(* The version that a payload of two bytes or more spells. *)
LEMMA SucceedIs ==
  ASSUME NEW payload \in Seq(Dev!Byte), Len(payload) >= 2, Lib!Succeed(payload),
         cmd[1] = Dev!CMD_VERSION, error \in 0 .. 5, version \in {-1} \cup 0 .. 2
  PROVE  /\ hpc' = "idle" /\ result' \in Seq(Dev!Byte) /\ error' \in 0 .. 5
         /\ version' \in {-1} \cup 0 .. 2
         /\ payload[1] = 0 /\ payload[2] = 2 => version' = 2
<1>1. payload[1] \in Dev!Byte /\ payload[2] \in Dev!Byte
  <2>1. 1 \in 1 .. Len(payload) /\ 2 \in 1 .. Len(payload)
    OBVIOUS
  <2> QED
    BY <2>1, ElementOfSeq
<1>2. payload[1] * (ByteMax + 1) + payload[2] \in Nat
  <2>1. \A a, b, c \in Nat : a * (b + 1) + c \in Nat
    OBVIOUS
  <2>2. payload[1] \in Nat /\ payload[2] \in Nat /\ ByteMax \in Nat
    BY <1>1, OpenAssumption DEF Dev!Byte
  <2> QED
    BY <2>1, <2>2
<1>3. payload[1] = 0 /\ payload[2] = 2 => payload[1] * (ByteMax + 1) + payload[2] = 2
  BY OpenAssumption
<1>4. <<0>> \o payload \in Seq(Dev!Byte)
  BY VersionCode, ConcatProperties
<1> DEFINE value == payload[1] * (ByteMax + 1) + payload[2]
<1>5. IF value > 2
      THEN hpc' = "idle" /\ error' = 4 /\ result' = << >> /\ version' = version
      ELSE hpc' = "idle" /\ error' = error /\ result' = <<0>> \o payload /\ version' = value
  BY VersionCode DEF Lib!Succeed, Lib!Fail, Lib!ESPSTLINK_ERROR_VERSION
<1>6. value \in Nat /\ (payload[1] = 0 /\ payload[2] = 2 => value = 2)
  BY <1>2, <1>3
<1> HIDE DEF value
<1>7. CASE value > 2
  BY <1>5, <1>6, <1>7
<1>8. CASE ~(value > 2)
  <2>1. value \in 0 .. 2
    BY <1>6, <1>8
  <2> QED
    BY <1>4, <1>5, <1>6, <1>8, <2>1
<1> QED
  BY <1>7, <1>8

LEMMA ReadPayloadInv ==
  ASSUME IInv, ErrorCheck, Lib!ReadPayload
  PROVE  IInv'
<1>1. /\ UNCHANGED <<rx, line, cmd_buf, cmd_buf_idx, pc, device, rate, phase, cmd, size, astray>>
      /\ late' = (late \/ (TimesOut /\ UnderWay)) /\ hpc # "idle"
  BY CheckKeeps
<1>2. /\ late \/ Trying
      /\ size = 2 /\ cmd[1] = Dev!CMD_VERSION
      /\ tty \in Seq(Dev!Byte) /\ resp \in Seq(Dev!Byte) /\ line \in Seq(Dev!Byte)
      /\ result \in Seq(Dev!Byte) /\ error \in 0 .. 5 /\ version \in {-1} \cup 0 .. 2
  BY <1>1, CheckKnows
<1>3. PICK n \in Lib!AtMost(size) :
        /\ hpc = "payload" /\ tty' = SubSeq(tty, n + 1, Len(tty))
        /\ resp' = resp \o SubSeq(tty, 1, n)
        /\ IF Len(resp') < size THEN UNCHANGED <<hpc, result, error, version>>
                                ELSE Lib!Succeed(resp')
  BY DEF Lib!ReadPayload, Lib!Take
<1>4. n \in 1 .. Len(tty) /\ Len(tty) \in Nat
  BY <1>2, <1>3 DEF Lib!AtMost
<1>5. tty' \in Seq(Dev!Byte) /\ Len(tty') = Len(tty) - n
  BY <1>2, <1>3, <1>4, TakeIs
<1>6. /\ SubSeq(tty, 1, n) \in Seq(Dev!Byte) /\ Len(SubSeq(tty, 1, n)) = n
      /\ \A i \in 1 .. n : SubSeq(tty, 1, n)[i] = tty[i]
  <2>1. \A i \in 1 .. Len(tty) : tty[i] \in Dev!Byte
    BY <1>2, ElementOfSeq
  <2>2. /\ SubSeq(tty, 1, n) \in Seq(Dev!Byte)
        /\ Len(SubSeq(tty, 1, n)) = IF 1 <= n THEN n - 1 + 1 ELSE 0
        /\ \A i \in 1 .. n - 1 + 1 : SubSeq(tty, 1, n)[i] = tty[1 + i - 1]
    BY <1>4, <2>1, SubSeqProperties
  <2>3. n \in Int /\ 1 <= n /\ n - 1 + 1 = n /\ \A i \in 1 .. n : 1 + i - 1 = i
    BY <1>4
  <2> QED
    BY <2>2, <2>3
<1>7. /\ resp' \in Seq(Dev!Byte) /\ Len(resp') = Len(resp) + n /\ Len(resp) \in Nat
      /\ \A i \in 1 .. Len(resp) + n : resp'[i] = IF i <= Len(resp) THEN resp[i] ELSE tty[i - Len(resp)]
  <2>1. /\ resp' \in Seq(Dev!Byte) /\ Len(resp') = Len(resp) + n /\ Len(resp) \in Nat
        /\ \A i \in 1 .. Len(resp) + n :
             resp'[i] = IF i <= Len(resp) THEN resp[i] ELSE SubSeq(tty, 1, n)[i - Len(resp)]
    <3> DEFINE part == SubSeq(tty, 1, n)
    <3>1. part \in Seq(Dev!Byte) /\ Len(part) = n /\ resp' = resp \o part
      BY <1>3, <1>6
    <3> HIDE DEF part
    <3>2. /\ resp \o part \in Seq(Dev!Byte) /\ Len(resp \o part) = Len(resp) + Len(part)
          /\ \A i \in 1 .. Len(resp) + Len(part) :
               (resp \o part)[i] = IF i <= Len(resp) THEN resp[i] ELSE part[i - Len(resp)]
      BY <1>2, <3>1, ConcatProperties
    <3>3. Len(resp) \in Nat
      BY <1>2, LenProperties
    <3>4. \A i \in 1 .. Len(resp) + n :
            resp'[i] = IF i <= Len(resp) THEN resp[i] ELSE part[i - Len(resp)]
      BY <3>1, <3>2, Zenon
    <3> QED
      BY <3>1, <3>2, <3>3, <3>4 DEF part
  <2>2. ASSUME NEW i \in 1 .. Len(resp) + n, ~(i <= Len(resp)) PROVE i - Len(resp) \in 1 .. n
    BY <1>4, <2>1, <2>2
  <2> QED
    BY <1>6, <2>1, <2>2
<1>8. /\ hpc' \in {"payload", "idle"} /\ result' \in Seq(Dev!Byte) /\ error' \in 0 .. 5
      /\ version' \in {-1} \cup 0 .. 2
      /\ Len(resp') < 2 => UNCHANGED <<hpc, result, error, version>>
      /\ ~(Len(resp') < 2) => hpc' = "idle" /\ (resp'[1] = 0 /\ resp'[2] = 2 => version' = 2)
  <2>1. CASE Len(resp') < 2
    BY <1>2, <1>3, <2>1
  <2>2. CASE ~(Len(resp') < 2)
    <3>1. Lib!Succeed(resp') /\ Len(resp') >= 2
      BY <1>2, <1>3, <1>4, <1>7, <2>2
    <3> QED
      BY <1>2, <1>7, <2>2, <3>1, SucceedIs
  <2> QED
    BY <2>1, <2>2
<1>9. ASSUME ~late' PROVE Trying'
  <2>1. Answering
    BY <1>1, <1>2, <1>3, <1>9 DEF Trying, Missed, Deaf
  <2>2. /\ Heard = 2 + Len(resp) /\ version = -1 /\ (resp = << >> \/ resp = <<0>>)
        /\ Says(tty, Heard) /\ Heard + Len(tty) + Len(line) = Sent /\ Len(line) \in Nat
    <3>1. Heard = 2 + Len(resp)
      BY <1>3 DEF Heard
    <3>2. Len(line) \in Nat
      BY <1>2, LenProperties
    <3> QED
      BY <1>3, <2>1, <3>1, <3>2 DEF Answering
  <2>3. Sent \in {0, 1, 4} /\ Sent' = Sent
    BY <1>1 DEF Sent
  <2>4. Len(resp) + Len(tty) <= 2
    BY <1>4, <1>7, <2>2, <2>3
  <2>5. \A i \in 1 .. Len(resp') : resp'[i] = Answer(2 + i)
    <3>1. ASSUME NEW i \in 1 .. Len(resp) PROVE resp[i] = Answer(2 + i)
      <4>1. resp # << >>
        OBVIOUS
      <4>2. resp = <<0>> /\ Len(resp) = 1
        BY <2>2, <4>1
      <4>3. i = 1 /\ resp[i] = 0 /\ 2 + i = 3
        BY <4>2
      <4> QED
        BY <4>3, AnswerIs
    <3>2. ASSUME NEW i \in 1 .. Len(tty) PROVE tty[i] = Answer(2 + (Len(resp) + i))
      <4>1. (2 + Len(resp)) + i = 2 + (Len(resp) + i)
        BY <1>7
      <4> QED
        BY <2>2, <4>1 DEF Says
    <3>3. ASSUME NEW i \in 1 .. Len(resp) + n PROVE resp'[i] = Answer(2 + i)
      <4>1. CASE i <= Len(resp)
        <5>1. i \in 1 .. Len(resp)
          BY <1>7, <4>1
        <5> QED
          BY <1>7, <3>1, <4>1, <5>1
      <4>2. CASE ~(i <= Len(resp))
        <5>1. i - Len(resp) \in 1 .. Len(tty) /\ Len(resp) + (i - Len(resp)) = i
          BY <1>4, <1>7, <4>2
        <5> QED
          BY <1>7, <3>2, <4>2, <5>1
      <4> QED
        BY <4>1, <4>2
    <3> QED
      BY <1>7, <3>3
  <2>6. Len(resp') \in {1, 2}
    BY <1>4, <1>7, <2>4
  <2>7. Heard' = Heard + n
    <3>1. CASE Len(resp') = 1
      <4>1. hpc' = "payload"
        <5>1. Len(resp') < 2
          BY <3>1
        <5>2. hpc' = hpc
          BY <1>8, <5>1
        <5> QED
          BY <1>3, <5>2
      <4>2. Heard' = 2 + Len(resp')
        BY <4>1 DEF Heard
      <4>3. n \in Nat /\ Len(resp) \in Nat /\ Len(resp') = Len(resp) + n
        BY <1>4, <1>7
      <4> QED
        BY <2>2, <4>2, <4>3
    <3>2. CASE Len(resp') = 2
      <4>1. hpc' = "idle"
        BY <1>8, <3>2
      <4>2. Heard' = 4
        BY <4>1 DEF Heard
      <4>3. n \in Nat /\ Len(resp) \in Nat /\ Len(resp) + n = 2
        <5>1. n \in Nat /\ Len(resp) \in Nat /\ Len(resp') = Len(resp) + n
          BY <1>4, <1>7
        <5> QED
          BY <3>2, <5>1
      <4>4. (2 + Len(resp)) + n = 4
        BY <4>3
      <4>5. Heard = 2 + Len(resp)
        BY <2>2
      <4> QED
        BY <4>2, <4>4, <4>5
    <3> QED
      BY <2>6, <3>1, <3>2
  <2>8. \/ hpc' = "payload" /\ version' = -1 /\ (resp' = << >> \/ resp' = <<0>>)
        \/ hpc' = "idle" /\ version' = Dev!FIRMWARE_VERSION_MINOR
    <3>1. CASE Len(resp') = 1
      <4>1. resp'[1] = 0
        <5>1. 1 \in 1 .. Len(resp') /\ 2 + 1 = 3
          BY <3>1
        <5> QED
          BY <2>5, <5>1, AnswerIs
      <4>2. resp' = <<0>>
        <5>1. /\ <<0>> \in Seq(Dev!Byte) /\ Len(<<0>>) = 1
              /\ \A i \in 1 .. Len(resp') : resp'[i] = <<0>>[i]
          BY <3>1, <4>1, VersionCode
        <5> QED
          BY <1>7, <3>1, <5>1, SeqEqual
      <4>3. Len(resp') < 2
        BY <3>1
      <4>4. hpc' = hpc /\ version' = version
        BY <1>8, <4>3
      <4> QED
        BY <1>3, <2>2, <4>2, <4>4
    <3>2. CASE Len(resp') = 2
      <4>1. resp'[1] = Answer(2 + 1) /\ resp'[2] = Answer(2 + 2)
        BY <2>5, <3>2
      <4>2. 2 + 1 = 3 /\ 2 + 2 = 4
        OBVIOUS
      <4> QED
        BY <1>8, <3>2, <4>1, <4>2, AnswerIs, VersionCode
    <3> QED
      BY <2>6, <3>1, <3>2
  <2>9. Heard \in Nat
    BY <1>7, <2>2
  <2>10. Heard' + Len(tty') = Heard + Len(tty)
    BY <1>4, <1>5, <2>7, <2>9
  <2>11. Says(tty', Heard')
    BY <1>2, <1>3, <1>4, <2>2, <2>7, <2>9, SaysRest
  <2>12. Says(line', Heard' + Len(tty')) /\ Heard' + Len(tty') + Len(line') = Sent'
    BY <1>1, <2>1, <2>3, <2>10 DEF Answering
  <2>13. Says(tty, Heard)' /\ Says(line, Heard + Len(tty))'
    BY <2>11, <2>12 DEF Says, Answer
  <2>14. /\ rate' = device'
         /\ \/ pc' = "recv" /\ rx' = <<Dev!CMD_VERSION>> /\ cmd_buf_idx' = 0
            \/ pc' = "exec" /\ rx' = << >> /\ cmd_buf'[0] = Dev!CMD_VERSION
            \/ pc' = "recv" /\ rx' = << >> /\ cmd_buf_idx' = 0
    BY <1>1, <2>1 DEF Answering
  <2> QED
    BY <2>8, <2>12, <2>13, <2>14 DEF Answering, Trying
<1> QED
  BY <1>5, <1>7, <1>8, <1>9, CheckInv

LEMMA ReadCodeInv ==
  ASSUME IInv, ErrorCheck, Lib!ReadCode
  PROVE  IInv'
<1>1. /\ UNCHANGED <<rx, line, cmd_buf, cmd_buf_idx, pc, device, rate, phase, cmd, size, astray>>
      /\ late' = (late \/ (TimesOut /\ UnderWay)) /\ hpc # "idle"
  BY CheckKeeps
<1>2. /\ late \/ Trying
      /\ tty \in Seq(Dev!Byte) /\ resp \in Seq(Dev!Byte)
      /\ version \in {-1} \cup 0 .. 2
  BY <1>1, CheckKnows
<1>3. PICK n \in Lib!AtMost(2) :
        /\ hpc = "code" /\ tty' = SubSeq(tty, n + 1, Len(tty))
        /\ IF n < 2 THEN Lib!Fail(2)
           ELSE /\ hpc' = "idle" /\ error' = 3
                /\ result' = <<ByteMax>> \o SubSeq(tty, 1, 2) /\ UNCHANGED version
        /\ UNCHANGED resp
  BY DEF Lib!ReadCode, Lib!Take, Lib!ESPSTLINK_ERROR_DATA, Lib!ESPSTLINK_ERROR_COMM
<1>4. n \in 1 .. Len(tty) /\ Len(tty) \in Nat
  BY <1>2, <1>3 DEF Lib!AtMost
<1>5. tty' \in Seq(Dev!Byte)
  BY <1>2, <1>3, <1>4, TakeIs
<1>6. hpc' = "idle" /\ error' \in 0 .. 5 /\ version' = version
  BY <1>3 DEF Lib!Fail
<1>7. result' \in Seq(Dev!Byte)
  <2>1. CASE n < 2
    BY <1>3, <2>1 DEF Lib!Fail
  <2>2. CASE ~(n < 2)
    <3>1. \A i \in 1 .. 2 : tty[i] \in Dev!Byte
      BY <1>2, <1>4, <2>2, ElementOfSeq
    <3>2. SubSeq(tty, 1, 2) \in Seq(Dev!Byte)
      BY <3>1, SubSeqProperties
    <3>3. <<ByteMax>> \in Seq(Dev!Byte)
      BY OpenAssumption DEF Dev!Byte
    <3> QED
      BY <1>3, <2>2, <3>2, <3>3, ConcatProperties
  <2> QED
    BY <2>1, <2>2
<1>8. late'
  BY <1>1, <1>2, <1>3 DEF Trying, Answering, Missed, Deaf
<1> QED
  BY <1>2, <1>3, <1>5, <1>6, <1>7, <1>8, CheckInv

LEMMA ReadUnexpectedInv ==
  ASSUME IInv, ErrorCheck, Lib!ReadUnexpected
  PROVE  IInv'
<1>1. /\ UNCHANGED <<rx, line, cmd_buf, cmd_buf_idx, pc, device, rate, phase, cmd, size, astray>>
      /\ late' = (late \/ (TimesOut /\ UnderWay)) /\ hpc # "idle"
  BY CheckKeeps
<1>2. /\ late \/ Trying
      /\ tty \in Seq(Dev!Byte) /\ resp \in Seq(Dev!Byte)
      /\ version \in {-1} \cup 0 .. 2
  BY <1>1, CheckKnows
<1>3. PICK n \in Lib!AtMost(IF hpc = "unexpected" THEN ByteMax ELSE ByteMax - 1) :
        /\ hpc \in {"unexpected", "badStatus"} /\ tty' = SubSeq(tty, n + 1, Len(tty))
        /\ hpc' = "idle" /\ error' = 2 /\ result' = << >> /\ UNCHANGED <<version, resp>>
  BY DEF Lib!ReadUnexpected, Lib!Take, Lib!Fail, Lib!ESPSTLINK_ERROR_DATA
<1>4. n \in 1 .. Len(tty) /\ Len(tty) \in Nat
  BY <1>2, <1>3, OpenAssumption DEF Lib!AtMost
<1>5. /\ tty' \in Seq(Dev!Byte)
      /\ \A i \in 1 .. Len(tty') : n + i \in 1 .. Len(tty) /\ tty'[i] = tty[n + i]
  BY <1>2, <1>3, <1>4, TakeIs
<1>6. ASSUME ~late' PROVE Trying'
  <2>1. Missed \/ Deaf
    BY <1>1, <1>2, <1>3, <1>6 DEF Trying, Answering
  <2>2. CASE Missed
    BY <1>1, <1>3, <2>2 DEF Missed, Trying
  <2>3. CASE Deaf
    <3>1. \A i \in 1 .. Len(tty') : tty'[i] # Dev!CMD_VERSION
      BY <1>5, <2>3 DEF Deaf
    <3> QED
      BY <1>1, <1>3, <2>3, <3>1 DEF Deaf, Trying
  <2> QED
    BY <2>1, <2>2, <2>3
<1>7. error' \in 0 .. 5 /\ result' \in Seq(Dev!Byte)
  BY <1>3
<1> QED
  BY <1>2, <1>3, <1>5, <1>6, <1>7, CheckInv

LEMMA ErrorCheckInv ==
  ASSUME IInv, ErrorCheck
  PROVE  IInv'
BY NothingThereInv, ReadAckInv, ReadStatusInv, ReadPayloadInv, ReadCodeInv, ReadUnexpectedInv
DEF ErrorCheck, Lib!ErrorCheck
-----------------------------------------------------------------------------
(* The interpreter. *)
LEMMA Moves ==
  ASSUME Dev!Task
  PROVE  pc = "exec" \/ (pc = "recv" /\ rx # << >>)
BY DEF Dev!Task, Dev!RecvArgument, Dev!RecvLast, Dev!TakeByte, Dev!Execute, Dev!Serve, Dev!DoSrst,
   Dev!DoRotf, Dev!DoWotf, Dev!DoInit, Dev!DoReset, Dev!DoVersion, Dev!DoUnknown, Dev!Serving

LEMMA TaskInv ==
  ASSUME DevInv, Dev!Task
  PROVE  DevInv'
BY RecvArgumentInv, RecvLastInv, ExecuteInv DEF Dev!Task

(* The one byte of a query that the interpreter takes. *)
LEMMA LastByte ==
  ASSUME DevInv, Dev!TakeByte, Len(rx) = 1
  PROVE  rx' = << >>
<1>1. rx \in Seq(Dev!Byte) /\ rx # << >> /\ rx' = Tail(rx)
  BY DEF DevInv, Dev!TypeOK, Dev!TakeByte
<1>2. rx' \in Seq(Dev!Byte) /\ Len(rx') = 0
  BY <1>1, HeadTailProperties
<1> QED
  BY <1>2

LEMMA AnsweringGoesOn ==
  ASSUME IInv, Interpreter, Answering
  PROVE  Trying'
<1>1. /\ Dev!Task /\ UNCHANGED <<device, rate, tty, phase, hpc, size, cmd, resp, result, error, version>>
      /\ DevInv
  BY DEF Interpreter, check, IInv
<1>2. /\ tty \in Seq(Dev!Byte) /\ line \in Seq(Dev!Byte) /\ Len(tty) \in Nat /\ Len(line) \in Nat
      /\ Heard' = Heard
  BY <1>1, LenProperties DEF IInv, TypeOK, Dev!TypeOK, Heard
<1>3. Heard \in Nat
  <2>1. Len(resp) \in Nat
    BY LenProperties DEF IInv, TypeOK
  <2> QED
    BY <2>1 DEF Answering, Heard
<1>4. Says(tty, Heard)'
  BY <1>1, <1>2 DEF Answering, Says, Answer
<1>5. CASE pc = "recv" /\ rx = <<Dev!CMD_VERSION>> /\ cmd_buf_idx = 0
  <2>1. Sent = 0
    BY <1>5 DEF Sent
  <2>2. Heard = 0 /\ Len(tty) = 0 /\ Len(line) = 0 /\ line = << >>
    BY <1>2, <1>3, <2>1 DEF Answering
  <2>3. Dev!TakeByte /\ (Dev!RecvArgument \/ Dev!RecvLast)
    BY <1>1, <1>5 DEF Dev!Task, Dev!RecvArgument, Dev!RecvLast, Dev!Execute, Dev!Serve, Dev!DoSrst,
       Dev!DoRotf, Dev!DoWotf, Dev!DoInit, Dev!DoReset, Dev!DoVersion, Dev!DoUnknown, Dev!Serving
  <2>4. cmd_buf'[0] = Dev!CMD_VERSION /\ rx' = << >>
    <3>1. Head(rx) = Dev!CMD_VERSION /\ Len(rx) = 1
      BY <1>5
    <3> QED
      BY <1>1, <1>5, <2>3, <3>1, TakeByteType, LastByte
  <2>5. ~Dev!Incomplete(cmd_buf', cmd_buf_idx')
    BY <2>4, VersionCode DEF Dev!Incomplete
  <2>6. line' = Append(line, Dev!CMD_VERSION) /\ pc' = "exec"
    BY <2>3, <2>4, <2>5 DEF Dev!RecvArgument, Dev!RecvLast
  <2>7. line' = <<Dev!CMD_VERSION>> /\ Len(line') = 1 /\ line'[1] = Dev!CMD_VERSION
    BY <2>2, <2>6
  <2>8. Sent' = 1 /\ Heard' + Len(tty') = 0
    BY <1>1, <1>2, <2>2, <2>6 DEF Sent
  <2>9. Says(line', 0)
    <3>1. \A i \in 1 .. Len(line') : i = 1 /\ 0 + i = 1
      BY <2>7
    <3> QED
      BY <2>7, <3>1, AnswerIs DEF Says
  <2>10. Says(line, Heard + Len(tty))'
    BY <2>8, <2>9 DEF Says, Answer
  <2>11. Heard' + Len(tty') + Len(line') = Sent'
    BY <2>7, <2>8
  <2> QED
    BY <1>1, <1>4, <2>4, <2>6, <2>10, <2>11 DEF Answering, Trying
<1>6. CASE pc = "exec" /\ rx = << >> /\ cmd_buf[0] = Dev!CMD_VERSION
  <2>1. Dev!Execute
    BY <1>1, <1>6 DEF Dev!Task, Dev!RecvArgument, Dev!RecvLast, Dev!TakeByte
  <2>2. pc' = "recv" /\ rx' = << >> /\ cmd_buf_idx' = 0
    BY <1>1, <1>6, <2>1, ExecuteInv DEF Replies
  <2>3. PICK a \in Seq(Dev!Byte) : line' = line \o a /\ Len(a) = 3 /\ Says(a, 1)
    BY <1>1, <1>6, <2>1, VersionReply
  <2>4. Sent = 1 /\ Sent' = 4
    BY <1>6, <2>2 DEF Sent
  <2>5. /\ Heard + Len(tty) \in Nat /\ (Heard + Len(tty)) + Len(line) = 1
        /\ Says(line, Heard + Len(tty))
    BY <1>2, <1>3, <2>4 DEF Answering
  <2>6. Len(line') = Len(line) + 3 /\ Says(line', Heard + Len(tty))
    BY <1>2, <2>3, <2>5, SaysMore
  <2>7. Heard' + Len(tty') = Heard + Len(tty)
    BY <1>1, <1>2
  <2>8. Says(line, Heard + Len(tty))'
    BY <2>6, <2>7 DEF Says, Answer
  <2>9. Heard' + Len(tty') + Len(line') = Sent'
    BY <1>2, <2>4, <2>5, <2>6, <2>7
  <2> QED
    BY <1>1, <1>4, <2>2, <2>8, <2>9 DEF Answering, Trying
<1> QED
  BY <1>1, <1>5, <1>6, Moves DEF Answering

LEMMA MissedGoesOn ==
  ASSUME IInv, Interpreter, Missed
  PROVE  Trying'
<1>1. /\ Dev!Task /\ UNCHANGED <<device, rate, tty, phase, hpc, size, cmd, resp, result, error, version>>
      /\ astray' = (astray \/ (pc = "recv" /\ cmd_buf_idx > 0)) /\ DevInv
  BY DEF Interpreter, check, IInv
<1>2. tty \in Seq(Dev!Byte) /\ line \in Seq(Dev!Byte)
  BY DEF IInv, TypeOK, Dev!TypeOK
<1>3. CASE /\ hpc = "ack" /\ pc = "recv" /\ rx # << >> /\ cmd_buf_idx > 0
           /\ Len(rx) = 1 /\ line = << >> /\ tty = << >>
  <2>1. Dev!TakeByte /\ (Dev!RecvArgument \/ Dev!RecvLast)
    BY <1>1, <1>3 DEF Dev!Task, Dev!RecvArgument, Dev!RecvLast, Dev!Execute, Dev!Serve, Dev!DoSrst,
       Dev!DoRotf, Dev!DoWotf, Dev!DoInit, Dev!DoReset, Dev!DoVersion, Dev!DoUnknown, Dev!Serving
  <2>2. rx' = << >> /\ astray' /\ cmd_buf'[0] = cmd_buf[0]
    BY <1>1, <1>3, <2>1, LastByte, TakeByteType
  <2>3. cmd_buf'[0] # Dev!CMD_VERSION
    BY <1>1, <1>3, <2>2, VersionCode DEF DevInv, Partial
  <2>4. \/ line' = << >> /\ pc' = "recv"
        \/ line' # << >> /\ line'[1] # Dev!CMD_VERSION
    <3>1. CASE Dev!RecvArgument
      BY <1>3, <3>1 DEF Dev!RecvArgument
    <3>2. CASE Dev!RecvLast
      <4>1. line' = Append(<< >>, cmd_buf'[0])
        BY <1>3, <3>2 DEF Dev!RecvLast
      <4>2. line' = <<cmd_buf'[0]>> /\ line' # << >> /\ line'[1] = cmd_buf'[0]
        BY <4>1
      <4> QED
        BY <2>3, <4>2
    <3> QED
      BY <2>1, <3>1, <3>2
  <2> QED
    BY <1>1, <1>3, <2>2, <2>4 DEF Missed, Trying
<1>4. CASE /\ astray /\ rx = << >>
           /\ hpc = "ack" => \/ tty # << >> /\ tty[1] # Dev!CMD_VERSION
                             \/ tty = << >> /\ line # << >> /\ line[1] # Dev!CMD_VERSION
                             \/ tty = << >> /\ line = << >> /\ pc = "recv"
  <2>1. pc = "exec" /\ Dev!Execute
    BY <1>1, <1>4, Moves DEF Dev!Task, Dev!RecvArgument, Dev!RecvLast, Dev!TakeByte
  <2>2. rx' = << >>
    BY <1>1, <1>4, <2>1, ExecuteInv DEF Replies
  <2>3. PICK a \in Seq(Dev!Byte) : line' = line \o a
    BY <1>1, <2>1, ExecuteInv DEF Replies
  <2>4. line # << >> => line' # << >> /\ line'[1] = line[1]
    <3> SUFFICES ASSUME line # << >> PROVE line' # << >> /\ line'[1] = line[1]
      OBVIOUS
    <3>1. /\ Len(line') = Len(line) + Len(a) /\ line' \in Seq(Dev!Byte)
          /\ Len(line) \in Nat /\ Len(a) \in Nat /\ Len(line) >= 1
          /\ \A i \in 1 .. Len(line) + Len(a) : line'[i] = IF i <= Len(line) THEN line[i] ELSE a[i - Len(line)]
      BY <1>2, <2>3, ConcatProperties, LenProperties
    <3>2. 1 \in 1 .. Len(line) + Len(a) /\ 1 <= Len(line)
      BY <3>1
    <3>3. line'[1] = line[1]
      BY <3>1, <3>2
    <3>4. Len(line') # 0
      BY <3>1
    <3> QED
      BY <3>3, <3>4
  <2> QED
    BY <1>1, <1>4, <2>1, <2>2, <2>4 DEF Missed, Trying
<1> QED
  BY <1>3, <1>4 DEF Missed

LEMMA InterpreterInv ==
  ASSUME IInv, Interpreter
  PROVE  IInv'
<1>1. /\ Dev!Task /\ astray' = (astray \/ (pc = "recv" /\ cmd_buf_idx > 0))
      /\ UNCHANGED <<device, rate, tty, phase, hpc, cmd, size, resp, result, error, version, late>>
      /\ DevInv
  BY DEF Interpreter, check, IInv
<1>2. DevInv'
  BY <1>1, TaskInv
<1>3. astray' \in BOOLEAN /\ (astray => astray')
  BY <1>1
<1>4. TypeOK'
  BY <1>1, <1>2, <1>3 DEF IInv, TypeOK, DevInv
<1>5. ~(rx = << >> /\ pc = "recv") /\ ~Quiet
  <2>1. ~(rx = << >> /\ pc = "recv")
    BY <1>1, Moves
  <2>2. pc \in {"recv", "exec"}
    BY <1>1 DEF DevInv, Dev!TypeOK
  <2> QED
    BY <2>1, <2>2 DEF Quiet, UnderWay
<1>6. late' \/ Stage'
  <2> SUFFICES ASSUME ~late PROVE Stage'
    BY <1>1
  <2>1. Stage
    BY DEF IInv
  <2>2. phase \in {"first", "second"} => Trying'
    <3> SUFFICES ASSUME phase \in {"first", "second"} PROVE Trying'
      OBVIOUS
    <3>1. CASE Deaf
      BY <1>1, <3>1 DEF Deaf, Trying
    <3> QED
      BY <2>1, <3>1, AnsweringGoesOn, MissedGoesOn DEF Stage, Trying
  <2>3. phase \notin {"set up", "flushed", "opened"}
    BY <1>5, <2>1 DEF Stage
  <2> QED
    BY <1>1, <1>3, <2>1, <2>2, <2>3 DEF Stage
<1>7. phase # "closed"
  BY <1>5 DEF IInv
<1> QED
  BY <1>1, <1>2, <1>4, <1>6, <1>7 DEF IInv, Checking, Unopened
-----------------------------------------------------------------------------
(* A byte reaches the tty. *)
LEMMA ArrivesInv ==
  ASSUME IInv, Arrives
  PROVE  IInv'
<1>1. /\ line # << >> /\ phase # "failed" /\ line' = Tail(line)
      /\ UNCHANGED <<rx, cmd_buf, cmd_buf_idx, pc, device, rate, phase, hpc, cmd, size, resp,
                     result, error, version, late, astray>>
  BY DEF Arrives, check
<1>2. PICK b : /\ tty' = tty \o b
               /\ rate = device => b = <<Head(line)>>
               /\ rate # device => b = << >> \/ \E g \in Garbled : b = <<g>>
  <2>1. CASE rate = device
    BY <2>1 DEF Arrives
  <2>2. CASE rate # device
    BY <2>2 DEF Arrives
  <2> QED
    BY <2>1, <2>2
<1>3. /\ tty \in Seq(Dev!Byte) /\ line \in Seq(Dev!Byte) /\ Len(tty) \in Nat
      /\ line # << >>
  BY <1>1, LenProperties DEF IInv, TypeOK, Dev!TypeOK
<1>4. /\ Head(line) = line[1] /\ line[1] \in Dev!Byte /\ 1 \in 1 .. Len(line)
      /\ Tail(line) \in Seq(Dev!Byte) /\ Len(Tail(line)) = Len(line) - 1 /\ Len(line) \in Nat
      /\ \A i \in 1 .. Len(Tail(line)) : Tail(line)[i] = line[i + 1]
  BY <1>3, HeadTailProperties
<1>5. b \in Seq(Dev!Byte) /\ (rate # device => \A i \in 1 .. Len(b) : b[i] # Dev!CMD_VERSION)
  <2>1. CASE rate = device
    <3>1. b = <<line[1]>> /\ line[1] \in Dev!Byte
      BY <1>2, <1>4, <2>1
    <3> QED
      BY <2>1, <3>1
  <2>2. CASE rate # device /\ b = << >>
    BY <2>2
  <2>3. ASSUME NEW g \in Garbled, b = <<g>>
        PROVE  b \in Seq(Dev!Byte) /\ \A i \in 1 .. Len(b) : b[i] # Dev!CMD_VERSION
    BY <2>3, GarbledAssumption
  <2> QED
    BY <1>2, <2>1, <2>2, <2>3
<1>6. /\ tty' \in Seq(Dev!Byte) /\ Len(tty') = Len(tty) + Len(b) /\ Len(b) \in Nat
      /\ \A i \in 1 .. Len(tty) + Len(b) : tty'[i] = IF i <= Len(tty) THEN tty[i] ELSE b[i - Len(tty)]
  <2>1. b \in Seq(Dev!Byte) /\ tty \in Seq(Dev!Byte) /\ tty' = tty \o b
    BY <1>2, <1>3, <1>5
  <2> QED
    BY <2>1, ConcatProperties, LenProperties
<1>7. TypeOK' /\ DevInv'
  <2>1. Dev!TypeOK'
    BY <1>1, <1>4, <1>6 DEF IInv, TypeOK, Dev!TypeOK
  <2>2. TypeOK'
    <3>1. /\ device' \in {"fast", "slow"} /\ rate' \in {"fast", "slow"}
          /\ tty' \in Seq(Dev!Byte)
          /\ phase' \in {"closed", "set up", "first", "flushed", "second", "opened", "failed"}
          /\ hpc' \in {"idle", "ack", "status", "payload", "code", "unexpected", "badStatus"}
      BY <1>1, <1>6 DEF IInv, TypeOK
    <3>2. /\ cmd' \in Seq(Dev!Byte) /\ size' \in {0, 2}
          /\ resp' \in Seq(Dev!Byte) /\ result' \in Seq(Dev!Byte)
          /\ error' \in 0 .. 5 /\ version' \in {-1} \cup 0 .. 2
          /\ late' \in BOOLEAN /\ astray' \in BOOLEAN
      BY <1>1 DEF IInv, TypeOK
    <3> QED
      BY <2>1, <3>1, <3>2 DEF TypeOK
  <2>3. DevInv'
    BY <1>1, <1>4, <1>6, <2>1 DEF IInv, DevInv, Partial, Whole
  <2> QED
    BY <2>2, <2>3
<1>8. ASSUME Answering PROVE Answering'
  <2>1. b = <<line[1]>> /\ Len(b) = 1
    BY <1>2, <1>4, <1>8 DEF Answering
  <2>2. /\ Heard' = Heard /\ Sent' = Sent /\ Heard + Len(tty) + Len(line) = Sent
        /\ Says(tty, Heard) /\ Says(line, Heard + Len(tty))
    BY <1>1, <1>8 DEF Answering, Heard, Sent
  <2>3. Heard \in Nat
    <3>1. Len(resp) \in Nat
      BY LenProperties DEF IInv, TypeOK
    <3> QED
      BY <1>8, <3>1 DEF Answering, Heard
  <2>4. Says(b, Heard + Len(tty))
    <3>1. line[1] = Answer((Heard + Len(tty)) + 1)
      BY <1>4, <2>2 DEF Says
    <3>2. \A i \in 1 .. Len(b) : i = 1
      BY <2>1
    <3> QED
      BY <2>1, <3>1, <3>2 DEF Says
  <2>5. Says(tty', Heard)
    BY <1>2, <1>3, <1>5, <2>2, <2>3, <2>4, SaysMore
  <2>6. Says(line', Heard' + Len(tty'))
    <3>1. ASSUME NEW i \in 1 .. Len(line') PROVE line'[i] = Answer((Heard' + Len(tty')) + i)
      <4>1. /\ i + 1 \in 1 .. Len(line) /\ line'[i] = line[i + 1]
            /\ (Heard + Len(tty)) + (i + 1) = (Heard' + Len(tty')) + i
        BY <1>1, <1>3, <1>4, <1>6, <2>1, <2>2, <2>3
      <4> QED
        BY <2>2, <4>1 DEF Says
    <3> QED
      BY <3>1 DEF Says
  <2>7. Says(tty, Heard)' /\ Says(line, Heard + Len(tty))'
    BY <2>2, <2>5, <2>6 DEF Says, Answer
  <2>8. Heard' + Len(tty') + Len(line') = Sent'
    BY <1>1, <1>3, <1>4, <1>6, <2>1, <2>2, <2>3
  <2> QED
    BY <1>1, <1>8, <2>7, <2>8 DEF Answering
<1>9. ASSUME Missed PROVE Missed'
  <2>1. tty # << >> => tty' # << >> /\ tty'[1] = tty[1]
    <3> SUFFICES ASSUME tty # << >> PROVE tty' # << >> /\ tty'[1] = tty[1]
      OBVIOUS
    <3>1. 1 <= Len(tty) /\ 1 \in 1 .. Len(tty) + Len(b) /\ Len(tty') # 0
      BY <1>3, <1>6
    <3> QED
      BY <1>6, <3>1
  <2>2. tty = << >> => tty' # << >> /\ tty'[1] = line[1]
    <3> SUFFICES ASSUME tty = << >> PROVE tty' # << >> /\ tty'[1] = line[1]
      OBVIOUS
    <3>1. b = <<line[1]>>
      BY <1>2, <1>4, <1>9 DEF Missed
    <3>2. tty' = <<line[1]>>
      BY <1>2, <1>4, <3>1
    <3> QED
      BY <3>2
  <2> QED
    BY <1>1, <1>9, <2>1, <2>2 DEF Missed
<1>10. ASSUME Deaf PROVE Deaf'
  <2>1. \A i \in 1 .. Len(tty) : tty[i] # Dev!CMD_VERSION
    BY <1>10 DEF Deaf
  <2>2. \A i \in 1 .. Len(b) : b[i] # Dev!CMD_VERSION
    BY <1>5, <1>10 DEF Deaf
  <2>3. ASSUME NEW i \in 1 .. Len(tty') PROVE tty'[i] # Dev!CMD_VERSION
    <3>1. i \in 1 .. Len(tty) + Len(b)
      BY <1>6
    <3>2. CASE i <= Len(tty)
      <4>1. i \in 1 .. Len(tty)
        BY <1>3, <3>1, <3>2
      <4> QED
        BY <1>6, <2>1, <3>1, <3>2, <4>1
    <3>3. CASE ~(i <= Len(tty))
      <4>1. i - Len(tty) \in 1 .. Len(b)
        BY <1>3, <1>6, <3>1, <3>3
      <4> QED
        BY <1>6, <2>2, <3>1, <3>3, <4>1
    <3> QED
      BY <3>2, <3>3
  <2> QED
    BY <1>1, <1>10, <2>3 DEF Deaf
<1>11. late' \/ Stage'
  <2> SUFFICES ASSUME ~late PROVE Stage'
    BY <1>1
  <2>1. Stage /\ ~Quiet
    BY <1>1 DEF IInv, Quiet, UnderWay
  <2>2. Trying => Trying'
    BY <1>8, <1>9, <1>10 DEF Trying
  <2> QED
    BY <1>1, <2>1, <2>2 DEF Stage
<1> QED
  BY <1>1, <1>7, <1>11 DEF IInv, Checking, Unopened
-----------------------------------------------------------------------------
(* The steps of espstlink_open around error_check. *)
LEMMA Between ==
  ASSUME IInv, phase \in {"closed", "set up", "flushed"}
  PROVE  hpc = "idle" /\ version = -1
BY DEF IInv, Checking, Unopened

LEMMA TtyFailsInv ==
  ASSUME IInv, TtyFails
  PROVE  IInv'
<1>1. /\ phase \in {"closed", "flushed"} /\ phase' = "failed" /\ error' = ESPSTLINK_ERROR_SERIAL
      /\ UNCHANGED <<rx, line, cmd_buf, cmd_buf_idx, pc, device, rate, tty, hpc, cmd, size, resp,
                     result, version, late, astray>>
  BY DEF TtyFails, interpreter
<1>2. hpc = "idle"
  BY <1>1, Between
<1>3. TypeOK' /\ DevInv'
  <2>1. Dev!TypeOK'
    BY <1>1 DEF IInv, TypeOK, Dev!TypeOK
  <2>2. TypeOK'
    <3>1. error' \in 0 .. 5
      BY <1>1 DEF ESPSTLINK_ERROR_SERIAL
    <3>2. phase' \in {"closed", "set up", "first", "flushed", "second", "opened", "failed"}
      BY <1>1
    <3> QED
      BY <1>1, <2>1, <3>1, <3>2 DEF IInv, TypeOK
  <2>3. DevInv'
    BY <1>1, <2>1 DEF IInv, DevInv, Partial, Whole
  <2> QED
    BY <2>2, <2>3
<1>4. Stage'
  BY <1>1, <1>2 DEF Stage, ESPSTLINK_ERROR_SERIAL
<1> QED
  BY <1>1, <1>2, <1>3, <1>4 DEF IInv, Checking, Unopened

LEMMA SetUpInv ==
  ASSUME IInv, SetUp
  PROVE  IInv'
<1>1. /\ phase = "closed" /\ phase' = "set up" /\ rate' = "fast" /\ tty' = << >>
      /\ late' = (late \/ UnderWay)
      /\ UNCHANGED <<rx, line, cmd_buf, cmd_buf_idx, pc, device, hpc, cmd, size, resp, result,
                     error, version, astray>>
  BY DEF SetUp, Flush, interpreter, check
<1>2. hpc = "idle" /\ version = -1
  BY <1>1, Between
<1>3. late' \in BOOLEAN
  BY <1>1
<1>4. TypeOK' /\ DevInv'
  BY <1>1, <1>3 DEF IInv, TypeOK, DevInv, Dev!TypeOK, Partial, Whole
<1>5. late' \/ Stage'
  BY <1>1 DEF Stage, Quiet, UnderWay
<1> QED
  BY <1>1, <1>2, <1>4, <1>5 DEF IInv, Checking, Unopened

LEMMA FlushAgainInv ==
  ASSUME IInv, FlushAgain
  PROVE  IInv'
<1>1. /\ phase = "first" /\ hpc = "idle" /\ version = -1 /\ phase' = "flushed" /\ tty' = << >>
      /\ late' = (late \/ UnderWay)
      /\ UNCHANGED <<rx, line, cmd_buf, cmd_buf_idx, pc, device, rate, hpc, cmd, size, resp, result,
                     error, version, astray>>
  BY DEF FlushAgain, Flush, interpreter, check
<1>2. late' \in BOOLEAN
  BY <1>1
<1>3. TypeOK' /\ DevInv'
  BY <1>1, <1>2 DEF IInv, TypeOK, DevInv, Dev!TypeOK, Partial, Whole
<1>4. ASSUME ~late' PROVE Stage'
  <2>1. ~late /\ Stage /\ ~UnderWay
    BY <1>1, <1>4 DEF IInv
  <2>2. device = "fast" => astray
    <3>1. rate = "fast" /\ Trying
      BY <1>1, <2>1 DEF Stage
    <3>2. ~Answering
      BY <1>1, VersionCode DEF Answering
    <3>3. Missed => astray
      BY <1>1 DEF Missed
    <3>4. Deaf => device # "fast"
      BY <3>1 DEF Deaf
    <3> QED
      BY <3>1, <3>2, <3>3, <3>4 DEF Trying
  <2> QED
    BY <1>1, <2>1, <2>2 DEF Stage, Quiet, UnderWay
<1> QED
  BY <1>1, <1>3, <1>4 DEF IInv, Checking, Unopened

(* A query of a quiet device is answered, taken for an argument or lost. *)
LEMMA QueryTries ==
  ASSUME IInv, NEW r, rate' = r, Query(r), hpc = "idle", version = -1
  PROVE  /\ rx' \in Seq(Dev!Byte)
         /\ hpc' = "ack" /\ cmd' = <<Dev!CMD_VERSION>> /\ size' = 2 /\ resp' = << >>
         /\ UNCHANGED <<line, cmd_buf, cmd_buf_idx, pc, device, tty, result, error, version,
                        late, astray>>
         /\ Quiet => Trying'
<1>1. /\ hpc' = "ack" /\ cmd' = <<Dev!CMD_VERSION>> /\ size' = 2 /\ resp' = << >>
      /\ UNCHANGED <<line, cmd_buf, cmd_buf_idx, pc, device, tty, result, error, version,
                     late, astray>>
  BY DEF Query
<1>2. PICK q : /\ rx' = rx \o q
               /\ r = device => q = <<Dev!CMD_VERSION>>
               /\ r # device => q = << >> \/ \E b \in Garbled : q = <<b>>
  <2>1. CASE r = device
    BY <2>1 DEF Query
  <2>2. CASE r # device
    BY <2>2 DEF Query
  <2> QED
    BY <2>1, <2>2
<1>3. q \in Seq(Dev!Byte)
  <2>1. CASE r = device
    <3>1. q = <<Dev!CMD_VERSION>>
      BY <1>2, <2>1
    <3> QED
      BY <3>1, VersionCode
  <2>2. CASE q = << >>
    BY <2>2
  <2>3. ASSUME NEW b \in Garbled, q = <<b>> PROVE q \in Seq(Dev!Byte)
    BY <2>3, GarbledAssumption
  <2> QED
    BY <1>2, <2>1, <2>2, <2>3
<1>4. rx \in Seq(Dev!Byte) /\ rx' \in Seq(Dev!Byte) /\ cmd_buf_idx \in Nat /\ pc \in {"recv", "exec"}
  BY <1>2, <1>3, ConcatProperties DEF IInv, TypeOK, Dev!TypeOK
<1>5. ASSUME Quiet PROVE Trying'
  <2>1. rx = << >> /\ line = << >> /\ tty = << >> /\ pc = "recv" /\ rx' = q
    BY <1>2, <1>3, <1>4, <1>5 DEF Quiet, UnderWay
  <2>2. CASE r # device
    BY <1>1, <2>1, <2>2 DEF Deaf, Trying
  <2>3. CASE r = device
    <3>1. rx' = <<Dev!CMD_VERSION>> /\ Len(rx') = 1 /\ rx' # << >>
      BY <1>2, <2>1, <2>3
    <3>2. CASE cmd_buf_idx = 0
      <4>1. Heard' = 0 /\ Sent' = 0
        BY <1>1, <2>1, <3>1 DEF Heard, Sent
      <4>2. Len(tty') = 0 /\ Len(line') = 0
        BY <1>1, <2>1
      <4>3. Says(tty, Heard)' /\ Says(line, Heard + Len(tty))'
        BY <4>2 DEF Says
      <4> QED
        BY <1>1, <2>1, <2>3, <3>1, <3>2, <4>1, <4>2, <4>3 DEF Answering, Trying
    <3>3. CASE cmd_buf_idx # 0
      <4>1. cmd_buf_idx > 0
        BY <1>4, <3>3
      <4> QED
        BY <1>1, <2>1, <2>3, <3>1, <4>1 DEF Missed, Trying
    <3> QED
      BY <3>2, <3>3
  <2> QED
    BY <2>2, <2>3
<1> QED
  BY <1>1, <1>4, <1>5

LEMMA FirstQueryInv ==
  ASSUME IInv, FirstQuery
  PROVE  IInv'
<1>1. phase = "set up" /\ phase' = "first" /\ rate' = rate /\ Query(rate)
  BY DEF FirstQuery
<1>2. hpc = "idle" /\ version = -1
  BY <1>1, Between
<1>3. /\ rx' \in Seq(Dev!Byte)
      /\ hpc' = "ack" /\ cmd' = <<Dev!CMD_VERSION>> /\ size' = 2 /\ resp' = << >>
      /\ UNCHANGED <<line, cmd_buf, cmd_buf_idx, pc, device, tty, result, error, version,
                     late, astray>>
      /\ Quiet => Trying'
  BY <1>1, <1>2, QueryTries
<1>4. cmd' \in Seq(Dev!Byte)
  BY <1>3, VersionCode
<1>5. TypeOK' /\ DevInv'
  <2>1. Dev!TypeOK'
    BY <1>1, <1>3, <1>4 DEF IInv, TypeOK, Dev!TypeOK
  <2>2. TypeOK'
    <3>1. size' \in {0, 2} /\ resp' \in Seq(Dev!Byte)
      BY <1>3
    <3>2. phase' \in {"closed", "set up", "first", "flushed", "second", "opened", "failed"}
      BY <1>1
    <3>3. rate' \in {"fast", "slow"}
      BY <1>1 DEF IInv, TypeOK
    <3> QED
      BY <1>3, <1>4, <2>1, <3>1, <3>2, <3>3 DEF IInv, TypeOK
  <2>3. DevInv'
    BY <1>1, <1>3, <1>4, <2>1 DEF IInv, DevInv, Partial, Whole
  <2> QED
    BY <2>2, <2>3
<1>6. late' \/ Stage'
  BY <1>1, <1>3 DEF IInv, Stage
<1> QED
  BY <1>1, <1>3, <1>5, <1>6 DEF IInv, Checking, Unopened

LEMMA SecondQueryInv ==
  ASSUME IInv, SecondQuery
  PROVE  IInv'
<1>1. phase = "flushed" /\ phase' = "second" /\ rate' = "slow" /\ Query("slow")
  BY DEF SecondQuery
<1>2. hpc = "idle" /\ version = -1
  BY <1>1, Between
<1>3. /\ rx' \in Seq(Dev!Byte)
      /\ hpc' = "ack" /\ cmd' = <<Dev!CMD_VERSION>> /\ size' = 2 /\ resp' = << >>
      /\ UNCHANGED <<line, cmd_buf, cmd_buf_idx, pc, device, tty, result, error, version,
                     late, astray>>
      /\ Quiet => Trying'
  BY <1>1, <1>2, QueryTries
<1>4. cmd' \in Seq(Dev!Byte)
  BY <1>3, VersionCode
<1>5. TypeOK' /\ DevInv'
  <2>1. Dev!TypeOK'
    BY <1>1, <1>3, <1>4 DEF IInv, TypeOK, Dev!TypeOK
  <2>2. TypeOK'
    <3>1. /\ rate' \in {"fast", "slow"} /\ size' \in {0, 2} /\ resp' \in Seq(Dev!Byte)
          /\ phase' \in {"closed", "set up", "first", "flushed", "second", "opened", "failed"}
      BY <1>1, <1>3
    <3> QED
      BY <1>3, <1>4, <2>1, <3>1 DEF IInv, TypeOK
  <2>3. DevInv'
    BY <1>1, <1>3, <1>4, <2>1 DEF IInv, DevInv, Partial, Whole
  <2> QED
    BY <2>2, <2>3
<1>6. late' \/ Stage'
  BY <1>1, <1>3 DEF IInv, Stage
<1> QED
  BY <1>1, <1>3, <1>5, <1>6 DEF IInv, Checking, Unopened

(* An answer that has been heard to its end leaves nothing behind. *)
LEMMA OpenedInv ==
  ASSUME IInv, Opened
  PROVE  IInv'
<1>1. /\ phase \in {"first", "second"} /\ hpc = "idle" /\ version # -1 /\ phase' = "opened"
      /\ UNCHANGED <<rx, line, cmd_buf, cmd_buf_idx, pc, device, rate, tty, hpc, cmd, size, resp,
                     result, error, version, late, astray>>
  BY DEF Opened, interpreter, check
<1>2. TypeOK' /\ DevInv'
  BY <1>1 DEF IInv, TypeOK, DevInv, Dev!TypeOK, Partial, Whole
<1>3. late' \/ Stage'
  <2> SUFFICES ASSUME ~late PROVE Stage'
    BY <1>1
  <2>1. Answering
    BY <1>1 DEF IInv, Stage, Trying, Missed, Deaf
  <2>2. tty \in Seq(Dev!Byte) /\ line \in Seq(Dev!Byte) /\ Len(tty) \in Nat /\ Len(line) \in Nat
    BY LenProperties DEF IInv, TypeOK, Dev!TypeOK
  <2>3. Heard = 4 /\ Sent \in {0, 1, 4} /\ Heard + Len(tty) + Len(line) = Sent
    BY <1>1, <2>1 DEF Answering, Heard, Sent
  <2>4. Sent = 4 /\ Len(tty) = 0 /\ Len(line) = 0
    BY <2>2, <2>3
  <2>5. tty = << >> /\ line = << >>
    BY <2>2, <2>4
  <2>6. pc # "exec" /\ rx = << >>
    BY <2>4 DEF Sent
  <2> QED
    BY <1>1, <2>1, <2>5, <2>6 DEF Stage, Answering, Quiet, UnderWay
<1> QED
  BY <1>1, <1>2, <1>3 DEF IInv, Checking, Unopened

LEMMA FailedInv ==
  ASSUME IInv, Failed
  PROVE  IInv'
<1>1. /\ phase = "second" /\ hpc = "idle" /\ version = -1 /\ phase' = "failed"
      /\ UNCHANGED <<rx, line, cmd_buf, cmd_buf_idx, pc, device, rate, tty, hpc, cmd, size, resp,
                     result, error, version, late, astray>>
  BY DEF Failed, interpreter, check
<1>2. TypeOK' /\ DevInv'
  BY <1>1 DEF IInv, TypeOK, DevInv, Dev!TypeOK, Partial, Whole
<1>3. late' \/ Stage'
  <2> SUFFICES ASSUME ~late PROVE Stage'
    BY <1>1
  <2>1. Trying /\ rate = "slow" /\ (device = "fast" => astray)
    BY <1>1 DEF IInv, Stage
  <2>2. ~Answering
    BY <1>1, VersionCode DEF Answering
  <2>3. Missed => astray
    BY <1>1 DEF Missed
  <2>4. Deaf => device = "fast"
    BY <2>1 DEF Deaf, IInv, TypeOK
  <2> QED
    BY <1>1, <2>1, <2>2, <2>3, <2>4 DEF Stage, Trying
<1> QED
  BY <1>1, <1>2, <1>3 DEF IInv, Checking, Unopened
-----------------------------------------------------------------------------
LEMMA InitInv == Init => IInv
<1> SUFFICES ASSUME Init PROVE IInv
  OBVIOUS
<1>1. cmd_buf \in [0 .. Dev!BufSize - 1 -> Dev!Byte] /\ (cmd_buf_idx > 0 => cmd_buf[0] = Dev!CMD_RESET)
  <2>1. Dev!CMD_RESET \in Dev!Byte /\ 0 \in Dev!Byte /\ 0 \in 0 .. Dev!BufSize - 1
    BY Codes, VersionCode
  <2> QED
    BY <2>1 DEF Init
<1>2. line \in Seq(Dev!Byte) /\ tty \in Seq(Dev!Byte)
  BY OpenAssumption DEF Init
<1>3. DevInv
  BY <1>1, <1>2 DEF Init, DevInv, Dev!TypeOK, Partial, Whole
<1>4. TypeOK
  <2>1. /\ cmd = << >> /\ size = 0 /\ resp = << >> /\ result = << >> /\ error = 0 /\ version = -1
        /\ device \in {"fast", "slow"} /\ rate \in {"fast", "slow"}
        /\ phase = "closed" /\ hpc = "idle" /\ late \in BOOLEAN /\ astray \in BOOLEAN
    BY DEF Init
  <2>2. Dev!TypeOK
    BY <1>3 DEF DevInv
  <2> QED
    BY <1>2, <2>1, <2>2 DEF TypeOK
<1> QED
  BY <1>3, <1>4 DEF Init, IInv, Checking, Unopened, Stage

LEMMA StepInv == IInv /\ [Next]_vars => IInv'
<1> SUFFICES ASSUME IInv, [Next]_vars PROVE IInv'
  OBVIOUS
<1>1. CASE Open
  BY <1>1, TtyFailsInv, SetUpInv, FirstQueryInv, FlushAgainInv, SecondQueryInv, OpenedInv,
     FailedInv, ErrorCheckInv DEF Open
<1>2. CASE Interpreter
  BY <1>2, InterpreterInv
<1>3. CASE Arrives
  BY <1>3, ArrivesInv
<1>4. CASE UNCHANGED vars
  <2>1. UNCHANGED <<rx, line, cmd_buf, cmd_buf_idx, pc, device, rate, tty, phase, hpc, cmd, size,
                    resp, result, error, version, late, astray>>
    BY <1>4 DEF vars, interpreter, check
  <2>2. TypeOK' /\ DevInv' /\ Checking' /\ Unopened'
    <3>1. Dev!TypeOK'
      BY <2>1 DEF IInv, TypeOK, Dev!TypeOK
    <3>2. TypeOK'
      <4>1. /\ device' \in {"fast", "slow"} /\ rate' \in {"fast", "slow"}
            /\ tty' \in Seq(Dev!Byte)
            /\ phase' \in {"closed", "set up", "first", "flushed", "second", "opened", "failed"}
            /\ hpc' \in {"idle", "ack", "status", "payload", "code", "unexpected", "badStatus"}
        BY <2>1 DEF IInv, TypeOK
      <4>2. /\ cmd' \in Seq(Dev!Byte) /\ size' \in {0, 2}
            /\ resp' \in Seq(Dev!Byte) /\ result' \in Seq(Dev!Byte)
            /\ error' \in 0 .. 5 /\ version' \in {-1} \cup 0 .. 2
            /\ late' \in BOOLEAN /\ astray' \in BOOLEAN
        BY <2>1 DEF IInv, TypeOK
      <4> QED
        BY <3>1, <4>1, <4>2 DEF TypeOK
    <3>3. DevInv'
      BY <2>1, <3>1 DEF IInv, DevInv, Partial, Whole
    <3>4. Checking' /\ Unopened'
      BY <2>1 DEF IInv, Checking, Unopened
    <3> QED
      BY <3>2, <3>3, <3>4
  <2>3. Trying => Trying'
    BY <2>1 DEF Trying, Answering, Missed, Deaf, Heard, Sent, Says, Answer
  <2>4. late' \/ Stage'
    BY <2>1, <2>3 DEF IInv, Stage, Quiet, UnderWay
  <2> QED
    BY <2>1, <2>2, <2>4 DEF IInv
<1> QED
  BY <1>1, <1>2, <1>3, <1>4 DEF Next

LEMMA SpecInv == Spec => []IInv
BY InitInv, StepInv, PTL DEF Spec

(* Opening a device keeps its types: whatever a line at the wrong rate      *)
(* makes of the bytes, the version found is one that the library supports   *)
(* and the interpreter's buffer holds bytes (libespstlink.c:78-121).        *)
THEOREM TypeCorrect == Spec => []TypeOK
<1>1. IInv => TypeOK
  BY DEF IInv
<1> QED
  BY <1>1, SpecInv, PTL

(* A device that was opened in time can be talked to, whatever noise the    *)
(* wrong rate makes and whatever an earlier session has left behind: the    *)
(* version comes from the whole answer to a query, so that the rates agree  *)
(* and both ends are between two commands (libespstlink.c:93, 103-115).     *)
THEOREM OpenInStepAlways == Spec => []OpenInStep
<1>1. IInv => OpenInStep
  <2> SUFFICES ASSUME IInv, phase = "opened", ~late
               PROVE  /\ rate = device
                      /\ version = Dev!FIRMWARE_VERSION_MAJOR * (ByteMax + 1)
                                     + Dev!FIRMWARE_VERSION_MINOR
                      /\ tty = << >> /\ ~UnderWay /\ cmd_buf_idx = 0
    BY DEF OpenInStep
  <2>1. rate = device /\ Quiet /\ cmd_buf_idx = 0 /\ version = Dev!FIRMWARE_VERSION_MINOR
    BY DEF IInv, Stage
  <2>2. Dev!FIRMWARE_VERSION_MAJOR * (ByteMax + 1) + Dev!FIRMWARE_VERSION_MINOR
          = Dev!FIRMWARE_VERSION_MINOR
    BY VersionCode, OpenAssumption
  <2> QED
    BY <2>1, <2>2 DEF Quiet
<1> QED
  BY <1>1, SpecInv, PTL

(* A device of either rate that answers in time is found.  An open misses   *)
(* it, or waits for ever, only after it took a query for an argument of     *)
(* another command, or in the read() of unexpected data at the first rate,  *)
(* for a slow device whose garbled answer came through in part: the wait of *)
(* libespstlink.c:198, which keeps the library from the second rate.        *)
THEOREM OpenFindsAlways == Spec => []OpenFinds
<1>1. IInv => OpenFinds
  <2> SUFFICES ASSUME IInv, ~late, ~astray
               PROVE  /\ phase = "failed" => error = ESPSTLINK_ERROR_SERIAL
                      /\ Blocked => phase = "first" /\ device = "slow" /\ hpc = "unexpected"
    BY DEF OpenFinds
  <2>1. Stage
    BY DEF IInv
  <2>2. phase = "failed" => error = ESPSTLINK_ERROR_SERIAL
    BY <2>1 DEF Stage
  <2>3. ASSUME Blocked
        PROVE  phase = "first" /\ device = "slow" /\ hpc = "unexpected"
    <3>1. hpc \notin {"idle", "ack"} /\ tty = << >> /\ line = << >> /\ rx = << >> /\ pc # "exec"
      BY <2>3 DEF Blocked, UnderWay
    <3>2. phase \in {"first", "second"} /\ Trying
      BY <2>1, <3>1 DEF IInv, Checking, Stage
    <3>3. ~Answering
      <4> SUFFICES ASSUME Answering PROVE FALSE
        OBVIOUS
      <4>1. hpc = "status" \/ (hpc = "payload" /\ (resp = << >> \/ resp = <<0>>))
        BY <3>1 DEF Answering
      <4>2. Heard \in 1 .. 3
        <5>1. CASE hpc = "status"
          BY <5>1 DEF Heard
        <5>2. CASE hpc = "payload" /\ (resp = << >> \/ resp = <<0>>)
          <6>1. Heard = 2 + Len(resp)
            BY <5>2 DEF Heard
          <6>2. CASE resp = << >>
            <7>1. Len(resp) = 0
              BY <6>2
            <7> QED
              BY <6>1, <7>1
          <6>3. CASE resp = <<0>>
            <7>1. Len(resp) = 1
              BY <6>3
            <7> QED
              BY <6>1, <7>1
          <6> QED
            BY <5>2, <6>2, <6>3
        <5> QED
          BY <4>1, <5>1, <5>2
      <4>3. Sent = 4 /\ Len(tty) = 0 /\ Len(line) = 0
        BY <3>1 DEF Sent
      <4>4. Heard + Len(tty) + Len(line) = Sent
        BY DEF Answering
      <4> QED
        BY <4>2, <4>3, <4>4
    <3>4. ~Missed
      BY <3>1 DEF Missed
    <3>5. Deaf
      BY <3>2, <3>3, <3>4 DEF Trying
    <3>6. phase = "first" /\ rate = "fast"
      BY <2>1, <3>2, <3>5 DEF Stage, Deaf, IInv, TypeOK
    <3> QED
      BY <3>1, <3>5, <3>6 DEF Deaf, IInv, TypeOK
  <2> QED
    BY <2>2, <2>3
<1> QED
  BY <1>1, SpecInv, PTL
=============================================================================
