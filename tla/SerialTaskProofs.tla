-------------------------- MODULE SerialTaskProofs --------------------------
(***************************************************************************)
(* Proofs about SerialTask, for every byte width, address length, host and *)
(* target: the buffer invariant of the command interpreter.                *)
(***************************************************************************)
EXTENDS RecordedTask, SequenceTheorems, TLAPS

(* While reading, the command in the buffer still wants bytes, and its     *)
(* index has not passed the end it is heading for.  The inequality is what *)
(* makes the equality test on a write's size safe.                         *)
Partial ==
  pc = "recv" /\ cmd_buf_idx > 0 =>
    \/ cmd_buf[0] = CMD_ROTF  /\ cmd_buf_idx < Header
    \/ cmd_buf[0] = CMD_WOTF  /\ cmd_buf_idx < Header + cmd_buf[1]
    \/ cmd_buf[0] = CMD_RESET /\ cmd_buf_idx < 2

(* While serving, the index is the size of the command. *)
Whole ==
  pc = "exec" =>
    cmd_buf_idx = CASE cmd_buf[0] = CMD_ROTF  -> Header
                    [] cmd_buf[0] = CMD_WOTF  -> Header + cmd_buf[1]
                    [] cmd_buf[0] = CMD_RESET -> 2
                    [] OTHER -> 1

(* The inductive invariant. *)
IInv == TypeOK /\ Partial /\ Whole

-----------------------------------------------------------------------------
LEMMA Codes ==
  /\ CMD_SRST \in Byte /\ CMD_ROTF \in Byte /\ CMD_WOTF \in Byte
  /\ CMD_RESET \in Byte /\ CMD_INIT \in Byte /\ CMD_VERSION \in Byte
  /\ CMD_WOTF # CMD_ROTF /\ CMD_RESET \notin {CMD_ROTF, CMD_WOTF}
  /\ {CMD_INIT, CMD_VERSION} \cap {CMD_ROTF, CMD_WOTF, CMD_RESET} = {}
  /\ Header \in Nat /\ Header >= 2
  /\ BufSize \in Nat /\ BufSize >= 7 /\ BufSize = Header + ByteMax
  /\ 0 \in 0 .. BufSize - 1 /\ 1 \in 0 .. BufSize - 1
BY SizesAssumption
DEF CMD_SRST, CMD_ROTF, CMD_WOTF, CMD_RESET, CMD_INIT, CMD_VERSION, Byte, Header, BufSize

(* Every prefix of the buffer is a sequence of bytes of the length asked for. *)
LEMMA BytesType ==
  ASSUME NEW buf \in [0 .. BufSize - 1 -> Byte], NEW n \in 0 .. BufSize
  PROVE  Bytes(buf, n) \in Seq(Byte) /\ Len(Bytes(buf, n)) = n
<1>1. \A k \in 1 .. n : k - 1 \in 0 .. BufSize - 1
  BY Codes
<1>2. Bytes(buf, n) \in [1 .. n -> Byte]
  BY <1>1 DEF Bytes
<1> QED
  BY <1>2

(* The two bytes of a number are bytes. *)
LEMMA HighLow ==
  ASSUME NEW n \in Int
  PROVE  High(n) \in Byte /\ Low(n) \in Byte
<1>1. ByteMax + 1 \in Nat /\ ByteMax + 1 > 0
  BY SizesAssumption
<1>2. n \div (ByteMax + 1) \in Int
  BY <1>1
<1>3. /\ n % (ByteMax + 1) \in 0 .. ByteMax
      /\ (n \div (ByteMax + 1)) % (ByteMax + 1) \in 0 .. ByteMax
  BY <1>1, <1>2, SizesAssumption
<1> QED
  BY <1>3 DEF High, Low, Byte

(* An error code leaves as three bytes. *)
LEMMA ErrorReplyType ==
  ASSUME NEW result \in Int
  PROVE  ErrorReply(result) \in Seq(Byte)
<1>1. High(-result) \in Byte /\ Low(-result) \in Byte
  BY HighLow
<1>2. ByteMax \in Byte
  BY SizesAssumption DEF Byte
<1> QED
  BY <1>1, <1>2 DEF ErrorReply

(* Whatever the command did, the end of the loop body restores the         *)
(* invariant: this is where cmd_buf_idx goes back to zero.                 *)
LEMMA FinishInv ==
  ASSUME TypeOK,
         NEW buf \in [0 .. BufSize - 1 -> Byte],
         NEW idx \in 0 .. BufSize,
         NEW result \in Int,
         Finish(buf, idx, result)
  PROVE  IInv'
<1>1. cmd_buf' \in [0 .. BufSize - 1 -> Byte]
  BY Codes, SizesAssumption DEF Finish, Byte
<1>2. tx' \in Seq(Byte)
  <2>1. CASE result < 0
    <3>1. tx' = tx \o ErrorReply(result)
      BY <2>1 DEF Finish
    <3> QED
      BY <3>1, ErrorReplyType, ConcatProperties DEF TypeOK
  <2>2. CASE ~(result < 0)
    <3>1. tx' = tx \o Bytes(cmd_buf', idx)
      BY <2>2 DEF Finish
    <3>2. Bytes(cmd_buf', idx) \in Seq(Byte)
      BY <1>1, BytesType
    <3> QED
      BY <3>1, <3>2, ConcatProperties DEF TypeOK
  <2> QED
    BY <2>1, <2>2
<1>3. rx' \in Seq(Byte) /\ cmd_buf_idx' = 0 /\ pc' = "recv"
  BY DEF Finish, TypeOK
<1> QED
  BY <1>1, <1>2, <1>3 DEF IInv, TypeOK, Partial, Whole

-----------------------------------------------------------------------------
(* The index is inside the buffer whenever the invariant holds. *)
LEMMA Bounds == IInv => InBounds
<1> SUFFICES ASSUME IInv PROVE InBounds
  OBVIOUS
<1>1. cmd_buf[0] \in 0 .. ByteMax /\ cmd_buf[1] \in 0 .. ByteMax
  BY Codes, SizesAssumption DEF IInv, TypeOK, Byte
<1>2. pc = "recv" => cmd_buf_idx < BufSize
  BY <1>1, Codes, SizesAssumption DEF IInv, TypeOK, Partial
<1>3. ASSUME pc = "exec"
      PROVE  cmd_buf_idx <= BufSize /\ ReplySize <= BufSize
  <2>1. CASE cmd_buf[0] = CMD_ROTF
    <3>1. cmd_buf_idx = Header /\ ReplySize = cmd_buf_idx + cmd_buf[1]
      BY <1>3, <2>1, Codes DEF IInv, Whole, ReplySize
    <3> QED
      BY <3>1, <1>1, Codes, SizesAssumption
  <2>2. CASE cmd_buf[0] = CMD_WOTF
    <3>1. cmd_buf_idx = Header + cmd_buf[1] /\ ReplySize = Header
      BY <1>3, <2>2, Codes DEF IInv, Whole, ReplySize
    <3> QED
      BY <3>1, <1>1, Codes, SizesAssumption
  <2>3. CASE cmd_buf[0] \notin {CMD_ROTF, CMD_WOTF}
    <3>1. cmd_buf_idx \in 1 .. 2
      BY <1>3, <2>3 DEF IInv, Whole
    <3>2. ReplySize \in {1, cmd_buf_idx + 2}
      BY <2>3 DEF ReplySize
    <3> QED
      BY <3>1, <3>2, Codes
  <2> QED
    BY <2>1, <2>2, <2>3
<1> QED
  BY <1>2, <1>3 DEF InBounds

LEMMA InitInv == Init => IInv
<1> SUFFICES ASSUME Init PROVE IInv
  OBVIOUS
<1>1. 0 \in Byte
  BY Codes DEF CMD_SRST
<1> QED
  BY <1>1 DEF Init, IInv, TypeOK, Partial, Whole

(* Storing a byte keeps the buffer typed. *)
LEMMA TakeByteType ==
  ASSUME IInv, TakeByte
  PROVE  /\ rx' \in Seq(Byte)
         /\ Head(rx) \in Byte
         /\ cmd_buf' \in [0 .. BufSize - 1 -> Byte]
         /\ cmd_buf_idx' = cmd_buf_idx + 1
         /\ cmd_buf_idx \in 0 .. BufSize - 1
         /\ cmd_buf'[cmd_buf_idx] = Head(rx)
         /\ cmd_buf_idx > 0 => cmd_buf'[0] = cmd_buf[0]
         /\ cmd_buf_idx > 1 => cmd_buf'[1] = cmd_buf[1]
<1>1. cmd_buf_idx \in 0 .. BufSize - 1
  BY Bounds, Codes DEF IInv, TypeOK, InBounds, TakeByte
<1>2. rx \in Seq(Byte) /\ rx # << >>
  BY DEF IInv, TypeOK, TakeByte
<1>3. Head(rx) \in Byte /\ Tail(rx) \in Seq(Byte)
  BY <1>2
<1> QED
  BY <1>1, <1>3, Codes DEF IInv, TypeOK, TakeByte

LEMMA RecvArgumentInv ==
  ASSUME IInv, RecvArgument
  PROVE  IInv'
<1>1. TakeByte /\ Incomplete(cmd_buf', cmd_buf_idx') /\ tx' = tx /\ pc' = pc /\ pc = "recv"
  BY DEF RecvArgument, TakeByte
<1>2. TypeOK'
  BY <1>1, TakeByteType DEF IInv, TypeOK
<1>3. cmd_buf'[0] \in 0 .. ByteMax /\ cmd_buf'[1] \in 0 .. ByteMax
  BY <1>1, TakeByteType, Codes DEF Byte
<1>4. cmd_buf'[0] = CMD_WOTF => cmd_buf_idx' < Header + cmd_buf'[1]
  <2> SUFFICES ASSUME cmd_buf'[0] = CMD_WOTF
               PROVE  cmd_buf_idx' < Header + cmd_buf'[1]
    OBVIOUS
  <2>1. cmd_buf'[1] # cmd_buf_idx' - Header
    BY <1>1, Codes DEF Incomplete
  <2>2. CASE cmd_buf_idx <= 1
    <3>1. cmd_buf_idx \in Nat /\ cmd_buf_idx' = cmd_buf_idx + 1
      BY <1>1, TakeByteType, Codes
    <3>2. cmd_buf'[1] \in Nat /\ Header \in Nat /\ Header >= 2
      BY <1>3, Codes, SizesAssumption
    <3> QED
      BY <3>1, <3>2, <2>1, <2>2
  <2>3. CASE cmd_buf_idx > 1
    <3>1. /\ cmd_buf_idx \in Nat /\ cmd_buf_idx' = cmd_buf_idx + 1
          /\ cmd_buf[0] = cmd_buf'[0] /\ cmd_buf[1] = cmd_buf'[1]
      <4>1. cmd_buf_idx \in 0 .. BufSize - 1 /\ BufSize \in Nat
        BY <1>1, TakeByteType, Codes
      <4>2. cmd_buf_idx \in Nat /\ cmd_buf_idx > 0
        BY <2>3, <4>1
      <4> QED
        BY <1>1, <2>3, <4>2, TakeByteType
    <3>2. cmd_buf_idx < Header + cmd_buf[1]
      <4>1. CMD_WOTF # CMD_ROTF /\ CMD_WOTF # CMD_RESET
        BY Codes
      <4> QED
        BY <1>1, <2>3, <3>1, <4>1 DEF IInv, Partial
    <3>3. cmd_buf'[1] \in Nat /\ Header \in Nat
      BY <1>3, Codes, SizesAssumption
    <3> QED
      BY <2>1, <3>1, <3>2, <3>3
  <2> QED
    BY <2>2, <2>3, <1>1, TakeByteType
<1>5. Partial'
  BY <1>1, <1>4 DEF Partial, Incomplete
<1> QED
  BY <1>1, <1>2, <1>5 DEF IInv, Whole

LEMMA RecvLastInv ==
  ASSUME IInv, RecvLast
  PROVE  IInv'
<1>1. TakeByte /\ ~Incomplete(cmd_buf', cmd_buf_idx') /\ pc' = "exec" /\ pc = "recv"
  BY DEF RecvLast, TakeByte
<1>2. cmd_buf'[0] \in Byte /\ tx' \in Seq(Byte)
  <2>1. cmd_buf'[0] \in Byte
    BY <1>1, TakeByteType, Codes
  <2> QED
    BY <2>1, AppendProperties DEF RecvLast, IInv, TypeOK
<1>3. TypeOK'
  <2>1. cmd_buf' \in [0 .. BufSize - 1 -> Byte] /\ rx' \in Seq(Byte)
    BY <1>1, TakeByteType
  <2>2. cmd_buf_idx' \in Nat
    BY <1>1, TakeByteType, Codes
  <2> QED
    BY <1>1, <1>2, <2>1, <2>2 DEF TypeOK
<1>4. cmd_buf'[0] \in 0 .. ByteMax /\ cmd_buf'[1] \in 0 .. ByteMax
  <2>1. cmd_buf' \in [0 .. BufSize - 1 -> Byte]
    BY <1>3 DEF TypeOK
  <2>2. 0 \in 0 .. BufSize - 1 /\ 1 \in 0 .. BufSize - 1
    BY Codes
  <2> QED
    BY <2>1, <2>2 DEF Byte
<1>5. Whole'
  <2>1. CASE cmd_buf_idx = 0
    <3>1. cmd_buf_idx' = 1
      BY <1>1, <2>1, TakeByteType
    <3>2. ~Incomplete(cmd_buf', 1)
      BY <1>1, <3>1
    <3> QED
      BY <3>1, <3>2, <1>4, Codes, SizesAssumption DEF Whole, Incomplete
  <2>2. CASE cmd_buf_idx > 0
    <3>1. cmd_buf_idx \in Nat /\ cmd_buf_idx' = cmd_buf_idx + 1 /\ cmd_buf'[0] = cmd_buf[0]
      BY <2>2, <1>1, TakeByteType, Codes
    <3>2. CASE cmd_buf[0] = CMD_ROTF
      <4>1. cmd_buf_idx < Header /\ ~(cmd_buf_idx' < Header)
        BY <3>1, <3>2, <2>2, <1>1, Codes DEF Incomplete, IInv, Partial
      <4>2. cmd_buf_idx' = Header
        BY <4>1, <3>1, Codes
      <4> QED
        BY <4>2, <3>1, <3>2, Codes DEF Whole
    <3>3. CASE cmd_buf[0] = CMD_WOTF
      <4>1. cmd_buf'[1] = cmd_buf_idx' - Header
        BY <3>1, <3>3, <1>1, Codes DEF Incomplete
      <4>2. cmd_buf_idx' = Header + cmd_buf'[1]
        BY <4>1, <3>1, <1>4, Codes
      <4> QED
        BY <4>2, <3>1, <3>3, Codes DEF Whole
    <3>4. CASE cmd_buf[0] = CMD_RESET
      <4>1. cmd_buf_idx < 2 /\ ~(cmd_buf_idx' < 2)
        BY <3>1, <3>4, <2>2, <1>1, Codes DEF Incomplete, IInv, Partial
      <4>2. cmd_buf_idx' = 2
        BY <4>1, <3>1
      <4> QED
        BY <4>2, <3>1, <3>4, Codes DEF Whole
    <3> QED
      BY <3>2, <3>3, <3>4, <2>2, <1>1 DEF IInv, Partial
  <2> QED
    BY <2>1, <2>2, <1>1, TakeByteType
<1> QED
  BY <1>1, <1>3, <1>5 DEF IInv, Partial

LEMMA CodesDiffer ==
  /\ CMD_SRST \notin {CMD_ROTF, CMD_WOTF, CMD_RESET, CMD_INIT, CMD_VERSION}
  /\ CMD_ROTF \notin {CMD_WOTF, CMD_RESET, CMD_INIT, CMD_VERSION}
  /\ CMD_WOTF \notin {CMD_RESET, CMD_INIT, CMD_VERSION}
  /\ CMD_RESET \notin {CMD_INIT, CMD_VERSION}
  /\ CMD_INIT # CMD_VERSION
BY SizesAssumption DEF CMD_SRST, CMD_ROTF, CMD_WOTF, CMD_RESET, CMD_INIT, CMD_VERSION

(* What an outcome can be. *)
LEMMA OutcomeIs ==
  ASSUME NEW out \in Outcomes
  PROVE  /\ out.result \in SwimErrors \cup Durations \cup {0, -1}
         /\ cmd_buf[0] = CMD_ROTF =>
              /\ \E n \in 0 .. cmd_buf[1] : out.data \in [1 .. n -> ReadBytes]
              /\ out.result \in SwimErrors \cup {0}
              /\ out.result = 0 => Len(out.data) = cmd_buf[1]
         /\ cmd_buf[0] # CMD_ROTF => out.data = << >>
         /\ cmd_buf[0] \in {CMD_SRST, CMD_WOTF} => out.result \in SwimErrors \cup {0}
         /\ cmd_buf[0] = CMD_INIT => out.result \in SwimErrors \cup Durations
         /\ cmd_buf[0] \in {CMD_RESET, CMD_VERSION} => out.result = 0
         /\ cmd_buf[0] \notin {CMD_SRST, CMD_ROTF, CMD_WOTF, CMD_RESET, CMD_INIT, CMD_VERSION} =>
              out.result = -1
         /\ out = [result |-> out.result, data |-> out.data]
<1>1. CASE cmd_buf[0] \in {CMD_SRST, CMD_WOTF}
  <2>1. out \in [result : SwimErrors \cup {0}, data : {<< >>}]
    BY <1>1, CodesDiffer DEF Outcomes
  <2> QED
    BY <1>1, <2>1, CodesDiffer
<1>2. CASE cmd_buf[0] = CMD_ROTF
  <2>1. /\ out \in [result : SwimErrors \cup {0},
                    data : UNION {[1 .. n -> ReadBytes] : n \in 0 .. cmd_buf[1]}]
        /\ out.result = 0 => Len(out.data) = cmd_buf[1]
    BY <1>2, CodesDiffer DEF Outcomes
  <2> QED
    BY <1>2, <2>1, CodesDiffer
<1>3. CASE cmd_buf[0] = CMD_INIT
  <2>1. out \in [result : SwimErrors \cup Durations, data : {<< >>}]
    BY <1>3, CodesDiffer DEF Outcomes
  <2> QED
    BY <1>3, <2>1, CodesDiffer
<1>4. CASE cmd_buf[0] \in {CMD_RESET, CMD_VERSION}
  <2>1. out = [result |-> 0, data |-> << >>]
    BY <1>4, CodesDiffer DEF Outcomes
  <2> QED
    BY <1>4, <2>1, CodesDiffer
<1>5. CASE cmd_buf[0] \notin {CMD_SRST, CMD_ROTF, CMD_WOTF, CMD_RESET, CMD_INIT, CMD_VERSION}
  <2>1. out = [result |-> -1, data |-> << >>]
    BY <1>5 DEF Outcomes
  <2> QED
    BY <1>5, <2>1
<1> QED
  BY <1>1, <1>2, <1>3, <1>4, <1>5

(* The results are numbers, and negative ones are those of an error. *)
LEMMA Results ==
  /\ \A r \in SwimErrors : r \in Int /\ r < 0 /\ -r \in 1 .. ByteMax
  /\ \A r \in Durations : r \in Int /\ ~(r < 0)
  /\ -1 \in Int /\ -1 < 0 /\ -(-1) \in 1 .. ByteMax
<1>1. \A n \in 1 .. ByteMax : -n \in Int /\ -n < 0 /\ -(-n) \in 1 .. ByteMax
  BY SizesAssumption
<1>2. \A r \in SwimErrors : r \in Int /\ r < 0 /\ -r \in 1 .. ByteMax
  BY <1>1, SwimAssumption
<1>3. \A r \in Durations : r \in Int /\ ~(r < 0)
  BY SwimAssumption
<1>4. -1 \in Int /\ -1 < 0 /\ -(-1) \in 1 .. ByteMax
  BY SizesAssumption
<1> QED
  BY <1>2, <1>3, <1>4

LEMMA ResultIs ==
  ASSUME NEW out \in Outcomes
  PROVE  out.result \in Int /\ (out.result < 0 => -out.result \in 1 .. ByteMax)
<1>1. out.result \in SwimErrors \cup Durations \cup {0, -1}
  BY OutcomeIs
<1>2. 0 \in Int /\ ~(0 < 0)
  OBVIOUS
<1> QED
  BY <1>1, <1>2, Results

(* Data in the buffer: a read's, behind the header, and what was there.    *)
LEMMA StoredIs ==
  ASSUME NEW out \in Outcomes, cmd_buf[0] = CMD_ROTF,
         cmd_buf \in [0 .. BufSize - 1 -> Byte], cmd_buf[1] \in 0 .. ByteMax
  PROVE  LET buf == Stored(Header, out.data) IN
         /\ buf \in [0 .. BufSize - 1 -> Byte]
         /\ out.data \in Seq(ReadBytes) /\ out.data \in Seq(Byte) /\ Len(out.data) \in 0 .. cmd_buf[1]
         /\ \A k \in 0 .. Header - 1 : buf[k] = cmd_buf[k]
         /\ \A k \in 1 .. Len(out.data) : buf[Header + k - 1] = out.data[k]
<1>1. PICK n \in 0 .. cmd_buf[1] : out.data \in [1 .. n -> ReadBytes]
  BY OutcomeIs
<1>2. /\ out.data \in Seq(ReadBytes) /\ Len(out.data) = n /\ n \in Nat /\ n <= ByteMax
      /\ \A k \in 1 .. n : out.data[k] \in Byte
  BY <1>1, BytesAssumption, SizesAssumption
<1>3. /\ Header \in Nat /\ BufSize \in Nat /\ BufSize = Header + ByteMax /\ ByteMax \in Nat
  BY Codes, SizesAssumption
<1>4. /\ \A k \in 0 .. BufSize - 1 : k \in Header .. Header + n - 1 => k - Header + 1 \in 1 .. n
      /\ \A k \in 0 .. Header - 1 : k \in 0 .. BufSize - 1 /\ k \notin Header .. Header + n - 1
      /\ \A k \in 1 .. n : /\ Header + k - 1 \in 0 .. BufSize - 1
                          /\ Header + k - 1 \in Header .. Header + n - 1
                          /\ (Header + k - 1) - Header + 1 = k
  BY <1>2, <1>3
<1>5. Stored(Header, out.data) =
        [k \in 0 .. BufSize - 1 |->
           IF k \in Header .. Header + n - 1 THEN out.data[k - Header + 1] ELSE cmd_buf[k]]
  BY <1>2 DEF Stored
<1>6. Stored(Header, out.data) \in [0 .. BufSize - 1 -> Byte]
  BY <1>2, <1>4, <1>5
<1>7. \A k \in 0 .. Header - 1 : Stored(Header, out.data)[k] = cmd_buf[k]
  BY <1>4, <1>5
<1>8. \A k \in 1 .. n : Stored(Header, out.data)[Header + k - 1] = out.data[k]
  BY <1>4, <1>5
<1>9. out.data \in Seq(Byte)
  BY <1>1, <1>2
<1> QED
  BY <1>1, <1>2, <1>6, <1>7, <1>8, <1>9

(* Every command ends in Finish with a well-typed buffer. *)
LEMMA ExecuteInv ==
  ASSUME IInv, Execute
  PROVE  IInv'
<1>0. PICK out \in Outcomes : Serve(out)
  BY DEF Execute
<1>1. pc = "exec" /\ TypeOK
  BY <1>0 DEF Serve, Serving, DoSrst, DoRotf, DoWotf, DoInit, DoReset, DoVersion, DoUnknown, IInv
<1>2. /\ cmd_buf_idx \in 0 .. BufSize
      /\ cmd_buf \in [0 .. BufSize - 1 -> Byte]
      /\ cmd_buf[1] \in 0 .. ByteMax
  <2>1. cmd_buf_idx \in Nat /\ cmd_buf_idx <= BufSize
    BY <1>1, Bounds DEF TypeOK, InBounds
  <2> QED
    <3>1. cmd_buf \in [0 .. BufSize - 1 -> Byte]
      BY <1>1 DEF TypeOK
    <3>2. cmd_buf[1] \in 0 .. ByteMax
      BY <3>1, Codes DEF Byte
    <3>3. cmd_buf_idx \in 0 .. BufSize
      BY <2>1, Codes
    <3> QED
      BY <3>1, <3>2, <3>3
<1>3. out.result \in Int
  BY ResultIs
<1>4. CASE DoSrst(out)
  BY <1>1, <1>2, <1>3, <1>4, FinishInv DEF DoSrst
<1>5. CASE DoRotf(out)
  <2>1. Finish(Stored(Header, out.data), cmd_buf_idx + cmd_buf[1], out.result)
    BY <1>5 DEF DoRotf
  <2>2. cmd_buf[0] = CMD_ROTF
    BY <1>5 DEF DoRotf, Serving
  <2>3. Stored(Header, out.data) \in [0 .. BufSize - 1 -> Byte]
    BY <1>2, <2>2, StoredIs
  <2>4. cmd_buf_idx + cmd_buf[1] \in 0 .. BufSize
    <3>1. cmd_buf_idx = Header
      BY <1>1, <2>2, Codes DEF IInv, Whole
    <3> QED
      BY <3>1, <1>2, Codes, SizesAssumption
  <2> QED
    BY <2>1, <2>3, <2>4, <1>1, <1>3, FinishInv
<1>6. CASE DoWotf(out)
  BY <1>1, <1>2, <1>3, <1>6, FinishInv, Codes, SizesAssumption DEF DoWotf
<1>7. CASE DoInit(out)
  <2>0. cmd_buf_idx = 1
    BY <1>1, <1>7, Codes DEF DoInit, Serving, IInv, Whole
  <2>1. cmd_buf_idx + 2 \in 0 .. BufSize
    BY <2>0, Codes
  <2>2. Finish([cmd_buf EXCEPT ![cmd_buf_idx] = High(out.result),
                               ![cmd_buf_idx + 1] = Low(out.result)],
               cmd_buf_idx + 2, out.result)
    BY <1>7 DEF DoInit
  <2>3. [cmd_buf EXCEPT ![cmd_buf_idx] = High(out.result), ![cmd_buf_idx + 1] = Low(out.result)]
          \in [0 .. BufSize - 1 -> Byte]
    BY <1>2, <1>3, HighLow
  <2> QED
    BY <2>1, <2>2, <2>3, <1>1, <1>3, FinishInv
<1>8. CASE DoReset(out)
  BY <1>1, <1>2, <1>3, <1>8, FinishInv, Codes DEF DoReset
<1>9. CASE DoVersion(out)
  <2> DEFINE buf == [cmd_buf EXCEPT ![cmd_buf_idx] = FIRMWARE_VERSION_MAJOR,
                                    ![cmd_buf_idx + 1] = FIRMWARE_VERSION_MINOR]
  <2>1. cmd_buf_idx = 1
    BY <1>1, <1>9, Codes DEF DoVersion, Serving, IInv, Whole
  <2>2. cmd_buf_idx + 2 \in 0 .. BufSize
    BY <2>1, Codes
  <2>3. FIRMWARE_VERSION_MAJOR \in Byte /\ FIRMWARE_VERSION_MINOR \in Byte
    BY SizesAssumption DEF Byte, FIRMWARE_VERSION_MAJOR, FIRMWARE_VERSION_MINOR
  <2>4. buf \in [0 .. BufSize - 1 -> Byte]
    BY <2>3, <1>2
  <2>5. Finish(buf, cmd_buf_idx + 2, out.result)
    BY <1>9 DEF DoVersion
  <2> HIDE DEF buf
  <2> QED
    BY <2>2, <2>4, <2>5, <1>1, <1>3, FinishInv
<1>10. CASE DoUnknown(out)
  BY <1>1, <1>2, <1>3, <1>10, FinishInv DEF DoUnknown
<1> QED
  BY <1>0, <1>4, <1>5, <1>6, <1>7, <1>8, <1>9, <1>10 DEF Serve

LEMMA StepInv == IInv /\ [Next]_vars => IInv'
<1> SUFFICES ASSUME IInv, [Next]_vars PROVE IInv'
  OBVIOUS
<1>1. CASE RecvArgument
  BY <1>1, RecvArgumentInv
<1>2. CASE RecvLast
  BY <1>2, RecvLastInv
<1>3. CASE Execute
  BY <1>3, ExecuteInv
<1>4. CASE HostSends
  <2>1. rx' \in Seq(Byte)
    BY <1>4, BytesAssumption DEF HostSends, IInv, TypeOK
  <2> QED
    BY <1>4, <2>1 DEF HostSends, IInv, TypeOK, Partial, Whole
<1>5. CASE HostReads
  BY <1>5 DEF HostReads, IInv, TypeOK, Partial, Whole
<1>6. CASE UNCHANGED vars
  BY <1>6 DEF vars, IInv, TypeOK, Partial, Whole
<1> QED
  BY <1>1, <1>2, <1>3, <1>4, <1>5, <1>6 DEF Next, Task

-----------------------------------------------------------------------------
LEMMA SpecInv == Spec => []IInv
<1> QED
  BY InitInv, StepInv, PTL DEF Spec

(* The state of the command interpreter keeps its types: every byte it     *)
(* stores or sends is a byte, for any host and any driver outcome.         *)
THEOREM TypeCorrect == Spec => []TypeOK
<1>1. IInv => TypeOK
  BY DEF IInv
<1> QED
  BY <1>1, SpecInv, PTL

(* serial.c:64 never stores outside cmd_buf and no reply is longer than the *)
(* buffer, for every byte width and whatever the host sends.               *)
THEOREM BufferSafe == Spec => []InBounds
<1> QED
  BY Bounds, SpecInv, PTL
-----------------------------------------------------------------------------
(***************************************************************************)
(* SerialTask implements CommandServer: proofs for every byte width,       *)
(* address length, host and driver outcome.  The first cmd_buf_idx bytes   *)
(* of the buffer are the request, and nothing behind them counts.          *)
(***************************************************************************)

request == Bytes(cmd_buf, cmd_buf_idx)

LEMMA BytesAt ==
  ASSUME NEW buf \in [0 .. BufSize - 1 -> Byte], NEW n \in 0 .. BufSize
  PROVE  /\ Bytes(buf, n) \in Seq(Byte) /\ Len(Bytes(buf, n)) = n
         /\ \A k \in 1 .. n : Bytes(buf, n)[k] = buf[k - 1]
BY BytesType DEF Bytes

LEMMA Request ==
  ASSUME IInv
  PROVE  /\ cmd_buf_idx \in 0 .. BufSize /\ cmd_buf \in [0 .. BufSize - 1 -> Byte]
         /\ request \in Seq(Byte) /\ Len(request) = cmd_buf_idx
         /\ \A k \in 1 .. cmd_buf_idx : request[k] = cmd_buf[k - 1]
<1>1. cmd_buf_idx \in 0 .. BufSize /\ cmd_buf \in [0 .. BufSize - 1 -> Byte]
  BY Bounds, Codes DEF IInv, TypeOK, InBounds
<1> QED
  BY <1>1, BytesAt DEF request

(* A byte that is taken is appended to the request. *)
LEMMA RequestGrows ==
  ASSUME IInv, TakeByte
  PROVE  /\ request' = Append(request, Head(rx))
         /\ request' \in Seq(Byte) /\ Len(request') = cmd_buf_idx'
         /\ cmd_buf_idx' \in 1 .. BufSize
         /\ \A k \in 1 .. cmd_buf_idx' : request'[k] = cmd_buf'[k - 1]
<1>1. /\ Head(rx) \in Byte /\ cmd_buf_idx \in 0 .. BufSize - 1
      /\ cmd_buf' \in [0 .. BufSize - 1 -> Byte]
      /\ cmd_buf' = [cmd_buf EXCEPT ![cmd_buf_idx] = Head(rx)]
      /\ cmd_buf_idx' = cmd_buf_idx + 1
  BY TakeByteType DEF TakeByte
<1>2. cmd_buf_idx' \in 1 .. BufSize /\ cmd_buf_idx' \in 0 .. BufSize
  BY <1>1, Codes
<1>3. /\ request' \in Seq(Byte) /\ Len(request') = cmd_buf_idx'
      /\ \A k \in 1 .. cmd_buf_idx' : request'[k] = cmd_buf'[k - 1]
  BY <1>1, <1>2, BytesAt DEF request
<1>4. /\ request \in Seq(Byte) /\ Len(request) = cmd_buf_idx
      /\ \A k \in 1 .. cmd_buf_idx : request[k] = cmd_buf[k - 1]
  BY Request
<1>5. /\ Append(request, Head(rx)) \in Seq(Byte)
      /\ Len(Append(request, Head(rx))) = cmd_buf_idx + 1
      /\ \A k \in 1 .. cmd_buf_idx + 1 :
           Append(request, Head(rx))[k] = IF k <= cmd_buf_idx THEN request[k] ELSE Head(rx)
  BY <1>1, <1>4, AppendProperties
<1>6. \A k \in 1 .. cmd_buf_idx + 1 : request'[k] = Append(request, Head(rx))[k]
  <2> SUFFICES ASSUME NEW k \in 1 .. cmd_buf_idx + 1
               PROVE  request'[k] = Append(request, Head(rx))[k]
    OBVIOUS
  <2>1. request'[k] = cmd_buf'[k - 1] /\ k - 1 \in 0 .. BufSize - 1
    BY <1>1, <1>3, Codes
  <2>2. cmd_buf'[k - 1] = IF k - 1 = cmd_buf_idx THEN Head(rx) ELSE cmd_buf[k - 1]
    BY <1>1, <2>1 DEF IInv, TypeOK
  <2> QED
    BY <1>1, <1>4, <1>5, <2>1, <2>2
<1> QED
  BY <1>1, <1>2, <1>3, <1>5, <1>6, SeqEqual

(* The protocol's table of complete requests, in the task's terms. *)
LEMMA CompleteIs ==
  ASSUME NEW r
  PROVE  Server!IsComplete(r) <=>
           /\ r[1] = CMD_ROTF => Len(r) = Header
           /\ r[1] = CMD_WOTF => Len(r) > Header - 1 /\ Len(r) = Header + r[2]
           /\ r[1] = CMD_RESET => Len(r) = 2
           /\ r[1] \notin {CMD_ROTF, CMD_WOTF, CMD_RESET} => Len(r) = 1
<1>1. /\ Server!Read = CMD_ROTF /\ Server!Write = CMD_WOTF /\ Server!Reset = CMD_RESET
      /\ 1 + Server!Header = Header /\ Server!Header = Header - 1
  BY SizesAssumption DEF Server!Read, Server!Write, Server!Reset, Server!Header, Header,
     CMD_ROTF, CMD_WOTF, CMD_RESET
<1> QED
  BY <1>1, Codes DEF Server!IsComplete

(* What is known of the request that is served. *)
LEMMA Served ==
  ASSUME IInv, pc = "exec"
  PROVE  /\ cmd_buf \in [0 .. BufSize - 1 -> Byte] /\ cmd_buf[1] \in 0 .. ByteMax
         /\ cmd_buf_idx \in 1 .. BufSize /\ request[1] = cmd_buf[0]
         /\ cmd_buf_idx > 1 => request[2] = cmd_buf[1]
         /\ cmd_buf[0] = CMD_ROTF => cmd_buf_idx = Header
         /\ cmd_buf[0] = CMD_WOTF => cmd_buf_idx = Header + cmd_buf[1]
         /\ cmd_buf[0] = CMD_RESET => cmd_buf_idx = 2
         /\ cmd_buf[0] \notin {CMD_ROTF, CMD_WOTF, CMD_RESET} => cmd_buf_idx = 1
<1>1. cmd_buf[1] \in 0 .. ByteMax
  BY Request, Codes DEF Byte
<1>2. /\ cmd_buf[0] = CMD_ROTF => cmd_buf_idx = Header
      /\ cmd_buf[0] = CMD_WOTF => cmd_buf_idx = Header + cmd_buf[1]
      /\ cmd_buf[0] = CMD_RESET => cmd_buf_idx = 2
      /\ cmd_buf[0] \notin {CMD_ROTF, CMD_WOTF, CMD_RESET} => cmd_buf_idx = 1
  BY Codes DEF IInv, Whole
<1>3. cmd_buf_idx \in 1 .. BufSize
  <2>1. cmd_buf_idx >= 1
    BY <1>1, <1>2, Codes, SizesAssumption
  <2> QED
    BY <2>1, Request, Codes
<1>4. request[1] = cmd_buf[0] /\ (cmd_buf_idx > 1 => request[2] = cmd_buf[1])
  BY <1>3, Request, Codes
<1> QED
  BY <1>1, <1>2, <1>3, <1>4, Request

LEMMA ServerCodes ==
  /\ Server!Read = CMD_ROTF /\ Server!Write = CMD_WOTF /\ Server!Reset = CMD_RESET
  /\ Server!SwimEntry = CMD_INIT /\ Server!Version = CMD_VERSION
  /\ Server!SoftReset = CMD_SRST
  /\ 1 + Server!Header = Header
BY SizesAssumption DEF Server!Read, Server!Write, Server!Reset, Server!SwimEntry,
   Server!Version, Server!SoftReset, Server!Header, Header,
   CMD_SRST, CMD_ROTF, CMD_WOTF, CMD_RESET, CMD_INIT, CMD_VERSION

(* The table of replies, in the task's terms. *)
LEMMA SuccessIs ==
  ASSUME NEW r, NEW out, ~(out.result < 0)
  PROVE  /\ r[1] = CMD_ROTF =>
              Server!Reply(r, out) = <<0>> \o (SubSeq(r, 2, Header) \o out.data)
         /\ r[1] = CMD_WOTF => Server!Reply(r, out) = <<0>> \o SubSeq(r, 2, Header)
         /\ r[1] = CMD_INIT => Server!Reply(r, out) = <<0>> \o <<High(out.result), Low(out.result)>>
         /\ r[1] = CMD_VERSION => Server!Reply(r, out) = <<0>> \o <<0, 2>>
         /\ r[1] \in {CMD_SRST, CMD_RESET} => Server!Reply(r, out) = <<0>> \o << >>
<1>1. CASE r[1] = CMD_ROTF
  BY <1>1, ServerCodes, CodesDiffer DEF Server!Reply
<1>2. CASE r[1] = CMD_WOTF
  BY <1>2, ServerCodes, CodesDiffer DEF Server!Reply
<1>3. CASE r[1] = CMD_INIT
  <2>1. Server!Reply(r, out) = <<0>> \o <<Server!High(out.result), Server!Low(out.result)>>
    BY <1>3, ServerCodes, CodesDiffer DEF Server!Reply
  <2>2. Server!High(out.result) = High(out.result) /\ Server!Low(out.result) = Low(out.result)
    BY DEF Server!High, Server!Low, High, Low
  <2> QED
    BY <1>3, <2>1, <2>2, CodesDiffer
<1>4. CASE r[1] = CMD_VERSION
  BY <1>4, ServerCodes, CodesDiffer DEF Server!Reply
<1>5. CASE r[1] \in {CMD_SRST, CMD_RESET}
  BY <1>5, ServerCodes, CodesDiffer DEF Server!Reply
<1> QED
  BY <1>1, <1>2, <1>3, <1>4, <1>5

(* An error code fits in one byte, so that its upper byte is 0. *)
LEMMA FailureIs ==
  ASSUME NEW r, NEW out, NEW n \in 1 .. ByteMax, out.result = -n
  PROVE  ErrorReply(out.result) = Server!Reply(r, out)
<1>1. -(-n) = n /\ -n < 0 /\ n \in Nat /\ n < ByteMax + 1 /\ ByteMax + 1 \in Nat /\ ByteMax + 1 > 0
  BY SizesAssumption
<1>2. n % (ByteMax + 1) = n
  BY <1>1
<1>3. n \div (ByteMax + 1) = 0
  BY <1>1
<1>4. 0 % (ByteMax + 1) = 0
  BY <1>1
<1>5. High(n) = 0 /\ Low(n) = n
  BY <1>2, <1>3, <1>4 DEF High, Low
<1>6. ErrorReply(out.result) = <<ByteMax, 0, n>>
  BY <1>1, <1>5 DEF ErrorReply
<1> QED
  BY <1>1, <1>6 DEF Server!Reply

(* What the driver may return, in the server's terms. *)
LEMMA OutcomeAllowed ==
  ASSUME IInv, pc = "exec", NEW out \in Outcomes
  PROVE  out \in Server!Outcomes(request)
<1>1. /\ cmd_buf \in [0 .. BufSize - 1 -> Byte] /\ cmd_buf[1] \in 0 .. ByteMax
      /\ request[1] = cmd_buf[0] /\ (cmd_buf[0] = CMD_ROTF => request[2] = cmd_buf[1])
  BY Served, Codes
<1>2. out.result \in SwimErrors \cup Durations \cup {0, -1}
  BY OutcomeIs
<1>3. out.data \in Seq(ReadBytes)
  <2>1. CASE cmd_buf[0] = CMD_ROTF
    BY <1>1, <2>1, StoredIs
  <2>2. CASE cmd_buf[0] # CMD_ROTF
    <3>1. out.data = << >>
      BY <2>2, OutcomeIs
    <3> QED
      BY <3>1, EmptySeq
  <2> QED
    BY <2>1, <2>2
<1>4. out \in [result : SwimErrors \cup Durations \cup {0, -1}, data : Seq(ReadBytes)]
  BY <1>2, <1>3, OutcomeIs
<1>5. request[1] \in {CMD_RESET, CMD_VERSION} => out.result = 0
  BY <1>1, OutcomeIs
<1>6. request[1] \notin {CMD_SRST, CMD_ROTF, CMD_WOTF, CMD_RESET, CMD_INIT, CMD_VERSION} =>
        out.result < 0
  BY <1>1, OutcomeIs
<1>7. request[1] = CMD_ROTF /\ ~(out.result < 0) => Len(out.data) = request[2]
  BY <1>1, OutcomeIs, Results
<1> QED
  BY <1>4, <1>5, <1>6, <1>7, ServerCodes DEF Server!Outcomes
-----------------------------------------------------------------------------
LEMMA InitServer == RecordedInit => Server!Init
<1> SUFFICES ASSUME RecordedInit PROVE Server!Init
  OBVIOUS
<1>1. request = << >>
  BY InitInv, Request DEF RecordedInit, Init
<1> QED
  BY <1>1 DEF RecordedInit, Init, Server!Init, DriverArgs, request

LEMMA GatherStep ==
  ASSUME IInv, RecvArgument, outcome' = << >>
  PROVE  Server!Gather
<1>1. /\ TakeByte /\ Incomplete(cmd_buf', cmd_buf_idx') /\ UNCHANGED <<tx, pc>>
      /\ pc = "recv" /\ rx # << >> /\ rx' = Tail(rx)
  BY DEF RecvArgument, TakeByte
<1>2. /\ request' = Append(request, Head(rx)) /\ Len(request') = cmd_buf_idx'
      /\ cmd_buf_idx' \in 1 .. BufSize
      /\ request'[1] = cmd_buf'[0]
      /\ cmd_buf_idx' > 1 => request'[2] = cmd_buf'[1]
  BY <1>1, RequestGrows, Codes
<1>3. cmd_buf'[1] \in Int
  <2>1. cmd_buf' \in [0 .. BufSize - 1 -> Byte] /\ 1 \in 0 .. BufSize - 1
    BY <1>1, TakeByteType, Codes
  <2>2. cmd_buf'[1] \in Byte
    BY <2>1
  <2> QED
    BY <2>2, SizesAssumption DEF Byte
<1>4. ~Server!IsComplete(request')
  <2>1. cmd_buf_idx' \in Nat /\ Header \in Nat /\ Header >= 2
    BY <1>2, Codes
  <2>2. CASE cmd_buf'[0] = CMD_ROTF /\ cmd_buf_idx' < Header
    <3>1. cmd_buf_idx' # Header
      BY <2>1, <2>2
    <3> QED
      BY <1>2, <2>2, <3>1, CompleteIs
  <2>3. CASE cmd_buf'[0] = CMD_WOTF /\ cmd_buf'[1] # cmd_buf_idx' - Header
    <3>1. ~(cmd_buf_idx' > Header - 1 /\ cmd_buf_idx' = Header + cmd_buf'[1])
      BY <1>3, <2>1, <2>3
    <3>2. cmd_buf_idx' > Header - 1 => cmd_buf_idx' > 1
      BY <2>1
    <3> QED
      BY <1>2, <2>3, <3>1, <3>2, CompleteIs
  <2>4. CASE cmd_buf'[0] = CMD_RESET /\ cmd_buf_idx' < 2
    <3>1. cmd_buf_idx' # 2
      BY <2>1, <2>4
    <3> QED
      BY <1>2, <2>4, <3>1, CompleteIs
  <2> QED
    BY <1>1, <2>2, <2>3, <2>4 DEF Incomplete
<1> QED
  BY <1>1, <1>2, <1>4 DEF Server!Gather, request, DriverArgs

LEMMA ArgumentsAre ==
  ASSUME NEW buf \in [0 .. BufSize - 1 -> Byte], NEW n \in 1 .. BufSize
  PROVE  Tail(Bytes(buf, n)) = [k \in 1 .. n - 1 |-> buf[k]]
<1>1. n \in 0 .. BufSize /\ n - 1 \in Nat /\ \A k \in 1 .. n - 1 : k \in 0 .. BufSize - 1
  BY Codes
<1>2. /\ Bytes(buf, n) \in Seq(Byte) /\ Len(Bytes(buf, n)) = n
      /\ \A k \in 1 .. n : Bytes(buf, n)[k] = buf[k - 1]
  BY <1>1, BytesAt
<1> DEFINE t == [k \in 1 .. n - 1 |-> buf[k]]
<1>3. t \in Seq(Byte) /\ Len(t) = n - 1 /\ \A k \in 1 .. n - 1 : t[k] = buf[k]
  BY <1>1
<1>4. /\ Tail(Bytes(buf, n)) \in Seq(Byte) /\ Len(Tail(Bytes(buf, n))) = n - 1
      /\ \A k \in 1 .. n - 1 : Tail(Bytes(buf, n))[k] = buf[k]
  <2>1. Bytes(buf, n) # << >>
    BY <1>2
  <2>2. /\ Tail(Bytes(buf, n)) \in Seq(Byte) /\ Len(Tail(Bytes(buf, n))) = n - 1
        /\ \A k \in 1 .. n - 1 : Tail(Bytes(buf, n))[k] = Bytes(buf, n)[k + 1]
    BY <1>2, <2>1, HeadTailProperties
  <2>3. \A k \in 1 .. n - 1 : k + 1 \in 1 .. n /\ (k + 1) - 1 = k
    BY <1>1
  <2> QED
    BY <1>2, <2>2, <2>3
<1> HIDE DEF t
<1>5. Tail(Bytes(buf, n)) = t
  BY <1>3, <1>4, SeqEqual
<1> QED
  BY <1>5 DEF t

LEMMA AcceptStep ==
  ASSUME IInv, RecvLast, outcome' = << >>
  PROVE  Server!Accept
<1>1. /\ TakeByte /\ pc' = "exec" /\ tx' = Append(tx, cmd_buf'[0])
      /\ pc = "recv" /\ rx # << >> /\ rx' = Tail(rx)
  BY DEF RecvLast, TakeByte
<1>2. /\ request' = Append(request, Head(rx)) /\ Len(request') = cmd_buf_idx'
      /\ cmd_buf_idx' \in 1 .. BufSize
      /\ request'[1] = cmd_buf'[0]
      /\ cmd_buf_idx' > 1 => request'[2] = cmd_buf'[1]
  BY <1>1, RequestGrows, Codes
<1>3. cmd_buf' \in [0 .. BufSize - 1 -> Byte] /\ cmd_buf'[1] \in 0 .. ByteMax
  BY <1>1, TakeByteType, Codes DEF Byte
<1>4. /\ cmd_buf'[0] = CMD_ROTF => cmd_buf_idx' = Header
      /\ cmd_buf'[0] = CMD_WOTF => cmd_buf_idx' = Header + cmd_buf'[1]
      /\ cmd_buf'[0] = CMD_RESET => cmd_buf_idx' = 2
      /\ cmd_buf'[0] \notin {CMD_ROTF, CMD_WOTF, CMD_RESET} => cmd_buf_idx' = 1
  BY <1>1, RecvLastInv, Codes DEF IInv, Whole
<1>5. Server!IsComplete(request')
  <2>1. /\ cmd_buf_idx' \in Nat /\ cmd_buf'[1] \in Nat
        /\ Header \in Nat /\ Header >= 2
    BY <1>2, <1>3, Codes, SizesAssumption
  <2>2. cmd_buf'[0] = CMD_WOTF =>
          /\ cmd_buf_idx' > Header - 1 /\ cmd_buf_idx' = Header + cmd_buf'[1]
          /\ request'[2] = cmd_buf'[1]
    BY <1>2, <1>4, <2>1
  <2> QED
    BY <1>2, <1>4, <2>2, CompleteIs
<1>6. DriverArgs' = [k \in 1 .. cmd_buf_idx' - 1 |-> cmd_buf'[k]]
  <2> DEFINE n == CASE cmd_buf'[0] = CMD_ROTF  -> Header - 1
                    [] cmd_buf'[0] = CMD_WOTF  -> Header - 1 + cmd_buf'[1]
                    [] cmd_buf'[0] = CMD_RESET -> 1
                    [] OTHER -> 0
  <2>1. n = cmd_buf_idx' - 1
    BY <1>3, <1>4, Codes
  <2>2. DriverArgs' = [k \in 1 .. n |-> cmd_buf'[k]]
    BY <1>1 DEF DriverArgs
  <2> HIDE DEF n
  <2> QED
    BY <2>1, <2>2
<1>7. DriverArgs' = Tail(request')
  BY <1>2, <1>3, <1>6, ArgumentsAre DEF request
<1> QED
  BY <1>1, <1>2, <1>5, <1>7 DEF Server!Accept, request
-----------------------------------------------------------------------------
LEMMA AnswerStep ==
  ASSUME IInv, IInv', pc = "exec", pc' = "recv", cmd_buf_idx' = 0, rx' = rx,
         NEW out \in Outcomes, outcome' = out, tx' = tx \o Server!Reply(request, out)
  PROVE  Server!Answer
<1>1. request' = << >>
  <2>1. cmd_buf' \in [0 .. BufSize - 1 -> Byte] /\ 0 \in 0 .. BufSize
    BY Codes DEF IInv, TypeOK
  <2>2. request' = Bytes(cmd_buf', 0)
    BY DEF request
  <2> QED
    BY <2>1, <2>2, BytesAt
<1>2. DriverArgs' = << >>
  BY DEF DriverArgs
<1>3. out \in Server!Outcomes(request)
  BY OutcomeAllowed
<1> QED
  BY <1>1, <1>2, <1>3 DEF Server!Answer, request

(* The end of the loop body answers the request. *)
LEMMA ReplyStep ==
  ASSUME IInv, IInv', pc = "exec",
         NEW buf \in [0 .. BufSize - 1 -> Byte], NEW idx \in 1 .. BufSize,
         NEW out \in Outcomes, outcome' = out, Finish(buf, idx, out.result),
         ~(out.result < 0) => Bytes([buf EXCEPT ![0] = 0], idx) = Server!Reply(request, out)
  PROVE  Server!Answer
<1>1. pc' = "recv" /\ cmd_buf_idx' = 0 /\ rx' = rx
  BY DEF Finish
<1>2. CASE out.result < 0
  <2>1. tx' = tx \o ErrorReply(out.result)
    BY <1>2 DEF Finish
  <2>2. PICK n \in 1 .. ByteMax : out.result = -n
    <3>1. out.result \in Int /\ -out.result \in 1 .. ByteMax
      BY <1>2, ResultIs
    <3>2. out.result = -(-out.result)
      BY <3>1
    <3> QED
      BY <3>1, <3>2
  <2>3. ErrorReply(out.result) = Server!Reply(request, out)
    BY <2>2, FailureIs
  <2> QED
    BY <1>1, <2>1, <2>3, AnswerStep
<1>3. CASE ~(out.result < 0)
  <2>1. tx' = tx \o Bytes([buf EXCEPT ![0] = 0], idx)
    BY <1>3 DEF Finish
  <2> QED
    BY <1>1, <1>3, <2>1, AnswerStep
<1> QED
  BY <1>2, <1>3

(* The reply of a success: its length and its bytes. *)
LEMMA ReplyIs ==
  ASSUME NEW buf \in [0 .. BufSize - 1 -> Byte], NEW idx \in 1 .. BufSize
  PROVE  LET a == Bytes([buf EXCEPT ![0] = 0], idx)
         IN  /\ a \in Seq(Byte) /\ Len(a) = idx /\ a[1] = 0
             /\ \A k \in 2 .. idx : a[k] = buf[k - 1]
<1>1. [buf EXCEPT ![0] = 0] \in [0 .. BufSize - 1 -> Byte] /\ idx \in 0 .. BufSize
  BY Codes, SizesAssumption DEF Byte
<1>2. /\ Bytes([buf EXCEPT ![0] = 0], idx) \in Seq(Byte)
      /\ Len(Bytes([buf EXCEPT ![0] = 0], idx)) = idx
      /\ \A k \in 1 .. idx : Bytes([buf EXCEPT ![0] = 0], idx)[k] = [buf EXCEPT ![0] = 0][k - 1]
  BY <1>1, BytesAt
<1>3. [buf EXCEPT ![0] = 0][0] = 0
  BY Codes
<1>4. \A k \in 2 .. idx : [buf EXCEPT ![0] = 0][k - 1] = buf[k - 1]
  BY Codes
<1>5. 1 \in 1 .. idx /\ 1 - 1 = 0 /\ \A k \in 2 .. idx : k \in 1 .. idx
  BY Codes
<1> QED
  BY <1>2, <1>3, <1>4, <1>5

(* A status byte 0 and the bytes behind it. *)
LEMMA StatusAnd ==
  ASSUME NEW buf \in [0 .. BufSize - 1 -> Byte], NEW idx \in 1 .. BufSize,
         NEW s \in Seq(Byte), Len(s) = idx - 1, \A k \in 1 .. idx - 1 : s[k] = buf[k]
  PROVE  Bytes([buf EXCEPT ![0] = 0], idx) = <<0>> \o s
<1> DEFINE a == Bytes([buf EXCEPT ![0] = 0], idx)
<1>1. /\ a \in Seq(Byte) /\ Len(a) = idx /\ a[1] = 0
      /\ \A k \in 2 .. idx : a[k] = buf[k - 1]
  BY ReplyIs
<1> HIDE DEF a
<1>2. <<0>> \in Seq(Byte) /\ Len(<<0>>) = 1 /\ <<0>>[1] = 0
  BY SizesAssumption DEF Byte
<1>3. /\ <<0>> \o s \in Seq(Byte) /\ Len(<<0>> \o s) = Len(<<0>>) + Len(s)
      /\ \A k \in 1 .. Len(<<0>>) + Len(s) :
           (<<0>> \o s)[k] = IF k <= Len(<<0>>) THEN <<0>>[k] ELSE s[k - Len(<<0>>)]
  BY <1>2, ConcatProperties
<1>4. idx \in Nat /\ 1 + (idx - 1) = idx
  BY Codes
<1>5. Len(<<0>> \o s) = idx /\ \A k \in 1 .. idx : (<<0>> \o s)[k] = IF k <= 1 THEN 0 ELSE s[k - 1]
  BY <1>2, <1>3, <1>4
<1>6. \A k \in 1 .. idx : a[k] = (<<0>> \o s)[k]
  <2>1. \A k \in 1 .. idx : k = 1 \/ (~(k <= 1) /\ k \in 2 .. idx /\ k - 1 \in 1 .. idx - 1)
    BY <1>4
  <2> QED
    BY <1>1, <1>5, <2>1
<1>7. a = <<0>> \o s
  BY <1>1, <1>3, <1>5, <1>6, SeqEqual
<1> QED
  BY <1>7 DEF a

(* The count and address of the request, which a reply repeats. *)
LEMMA EchoIs ==
  ASSUME IInv, pc = "exec", cmd_buf[0] \in {CMD_ROTF, CMD_WOTF}
  PROVE  LET s == SubSeq(request, 2, Header) IN
         /\ s \in Seq(Byte) /\ Len(s) = Header - 1
         /\ \A k \in 1 .. Header - 1 : s[k] = cmd_buf[k]
<1> DEFINE s == SubSeq(request, 2, Header)
<1>1. cmd_buf_idx \in Nat /\ Header <= cmd_buf_idx
  BY Served, Codes, SizesAssumption
<1>2. /\ request \in Seq(Byte) /\ Len(request) = cmd_buf_idx
      /\ \A k \in 1 .. cmd_buf_idx : request[k] = cmd_buf[k - 1]
  BY Request
<1>3. \A k \in 2 .. Header : k \in 1 .. cmd_buf_idx
  BY <1>1, Codes
<1>4. \A k \in 2 .. Header : request[k] = cmd_buf[k - 1] /\ request[k] \in Byte
  BY <1>2, <1>3, ElementOfSeq
<1>5. /\ s \in Seq(Byte) /\ Len(s) = Header - 1
      /\ \A k \in 1 .. Header - 1 : s[k] = request[k + 1]
  BY <1>4, Codes, SubSeqProperties
<1>6. \A k \in 1 .. Header - 1 : k + 1 \in 2 .. Header /\ (k + 1) - 1 = k
  BY Codes
<1> QED
  BY <1>4, <1>5, <1>6

LEMMA SrstStep ==
  ASSUME IInv, IInv', NEW out \in Outcomes, DoSrst(out), outcome' = out
  PROVE  Server!Answer
<1>1. /\ pc = "exec" /\ cmd_buf[0] = CMD_SRST
      /\ Finish(cmd_buf, cmd_buf_idx, out.result)
  BY DEF DoSrst, Serving
<1>2. request[1] = CMD_SRST /\ cmd_buf_idx = 1 /\ 1 \in 1 .. BufSize
      /\ cmd_buf \in [0 .. BufSize - 1 -> Byte]
  BY <1>1, Served, CodesDiffer
<1>3. Bytes([cmd_buf EXCEPT ![0] = 0], 1) = <<0>> \o << >>
  <2>1. << >> \in Seq(Byte) /\ Len(<< >>) = 1 - 1 /\ 1 .. 1 - 1 = {}
    OBVIOUS
  <2>2. \A k \in 1 .. 1 - 1 : << >>[k] = cmd_buf[k]
    BY <2>1
  <2> QED
    BY <1>2, <2>1, <2>2, StatusAnd
<1>4. ~(out.result < 0) => Server!Reply(request, out) = <<0>> \o << >>
  BY <1>2, SuccessIs
<1> QED
  BY <1>1, <1>2, <1>3, <1>4, ReplyStep

LEMMA RotfStep ==
  ASSUME IInv, IInv', NEW out \in Outcomes, DoRotf(out), outcome' = out
  PROVE  Server!Answer
<1> DEFINE buf == Stored(Header, out.data)
           idx == Header + cmd_buf[1]
           s == SubSeq(request, 2, Header)
<1>1. /\ pc = "exec" /\ cmd_buf[0] = CMD_ROTF
      /\ Finish(buf, cmd_buf_idx + cmd_buf[1], out.result)
  BY DEF DoRotf, Serving
<1>2. /\ request[1] = CMD_ROTF /\ cmd_buf_idx = Header
      /\ cmd_buf[1] \in 0 .. ByteMax /\ cmd_buf \in [0 .. BufSize - 1 -> Byte]
  BY <1>1, Served, Codes
<1>3. idx \in 1 .. BufSize /\ Finish(buf, idx, out.result)
  BY <1>1, <1>2, Codes, SizesAssumption
<1>4. /\ buf \in [0 .. BufSize - 1 -> Byte] /\ out.data \in Seq(Byte)
      /\ \A k \in 0 .. Header - 1 : buf[k] = cmd_buf[k]
      /\ \A k \in 1 .. Len(out.data) : buf[Header + k - 1] = out.data[k]
  BY <1>1, <1>2, StoredIs
<1>5. /\ s \in Seq(Byte) /\ Len(s) = Header - 1
      /\ \A k \in 1 .. Header - 1 : s[k] = cmd_buf[k]
  BY <1>1, EchoIs
<1> HIDE DEF buf, s
<1>6. ASSUME ~(out.result < 0)
      PROVE  Bytes([buf EXCEPT ![0] = 0], idx) = Server!Reply(request, out)
  <2>1. Len(out.data) = cmd_buf[1] /\ cmd_buf[1] \in Nat
    BY <1>1, <1>2, <1>6, OutcomeIs, Results, SizesAssumption
  <2>2. /\ s \o out.data \in Seq(Byte) /\ Len(s \o out.data) = Len(s) + Len(out.data)
        /\ \A k \in 1 .. Len(s) + Len(out.data) :
             (s \o out.data)[k] = IF k <= Len(s) THEN s[k] ELSE out.data[k - Len(s)]
    BY <1>4, <1>5, ConcatProperties
  <2>3. Len(s \o out.data) = idx - 1
    <3> DEFINE n == cmd_buf[1]
    <3>1. Len(s \o out.data) = (Header - 1) + n /\ n \in Nat /\ Header \in Nat
      BY <1>5, <2>1, <2>2, Codes
    <3> HIDE DEF n
    <3>2. (Header - 1) + n = (Header + n) - 1
      BY ONLY <3>1
    <3> QED
      BY <3>1, <3>2 DEF n
  <2>4. ASSUME NEW k \in 1 .. idx - 1
        PROVE  (s \o out.data)[k] = buf[k]
    <3>1. k \in Nat /\ k >= 1 /\ k \in 1 .. Len(s) + Len(out.data)
      BY <1>5, <2>1, <2>3, <2>2, <2>4, Codes
    <3>2. CASE k <= Header - 1
      <4>1. k \in 1 .. Header - 1 /\ k \in 0 .. Header - 1
        BY <3>1, <3>2, Codes
      <4> QED
        BY <1>4, <1>5, <2>2, <3>1, <3>2, <4>1
    <3>3. CASE ~(k <= Header - 1)
      <4>1. /\ k - (Header - 1) \in 1 .. Len(out.data)
            /\ Header + (k - (Header - 1)) - 1 = k
        BY <3>1, <3>3, <2>1, <2>4, Codes
      <4>2. (s \o out.data)[k] = out.data[k - (Header - 1)]
        BY <1>5, <2>2, <3>1, <3>3
      <4> QED
        BY <1>4, <4>1, <4>2
    <3> QED
      BY <3>2, <3>3
  <2>5. Bytes([buf EXCEPT ![0] = 0], idx) = <<0>> \o (s \o out.data)
    <3> DEFINE t == s \o out.data
    <3>1. t \in Seq(Byte) /\ Len(t) = idx - 1 /\ \A k \in 1 .. idx - 1 : t[k] = buf[k]
      BY <2>2, <2>3, <2>4
    <3> HIDE DEF t, idx
    <3>2. Bytes([buf EXCEPT ![0] = 0], idx) = <<0>> \o t
      BY <1>3, <1>4, <3>1, StatusAnd
    <3> QED
      BY <3>2 DEF t
  <2>6. Server!Reply(request, out) = <<0>> \o (s \o out.data)
    BY <1>2, <1>6, SuccessIs DEF s
  <2> QED
    BY <2>5, <2>6
<1> HIDE DEF idx
<1> QED
  BY <1>1, <1>3, <1>4, <1>6, ReplyStep

LEMMA WotfStep ==
  ASSUME IInv, IInv', NEW out \in Outcomes, DoWotf(out), outcome' = out
  PROVE  Server!Answer
<1> DEFINE s == SubSeq(request, 2, Header)
<1>1. pc = "exec" /\ cmd_buf[0] = CMD_WOTF /\ Finish(cmd_buf, Header, out.result)
  BY DEF DoWotf, Serving
<1>2. /\ request[1] = CMD_WOTF /\ cmd_buf \in [0 .. BufSize - 1 -> Byte]
      /\ Header \in 1 .. BufSize
  BY <1>1, Served, Codes, SizesAssumption
<1>3. /\ s \in Seq(Byte) /\ Len(s) = Header - 1
      /\ \A k \in 1 .. Header - 1 : s[k] = cmd_buf[k]
  BY <1>1, EchoIs
<1> HIDE DEF s
<1>4. Bytes([cmd_buf EXCEPT ![0] = 0], Header) = <<0>> \o s
  BY <1>2, <1>3, StatusAnd
<1>5. ~(out.result < 0) => Server!Reply(request, out) = <<0>> \o s
  BY <1>2, SuccessIs DEF s
<1> QED
  BY <1>1, <1>2, <1>4, <1>5, ReplyStep

LEMMA InitStep ==
  ASSUME IInv, IInv', NEW out \in Outcomes, DoInit(out), outcome' = out
  PROVE  Server!Answer
<1> DEFINE buf == [cmd_buf EXCEPT ![cmd_buf_idx] = High(out.result),
                                  ![cmd_buf_idx + 1] = Low(out.result)]
           s == <<High(out.result), Low(out.result)>>
<1>1. pc = "exec" /\ cmd_buf[0] = CMD_INIT /\ Finish(buf, cmd_buf_idx + 2, out.result)
  BY DEF DoInit, Serving
<1>2. /\ request[1] = CMD_INIT /\ cmd_buf_idx = 1 /\ cmd_buf \in [0 .. BufSize - 1 -> Byte]
      /\ cmd_buf_idx + 2 = 3 /\ 3 \in 1 .. BufSize
  BY <1>1, Served, Codes, CodesDiffer
<1>3. High(out.result) \in Byte /\ Low(out.result) \in Byte
  BY ResultIs, HighLow
<1>4. /\ buf \in [0 .. BufSize - 1 -> Byte]
      /\ buf[1] = High(out.result) /\ buf[2] = Low(out.result)
  <2>1. 1 \in 0 .. BufSize - 1 /\ 2 \in 0 .. BufSize - 1
    BY Codes
  <2> QED
    BY <1>2, <1>3, <2>1
<1>5. s \in Seq(Byte) /\ Len(s) = 3 - 1 /\ s[1] = buf[1] /\ s[2] = buf[2]
  BY <1>3, <1>4
<1> HIDE DEF buf, s
<1>6. Bytes([buf EXCEPT ![0] = 0], 3) = <<0>> \o s
  <2>1. \A k \in 1 .. 3 - 1 : s[k] = buf[k]
    BY <1>5
  <2> QED
    BY <1>2, <1>4, <1>5, <2>1, StatusAnd
<1>7. ~(out.result < 0) => Server!Reply(request, out) = <<0>> \o s
  BY <1>2, SuccessIs DEF s
<1>8. Finish(buf, 3, out.result)
  BY <1>1, <1>2
<1> QED
  BY <1>1, <1>2, <1>4, <1>6, <1>7, <1>8, ReplyStep

LEMMA VersionStep ==
  ASSUME IInv, IInv', NEW out \in Outcomes, DoVersion(out), outcome' = out
  PROVE  Server!Answer
<1> DEFINE buf == [cmd_buf EXCEPT ![cmd_buf_idx] = FIRMWARE_VERSION_MAJOR,
                                  ![cmd_buf_idx + 1] = FIRMWARE_VERSION_MINOR]
           s == <<0, 2>>
<1>1. pc = "exec" /\ cmd_buf[0] = CMD_VERSION /\ Finish(buf, cmd_buf_idx + 2, out.result)
  BY DEF DoVersion, Serving
<1>2. /\ request[1] = CMD_VERSION /\ cmd_buf_idx = 1 /\ cmd_buf \in [0 .. BufSize - 1 -> Byte]
      /\ cmd_buf_idx + 2 = 3 /\ 3 \in 1 .. BufSize
  BY <1>1, Served, Codes, CodesDiffer
<1>3. /\ 0 \in Byte /\ 2 \in Byte
      /\ FIRMWARE_VERSION_MAJOR = 0 /\ FIRMWARE_VERSION_MINOR = 2
  BY SizesAssumption DEF Byte, FIRMWARE_VERSION_MAJOR, FIRMWARE_VERSION_MINOR
<1>4. buf \in [0 .. BufSize - 1 -> Byte] /\ buf[1] = 0 /\ buf[2] = 2
  <2>1. 1 \in 0 .. BufSize - 1 /\ 2 \in 0 .. BufSize - 1
    BY Codes
  <2> QED
    BY <1>2, <1>3, <2>1
<1>5. s \in Seq(Byte) /\ Len(s) = 3 - 1 /\ s[1] = buf[1] /\ s[2] = buf[2]
  BY <1>3, <1>4
<1> HIDE DEF buf, s
<1>6. Bytes([buf EXCEPT ![0] = 0], 3) = <<0>> \o s
  <2>1. \A k \in 1 .. 3 - 1 : s[k] = buf[k]
    BY <1>5
  <2> QED
    BY <1>2, <1>4, <1>5, <2>1, StatusAnd
<1>7. ~(out.result < 0) => Server!Reply(request, out) = <<0>> \o s
  BY <1>2, SuccessIs DEF s
<1>8. Finish(buf, 3, out.result)
  BY <1>1, <1>2
<1> QED
  BY <1>1, <1>2, <1>4, <1>6, <1>7, <1>8, ReplyStep

LEMMA ResetStep ==
  ASSUME IInv, IInv', NEW out \in Outcomes, DoReset(out), outcome' = out
  PROVE  Server!Answer
<1>1. /\ pc = "exec" /\ cmd_buf[0] = CMD_RESET
      /\ Finish(cmd_buf, 1, out.result)
  BY DEF DoReset, Serving
<1>2. request[1] = CMD_RESET /\ 1 \in 1 .. BufSize /\ cmd_buf \in [0 .. BufSize - 1 -> Byte]
  BY <1>1, Served, Codes
<1>3. Bytes([cmd_buf EXCEPT ![0] = 0], 1) = <<0>> \o << >>
  <2>1. << >> \in Seq(Byte) /\ Len(<< >>) = 1 - 1 /\ 1 .. 1 - 1 = {}
    OBVIOUS
  <2>2. \A k \in 1 .. 1 - 1 : << >>[k] = cmd_buf[k]
    BY <2>1
  <2> QED
    BY <1>2, <2>1, <2>2, StatusAnd
<1>4. ~(out.result < 0) => Server!Reply(request, out) = <<0>> \o << >>
  BY <1>2, SuccessIs
<1> QED
  BY <1>1, <1>2, <1>3, <1>4, ReplyStep

LEMMA UnknownStep ==
  ASSUME IInv, IInv', NEW out \in Outcomes, DoUnknown(out), outcome' = out
  PROVE  Server!Answer
<1>1. /\ pc = "exec" /\ Finish(cmd_buf, cmd_buf_idx, out.result)
      /\ cmd_buf[0] \notin {CMD_SRST, CMD_ROTF, CMD_WOTF, CMD_RESET, CMD_INIT, CMD_VERSION}
  BY DEF DoUnknown
<1>2. cmd_buf \in [0 .. BufSize - 1 -> Byte] /\ cmd_buf_idx \in 1 .. BufSize
  BY <1>1, Served
<1>3. out.result < 0
  BY <1>1, OutcomeIs
<1> QED
  BY <1>1, <1>2, <1>3, ReplyStep
-----------------------------------------------------------------------------
LEMMA RecordsNext == [Records]_recorded => [Next]_vars
BY DEF Records, recorded, Next, Task, Execute

LEMMA ServerStep ==
  ASSUME IInv, IInv', [Records]_recorded
  PROVE  [Server!Next]_(Server!vars)
<1>1. CASE RecvArgument /\ outcome' = << >>
  BY <1>1, GatherStep DEF Server!Next
<1>2. CASE RecvLast /\ outcome' = << >>
  BY <1>2, AcceptStep DEF Server!Next
<1>3. CASE \E out \in Outcomes : Serve(out) /\ outcome' = out
  <2>1. PICK out \in Outcomes : Serve(out) /\ outcome' = out
    BY <1>3
  <2> QED
    BY <2>1, SrstStep, RotfStep, WotfStep, InitStep, ResetStep, VersionStep, UnknownStep
       DEF Serve, Server!Next
<1>4. CASE HostSends /\ outcome' = << >>
  <2>1. /\ Len(rx) < MaxRx /\ Len(tx) <= MaxTx
        /\ \E b \in Byte : rx' = Append(rx, b)
        /\ UNCHANGED <<tx, cmd_buf, cmd_buf_idx, pc>> /\ outcome' = << >>
    BY <1>4, BytesAssumption DEF HostSends
  <2>2. Server!HostSends
    BY <2>1 DEF Server!HostSends, Server!Byte, Byte, DriverArgs
  <2> QED
    BY <2>2 DEF Server!Next
<1>5. CASE HostReads /\ outcome' = << >>
  BY <1>5 DEF HostReads, Server!HostReads, Server!Next, DriverArgs
<1>6. CASE UNCHANGED recorded
  BY <1>6 DEF recorded, vars, Server!vars, DriverArgs
<1> QED
  BY <1>1, <1>2, <1>3, <1>4, <1>5, <1>6 DEF Records

(* Every request gets one acknowledgement and one reply, every byte of     *)
(* which is the request's, this driver call's or the version's, and the    *)
(* driver is called with the bytes of this request alone: whatever earlier *)
(* commands left in cmd_buf takes part in none of them.                    *)
THEOREM ImplementsServerAlways == RecordedSpec => ImplementsServer
<1>1. RecordedInit => IInv /\ Server!Init
  BY InitInv, InitServer DEF RecordedInit
<1>2. IInv /\ [Records]_recorded => IInv'
  BY StepInv, RecordsNext
<1> QED
  BY <1>1, <1>2, ServerStep, PTL DEF RecordedSpec, ImplementsServer, Server!Spec
=============================================================================
