--------------------------- MODULE HostLinkProofs ---------------------------
(***************************************************************************)
(* Proofs about HostLink, for every byte width, address length, size and   *)
(* cutting up of replies by read().  On a line without late answers and    *)
(* split codes library and interpreter stay in step, and a call returns    *)
(* the reply to its own request.  On any line the interpreter sees the     *)
(* requests whole and in order: the last section.                          *)
(***************************************************************************)
EXTENDS HostLink, SequenceTheorems, WellFoundedInduction, TLAPS

OnTime == ~Late /\ ~SplitCodes

(* A request of the library and the payload it waits for. *)
IsCall(c, n) ==
  /\ c \in Seq(Byte) /\ n \in Nat
  /\ \/ c[1] \in {Firmware!CMD_VERSION, Firmware!CMD_INIT} /\ Len(c) = 1 /\ n = 2
     \/ c[1] = Firmware!CMD_SRST  /\ Len(c) = 1 /\ n = 0
     \/ c[1] = Firmware!CMD_RESET /\ Len(c) = 2 /\ n = 0
     \/ c[1] = Firmware!CMD_ROTF  /\ Len(c) = Firmware!Header /\ n = c[2] + Echo
     \/ /\ c[1] = Firmware!CMD_WOTF  /\ Len(c) >= Firmware!Header
        /\ Len(c) = Firmware!Header + c[2] /\ n = Echo

(* The device's answers to such a request: success or error. *)
IsReply(a) ==
  /\ a \in Seq(Byte)
  /\ \/ /\ a[1] = 0 /\ Len(a) = size + 1
        /\ cmd[1] = Firmware!CMD_VERSION => a[2] = 0 /\ a[3] = 2
     \/ a[1] = ByteMax /\ Len(a) = 3

(* A call in progress: the request is on its way, is being served or has   *)
(* been answered, and the line holds exactly what is still to come.        *)
Requesting ==
  /\ pc = "recv" /\ hpc = "ack" /\ tx = << >> /\ resp = << >> /\ did = << >>
  /\ rx # << >> /\ cmd_buf_idx + Len(rx) = Len(cmd)
  /\ \A k \in 1 .. cmd_buf_idx : cmd_buf[k - 1] = cmd[k]
  /\ \A k \in 1 .. Len(rx) : rx[k] = cmd[cmd_buf_idx + k]

Served ==
  /\ pc = "exec" /\ rx = << >> /\ resp = << >> /\ did = << >>
  /\ cmd_buf_idx = Len(cmd)
  /\ \A k \in 1 .. cmd_buf_idx : cmd_buf[k - 1] = cmd[k]
  /\ \/ hpc = "ack" /\ tx = <<cmd[1]>>
     \/ hpc = "status" /\ tx = << >>

Answered ==
  /\ pc = "recv" /\ rx = << >> /\ cmd_buf_idx = 0
  /\ IsReply(did)
  /\ \/ hpc = "ack" /\ resp = << >> /\ tx = <<cmd[1]>> \o did
     \/ hpc = "status" /\ resp = << >> /\ tx = did
     \/ /\ hpc = "payload" /\ did[1] = 0
        /\ Len(resp) < size /\ did = <<0>> \o (resp \o tx)
     \/ hpc = "code" /\ did[1] = ByteMax /\ did = <<ByteMax>> \o tx

(* The inductive invariant. *)
IInv ==
  /\ TypeOK
  /\ cmd # << >> => Len(resp) <= size /\ IsCall(cmd, size)
  /\ LockStep
  /\ hpc # "idle" => IsCall(cmd, size) /\ (Requesting \/ Served \/ Answered)
-----------------------------------------------------------------------------
LEMMA Ranges ==
  /\ ByteMax \in Nat /\ ByteMax >= 5 /\ ByteMax # 0 /\ Echo \in Nat /\ Firmware!Header \in Nat /\ Firmware!Header >= 2
  /\ Firmware!Header = Echo + 1 /\ Firmware!BufSize = Firmware!Header + ByteMax
  /\ Firmware!BufSize \in Nat /\ 0 \in Byte /\ 1 \in Byte /\ ByteMax \in Byte
BY LinkAssumption DEF Echo, Byte, Firmware!Byte, Firmware!Header, Firmware!BufSize

LEMMA Codes ==
  /\ {Firmware!CMD_SRST, Firmware!CMD_ROTF, Firmware!CMD_WOTF, Firmware!CMD_RESET,
      Firmware!CMD_INIT, Firmware!CMD_VERSION} \subseteq Byte
  /\ Firmware!CMD_SRST \notin {Firmware!CMD_ROTF, Firmware!CMD_WOTF, Firmware!CMD_RESET,
                               Firmware!CMD_INIT, Firmware!CMD_VERSION}
  /\ Firmware!CMD_ROTF \notin {Firmware!CMD_WOTF, Firmware!CMD_RESET, Firmware!CMD_INIT,
                               Firmware!CMD_VERSION}
  /\ Firmware!CMD_WOTF \notin {Firmware!CMD_RESET, Firmware!CMD_INIT, Firmware!CMD_VERSION}
  /\ Firmware!CMD_RESET \notin {Firmware!CMD_INIT, Firmware!CMD_VERSION}
  /\ Firmware!CMD_INIT # Firmware!CMD_VERSION
BY LinkAssumption DEF Byte, Firmware!CMD_SRST, Firmware!CMD_ROTF, Firmware!CMD_WOTF,
   Firmware!CMD_RESET, Firmware!CMD_INIT, Firmware!CMD_VERSION

(* A request fits into the interpreter's buffer. *)
LEMMA CallFits ==
  ASSUME NEW c, NEW n, IsCall(c, n)
  PROVE  /\ Len(c) \in 1 .. Firmware!BufSize /\ c # << >> /\ c[1] \in Byte
         /\ Len(c) >= 2 => c[2] \in 0 .. ByteMax
<1>1. c \in Seq(Byte) /\ Len(c) \in Nat
  BY DEF IsCall
<1>2. Len(c) >= 2 => c[2] \in 0 .. ByteMax
  <2>1. Len(c) >= 2 => 2 \in 1 .. Len(c)
    BY <1>1
  <2>2. Len(c) >= 2 => c[2] \in Byte
    BY <1>1, <2>1, ElementOfSeq
  <2> QED
    BY <2>2 DEF Byte
<1>3. Len(c) \in 1 .. Firmware!BufSize
  <2>1. \/ Len(c) \in {1, 2} \/ Len(c) = Firmware!Header
        \/ Len(c) >= Firmware!Header /\ Len(c) = Firmware!Header + c[2]
    BY DEF IsCall
  <2>2. CASE Len(c) >= Firmware!Header /\ Len(c) = Firmware!Header + c[2]
    <3>1. c[2] \in 0 .. ByteMax
      BY <1>1, <1>2, <2>2, Ranges
    <3> QED
      BY <1>1, <2>2, <3>1, Ranges
  <2>3. CASE Len(c) \in {1, 2} \/ Len(c) = Firmware!Header
    <3>1. Firmware!Header \in 2 .. Firmware!BufSize /\ {1, 2} \subseteq 1 .. Firmware!BufSize
      BY Ranges
    <3>2. Firmware!Header \in 1 .. Firmware!BufSize
      BY <3>1, Ranges
    <3> QED
      BY <2>3, <3>1, <3>2
  <2> QED
    BY <2>1, <2>2, <2>3
<1>4. c[1] \in Byte
  BY <1>1, <1>3, ElementOfSeq
<1> QED
  BY <1>1, <1>2, <1>3, <1>4
-----------------------------------------------------------------------------
LEMMA InitInv == Init => IInv
<1> SUFFICES ASSUME Init PROVE IInv
  OBVIOUS
<1>1. TypeOK
  BY Ranges, LinkAssumption DEF Byte, Firmware!Byte, Init, TypeOK, Firmware!Init, Firmware!TypeOK
<1> QED
  BY <1>1 DEF Init, IInv, LockStep, Firmware!Init
-----------------------------------------------------------------------------
(* The library's calls. *)
LEMMA AskInv ==
  ASSUME IInv, NEW c, NEW n, IsCall(c, n), Ask(c, n)
  PROVE  IInv'
<1>1. /\ hpc = "idle" /\ hpc' = "ack" /\ rx' = rx \o c /\ cmd' = c /\ size' = n /\ resp' = << >>
      /\ asked' = Append(asked, c) /\ did' = << >>
      /\ UNCHANGED <<tx, cmd_buf, cmd_buf_idx, pc, result, error, version>>
  BY DEF Ask
<1>2. /\ rx = << >> /\ tx = << >> /\ pc = "recv" /\ cmd_buf_idx = 0
  BY <1>1 DEF IInv, LockStep
<1>3. c \in Seq(Byte) /\ c # << >> /\ n \in Nat /\ Len(c) \in Nat
  BY CallFits DEF IsCall
<1>4. rx' = c
  BY <1>1, <1>2, <1>3
<1>5. TypeOK'
  <2>1. asked' \in Seq(Seq(Byte))
    BY <1>1, <1>3, AppendProperties DEF IInv, TypeOK
  <2> QED
    BY <1>1, <1>3, <1>4, <2>1 DEF IInv, TypeOK, Firmware!TypeOK, Byte, Firmware!Byte
<1>6. IsCall(cmd', size')
  BY <1>1
<1>7. Requesting'
  BY <1>1, <1>2, <1>3, <1>4 DEF Requesting
<1> QED
  BY <1>1, <1>3, <1>5, <1>6, <1>7 DEF IInv, LockStep, IsCall

(* A size as a byte of a command. *)
LEMMA CountIsByte == \A n \in Sizes : Count(n) \in Byte
BY LinkAssumption DEF Count, Byte

LEMMA AddressIs ==
  ASSUME NEW addr \in Addresses
  PROVE  addr \in Seq(Byte) /\ Len(addr) = AddrLen
BY LinkAssumption

(* The header of a read or a write. *)
LEMMA HeaderIs ==
  ASSUME NEW code \in Byte, NEW count \in Byte, NEW addr \in Addresses
  PROVE  LET h == <<code, count>> \o addr
         IN  h \in Seq(Byte) /\ Len(h) = Firmware!Header /\ h[1] = code /\ h[2] = count
<1>1. <<code, count>> \in Seq(Byte) /\ Len(<<code, count>>) = 2
  OBVIOUS
<1>2. addr \in Seq(Byte) /\ Len(addr) = AddrLen /\ AddrLen \in Nat
  BY AddressIs, LinkAssumption
<1>3. /\ <<code, count>> \o addr \in Seq(Byte) /\ Len(<<code, count>> \o addr) = 2 + AddrLen
      /\ \A k \in 1 .. 2 + AddrLen : (<<code, count>> \o addr)[k] =
           IF k <= 2 THEN <<code, count>>[k] ELSE addr[k - 2]
  BY <1>1, <1>2, ConcatProperties
<1>4. 1 \in 1 .. 2 + AddrLen /\ 2 \in 1 .. 2 + AddrLen
  BY <1>2
<1> QED
  BY <1>2, <1>3, <1>4 DEF Firmware!Header

LEMMA ReadIsCall ==
  ASSUME NEW n \in Sizes, NEW addr \in Addresses
  PROVE  IsCall(<<Firmware!CMD_ROTF, Count(n)>> \o addr, Count(n) + Echo)
<1>1. Count(n) \in Byte /\ Count(n) \in Nat /\ Firmware!CMD_ROTF \in Byte
  BY CountIsByte, Codes DEF Byte
<1> QED
  BY <1>1, HeaderIs, Ranges DEF IsCall

LEMMA WriteIsCall ==
  ASSUME NEW n \in Sizes, NEW addr \in Addresses, NEW b \in WriteBytes
  PROVE  IsCall(<<Firmware!CMD_WOTF, Count(n)>> \o addr \o [k \in 1 .. Count(n) |-> b], Echo)
<1>1. Count(n) \in Byte /\ Count(n) \in Nat /\ Firmware!CMD_WOTF \in Byte
  BY CountIsByte, Codes DEF Byte
<1> DEFINE h == <<Firmware!CMD_WOTF, Count(n)>> \o addr
           d == [k \in 1 .. Count(n) |-> b]
<1>2. h \in Seq(Byte) /\ Len(h) = Firmware!Header /\ h[1] = Firmware!CMD_WOTF /\ h[2] = Count(n)
  BY <1>1, HeaderIs
<1>3. d \in Seq(Byte) /\ Len(d) = Count(n)
  <2>1. b \in Byte
    BY LinkAssumption
  <2> QED
    BY <1>1, <2>1
<1> HIDE DEF h, d
<1>4. /\ h \o d \in Seq(Byte) /\ Len(h \o d) = Firmware!Header + Count(n)
      /\ (h \o d)[1] = h[1] /\ (h \o d)[2] = h[2]
  <2>1. /\ h \o d \in Seq(Byte) /\ Len(h \o d) = Len(h) + Len(d)
        /\ \A k \in 1 .. Len(h) + Len(d) :
             (h \o d)[k] = IF k <= Len(h) THEN h[k] ELSE d[k - Len(h)]
    BY <1>2, <1>3, ConcatProperties
  <2>2. 1 \in 1 .. Len(h) + Len(d) /\ 2 \in 1 .. Len(h) + Len(d) /\ 1 <= Len(h) /\ 2 <= Len(h)
    BY <1>1, <1>2, <1>3, Ranges
  <2> QED
    BY <1>2, <1>3, <2>1, <2>2
<1>5. IsCall(h \o d, Echo)
  BY <1>1, <1>2, <1>4, Ranges DEF IsCall
<1> QED
  BY <1>5 DEF h, d

LEMMA ShortCalls ==
  /\ IsCall(<<Firmware!CMD_VERSION>>, 2) /\ IsCall(<<Firmware!CMD_INIT>>, 2)
  /\ IsCall(<<Firmware!CMD_SRST>>, 0)
  /\ \A on \in {0, 1, ByteMax} : IsCall(<<Firmware!CMD_RESET, on>>, 0)
<1>1. 1 \in Byte
  BY Ranges
<1> QED
  BY <1>1, Codes, Ranges DEF IsCall

LEMMA CallsAsk ==
  ASSUME Calls
  PROVE  \E c, n : IsCall(c, n) /\ Ask(c, n)
<1>1. CASE FetchVersion
  BY <1>1, ShortCalls DEF FetchVersion
<1>2. CASE SwimEntry
  BY <1>2, ShortCalls DEF SwimEntry
<1>3. CASE Reset
  BY <1>3, ShortCalls DEF Reset
<1>4. CASE Srst
  BY <1>4, ShortCalls DEF Srst
<1>5. CASE Read
  BY <1>5, ReadIsCall DEF Read
<1>6. CASE Write
  BY <1>6, WriteIsCall DEF Write
<1> QED
  BY <1>1, <1>2, <1>3, <1>4, <1>5, <1>6 DEF Calls

LEMMA CallsInv ==
  ASSUME IInv, Calls
  PROVE  IInv' /\ \E c, n : IsCall(c, n) /\ Ask(c, n)
BY CallsAsk, AskInv
-----------------------------------------------------------------------------
(* What is known of a request that is still being received. *)
LEMMA AtByte ==
  ASSUME IInv, Firmware!TakeByte
  PROVE  /\ hpc # "idle" /\ IsCall(cmd, size) /\ Requesting
         /\ cmd_buf_idx \in Nat /\ cmd_buf_idx + 1 <= Len(cmd) /\ Len(cmd) \in Nat
         /\ cmd_buf_idx' = cmd_buf_idx + 1
         /\ cmd_buf' \in [0 .. Firmware!BufSize - 1 -> Byte]
         /\ rx' \in Seq(Byte) /\ cmd_buf_idx' + Len(rx') = Len(cmd)
         /\ \A k \in 1 .. cmd_buf_idx' : cmd_buf'[k - 1] = cmd[k]
         /\ \A k \in 1 .. Len(rx') : rx'[k] = cmd[cmd_buf_idx' + k]
<1>1. /\ pc = "recv" /\ rx # << >> /\ rx' = Tail(rx) /\ cmd_buf_idx' = cmd_buf_idx + 1
      /\ cmd_buf' = [cmd_buf EXCEPT ![cmd_buf_idx] = Head(rx)]
  BY DEF Firmware!TakeByte
<1>2. hpc # "idle" /\ IsCall(cmd, size) /\ Requesting
  BY <1>1 DEF IInv, LockStep, Served, Answered
<1>3. /\ rx \in Seq(Byte) /\ cmd_buf \in [0 .. Firmware!BufSize - 1 -> Byte]
      /\ cmd_buf_idx \in Nat /\ cmd \in Seq(Byte)
  BY DEF IInv, TypeOK, Firmware!TypeOK, Byte, Firmware!Byte
<1>4. /\ cmd_buf_idx + Len(rx) = Len(cmd) /\ Len(cmd) \in 1 .. Firmware!BufSize
      /\ \A k \in 1 .. cmd_buf_idx : cmd_buf[k - 1] = cmd[k]
      /\ \A k \in 1 .. Len(rx) : rx[k] = cmd[cmd_buf_idx + k]
  BY <1>2, CallFits DEF Requesting
<1>5. /\ Head(rx) = rx[1] /\ rx[1] \in Byte /\ Len(rx) \in Nat /\ Len(rx) >= 1
      /\ rx' \in Seq(Byte) /\ Len(rx') = Len(rx) - 1
      /\ \A k \in 1 .. Len(rx') : rx'[k] = rx[k + 1]
  BY <1>1, <1>3, HeadTailProperties
<1>6. /\ cmd_buf_idx + 1 <= Len(cmd) /\ Len(cmd) \in Nat
      /\ cmd_buf_idx \in 0 .. Firmware!BufSize - 1
  BY <1>3, <1>4, <1>5, Ranges
<1>7. cmd_buf_idx' + Len(rx') = Len(cmd)
  BY <1>1, <1>3, <1>4, <1>5
<1>8. cmd_buf' \in [0 .. Firmware!BufSize - 1 -> Byte]
  BY <1>1, <1>3, <1>5
<1>9. ASSUME NEW k \in 1 .. cmd_buf_idx' PROVE cmd_buf'[k - 1] = cmd[k]
  <2>1. CASE k = cmd_buf_idx + 1
    <3>1. cmd_buf'[k - 1] = rx[1] /\ 1 \in 1 .. Len(rx)
      BY <1>1, <1>3, <1>5, <1>6, <2>1
    <3> QED
      BY <1>4, <2>1, <3>1
  <2>2. CASE k # cmd_buf_idx + 1
    <3>1. k \in 1 .. cmd_buf_idx
      BY <1>1, <1>3, <2>2
    <3>2. k - 1 \in Int /\ k - 1 >= 0 /\ k - 1 < cmd_buf_idx
      BY <1>3, <3>1
    <3>3. k - 1 # cmd_buf_idx /\ k - 1 \in 0 .. Firmware!BufSize - 1
      BY <1>3, <1>6, <3>2, Ranges
    <3> QED
      BY <1>1, <1>3, <1>4, <3>1, <3>3
  <2> QED
    BY <2>1, <2>2
<1>10. ASSUME NEW k \in 1 .. Len(rx') PROVE rx'[k] = cmd[cmd_buf_idx' + k]
  <2>1. k + 1 \in 1 .. Len(rx) /\ cmd_buf_idx + (k + 1) = cmd_buf_idx' + k
    BY <1>1, <1>3, <1>5
  <2>2. rx[k + 1] = cmd[cmd_buf_idx + (k + 1)]
    BY <1>4, <2>1
  <2> QED
    BY <1>5, <2>1, <2>2
<1> QED
  BY <1>1, <1>2, <1>3, <1>5, <1>6, <1>7, <1>8, <1>9, <1>10

(* The interpreter finds a request complete at its last byte. *)
LEMMA CompleteAt ==
  ASSUME NEW c, NEW n, IsCall(c, n), NEW idx \in 1 .. Len(c),
         NEW buf \in [0 .. Firmware!BufSize - 1 -> Byte],
         \A k \in 1 .. idx : buf[k - 1] = c[k]
  PROVE  Firmware!Incomplete(buf, idx) <=> idx < Len(c)
<1>1. idx \in Nat /\ idx >= 1 /\ idx <= Len(c) /\ Len(c) \in Nat
  BY DEF IsCall
<1>2. buf[0] = c[1]
  <2>1. 1 \in 1 .. idx /\ 1 - 1 = 0
    BY <1>1
  <2> QED
    BY <2>1
<1>3. idx >= 2 => buf[1] = c[2]
  <2>1. idx >= 2 => 2 \in 1 .. idx /\ 2 - 1 = 1
    BY <1>1
  <2> QED
    BY <2>1
<1>4. buf[1] \in 0 .. ByteMax
  <2>1. 1 \in 0 .. Firmware!BufSize - 1
    BY Ranges
  <2> QED
    BY <2>1 DEF Byte
<1>5. CASE c[1] = Firmware!CMD_WOTF
  <2>1. Len(c) >= Firmware!Header /\ Len(c) = Firmware!Header + c[2]
    BY <1>5, Codes DEF IsCall
  <2>2. Firmware!Incomplete(buf, idx) <=> buf[1] # idx - Firmware!Header
    BY <1>2, <1>5, Codes DEF Firmware!Incomplete
  <2>3. CASE idx = 1
    <3>1. idx < Len(c) /\ buf[1] # idx - Firmware!Header
      BY <1>1, <1>4, <2>1, <2>3, Ranges
    <3> QED
      BY <2>2, <3>1
  <2>4. CASE idx >= 2
    <3>1. c[2] \in 0 .. ByteMax /\ buf[1] = c[2]
      BY <1>3, <1>4, <2>4
    <3>2. c[2] # idx - Firmware!Header <=> idx < Firmware!Header + c[2]
      <4> DEFINE count == c[2]
      <4>1. idx \in Nat /\ count \in Nat /\ idx <= Firmware!Header + count
        BY <1>1, <2>1, <3>1, Ranges
      <4> HIDE DEF count
      <4>2. count # idx - Firmware!Header <=> idx < Firmware!Header + count
        BY ONLY <4>1, Ranges
      <4> QED
        BY <4>2 DEF count
    <3> QED
      BY <2>1, <2>2, <3>1, <3>2
  <2> QED
    BY <1>1, <2>3, <2>4
<1>6. CASE c[1] = Firmware!CMD_ROTF
  <2>1. Firmware!Incomplete(buf, idx) <=> idx < Firmware!Header
    BY <1>2, <1>6, Codes DEF Firmware!Incomplete
  <2> QED
    BY <1>1, <1>6, <2>1, Codes DEF IsCall
<1>7. CASE c[1] = Firmware!CMD_RESET
  <2>1. Firmware!Incomplete(buf, idx) <=> idx < 2
    BY <1>2, <1>7, Codes DEF Firmware!Incomplete
  <2> QED
    BY <1>1, <1>7, <2>1, Codes DEF IsCall
<1>8. CASE c[1] \notin {Firmware!CMD_WOTF, Firmware!CMD_ROTF, Firmware!CMD_RESET}
  <2>1. ~Firmware!Incomplete(buf, idx)
    BY <1>2, <1>8 DEF Firmware!Incomplete
  <2>2. Len(c) = 1
    BY <1>8 DEF IsCall
  <2> QED
    BY <1>1, <2>1, <2>2
<1> QED
  BY <1>5, <1>6, <1>7, <1>8

LEMMA CompleteAtEnd ==
  ASSUME IInv, Firmware!TakeByte
  PROVE  Firmware!Incomplete(cmd_buf', cmd_buf_idx') <=> cmd_buf_idx' < Len(cmd)
<1>1. IsCall(cmd, size) /\ cmd_buf_idx' \in 1 .. Len(cmd)
  BY AtByte
<1> QED
  BY <1>1, AtByte, CompleteAt

LEMMA ReceiveInv ==
  ASSUME IInv, Receive
  PROVE  IInv' /\ hpc # "idle"
<1>1. /\ Firmware!RecvArgument \/ Firmware!RecvLast
      /\ UNCHANGED <<host, asked, did>>
  BY DEF Receive
<1>2. Firmware!TakeByte
  BY <1>1 DEF Firmware!RecvArgument, Firmware!RecvLast
<1>3. /\ hpc # "idle" /\ IsCall(cmd, size) /\ Requesting
      /\ cmd_buf_idx' \in Nat /\ Len(cmd) \in Nat
      /\ cmd_buf' \in [0 .. Firmware!BufSize - 1 -> Byte]
      /\ rx' \in Seq(Byte) /\ cmd_buf_idx' + Len(rx') = Len(cmd)
      /\ \A k \in 1 .. cmd_buf_idx' : cmd_buf'[k - 1] = cmd[k]
      /\ \A k \in 1 .. Len(rx') : rx'[k] = cmd[cmd_buf_idx' + k]
  BY <1>2, AtByte
<1>4. /\ hpc' = hpc /\ cmd' = cmd /\ size' = size /\ resp' = resp /\ result' = result
      /\ error' = error /\ version' = version /\ asked' = asked /\ did' = did
  BY <1>1 DEF host
<1>5. CASE Firmware!RecvArgument
  <2>1. cmd_buf_idx' < Len(cmd) /\ tx' = tx /\ pc' = pc
    BY <1>2, <1>5, CompleteAtEnd DEF Firmware!RecvArgument
  <2>2. rx' # << >>
    BY <1>3, <2>1
  <2>3. Requesting'
    BY <1>3, <1>4, <2>1, <2>2 DEF Requesting
  <2>4. TypeOK'
    BY <1>3, <1>4, <2>1 DEF IInv, TypeOK, Firmware!TypeOK, Byte, Firmware!Byte
  <2> QED
    BY <1>3, <1>4, <2>3, <2>4 DEF IInv, LockStep, IsCall
<1>6. CASE Firmware!RecvLast
  <2>1. cmd_buf_idx' = Len(cmd) /\ tx' = Append(tx, cmd_buf'[0]) /\ pc' = "exec"
    BY <1>2, <1>3, <1>6, CompleteAtEnd DEF Firmware!RecvLast
  <2>2. rx' = << >>
    <3>1. Len(rx') = 0
      BY <1>3, <2>1
    <3> QED
      BY <1>3, <3>1
  <2>3. cmd_buf'[0] = cmd[1] /\ cmd[1] \in Byte
    <3>1. 1 \in 1 .. cmd_buf_idx' /\ 1 - 1 = 0 /\ cmd[1] \in Byte
      BY <1>3, <2>1, CallFits
    <3> QED
      BY <1>3, <3>1
  <2>4. tx' = <<cmd[1]>> /\ hpc = "ack" /\ resp = << >> /\ did = << >>
    BY <1>3, <2>1, <2>3 DEF Requesting
  <2>5. Served'
    BY <1>3, <1>4, <2>1, <2>2, <2>4 DEF Served
  <2>6. TypeOK'
    BY <1>3, <1>4, <2>1, <2>3, <2>4 DEF IInv, TypeOK, Firmware!TypeOK, Byte, Firmware!Byte
  <2> QED
    BY <1>3, <1>4, <2>5, <2>6 DEF IInv, LockStep, IsCall
<1> QED
  BY <1>1, <1>3, <1>5, <1>6
-----------------------------------------------------------------------------
LEMMA HighLow ==
  ASSUME NEW n \in Int
  PROVE  Firmware!High(n) \in Byte /\ Firmware!Low(n) \in Byte
<1>1. ByteMax + 1 \in Nat /\ ByteMax + 1 > 0
  BY Ranges
<1>2. n \div (ByteMax + 1) \in Int
  BY <1>1
<1>3. /\ n % (ByteMax + 1) \in 0 .. ByteMax
      /\ (n \div (ByteMax + 1)) % (ByteMax + 1) \in 0 .. ByteMax
  BY <1>1, <1>2, Ranges
<1> QED
  BY <1>3 DEF Firmware!High, Firmware!Low, Byte

LEMMA BytesAt ==
  ASSUME NEW buf \in [0 .. Firmware!BufSize - 1 -> Byte], NEW n \in 0 .. Firmware!BufSize
  PROVE  /\ Firmware!Bytes(buf, n) \in Seq(Byte) /\ Len(Firmware!Bytes(buf, n)) = n
         /\ \A k \in 1 .. n : Firmware!Bytes(buf, n)[k] = buf[k - 1]
<1>1. \A k \in 1 .. n : k - 1 \in 0 .. Firmware!BufSize - 1
  BY Ranges
<1>2. Firmware!Bytes(buf, n) \in [1 .. n -> Byte]
  BY <1>1 DEF Firmware!Bytes
<1> QED
  BY <1>2 DEF Firmware!Bytes

(* The bytes added to a line. *)
LEMMA AddedIs ==
  ASSUME NEW s \in Seq(Byte), NEW a \in Seq(Byte)
  PROVE  SubSeq(s \o a, Len(s) + 1, Len(s \o a)) = a
<1>1. /\ s \o a \in Seq(Byte) /\ Len(s \o a) = Len(s) + Len(a)
      /\ \A k \in 1 .. Len(s) + Len(a) : (s \o a)[k] = IF k <= Len(s) THEN s[k] ELSE a[k - Len(s)]
      /\ Len(s) \in Nat /\ Len(a) \in Nat
  BY ConcatProperties, LenProperties
<1>2. \A k \in Len(s) + 1 .. Len(s) + Len(a) :
        (s \o a)[k] = a[k - Len(s)] /\ (s \o a)[k] \in Byte
  BY <1>1
<1>3. /\ SubSeq(s \o a, Len(s) + 1, Len(s \o a)) \in Seq(Byte)
      /\ Len(SubSeq(s \o a, Len(s) + 1, Len(s \o a))) = Len(a)
      /\ \A k \in 1 .. Len(a) :
           SubSeq(s \o a, Len(s) + 1, Len(s \o a))[k] = (s \o a)[Len(s) + k]
  BY <1>1, <1>2, SubSeqProperties
<1>4. \A k \in 1 .. Len(a) : (s \o a)[Len(s) + k] = a[k]
  BY <1>1, <1>2
<1> QED
  BY <1>3, <1>4, SeqEqual

(* The end of the loop body sends one reply. *)
LEMMA FinishSends ==
  ASSUME NEW buf \in [0 .. Firmware!BufSize - 1 -> Byte],
         NEW idx \in 1 .. Firmware!BufSize, NEW res \in Int,
         Firmware!Finish(buf, idx, res)
  PROVE  /\ pc' = "recv" /\ cmd_buf_idx' = 0 /\ rx' = rx
         /\ cmd_buf' \in [0 .. Firmware!BufSize - 1 -> Byte]
         /\ \E a \in Seq(Byte) :
              /\ tx' = tx \o a
              /\ res < 0 => a[1] = ByteMax /\ Len(a) = 3
              /\ ~(res < 0) => /\ a[1] = 0 /\ Len(a) = idx
                               /\ \A k \in 2 .. idx : a[k] = buf[k - 1]
<1>1. pc' = "recv" /\ cmd_buf_idx' = 0 /\ rx' = rx
  BY DEF Firmware!Finish
<1>2. 0 \in 0 .. Firmware!BufSize - 1 /\ idx \in 0 .. Firmware!BufSize
  BY Ranges
<1>3. cmd_buf' \in [0 .. Firmware!BufSize - 1 -> Byte]
  BY Ranges DEF Firmware!Finish
<1>4. CASE res < 0
  <2> DEFINE a == <<ByteMax, Firmware!High(-res), Firmware!Low(-res)>>
  <2>1. a \in Seq(Byte) /\ Len(a) = 3 /\ a[1] = ByteMax
    <3>1. Firmware!High(-res) \in Byte /\ Firmware!Low(-res) \in Byte /\ ByteMax \in Byte
      BY HighLow, Ranges
    <3> QED
      BY <3>1
  <2>2. tx' = tx \o a
    BY <1>4 DEF Firmware!Finish, Firmware!ErrorReply
  <2> QED
    BY <1>1, <1>3, <1>4, <2>1, <2>2
<1>5. CASE ~(res < 0)
  <2>1. cmd_buf' = [buf EXCEPT ![0] = 0] /\ tx' = tx \o Firmware!Bytes(cmd_buf', idx)
    BY <1>5 DEF Firmware!Finish
  <2> DEFINE a == Firmware!Bytes(cmd_buf', idx)
  <2>2. /\ a \in Seq(Byte) /\ Len(a) = idx
        /\ \A k \in 1 .. idx : a[k] = cmd_buf'[k - 1]
    BY <1>2, <1>3, BytesAt
  <2>3. a[1] = 0
    <3>1. 1 \in 1 .. idx /\ 1 - 1 = 0
      OBVIOUS
    <3>2. cmd_buf'[0] = 0
      BY <1>2, <2>1
    <3> QED
      BY <2>2, <3>1, <3>2
  <2>4. ASSUME NEW k \in 2 .. idx PROVE a[k] = buf[k - 1]
    <3>1. k \in 1 .. idx /\ k - 1 # 0 /\ k - 1 >= 0 /\ k - 1 \in Int /\ idx <= Firmware!BufSize
      OBVIOUS
    <3>2. k - 1 \in 0 .. Firmware!BufSize - 1
      BY <3>1, Ranges
    <3> QED
      BY <2>1, <2>2, <3>1, <3>2
  <2> QED
    BY <1>1, <1>3, <1>5, <2>1, <2>2, <2>3, <2>4
<1> QED
  BY <1>4, <1>5

(* The driver's outcomes. *)
LEMMA Results ==
  /\ \A r \in SwimErrors : r \in Int /\ r < 0
  /\ \A r \in Durations : r \in Int /\ ~(r < 0)
<1>1. \A n \in 1 .. ByteMax : -n \in Int /\ -n < 0
  BY Ranges
<1> QED
  BY <1>1, LinkAssumption

(* What an outcome of the driver can be. *)
LEMMA OutcomeIs ==
  ASSUME NEW out \in Firmware!Outcomes
  PROVE  /\ out.result \in Int
         /\ cmd_buf[0] \in {Firmware!CMD_RESET, Firmware!CMD_VERSION} => out.result = 0
         /\ cmd_buf[0] = Firmware!CMD_ROTF => \E n \in 0 .. cmd_buf[1] : out.data \in [1 .. n -> ReadBytes]
<1>0. \A r \in SwimErrors \cup Durations \cup {0, -1} : r \in Int
  <2>1. \A n \in 1 .. ByteMax : -n \in Int
    BY LinkAssumption
  <2>2. \A r \in SwimErrors : r \in Int
    BY <2>1, LinkAssumption
  <2>3. \A r \in Durations : r \in Int
    BY LinkAssumption
  <2> QED
    BY <2>2, <2>3
<1>1. CASE cmd_buf[0] \in {Firmware!CMD_SRST, Firmware!CMD_WOTF}
  <2>1. out \in [result : SwimErrors \cup {0}, data : {<< >>}]
    BY <1>1, Codes DEF Firmware!Outcomes
  <2> QED
    BY <1>0, <1>1, <2>1, Codes
<1>2. CASE cmd_buf[0] = Firmware!CMD_ROTF
  <2>1. out \in [result : SwimErrors \cup {0},
                data : UNION {[1 .. n -> ReadBytes] : n \in 0 .. cmd_buf[1]}]
    BY <1>2, Codes DEF Firmware!Outcomes
  <2> QED
    BY <1>0, <1>2, <2>1, Codes
<1>3. CASE cmd_buf[0] = Firmware!CMD_INIT
  <2>1. out \in [result : SwimErrors \cup Durations, data : {<< >>}]
    BY <1>3, Codes DEF Firmware!Outcomes
  <2> QED
    BY <1>0, <1>3, <2>1, Codes
<1>4. CASE cmd_buf[0] \in {Firmware!CMD_RESET, Firmware!CMD_VERSION}
  <2>1. out = [result |-> 0, data |-> << >>]
    BY <1>4, Codes DEF Firmware!Outcomes
  <2> QED
    BY <1>4, <2>1, Codes
<1>5. CASE cmd_buf[0] \notin {Firmware!CMD_SRST, Firmware!CMD_ROTF, Firmware!CMD_WOTF, Firmware!CMD_RESET,
                             Firmware!CMD_INIT, Firmware!CMD_VERSION}
  <2>1. out = [result |-> -1, data |-> << >>]
    BY <1>5 DEF Firmware!Outcomes
  <2> QED
    BY <1>0, <1>5, <2>1
<1> QED
  BY <1>1, <1>2, <1>3, <1>4, <1>5

(* The buffer with a read's bytes in it. *)
LEMMA StoredType ==
  ASSUME NEW out \in Firmware!Outcomes, cmd_buf[0] = Firmware!CMD_ROTF,
         cmd_buf \in [0 .. Firmware!BufSize - 1 -> Byte], cmd_buf[1] \in 0 .. ByteMax
  PROVE  Firmware!Stored(Firmware!Header, out.data) \in [0 .. Firmware!BufSize - 1 -> Byte]
<1>1. PICK n \in 0 .. cmd_buf[1] : out.data \in [1 .. n -> ReadBytes]
  BY OutcomeIs
<1>2. /\ Len(out.data) = n /\ n \in Nat
      /\ \A k \in 1 .. n : out.data[k] \in Byte
  <2>1. n \in Nat
    OBVIOUS
  <2>2. \A k \in 1 .. n : out.data[k] \in ReadBytes
    BY <1>1
  <2>3. ReadBytes \subseteq Byte
    BY LinkAssumption DEF Byte
  <2>4. out.data \in Seq(ReadBytes) /\ Len(out.data) = n
    BY <1>1, <2>1
  <2> QED
    BY <2>1, <2>2, <2>3, <2>4
<1>3. Firmware!Header \in Nat /\ Firmware!BufSize \in Nat
  BY Ranges
<1>4. \A k \in 0 .. Firmware!BufSize - 1 :
        k \in Firmware!Header .. Firmware!Header + n - 1 => k - Firmware!Header + 1 \in 1 .. n
  BY <1>2, <1>3
<1>5. Firmware!Stored(Firmware!Header, out.data) =
        [k \in 0 .. Firmware!BufSize - 1 |->
           IF k \in Firmware!Header .. Firmware!Header + n - 1 THEN out.data[k - Firmware!Header + 1] ELSE cmd_buf[k]]
  BY <1>2 DEF Firmware!Stored
<1> QED
  BY <1>2, <1>4, <1>5

(* The request being served, in the interpreter's buffer. *)
LEMMA InBuffer ==
  ASSUME IInv, Served
  PROVE  /\ IsCall(cmd, size) /\ hpc # "idle"
         /\ cmd_buf \in [0 .. Firmware!BufSize - 1 -> Byte]
         /\ cmd_buf_idx = Len(cmd) /\ cmd_buf_idx \in 1 .. Firmware!BufSize
         /\ cmd_buf[0] = cmd[1]
         /\ cmd_buf_idx >= 2 => cmd_buf[1] = cmd[2] /\ cmd[2] \in 0 .. ByteMax
<1>1. hpc # "idle" /\ IsCall(cmd, size)
  BY DEF IInv, Served
<1>2. /\ cmd_buf_idx = Len(cmd) /\ cmd_buf_idx \in 1 .. Firmware!BufSize
      /\ \A k \in 1 .. cmd_buf_idx : cmd_buf[k - 1] = cmd[k]
      /\ cmd_buf_idx >= 2 => cmd[2] \in 0 .. ByteMax
  BY <1>1, CallFits DEF Served
<1>3. cmd_buf \in [0 .. Firmware!BufSize - 1 -> Byte]
  BY DEF IInv, TypeOK, Firmware!TypeOK, Byte, Firmware!Byte
<1>4. 1 \in 1 .. cmd_buf_idx /\ 1 - 1 = 0 /\ (cmd_buf_idx >= 2 => 2 \in 1 .. cmd_buf_idx /\ 2 - 1 = 1)
  BY <1>2
<1> QED
  BY <1>1, <1>2, <1>3, <1>4

(* A reply of the size of the table puts the call into the answered state. *)
LEMMA ReplyInv ==
  ASSUME IInv, Served, Execute,
         NEW buf \in [0 .. Firmware!BufSize - 1 -> Byte],
         NEW idx \in 1 .. Firmware!BufSize, NEW res \in Int,
         Firmware!Finish(buf, idx, res),
         ~(res < 0) => idx = size + 1,
         cmd[1] = Firmware!CMD_VERSION => ~(res < 0) /\ idx = 3 /\ buf[1] = 0 /\ buf[2] = 2
  PROVE  IInv' /\ Answered'
<1>1. /\ pc' = "recv" /\ cmd_buf_idx' = 0 /\ rx' = rx
      /\ cmd_buf' \in [0 .. Firmware!BufSize - 1 -> Byte]
  BY FinishSends
<1>2. PICK a \in Seq(Byte) :
        /\ tx' = tx \o a
        /\ res < 0 => a[1] = ByteMax /\ Len(a) = 3
        /\ ~(res < 0) => a[1] = 0 /\ Len(a) = idx /\ \A k \in 2 .. idx : a[k] = buf[k - 1]
  BY FinishSends
<1>3. /\ asked' = IF asked = << >> THEN asked ELSE Tail(asked)
      /\ did' = SubSeq(tx', Len(tx) + 1, Len(tx'))
      /\ hpc' = hpc /\ cmd' = cmd /\ size' = size /\ resp' = resp /\ result' = result
      /\ error' = error /\ version' = version
  BY DEF Execute, host
<1>4. tx \in Seq(Byte) /\ asked \in Seq(Seq(Byte))
  BY DEF IInv, TypeOK, Firmware!TypeOK, Byte, Firmware!Byte
<1>5. did' = a
  BY <1>2, <1>3, <1>4, AddedIs
<1>6. IsReply(did)'
  <2>1. CASE res < 0
    BY <1>2, <1>5, <2>1 DEF IsReply
  <2>2. CASE ~(res < 0)
    <3>1. a[1] = 0 /\ Len(a) = size' + 1
      BY <1>2, <1>3, <2>2
    <3>2. cmd'[1] = Firmware!CMD_VERSION => a[2] = 0 /\ a[3] = 2
      <4>1. ASSUME idx = 3 PROVE 2 \in 2 .. idx /\ 3 \in 2 .. idx /\ 2 - 1 = 1 /\ 3 - 1 = 2
        BY <4>1
      <4> QED
        BY <1>2, <1>3, <2>2, <4>1
    <3> QED
      BY <1>5, <3>1, <3>2 DEF IsReply
  <2> QED
    BY <2>1, <2>2
<1>7. /\ rx = << >> /\ resp = << >>
      /\ \/ hpc = "ack" /\ tx = <<cmd[1]>>
         \/ hpc = "status" /\ tx = << >>
  BY DEF Served
<1>8. Answered'
  <2>1. CASE hpc = "ack" /\ tx = <<cmd[1]>>
    BY <1>1, <1>2, <1>3, <1>5, <1>6, <1>7, <2>1 DEF Answered
  <2>2. CASE hpc = "status" /\ tx = << >>
    <3>1. tx' = did'
      BY <1>2, <1>5, <2>2, ConcatEmptySeq
    <3> QED
      BY <1>1, <1>3, <1>6, <1>7, <2>2, <3>1 DEF Answered
  <2> QED
    BY <1>7, <2>1, <2>2
<1>9. TypeOK'
  <2>1. asked' \in Seq(Seq(Byte))
    BY <1>3, <1>4, HeadTailProperties
  <2>2. tx' \in Seq(Byte)
    BY <1>2, <1>4, ConcatProperties
  <2> QED
    BY <1>1, <1>3, <1>5, <2>1, <2>2 DEF IInv, TypeOK, Firmware!TypeOK, Byte, Firmware!Byte
<1> QED
  BY <1>3, <1>7, <1>8, <1>9, InBuffer DEF IInv, LockStep, IsCall

LEMMA ExecuteInv ==
  ASSUME IInv, Execute
  PROVE  IInv' /\ Served /\ Answered'
<1>0. PICK out \in Firmware!Outcomes : Firmware!Serve(out)
  BY DEF Execute, Firmware!Execute
<1>1. pc = "exec"
  BY <1>0 DEF Firmware!Serve, Firmware!Serving, Firmware!DoSrst, Firmware!DoRotf,
     Firmware!DoWotf, Firmware!DoInit, Firmware!DoReset, Firmware!DoVersion, Firmware!DoUnknown
<1>2. Served
  BY <1>1 DEF IInv, LockStep, Requesting, Answered
<1>3. /\ IsCall(cmd, size) /\ cmd_buf \in [0 .. Firmware!BufSize - 1 -> Byte]
      /\ cmd_buf_idx = Len(cmd) /\ cmd_buf_idx \in 1 .. Firmware!BufSize
      /\ cmd_buf[0] = cmd[1]
      /\ cmd_buf_idx >= 2 => cmd_buf[1] = cmd[2] /\ cmd[2] \in 0 .. ByteMax
  BY <1>2, InBuffer
<1>4. CASE Firmware!DoSrst(out)
  <2>1. Firmware!Finish(cmd_buf, cmd_buf_idx, out.result)
    BY <1>4 DEF Firmware!DoSrst
  <2>2. cmd[1] = Firmware!CMD_SRST /\ cmd_buf_idx = 1 /\ size = 0
    BY <1>3, <1>4, Codes DEF Firmware!DoSrst, Firmware!Serving, IsCall
  <2>3. out.result \in Int
    BY OutcomeIs
  <2> QED
    BY <1>2, <1>3, <2>1, <2>2, <2>3, ReplyInv, Codes
<1>5. CASE Firmware!DoRotf(out)
  <2> DEFINE buf == Firmware!Stored(Firmware!Header, out.data)
  <2>1. cmd_buf[0] = Firmware!CMD_ROTF /\ cmd_buf_idx >= 2
    BY <1>3, <1>5, Codes, Ranges DEF Firmware!DoRotf, Firmware!Serving, IsCall
  <2>2. Firmware!Finish(buf, cmd_buf_idx + cmd_buf[1], out.result)
    BY <1>5 DEF Firmware!DoRotf
  <2>3. buf \in [0 .. Firmware!BufSize - 1 -> Byte]
    BY <1>3, <2>1, StoredType
  <2>4. cmd[1] = Firmware!CMD_ROTF /\ cmd_buf_idx = Firmware!Header /\ size = cmd[2] + Echo
    BY <1>3, <1>5, Codes DEF Firmware!DoRotf, Firmware!Serving, IsCall
  <2>5. cmd_buf[1] = cmd[2] /\ cmd[2] \in 0 .. ByteMax
    BY <1>3, <2>4, Ranges
  <2>6. cmd_buf_idx + cmd_buf[1] = size + 1 /\ cmd_buf_idx + cmd_buf[1] \in 1 .. Firmware!BufSize
    <3> DEFINE count == cmd_buf[1]
    <3>1. count \in 0 .. ByteMax /\ size = count + Echo /\ cmd_buf_idx = Firmware!Header
      BY <2>4, <2>5
    <3> HIDE DEF count
    <3>2. cmd_buf_idx + count = size + 1 /\ cmd_buf_idx + count \in 1 .. Firmware!BufSize
      BY ONLY <3>1, Ranges
    <3> QED
      BY <3>2 DEF count
  <2>7. out.result \in Int
    BY OutcomeIs
  <2> HIDE DEF buf
  <2> QED
    BY <1>2, <2>2, <2>3, <2>4, <2>6, <2>7, ReplyInv, Codes
<1>6. CASE Firmware!DoWotf(out)
  <2>1. Firmware!Finish(cmd_buf, Firmware!Header, out.result)
    BY <1>6 DEF Firmware!DoWotf
  <2>2. cmd[1] = Firmware!CMD_WOTF /\ size = Echo
    BY <1>3, <1>6, Codes DEF Firmware!DoWotf, Firmware!Serving, IsCall
  <2>3. out.result \in Int
    BY OutcomeIs
  <2>4. Firmware!Header = size + 1 /\ Firmware!Header \in 1 .. Firmware!BufSize
    BY <2>2, Ranges
  <2> QED
    BY <1>2, <1>3, <2>1, <2>2, <2>3, <2>4, ReplyInv, Codes
<1>7. CASE Firmware!DoInit(out)
  <2>1. Firmware!Finish([cmd_buf EXCEPT ![cmd_buf_idx] = Firmware!High(out.result),
                                        ![cmd_buf_idx + 1] = Firmware!Low(out.result)],
                        cmd_buf_idx + 2, out.result)
    BY <1>7 DEF Firmware!DoInit
  <2>2. cmd[1] = Firmware!CMD_INIT /\ cmd_buf_idx = 1 /\ size = 2
    BY <1>3, <1>7, Codes DEF Firmware!DoInit, Firmware!Serving, IsCall
  <2>3. out.result \in Int
    BY OutcomeIs
  <2> DEFINE buf == [cmd_buf EXCEPT ![cmd_buf_idx] = Firmware!High(out.result),
                                    ![cmd_buf_idx + 1] = Firmware!Low(out.result)]
  <2>4. buf \in [0 .. Firmware!BufSize - 1 -> Byte]
    BY <1>3, <2>3, HighLow
  <2>5. cmd_buf_idx + 2 = size + 1 /\ cmd_buf_idx + 2 \in 1 .. Firmware!BufSize
    BY <2>2, Ranges
  <2> HIDE DEF buf
  <2>6. Firmware!Finish(buf, cmd_buf_idx + 2, out.result)
    BY <2>1 DEF buf
  <2> QED
    BY <1>2, <2>2, <2>3, <2>4, <2>5, <2>6, ReplyInv, Codes
<1>8. CASE Firmware!DoReset(out)
  <2>0. out.result = 0
    BY <1>8, OutcomeIs DEF Firmware!DoReset, Firmware!Serving
  <2>1. Firmware!Finish(cmd_buf, 1, 0) /\ 1 \in 1 .. Firmware!BufSize /\ ~(0 < 0) /\ 0 \in Int
    BY <1>8, <2>0, Ranges DEF Firmware!DoReset
  <2>2. cmd[1] = Firmware!CMD_RESET /\ size = 0
    BY <1>3, <1>8, Codes DEF Firmware!DoReset, Firmware!Serving, IsCall
  <2>3. 1 = size + 1
    BY <2>2
  <2> QED
    BY <1>2, <1>3, <2>1, <2>2, <2>3, ReplyInv, Codes
<1>9. CASE Firmware!DoVersion(out)
  <2>1. cmd[1] = Firmware!CMD_VERSION /\ cmd_buf_idx = 1 /\ size = 2
    BY <1>3, <1>9, Codes DEF Firmware!DoVersion, Firmware!Serving, IsCall
  <2> DEFINE buf == [cmd_buf EXCEPT ![cmd_buf_idx] = Firmware!FIRMWARE_VERSION_MAJOR,
                                    ![cmd_buf_idx + 1] = Firmware!FIRMWARE_VERSION_MINOR]
  <2>2. 0 \in Byte /\ 2 \in Byte /\ 1 \in 0 .. Firmware!BufSize - 1 /\ 2 \in 0 .. Firmware!BufSize - 1
    BY Ranges DEF Byte
  <2>3. buf \in [0 .. Firmware!BufSize - 1 -> Byte] /\ buf[1] = 0 /\ buf[2] = 2
    BY <1>3, <2>1, <2>2 DEF Firmware!FIRMWARE_VERSION_MAJOR, Firmware!FIRMWARE_VERSION_MINOR
  <2>4. cmd_buf_idx + 2 = size + 1 /\ cmd_buf_idx + 2 = 3 /\ cmd_buf_idx + 2 \in 1 .. Firmware!BufSize
    BY <2>1, Ranges
  <2>0. out.result = 0
    BY <1>9, OutcomeIs DEF Firmware!DoVersion, Firmware!Serving
  <2>5. Firmware!Finish(buf, cmd_buf_idx + 2, 0) /\ ~(0 < 0) /\ 0 \in Int
    BY <1>9, <2>0 DEF Firmware!DoVersion
  <2> HIDE DEF buf
  <2> QED
    BY <1>2, <2>1, <2>3, <2>4, <2>5, ReplyInv
<1>10. CASE Firmware!DoUnknown(out)
  BY <1>3, <1>10 DEF Firmware!DoUnknown, IsCall
<1> QED
  BY <1>0, <1>4, <1>5, <1>6, <1>7, <1>8, <1>9, <1>10, <1>2 DEF Firmware!Serve
-----------------------------------------------------------------------------
(* What a step of the library keeps, and what it knows when it starts. *)
LEMMA Checking ==
  ASSUME IInv, hpc # "idle"
  PROVE  /\ IsCall(cmd, size) /\ (Requesting \/ Served \/ Answered)
         /\ tx \in Seq(Byte) /\ resp \in Seq(Byte) /\ did \in Seq(Byte)
         /\ size \in Nat /\ cmd # << >> /\ cmd[1] \in Byte
BY CallFits DEF IInv, TypeOK, Firmware!TypeOK, Byte, Firmware!Byte

(* Taking n bytes off the line splits it. *)
LEMMA TakeIs ==
  ASSUME NEW s \in Seq(Byte), NEW n \in 1 .. Len(s)
  PROVE  /\ SubSeq(s, n + 1, Len(s)) \in Seq(Byte)
         /\ Len(SubSeq(s, n + 1, Len(s))) = Len(s) - n
         /\ SubSeq(s, 1, n) \in Seq(Byte) /\ Len(SubSeq(s, 1, n)) = n
         /\ SubSeq(s, 1, n) \o SubSeq(s, n + 1, Len(s)) = s
<1>1. Len(s) \in Nat /\ n \in Nat /\ n >= 1 /\ n <= Len(s)
  OBVIOUS
<1>2. \A k \in 1 .. Len(s) : s[k] \in Byte
  BY ElementOfSeq
<1>3. /\ SubSeq(s, n + 1, Len(s)) \in Seq(Byte)
      /\ Len(SubSeq(s, n + 1, Len(s))) = IF n + 1 <= Len(s) THEN Len(s) - (n + 1) + 1 ELSE 0
  BY <1>1, <1>2, SubSeqProperties
<1>4. SubSeq(s, 1, n) \in Seq(Byte) /\ Len(SubSeq(s, 1, n)) = n
  BY <1>1, <1>2, SubSeqProperties
<1>5. SubSeq(s, 1, n) \o SubSeq(s, n + 1, Len(s)) = s
  <2>1. SubSeq(s, 1, n) \o SubSeq(s, n + 1, Len(s)) = SubSeq(s, 1, Len(s))
    BY <1>1, ConcatAdjacentSubSeq
  <2> QED
    BY <2>1, SubSeqFull
<1> QED
  BY <1>1, <1>3, <1>4, <1>5

(* The acknowledgement is that of the request. *)
LEMMA ReadAckInv ==
  ASSUME IInv, ReadAck
  PROVE  IInv' /\ hpc' # "idle" /\ UNCHANGED <<cmd, did, result>>
<1>1. /\ hpc = "ack" /\ tx # << >> /\ tx' = SubSeq(tx, 2, Len(tx))
      /\ hpc' = IF tx[1] = cmd[1] THEN "status" ELSE "unexpected"
      /\ UNCHANGED <<rx, cmd_buf, cmd_buf_idx, pc, cmd, size, asked, did,
                     resp, result, error, version>>
  BY DEF ReadAck, Take, HostOnly
<1>2. /\ IsCall(cmd, size) /\ tx \in Seq(Byte) /\ did \in Seq(Byte) /\ cmd # << >> /\ cmd[1] \in Byte
      /\ Served \/ Answered
  BY <1>1, Checking DEF Requesting
<1>3. CASE Served
  <2>1. tx = <<cmd[1]>>
    BY <1>1, <1>3 DEF Served
  <2>2. tx[1] = cmd[1] /\ tx' = << >>
    BY <1>1, <2>1
  <2>3. Served'
    BY <1>1, <1>3, <2>2 DEF Served
  <2>4. TypeOK'
    BY <1>1, <2>2 DEF IInv, TypeOK, Firmware!TypeOK
  <2> QED
    BY <1>1, <1>2, <2>2, <2>3, <2>4 DEF IInv, LockStep, IsCall
<1>4. CASE Answered
  <2>1. tx = <<cmd[1]>> \o did /\ IsReply(did)
    BY <1>1, <1>4 DEF Answered
  <2>2. <<cmd[1]>> \in Seq(Byte) /\ Len(<<cmd[1]>>) = 1
    BY <1>2
  <2>3. tx[1] = cmd[1]
    <3>1. /\ \A k \in 1 .. Len(<<cmd[1]>>) + Len(did) :
               tx[k] = IF k <= Len(<<cmd[1]>>) THEN <<cmd[1]>>[k] ELSE did[k - Len(<<cmd[1]>>)]
          /\ Len(did) \in Nat
      BY <1>2, <2>1, <2>2, ConcatProperties
    <3>2. 1 \in 1 .. Len(<<cmd[1]>>) + Len(did) /\ 1 <= Len(<<cmd[1]>>) /\ <<cmd[1]>>[1] = cmd[1]
      BY <2>2, <3>1
    <3> QED
      BY <3>1, <3>2
  <2>4. tx' = did
    <3>1. SubSeq(tx, Len(<<cmd[1]>>) + 1, Len(tx)) = did
      BY <1>2, <2>1, <2>2, AddedIs
    <3>2. Len(<<cmd[1]>>) + 1 = 2
      BY <2>2
    <3> QED
      BY <1>1, <3>1, <3>2
  <2>5. IsReply(did)'
    BY <1>1, <2>1 DEF IsReply
  <2>6. Answered'
    BY <1>1, <1>4, <2>3, <2>4, <2>5 DEF Answered
  <2>7. TypeOK'
    BY <1>1, <1>2, <2>3, <2>4 DEF IInv, TypeOK, Firmware!TypeOK, Byte, Firmware!Byte
  <2> QED
    BY <1>1, <1>2, <2>3, <2>6, <2>7 DEF IInv, LockStep, IsCall
<1> QED
  BY <1>1, <1>2, <1>3, <1>4

(* A call that has its whole reply returns it. *)
LEMMA SucceedIs ==
  ASSUME IInv, hpc # "idle", Answered, NEW payload \in Seq(Byte), did = << 0 >> \o payload,
         Succeed(payload)
  PROVE  /\ hpc' = "idle" /\ result' = did /\ error' = error
         /\ version' \in {-1} \cup Nat
<1>1. IsCall(cmd, size) /\ did \in Seq(Byte) /\ size \in Nat /\ IsReply(did)
  BY Checking DEF Answered
<1>2. did[1] = 0 /\ \A k \in 1 .. Len(payload) : did[k + 1] = payload[k]
  <2>1. <<0>> \in Seq(Byte) /\ Len(<<0>>) = 1 /\ <<0>>[1] = 0 /\ Len(payload) \in Nat
    BY Ranges
  <2>2. \A k \in 1 .. Len(<<0>>) + Len(payload) :
          did[k] = IF k <= Len(<<0>>) THEN <<0>>[k] ELSE payload[k - Len(<<0>>)]
    BY <2>1, ConcatProperties
  <2>3. 1 \in 1 .. Len(<<0>>) + Len(payload) /\ 1 <= Len(<<0>>)
    BY <2>1
  <2>4. ASSUME NEW k \in 1 .. Len(payload)
        PROVE  /\ k + 1 \in 1 .. Len(<<0>>) + Len(payload) /\ ~(k + 1 <= Len(<<0>>))
               /\ (k + 1) - Len(<<0>>) = k
    BY <2>1
  <2> QED
    BY <2>1, <2>2, <2>3, <2>4
<1>3. CASE cmd[1] = Firmware!CMD_VERSION
  <2>1. size = 2 /\ Len(did) = 3 /\ did[2] = 0 /\ did[3] = 2
    BY <1>1, <1>2, <1>3, Codes, Ranges DEF IsReply, IsCall
  <2>2. Len(payload) = 2
    <3>1. Len(did) = 1 + Len(payload) /\ Len(payload) \in Nat
      <4>1. <<0>> \in Seq(Byte) /\ Len(<<0>>) = 1
        BY Ranges
      <4> QED
        BY <4>1, ConcatProperties
    <3>2. 1 + Len(payload) = 3
      BY <2>1, <3>1
    <3>3. \A m \in Nat : 1 + m = 3 => m = 2
      OBVIOUS
    <3> QED
      BY <3>1, <3>2, <3>3, Zenon
  <2>3. payload[1] = 0 /\ payload[2] = 2
    <3>1. 1 \in 1 .. Len(payload) /\ 2 \in 1 .. Len(payload) /\ 1 + 1 = 2 /\ 2 + 1 = 3
      BY <2>2
    <3> QED
      BY <1>2, <2>1, <3>1
  <2>4. payload[1] * (ByteMax + 1) + payload[2] = 2
    BY <2>3, Ranges
  <2> QED
    BY <1>3, <2>4 DEF Succeed
<1>4. CASE cmd[1] # Firmware!CMD_VERSION
  BY <1>4 DEF Succeed, IInv, TypeOK
<1> QED
  BY <1>3, <1>4

(* A call that has read the last byte of its reply leaves both ends ready. *)
LEMMA EndInv ==
  ASSUME IInv, hpc # "idle", Answered, HostOnly, hpc' = "idle", tx' = << >>, result' = did,
         error' \in 0 .. 4, version' \in {-1} \cup Nat, resp' \in Seq(Byte), Len(resp') <= size
  PROVE  IInv' /\ did # << >>
<1>1. /\ rx' = rx /\ cmd_buf' = cmd_buf /\ cmd_buf_idx' = cmd_buf_idx /\ pc' = pc
      /\ cmd' = cmd /\ size' = size /\ asked' = asked /\ did' = did
  BY DEF HostOnly
<1>2. pc = "recv" /\ rx = << >> /\ cmd_buf_idx = 0 /\ IsReply(did)
  BY DEF Answered
<1>3. IsCall(cmd, size) /\ size \in Nat
  BY Checking
<1>4. TypeOK'
  BY <1>1 DEF IInv, TypeOK, Firmware!TypeOK
<1>5. did # << >>
  BY <1>2, <1>3 DEF IsReply
<1> QED
  BY <1>1, <1>2, <1>3, <1>4, <1>5 DEF IInv, LockStep, IsCall

(* A reply is its status byte and the rest. *)
LEMMA StatusAndRest ==
  ASSUME NEW a \in Seq(Byte), Len(a) >= 1
  PROVE  /\ a = <<a[1]>> \o SubSeq(a, 2, Len(a))
         /\ SubSeq(a, 2, Len(a)) \in Seq(Byte)
         /\ Len(SubSeq(a, 2, Len(a))) = Len(a) - 1
<1>1. Len(a) \in Nat /\ 1 \in 1 .. Len(a)
  OBVIOUS
<1>2. /\ SubSeq(a, 1 + 1, Len(a)) \in Seq(Byte)
      /\ Len(SubSeq(a, 1 + 1, Len(a))) = Len(a) - 1
      /\ SubSeq(a, 1, 1) \o SubSeq(a, 1 + 1, Len(a)) = a
      /\ SubSeq(a, 1, 1) \in Seq(Byte) /\ Len(SubSeq(a, 1, 1)) = 1
  BY <1>1, TakeIs
<1>3. SubSeq(a, 1, 1) = <<a[1]>>
  <2>1. a[1] \in Byte
    BY <1>1, ElementOfSeq
  <2>2. SubSeq(a, 1, 1)[1] = a[1]
    <3>1. \A k \in 1 .. 1 : a[k] \in Byte
      BY <2>1
    <3> QED
      BY <3>1, SubSeqProperties
  <2>3. <<a[1]>> \in Seq(Byte) /\ Len(<<a[1]>>) = 1 /\ <<a[1]>>[1] = a[1]
    BY <2>1
  <2>4. \A k \in 1 .. Len(SubSeq(a, 1, 1)) : SubSeq(a, 1, 1)[k] = <<a[1]>>[k]
    BY <1>2, <2>2, <2>3
  <2> QED
    BY <1>2, <2>3, <2>4, SeqEqual
<1> QED
  BY <1>2, <1>3

LEMMA ReadStatusInv ==
  ASSUME IInv, ReadStatus
  PROVE  /\ IInv' /\ UNCHANGED <<cmd, did>>
         /\ IF hpc' = "idle" THEN did # << >> /\ result' = did ELSE result' = result
<1>1. /\ hpc = "status" /\ tx # << >> /\ tx' = SubSeq(tx, 2, Len(tx)) /\ HostOnly /\ resp' = resp
      /\ IF tx[1] = 0 /\ size = 0 THEN Succeed(<< >>)
         ELSE /\ hpc' = CASE tx[1] = 0 -> "payload" [] tx[1] = ByteMax -> "code"
                          [] OTHER -> "badStatus"
              /\ UNCHANGED <<result, error, version>>
  BY DEF ReadStatus, Take
<1>2. /\ rx' = rx /\ cmd_buf' = cmd_buf /\ cmd_buf_idx' = cmd_buf_idx /\ pc' = pc
      /\ cmd' = cmd /\ size' = size /\ asked' = asked /\ did' = did
  BY <1>1 DEF HostOnly
<1>3. /\ IsCall(cmd, size) /\ tx \in Seq(Byte) /\ did \in Seq(Byte) /\ size \in Nat
      /\ Answered /\ cmd # << >>
  BY <1>1, Checking DEF Requesting, Served
<1>4. tx = did /\ resp = << >> /\ IsReply(did)
  BY <1>1, <1>3 DEF Answered
<1>5. Len(did) >= 1
  BY <1>3, <1>4 DEF IsReply
<1>6. did = <<did[1]>> \o tx' /\ tx' \in Seq(Byte) /\ Len(tx') = Len(did) - 1
  BY <1>1, <1>3, <1>4, <1>5, StatusAndRest
<1>7. << >> \in Seq(Byte) /\ Len(<< >>) = 0
  OBVIOUS
<1>8. CASE did[1] = 0 /\ size = 0
  <2>1. Len(did) = 1
    BY <1>4, <1>8, Ranges DEF IsReply
  <2>2. tx' = << >>
    <3>1. Len(tx') = 0
      BY <1>6, <2>1
    <3> QED
      BY <1>6, <3>1
  <2>3. did = <<0>> \o << >>
    BY <1>6, <1>8, <2>2
  <2>4. Succeed(<< >>)
    BY <1>1, <1>4, <1>8
  <2>5. hpc' = "idle" /\ result' = did /\ error' = error /\ version' \in {-1} \cup Nat
    BY <1>1, <1>3, <1>7, <2>3, <2>4, SucceedIs
  <2>6. error' \in 0 .. 4 /\ resp' \in Seq(Byte) /\ Len(resp') <= size
    BY <1>1, <1>4, <1>7, <1>8, <2>5 DEF IInv, TypeOK
  <2> QED
    BY <1>1, <1>2, <1>3, <2>2, <2>5, <2>6, EndInv
<1>9. CASE ~(did[1] = 0 /\ size = 0)
  <2>1. /\ hpc' = CASE did[1] = 0 -> "payload" [] did[1] = ByteMax -> "code"
                    [] OTHER -> "badStatus"
        /\ result' = result /\ error' = error /\ version' = version
    BY <1>1, <1>4, <1>9
  <2>2. TypeOK'
    BY <1>1, <1>2, <1>6, <2>1 DEF IInv, TypeOK, Firmware!TypeOK, Byte, Firmware!Byte
  <2>3. IsReply(did)'
    BY <1>2, <1>4 DEF IsReply
  <2>4. Answered' /\ hpc' # "idle"
    <3>1. CASE did[1] = 0
      <4>0. size > 0
        BY <1>3, <1>9, <3>1
      <4>1. hpc' = "payload" /\ resp' = << >>
        <5>1. hpc' = "payload"
          BY <2>1, <3>1, Ranges
        <5> QED
          BY <1>1, <1>4, <5>1
      <4>2. resp' \o tx' = tx'
        BY <1>6, <4>1, ConcatEmptySeq
      <4>3. Len(resp') < size'
        BY <1>2, <1>3, <1>7, <4>0, <4>1
      <4>4. did' = <<0>> \o (resp' \o tx') /\ did'[1] = 0
        BY <1>2, <1>6, <3>1, <4>2
      <4> QED
        BY <1>2, <1>3, <2>3, <4>1, <4>3, <4>4 DEF Answered
    <3>2. CASE did[1] # 0
      <4>1. did[1] = ByteMax
        BY <1>4, <3>2 DEF IsReply
      <4>2. hpc' = "code"
        BY <2>1, <3>2, <4>1
      <4> QED
        BY <1>2, <1>3, <1>6, <2>3, <4>1, <4>2 DEF Answered
    <3> QED
      BY <3>1, <3>2
  <2> QED
    BY <1>1, <1>2, <1>3, <1>4, <1>7, <2>1, <2>2, <2>4 DEF IInv, LockStep, IsCall
<1> QED
  BY <1>8, <1>9

LEMMA ReadPayloadInv ==
  ASSUME IInv, ReadPayload
  PROVE  /\ IInv' /\ UNCHANGED <<cmd, did>>
         /\ IF hpc' = "idle" THEN did # << >> /\ result' = did ELSE result' = result
<1>1. hpc = "payload" /\ HostOnly
  BY DEF ReadPayload
<1>2. PICK n \in AtMost(size) :
        /\ tx' = SubSeq(tx, n + 1, Len(tx))
        /\ resp' = resp \o SubSeq(tx, 1, n)
        /\ IF Len(resp') < size THEN UNCHANGED <<hpc, result, error, version>>
                                ELSE Succeed(resp')
  BY DEF ReadPayload, Take
<1>3. /\ rx' = rx /\ cmd_buf' = cmd_buf /\ cmd_buf_idx' = cmd_buf_idx /\ pc' = pc
      /\ cmd' = cmd /\ size' = size /\ asked' = asked /\ did' = did
  BY <1>1 DEF HostOnly
<1>4. /\ IsCall(cmd, size) /\ tx \in Seq(Byte) /\ resp \in Seq(Byte) /\ did \in Seq(Byte)
      /\ size \in Nat /\ Answered
  BY <1>1, Checking DEF Requesting, Served
<1>5. did[1] = 0 /\ Len(resp) < size /\ did = <<0>> \o (resp \o tx) /\ IsReply(did)
  BY <1>1, <1>4 DEF Answered
<1>6. n \in 1 .. Len(tx)
  BY <1>2, <1>4 DEF AtMost
<1>7. /\ tx' \in Seq(Byte) /\ Len(tx') = Len(tx) - n /\ SubSeq(tx, 1, n) \in Seq(Byte)
      /\ SubSeq(tx, 1, n) \o tx' = tx
  BY <1>2, <1>4, <1>6, TakeIs
<1>8. resp' \in Seq(Byte) /\ resp' \o tx' = resp \o tx
  <2>1. resp' \in Seq(Byte)
    BY <1>2, <1>4, <1>7, ConcatProperties
  <2>2. \A r, u, t \in Seq(Byte) : (r \o u) \o t = r \o (u \o t)
    BY ConcatAssociative
  <2>3. (resp \o SubSeq(tx, 1, n)) \o tx' = resp \o (SubSeq(tx, 1, n) \o tx')
    BY <1>4, <1>7, <2>2, Zenon
  <2>4. resp' = resp \o SubSeq(tx, 1, n) /\ SubSeq(tx, 1, n) \o tx' = tx
    BY <1>2, <1>7
  <2> QED
    BY <2>1, <2>3, <2>4, Zenon
<1>9. Len(resp') + Len(tx') = size /\ Len(resp') \in Nat /\ Len(tx') \in Nat
  <2>1. <<0>> \in Seq(Byte) /\ Len(<<0>>) = 1 /\ Len(resp') \in Nat /\ Len(tx') \in Nat
    BY <1>7, <1>8, Ranges
  <2>2. resp' \o tx' \in Seq(Byte) /\ Len(resp' \o tx') = Len(resp') + Len(tx')
    BY <1>7, <1>8, ConcatProperties
  <2>3. Len(<<0>> \o (resp' \o tx')) = Len(<<0>>) + Len(resp' \o tx')
    BY <2>1, <2>2, ConcatProperties
  <2>4. Len(did) = 1 + (Len(resp') + Len(tx'))
    BY <1>5, <1>8, <2>1, <2>2, <2>3
  <2>5. Len(did) = size + 1
    <3>1. did[1] # ByteMax
      BY <1>5, Ranges
    <3> QED
      BY <1>5, <3>1 DEF IsReply
  <2>6. \A a, b \in Nat : a = 1 + b /\ a = size + 1 => b = size
    BY <1>4
  <2>7. Len(did) \in Nat /\ Len(resp') + Len(tx') \in Nat
    BY <1>4, <2>1
  <2> QED
    BY <2>1, <2>4, <2>5, <2>6, <2>7, Zenon
<1>10. CASE Len(resp') < size
  <2>1. hpc' = "payload" /\ result' = result /\ error' = error /\ version' = version
    BY <1>1, <1>2, <1>10
  <2>2. TypeOK'
    BY <1>3, <1>7, <1>8, <2>1 DEF IInv, TypeOK, Firmware!TypeOK, Byte, Firmware!Byte
  <2>3. IsReply(did)'
    BY <1>3, <1>5 DEF IsReply
  <2>4. did' = <<0>> \o (resp' \o tx') /\ did'[1] = 0
    BY <1>3, <1>5, <1>8
  <2>5. pc' = "recv" /\ rx' = << >> /\ cmd_buf_idx' = 0
    BY <1>3, <1>4 DEF Answered
  <2>6. Answered'
    BY <1>3, <1>10, <2>1, <2>3, <2>4, <2>5 DEF Answered
  <2>7. Len(resp') <= size
    BY <1>4, <1>9, <1>10
  <2> QED
    BY <1>3, <1>4, <2>1, <2>2, <2>6, <2>7 DEF IInv, LockStep, IsCall
<1>11. CASE ~(Len(resp') < size)
  <2>1. Len(resp') <= size /\ Len(tx') = 0
    BY <1>4, <1>9, <1>11
  <2>2. tx' = << >> /\ resp' = resp \o tx
    <3>1. tx' = << >>
      BY <1>7, <2>1
    <3> QED
      BY <1>8, <3>1, ConcatEmptySeq
  <2>3. did = <<0>> \o resp' /\ Succeed(resp')
    BY <1>2, <1>5, <1>11, <2>2
  <2>4. hpc' = "idle" /\ result' = did /\ error' = error /\ version' \in {-1} \cup Nat
    BY <1>1, <1>4, <1>8, <2>3, SucceedIs
  <2>5. error' \in 0 .. 4
    BY <2>4 DEF IInv, TypeOK
  <2> QED
    BY <1>1, <1>3, <1>4, <1>8, <2>1, <2>2, <2>4, <2>5, EndInv
<1> QED
  BY <1>10, <1>11

(* A code that comes in one piece, the case SplitCodes = FALSE. *)
LEMMA ReadCodeInv ==
  ASSUME IInv, ReadCode, OnTime
  PROVE  /\ IInv' /\ UNCHANGED <<cmd, did>>
         /\ hpc' = "idle" /\ did # << >> /\ result' = did
<1>1. hpc = "code" /\ HostOnly /\ resp' = resp
  BY DEF ReadCode
<1>2. /\ IsCall(cmd, size) /\ tx \in Seq(Byte) /\ did \in Seq(Byte) /\ resp \in Seq(Byte)
      /\ size \in Nat /\ Answered /\ cmd # << >>
  BY <1>1, Checking DEF Requesting, Served
<1>3. did[1] = ByteMax /\ did = <<ByteMax>> \o tx /\ IsReply(did)
  BY <1>1, <1>2 DEF Answered
<1>4. Len(tx) = 2
  <2>1. <<ByteMax>> \in Seq(Byte) /\ Len(<<ByteMax>>) = 1 /\ Len(tx) \in Nat
    BY <1>2, Ranges
  <2>2. Len(did) = 3
    BY <1>3, Ranges DEF IsReply
  <2>3. Len(<<ByteMax>> \o tx) = Len(<<ByteMax>>) + Len(tx)
    BY <1>2, <2>1, ConcatProperties
  <2>4. 1 + Len(tx) = 3
    BY <1>3, <2>1, <2>2, <2>3
  <2>5. \A m \in Nat : 1 + m = 3 => m = 2
    OBVIOUS
  <2> QED
    BY <2>1, <2>4, <2>5, Zenon
<1>5. /\ tx' = SubSeq(tx, 3, Len(tx)) /\ hpc' = "idle" /\ error' = ESPSTLINK_ERROR_COMM
      /\ result' = <<ByteMax>> \o SubSeq(tx, 1, 2) /\ version' = version
  <2>1. PICK n \in AtMost(2) :
          /\ ~SplitCodes => n = 2
          /\ Take(n)
          /\ IF n < 2 THEN Fail(ESPSTLINK_ERROR_DATA)
             ELSE /\ hpc' = "idle" /\ error' = ESPSTLINK_ERROR_COMM
                  /\ result' = <<ByteMax>> \o SubSeq(tx, 1, 2)
                  /\ UNCHANGED version
    BY DEF ReadCode
  <2>2. n = 2
    BY <2>1 DEF OnTime
  <2> QED
    BY <2>1, <2>2 DEF Take
<1>6. tx' = << >> /\ SubSeq(tx, 1, 2) = tx
  <2>1. SubSeq(tx, 3, Len(tx)) = << >>
    BY <1>4, SubSeqEmpty
  <2>2. SubSeq(tx, 1, Len(tx)) = tx
    BY <1>2, SubSeqFull
  <2> QED
    BY <1>4, <1>5, <2>1, <2>2
<1>7. /\ error' \in 0 .. 4 /\ version' \in {-1} \cup Nat
      /\ resp' \in Seq(Byte) /\ Len(resp') <= size
  BY <1>1, <1>2, <1>5 DEF ESPSTLINK_ERROR_COMM, IInv, TypeOK
<1>8. result' = did
  BY <1>3, <1>5, <1>6
<1> QED
  BY <1>1, <1>2, <1>5, <1>6, <1>7, <1>8, EndInv DEF HostOnly
-----------------------------------------------------------------------------
(* Steps of error_check that are never taken on time. *)
LEMMA NotOnTime ==
  ASSUME IInv, OnTime
  PROVE  ~NothingThere /\ ~ReadUnexpected
<1>1. ~NothingThere
  BY DEF NothingThere, OnTime
<1>2. hpc \notin {"unexpected", "badStatus"}
  BY DEF IInv, Requesting, Served, Answered
<1> QED
  BY <1>1, <1>2 DEF ReadUnexpected

LEMMA ErrorCheckInv ==
  ASSUME IInv, OnTime, ErrorCheck
  PROVE  /\ IInv' /\ hpc # "idle" /\ UNCHANGED <<cmd, did>>
         /\ IF hpc' = "idle" THEN did # << >> /\ result' = did ELSE result' = result
<1>1. ReadAck \/ ReadStatus \/ ReadPayload \/ ReadCode
  BY NotOnTime DEF ErrorCheck
<1>2. hpc # "idle"
  BY <1>1 DEF ReadAck, ReadStatus, ReadPayload, ReadCode
<1> QED
  BY <1>1, <1>2, ReadAckInv, ReadStatusInv, ReadPayloadInv, ReadCodeInv

LEMMA StepInv == OnTime /\ IInv /\ [Next]_vars => IInv'
<1> SUFFICES ASSUME OnTime, IInv, [Next]_vars PROVE IInv'
  OBVIOUS
<1>1. CASE Calls
  BY <1>1, CallsInv
<1>2. CASE ErrorCheck
  BY <1>2, ErrorCheckInv
<1>3. CASE Receive
  BY <1>3, ReceiveInv
<1>4. CASE Execute
  BY <1>4, ExecuteInv
<1>5. CASE UNCHANGED vars
  <2>1. UNCHANGED <<rx, tx, cmd_buf, cmd_buf_idx, pc, hpc, cmd, size, resp, result, error,
                    version, asked, did>>
    BY <1>5 DEF vars, firmware, host
  <2>2. TypeOK'
    BY <2>1 DEF IInv, TypeOK, Firmware!TypeOK
  <2>3. IsCall(cmd, size)' <=> IsCall(cmd, size)
    BY <2>1 DEF IsCall
  <2>4. LockStep'
    BY <2>1 DEF IInv, LockStep
  <2>5. /\ Requesting' <=> Requesting
        /\ Served' <=> Served
    BY <2>1 DEF Requesting, Served
  <2>6. Answered' <=> Answered
    BY <2>1 DEF Answered, IsReply
  <2> QED
    BY <2>1, <2>2, <2>3, <2>4, <2>5, <2>6 DEF IInv
<1> QED
  BY <1>1, <1>2, <1>3, <1>4, <1>5 DEF Next

LEMMA SpecInv ==
  ASSUME OnTime
  PROVE  Spec => []IInv
<1>1. IInv /\ [Next]_vars => IInv'
  BY StepInv
<1> QED
  BY <1>1, InitInv, PTL DEF Spec

(* Between calls, after successes and after errors of the device, nothing  *)
(* is left on the line or in the interpreter (libespstlink.c:180-232).     *)
THEOREM LockStepOnTime ==
  ASSUME ~Late, ~SplitCodes
  PROVE  Spec => []LockStep
<1>1. OnTime
  BY DEF OnTime
<1>2. IInv => LockStep
  BY DEF IInv
<1> QED
  BY <1>1, <1>2, SpecInv, PTL

(* The payload loop, which asks for the whole size at every turn, stays    *)
(* inside resp_buf (libespstlink.c:207-222).                               *)
THEOREM ReplyFitsOnTime ==
  ASSUME ~Late, ~SplitCodes
  PROVE  Spec => []ReplyFits
<1>1. OnTime
  BY DEF OnTime
<1>2. ASSUME IInv PROVE ReplyFits
  <2> SUFFICES ASSUME cmd # << >> PROVE Len(resp) <= RespSize
    BY DEF ReplyFits
  <2>1. IsCall(cmd, size) /\ Len(resp) <= size /\ Len(resp) \in Nat /\ size \in Nat
    BY <1>2 DEF IInv, TypeOK
  <2>2. RespSize = CASE cmd[1] = Firmware!CMD_ROTF -> 2 * (ByteMax + 1)
                     [] cmd[1] = Firmware!CMD_WOTF -> Echo
                     [] OTHER -> 2
    BY DEF RespSize
  <2>3. CASE cmd[1] = Firmware!CMD_ROTF
    <3>1. Len(cmd) = Firmware!Header /\ size = cmd[2] + Echo
      BY <2>1, <2>3, Codes DEF IsCall
    <3>2. cmd[2] \in 0 .. ByteMax
      BY <2>1, <3>1, CallFits, Ranges
    <3>3. Echo <= ByteMax + 1
      BY LinkAssumption DEF Echo
    <3>4. size <= 2 * (ByteMax + 1)
      BY <3>1, <3>2, <3>3, Ranges
    <3>5. RespSize = 2 * (ByteMax + 1)
      BY <2>2, <2>3, Codes
    <3> QED
      BY <2>1, <3>4, <3>5, Ranges
  <2>4. CASE cmd[1] = Firmware!CMD_WOTF
    BY <2>1, <2>2, <2>4, Codes DEF IsCall
  <2>5. CASE cmd[1] \notin {Firmware!CMD_ROTF, Firmware!CMD_WOTF}
    <3>1. size \in {0, 2}
      BY <2>1, <2>5 DEF IsCall
    <3>2. RespSize = 2
      BY <2>2, <2>5
    <3> QED
      BY <2>1, <3>1, <3>2
  <2> QED
    BY <2>3, <2>4, <2>5
<1> QED
  BY <1>1, <1>2, SpecInv, PTL
-----------------------------------------------------------------------------
LEMMA RemoteStep ==
  ASSUME OnTime, IInv, [Next]_vars
  PROVE  [Remote!Next]_(Remote!vars)
<1>1. CASE Calls
  <2>1. PICK c, n : IsCall(c, n) /\ Ask(c, n)
    BY <1>1, CallsInv
  <2>2. c # << >> /\ hpc = "idle" /\ hpc' # "idle" /\ cmd' = c /\ did' = << >> /\ result' = result
    BY <2>1, CallFits DEF Ask
  <2> QED
    BY <2>2 DEF Remote!Next, Remote!Ask
<1>2. CASE ErrorCheck
  <2>1. /\ hpc # "idle" /\ cmd' = cmd /\ did' = did
        /\ IF hpc' = "idle" THEN did # << >> /\ result' = did ELSE result' = result
    BY <1>2, ErrorCheckInv
  <2>2. cmd # << >>
    BY <2>1, Checking
  <2>3. CASE hpc' = "idle"
    BY <2>1, <2>2, <2>3 DEF Remote!Next, Remote!Tell
  <2>4. CASE hpc' # "idle"
    BY <2>1, <2>4 DEF Remote!vars
  <2> QED
    BY <2>3, <2>4
<1>3. CASE Receive
  BY <1>3 DEF Receive, host, Remote!vars
<1>4. CASE Execute
  <2>1. Served /\ Answered'
    BY <1>4, ExecuteInv
  <2>2. hpc # "idle" /\ did = << >>
    BY <2>1 DEF Served
  <2>3. cmd # << >> /\ size \in Nat
    BY <2>2, Checking
  <2>4. hpc' = hpc /\ cmd' = cmd /\ result' = result /\ size' = size
    BY <1>4 DEF Execute, host
  <2>5. did' # << >>
    BY <2>1, <2>3, <2>4 DEF Answered, IsReply
  <2> QED
    BY <2>2, <2>3, <2>4, <2>5 DEF Remote!Next, Remote!Do
<1>5. CASE UNCHANGED vars
  BY <1>5 DEF vars, host, Remote!vars
<1> QED
  BY <1>1, <1>2, <1>3, <1>4, <1>5 DEF Next

(* A call is carried out once and returns the reply to its own request,    *)
(* however read() cuts it up: the library with the interpreter implements  *)
(* the remote call.                                                        *)
THEOREM ImplementsRemoteCallOnTime ==
  ASSUME ~Late, ~SplitCodes
  PROVE  Spec => ImplementsRemoteCall
<1>1. OnTime
  BY DEF OnTime
<1>2. Init => Remote!Init
  BY DEF Init, Remote!Init
<1>3. IInv /\ [Next]_vars => [Remote!Next]_(Remote!vars)
  BY <1>1, RemoteStep
<1> QED
  BY <1>1, <1>2, <1>3, SpecInv, PTL DEF Spec, ImplementsRemoteCall, Remote!Spec
-----------------------------------------------------------------------------
(* On any line: sequences of requests end to end, as FlattenSeq puts them.  *)

(* The least element of a set of naturals. *)
LEMMA LeastNat ==
  ASSUME NEW S, S \subseteq Nat, S # {}
  PROVE  \E x \in S : \A y \in S : x <= y
<1> DEFINE R == OpToRel(<, Nat)
<1>0. IsWellFoundedOn(R, Nat)
  BY NatLessThanWellFounded
<1> HIDE DEF R
<1>1. PICK x \in S : \A y \in S : ~(<<y, x>> \in R)
  BY <1>0, WFMin
<1>2. ASSUME NEW y \in S PROVE x <= y
  <2>1. x \in Nat /\ y \in Nat /\ <<y, x>> \notin R
    BY <1>1
  <2>2. <<y, x>> \in Nat \X Nat
    BY <2>1
  <2>3. ~(y < x)
    BY <2>1, <2>2 DEF R, OpToRel
  <2> QED
    BY <2>1, <2>3
<1> QED
  BY <1>2

(* The partial concatenations of a sequence of sequences, the function that *)
(* FlattenSeq is defined by.                                                *)
IsFlat(f, s) == f = [i \in 1 .. Len(s) |-> IF i = 1 THEN s[i] ELSE f[i - 1] \o s[i]]

LEMMA FlatExists ==
  ASSUME NEW S, NEW s \in Seq(Seq(S)), s # << >>
  PROVE  \E f \in [1 .. Len(s) -> Seq(S)] : IsFlat(f, s)
<1> DEFINE Upto(n) == \E f \in [1 .. n -> Seq(S)] :
                        \A i \in 1 .. n : f[i] = IF i = 1 THEN s[i] ELSE f[i - 1] \o s[i]
           bad == {n \in 1 .. Len(s) : ~Upto(n)}
<1>1. Len(s) \in Nat /\ Len(s) >= 1 /\ \A i \in 1 .. Len(s) : s[i] \in Seq(S)
  BY EmptySeq, ElementOfSeq
<1>2. \A n \in 1 .. Len(s) : Upto(n)
  <2> SUFFICES ASSUME bad # {} PROVE FALSE
    OBVIOUS
  <2>1. bad \subseteq Nat
    OBVIOUS
  <2>2. PICK m \in bad : \A y \in bad : m <= y
    <3> HIDE DEF bad
    <3> QED
      BY <2>1, LeastNat
  <2>3. m \in 1 .. Len(s) /\ m \in Nat /\ ~Upto(m)
    <3> HIDE DEF Upto
    <3>1. m \in 1 .. Len(s) /\ ~Upto(m)
      BY DEF bad
    <3> QED
      BY <1>1, <3>1
  <2>4. CASE m = 1
    <3> DEFINE f == [i \in 1 .. 1 |-> s[1]]
    <3>1. f \in [1 .. m -> Seq(S)] /\ \A i \in 1 .. m : f[i] = IF i = 1 THEN s[i] ELSE f[i - 1] \o s[i]
      BY <1>1, <2>3, <2>4
    <3> QED
      BY <2>3, <3>1
  <2>5. CASE m # 1
    <3>1. m - 1 \in 1 .. Len(s) /\ m - 1 \notin bad
      <4>1. m - 1 \in 1 .. Len(s) /\ ~(m <= m - 1)
        BY <1>1, <2>3, <2>5
      <4> HIDE DEF bad
      <4> QED
        BY <2>2, <4>1
    <3>2. Upto(m - 1)
      BY <3>1
    <3>3. PICK f \in [1 .. m - 1 -> Seq(S)] :
            \A i \in 1 .. m - 1 : f[i] = IF i = 1 THEN s[i] ELSE f[i - 1] \o s[i]
      BY <3>2
    <3> DEFINE g == [i \in 1 .. m |-> IF i = m THEN f[m - 1] \o s[m] ELSE f[i]]
    <3>4. f[m - 1] \o s[m] \in Seq(S)
      <4>1. f[m - 1] \in Seq(S) /\ s[m] \in Seq(S)
        BY <1>1, <2>3, <2>5, <3>1, <3>3
      <4> QED
        BY <4>1, ConcatProperties
    <3>5. g \in [1 .. m -> Seq(S)]
      BY <2>3, <3>3, <3>4
    <3>6. ASSUME NEW i \in 1 .. m
          PROVE  g[i] = IF i = 1 THEN s[i] ELSE g[i - 1] \o s[i]
      <4>1. CASE i = m
        <5>0. m \in 1 .. m /\ m - 1 \in 1 .. m /\ m - 1 # m
          BY <2>3, <2>5
        <5>1. g[m] = f[m - 1] \o s[m] /\ g[m - 1] = f[m - 1]
          BY <5>0
        <5> HIDE DEF g
        <5> QED
          BY <2>5, <4>1, <5>1
      <4>2. CASE i # m
        <5>1. i \in 1 .. m - 1 /\ g[i] = f[i] /\ (i # 1 => i - 1 \in 1 .. m /\ i - 1 # m)
          BY <2>3, <4>2
        <5>2. i # 1 => g[i - 1] = f[i - 1]
          BY <5>1
        <5> HIDE DEF g
        <5> QED
          BY <3>3, <5>1, <5>2
      <4> QED
        BY <4>1, <4>2
    <3> HIDE DEF g
    <3>7. Upto(m)
      BY <3>5, <3>6
    <3> QED
      BY <2>3, <3>7
  <2> QED
    BY <2>4, <2>5
<1>3. Len(s) \in 1 .. Len(s)
  BY <1>1
<1>4. Upto(Len(s))
  BY <1>2, <1>3
<1>5. PICK f \in [1 .. Len(s) -> Seq(S)] :
        \A i \in 1 .. Len(s) : f[i] = IF i = 1 THEN s[i] ELSE f[i - 1] \o s[i]
  BY <1>4
<1>6. IsFlat(f, s)
  BY <1>5 DEF IsFlat
<1> QED
  BY <1>6

LEMMA FlatUnique ==
  ASSUME NEW s, Len(s) \in Nat, NEW f, NEW g, IsFlat(f, s), IsFlat(g, s)
  PROVE  \A i \in 1 .. Len(s) : f[i] = g[i]
<1> DEFINE bad == {i \in 1 .. Len(s) : f[i] # g[i]}
<1>1. \A i \in 1 .. Len(s) : f[i] = IF i = 1 THEN s[i] ELSE f[i - 1] \o s[i]
  BY DEF IsFlat
<1>2. \A i \in 1 .. Len(s) : g[i] = IF i = 1 THEN s[i] ELSE g[i - 1] \o s[i]
  BY DEF IsFlat
<1> SUFFICES ASSUME bad # {} PROVE FALSE
  OBVIOUS
<1>3. bad \subseteq Nat
  OBVIOUS
<1>4. PICK m \in bad : \A y \in bad : m <= y
  <2> HIDE DEF bad
  <2> QED
    BY <1>3, LeastNat
<1>5. m \in 1 .. Len(s) /\ f[m] # g[m]
  OBVIOUS
<1>6. m # 1
  BY <1>1, <1>2, <1>5
<1>7. m - 1 \in 1 .. Len(s) /\ ~(m <= m - 1)
  BY <1>5, <1>6
<1>8. m - 1 \notin bad
  <2> HIDE DEF bad
  <2> QED
    BY <1>4, <1>7
<1>9. f[m - 1] = g[m - 1]
  BY <1>7, <1>8
<1> QED
  BY <1>1, <1>2, <1>5, <1>6, <1>9

LEMMA FlattenIs ==
  ASSUME NEW S, NEW s \in Seq(Seq(S)), s # << >>, NEW f, IsFlat(f, s)
  PROVE  FlattenSeq(s) = f[Len(s)]
<1>1. Len(s) \in Nat /\ Len(s) # 0 /\ Len(s) \in 1 .. Len(s)
  BY EmptySeq
<1> DEFINE c == CHOOSE flatten : flatten = [i \in 1 .. Len(s) |->
                    IF i = 1 THEN s[i] ELSE flatten[i - 1] \o s[i]]
<1>2. FlattenSeq(s) = c[Len(s)]
  BY <1>1 DEF FlattenSeq
<1>3. IsFlat(c, s)
  BY DEF IsFlat
<1> HIDE DEF c
<1>4. \A i \in 1 .. Len(s) : f[i] = c[i]
  BY <1>1, <1>3, FlatUnique
<1> QED
  BY <1>1, <1>2, <1>4

LEMMA FlattenType ==
  ASSUME NEW S, NEW s \in Seq(Seq(S))
  PROVE  FlattenSeq(s) \in Seq(S)
<1>1. CASE s = << >>
  BY <1>1 DEF FlattenSeq
<1>2. CASE s # << >>
  <2>1. PICK f \in [1 .. Len(s) -> Seq(S)] : IsFlat(f, s)
    BY <1>2, FlatExists
  <2>2. FlattenSeq(s) = f[Len(s)] /\ Len(s) \in 1 .. Len(s)
    BY <1>2, <2>1, FlattenIs, EmptySeq
  <2> QED
    BY <2>1, <2>2
<1> QED
  BY <1>1, <1>2

(* One sequence more at the end. *)
LEMMA FlattenAppend ==
  ASSUME NEW S, NEW s \in Seq(Seq(S)), NEW x \in Seq(S)
  PROVE  FlattenSeq(Append(s, x)) = FlattenSeq(s) \o x
<1> DEFINE longer == Append(s, x)
<1>1. /\ longer \in Seq(Seq(S)) /\ longer # << >> /\ Len(longer) = Len(s) + 1 /\ Len(s) \in Nat
      /\ \A i \in 1 .. Len(s) : longer[i] = s[i]
      /\ longer[Len(s) + 1] = x
  BY AppendProperties, LenProperties
<1> HIDE DEF longer
<1>2. CASE s = << >>
  <2>1. Len(longer) = 1 /\ longer[1] = x
    BY <1>1, <1>2
  <2> DEFINE g == [i \in 1 .. 1 |-> x]
  <2>2. IsFlat(g, longer) /\ g[1] = x
    BY <2>1 DEF IsFlat
  <2>3. FlattenSeq(longer) = x
    <3> HIDE DEF g
    <3> QED
      BY <1>1, <2>1, <2>2, FlattenIs
  <2>4. FlattenSeq(s) = << >>
    BY <1>2 DEF FlattenSeq
  <2> QED
    BY <2>3, <2>4, ConcatEmptySeq DEF longer
<1>3. CASE s # << >>
  <2>1. PICK f \in [1 .. Len(s) -> Seq(S)] : IsFlat(f, s)
    BY <1>3, FlatExists
  <2>2. FlattenSeq(s) = f[Len(s)]
    BY <1>3, <2>1, FlattenIs
  <2>3. Len(s) >= 1
    BY <1>3, EmptySeq
  <2>4. \A i \in 1 .. Len(s) : f[i] = IF i = 1 THEN s[i] ELSE f[i - 1] \o s[i]
    BY <2>1 DEF IsFlat
  <2> DEFINE g == [i \in 1 .. Len(longer) |-> IF i = Len(longer) THEN f[Len(s)] \o x ELSE f[i]]
  <2>5. ASSUME NEW i \in 1 .. Len(longer)
        PROVE  g[i] = IF i = 1 THEN longer[i] ELSE g[i - 1] \o longer[i]
    <3>1. CASE i = Len(longer)
      <4>1. g[i] = f[Len(s)] \o x /\ i # 1 /\ i - 1 = Len(s) /\ g[Len(s)] = f[Len(s)] /\ longer[i] = x
        BY <1>1, <2>3, <3>1
      <4> HIDE DEF g
      <4> QED
        BY <4>1
    <3>2. CASE i # Len(longer)
      <4>1. i \in 1 .. Len(s) /\ g[i] = f[i] /\ (i # 1 => i - 1 \in 1 .. Len(longer) /\ i - 1 # Len(longer))
        BY <1>1, <3>2
      <4>2. i # 1 => g[i - 1] = f[i - 1]
        BY <4>1
      <4>3. longer[i] = s[i]
        BY <1>1, <4>1
      <4> HIDE DEF g
      <4> QED
        BY <2>4, <4>1, <4>2, <4>3
    <3> QED
      BY <3>1, <3>2
  <2>6. IsFlat(g, longer)
    BY <2>5 DEF IsFlat
  <2>7. g[Len(longer)] = f[Len(s)] \o x
    BY <1>1
  <2> HIDE DEF g
  <2>8. FlattenSeq(longer) = g[Len(longer)]
    BY <1>1, <2>6, FlattenIs
  <2> QED
    BY <2>2, <2>7, <2>8 DEF longer
<1> QED
  BY <1>2, <1>3

(* The first sequence and those behind it. *)
LEMMA FlattenHead ==
  ASSUME NEW S, NEW s \in Seq(Seq(S)), s # << >>
  PROVE  FlattenSeq(s) = Head(s) \o FlattenSeq(Tail(s))
<1> DEFINE first == Head(s)
           rest == Tail(s)
<1>1. /\ first \in Seq(S) /\ first = s[1] /\ rest \in Seq(Seq(S)) /\ Len(rest) = Len(s) - 1
      /\ \A i \in 1 .. Len(rest) : rest[i] = s[i + 1]
      /\ Len(s) \in Nat /\ Len(rest) \in Nat /\ Len(s) >= 1
  BY HeadTailProperties, LenProperties, EmptySeq
<1> HIDE DEF first, rest
<1>2. \A b, c \in Seq(S) : (first \o b) \o c = first \o (b \o c)
  <2>1. first \in Seq(S)
    BY <1>1
  <2>2. ASSUME NEW b \in Seq(S), NEW c \in Seq(S)
        PROVE  (first \o b) \o c = first \o (b \o c)
    BY ONLY SMTT(20), <2>1, <2>2, ConcatAssociative
  <2> QED
    BY <2>2
<1>3. CASE rest = << >>
  <2>1. Len(s) = 1
    BY <1>1, <1>3
  <2> DEFINE g == [i \in 1 .. 1 |-> first]
  <2>2. IsFlat(g, s) /\ g[1] = first
    BY <1>1, <2>1 DEF IsFlat
  <2>3. FlattenSeq(s) = first
    <3> HIDE DEF g
    <3> QED
      BY <2>1, <2>2, FlattenIs
  <2>4. FlattenSeq(rest) = << >>
    BY <1>3 DEF FlattenSeq
  <2> QED
    BY <1>1, <2>3, <2>4, ConcatEmptySeq DEF first, rest
<1>4. CASE rest # << >>
  <2>1. PICK f \in [1 .. Len(rest) -> Seq(S)] : IsFlat(f, rest)
    BY <1>1, <1>4, FlatExists
  <2>2. FlattenSeq(rest) = f[Len(rest)]
    BY <1>1, <1>4, <2>1, FlattenIs
  <2>3. Len(rest) >= 1
    BY <1>1, <1>4, EmptySeq
  <2>4. \A i \in 1 .. Len(rest) : f[i] = IF i = 1 THEN rest[i] ELSE f[i - 1] \o rest[i]
    BY <2>1 DEF IsFlat
  <2> DEFINE g == [i \in 1 .. Len(s) |-> IF i = 1 THEN first ELSE first \o f[i - 1]]
  <2>5. ASSUME NEW i \in 1 .. Len(s)
        PROVE  g[i] = IF i = 1 THEN s[i] ELSE g[i - 1] \o s[i]
    <3>1. CASE i = 1
      BY <1>1, <3>1
    <3>2. CASE i = 2
      <4>0. 1 \in 1 .. Len(rest) /\ 1 \in 1 .. Len(s) /\ 2 \in 1 .. Len(s) /\ 2 - 1 = 1 /\ 1 + 1 = 2
        BY <1>1, <2>3
      <4>1. g[2] = first \o f[1] /\ g[1] = first
        BY <4>0
      <4> HIDE DEF g
      <4>2. f[1] = rest[1] /\ rest[1] = s[2]
        <5>1. rest[1] = s[1 + 1]
          BY <1>1, <4>0
        <5>2. f[1] = rest[1]
          BY <2>4, <4>0
        <5> QED
          BY <4>0, <5>1, <5>2
      <4>3. g[2] = g[1] \o s[2]
        BY <1>1, <4>1, <4>2
      <4> QED
        BY <3>2, <4>0, <4>3
    <3>3. CASE i > 2
      <4> DEFINE j == i - 1
                 k == i - 2
      <4>0. /\ i \in 1 .. Len(s) /\ j \in 1 .. Len(s) /\ i # 1 /\ j # 1
            /\ j \in 1 .. Len(rest) /\ k \in 1 .. Len(rest) /\ i - 1 = j /\ j - 1 = k /\ j + 1 = i
        BY <1>1, <3>3
      <4> HIDE DEF j, k
      <4>1. g[i] = first \o f[j] /\ g[j] = first \o f[k]
        BY <4>0
      <4> HIDE DEF g
      <4>2. f[j] = f[k] \o rest[j] /\ rest[j] = s[i]
        BY <1>1, <2>4, <4>0
      <4>3. f[k] \in Seq(S) /\ rest[j] \in Seq(S)
        BY <1>1, <2>1, <4>0, ElementOfSeq
      <4>4. (first \o f[k]) \o rest[j] = first \o (f[k] \o rest[j])
        BY <1>2, <4>3, Zenon
      <4> QED
        BY <4>0, <4>1, <4>2, <4>4
    <3> QED
      BY <1>1, <3>1, <3>2, <3>3
  <2>6. IsFlat(g, s)
    BY <2>5 DEF IsFlat
  <2>7. g[Len(s)] = first \o f[Len(rest)]
    <3>1. \A a, b \in Nat : b = a - 1 /\ b >= 1 => a \in 1 .. a /\ a # 1 /\ a - 1 = b
      OBVIOUS
    <3>2. Len(s) \in 1 .. Len(s) /\ Len(s) # 1 /\ Len(s) - 1 = Len(rest)
      BY <1>1, <2>3, <3>1, Zenon
    <3> QED
      BY <3>2
  <2> HIDE DEF g
  <2>8. FlattenSeq(s) = g[Len(s)]
    BY <2>6, FlattenIs
  <2> QED
    BY <2>2, <2>7, <2>8 DEF first, rest
<1> QED
  BY <1>3, <1>4
-----------------------------------------------------------------------------
(* The late line: answers may come after the library has given up, codes    *)
(* may come apart, so the library may call again while requests are still   *)
(* on their way.  Library and interpreter are then not in step, but the     *)
(* interpreter is in step with the requests.                                *)
IsRequest(c) == \E n \in Nat : IsCall(c, n)

(* The first request is in the buffer as far as it was received, and its    *)
(* rest and the other requests are on the line.                             *)
InOrder ==
  asked # << >> =>
    LET request == Head(asked) IN
    /\ cmd_buf_idx <= Len(request)
    /\ pc = "recv" <=> cmd_buf_idx < Len(request)
    /\ \A k \in 1 .. cmd_buf_idx : cmd_buf[k - 1] = request[k]
    /\ rx = SubSeq(request, cmd_buf_idx + 1, Len(request)) \o FlattenSeq(Tail(asked))

(* The inductive invariant on such a line. *)
LateInv ==
  /\ TypeOK
  /\ hpc # "idle" => IsCall(cmd, size)
  /\ \A i \in 1 .. Len(asked) : IsRequest(asked[i])
  /\ asked = << >> => rx = << >> /\ cmd_buf_idx = 0 /\ pc = "recv"
  /\ InOrder

LEMMA LateInit == Init => LateInv
<1> SUFFICES ASSUME Init PROVE LateInv
  OBVIOUS
<1>1. TypeOK
  BY InitInv DEF IInv
<1>2. Len(asked) = 0
  BY DEF Init
<1> QED
  BY <1>1, <1>2 DEF Init, LateInv, InOrder, Firmware!Init

LEMMA RequestIs ==
  ASSUME NEW c, IsRequest(c)
  PROVE  c \in Seq(Byte) /\ Len(c) \in 1 .. Firmware!BufSize /\ c # << >>
BY CallFits DEF IsRequest, IsCall

(* The request that is being received or served, and those behind it. *)
LEMMA FirstRequest ==
  ASSUME LateInv, asked # << >>
  PROVE  /\ IsRequest(Head(asked)) /\ Head(asked) \in Seq(Byte) /\ Head(asked) # << >>
         /\ Len(Head(asked)) \in 1 .. Firmware!BufSize
         /\ Tail(asked) \in Seq(Seq(Byte)) /\ FlattenSeq(Tail(asked)) \in Seq(Byte)
         /\ \A i \in 1 .. Len(Tail(asked)) : IsRequest(Tail(asked)[i])
<1>1. asked \in Seq(Seq(Byte)) /\ \A i \in 1 .. Len(asked) : IsRequest(asked[i])
  BY DEF LateInv, TypeOK
<1>2. 1 \in 1 .. Len(asked) /\ Len(asked) \in Nat
  BY <1>1, EmptySeq
<1>3. IsRequest(Head(asked))
  <2>1. Head(asked) = asked[1]
    BY <1>1, <1>2
  <2> QED
    BY <1>1, <1>2, <2>1
<1>4. /\ Tail(asked) \in Seq(Seq(Byte)) /\ Len(Tail(asked)) = Len(asked) - 1
      /\ \A i \in 1 .. Len(Tail(asked)) : Tail(asked)[i] = asked[i + 1]
  BY <1>1, HeadTailProperties
<1>5. \A i \in 1 .. Len(Tail(asked)) : i + 1 \in 1 .. Len(asked)
  BY <1>2, <1>4
<1>6. FlattenSeq(Tail(asked)) \in Seq(Byte)
  BY <1>4, FlattenType
<1> QED
  BY <1>1, <1>3, <1>4, <1>5, <1>6, RequestIs

(* A byte in front of a sequence. *)
LEMMA ConsIs ==
  ASSUME NEW b \in Byte, NEW s \in Seq(Byte)
  PROVE  /\ <<b>> \o s \in Seq(Byte) /\ <<b>> \o s # << >>
         /\ Head(<<b>> \o s) = b /\ Tail(<<b>> \o s) = s
<1>1. <<b>> \in Seq(Byte) /\ Len(<<b>>) = 1 /\ <<b>>[1] = b /\ Len(s) \in Nat
  OBVIOUS
<1> DEFINE r == <<b>> \o s
<1>2. /\ r \in Seq(Byte) /\ Len(r) = 1 + Len(s)
      /\ \A k \in 1 .. 1 + Len(s) : r[k] = IF k <= 1 THEN <<b>>[k] ELSE s[k - 1]
  BY <1>1, ConcatProperties
<1> HIDE DEF r
<1>3. r # << >> /\ Head(r) = r[1]
  BY <1>1, <1>2
<1>4. r[1] = b
  BY <1>1, <1>2
<1>5. /\ Tail(r) \in Seq(Byte) /\ Len(Tail(r)) = Len(r) - 1
      /\ \A k \in 1 .. Len(Tail(r)) : Tail(r)[k] = r[k + 1]
  BY <1>2, <1>3, HeadTailProperties
<1>6. Len(Tail(r)) = Len(s)
  BY <1>1, <1>2, <1>5
<1>7. ASSUME NEW k \in 1 .. Len(s) PROVE Tail(r)[k] = s[k]
  <2>1. k + 1 \in 1 .. 1 + Len(s) /\ ~(k + 1 <= 1) /\ (k + 1) - 1 = k
    BY <1>1
  <2> QED
    BY <1>2, <1>5, <1>6, <2>1
<1>8. Tail(r) = s
  BY <1>5, <1>6, <1>7, SeqEqual
<1> QED
  BY <1>2, <1>3, <1>4, <1>8 DEF r

(* A byte is received: the next one of the first request. *)
LEMMA LateTake ==
  ASSUME LateInv, Firmware!TakeByte
  PROVE  /\ asked # << >> /\ pc = "recv"
         /\ cmd_buf' \in [0 .. Firmware!BufSize - 1 -> Byte]
         /\ cmd_buf_idx' \in 1 .. Len(Head(asked)) /\ cmd_buf_idx' \in Nat
         /\ \A k \in 1 .. cmd_buf_idx' : cmd_buf'[k - 1] = Head(asked)[k]
         /\ rx' \in Seq(Byte)
         /\ rx' = SubSeq(Head(asked), cmd_buf_idx' + 1, Len(Head(asked)))
                    \o FlattenSeq(Tail(asked))
<1> DEFINE request == Head(asked)
           n == Len(request)
           later == FlattenSeq(Tail(asked))
<1>1. /\ pc = "recv" /\ rx # << >> /\ rx' = Tail(rx) /\ cmd_buf_idx' = cmd_buf_idx + 1
      /\ cmd_buf' = [cmd_buf EXCEPT ![cmd_buf_idx] = Head(rx)]
  BY DEF Firmware!TakeByte
<1>2. asked # << >>
  BY <1>1 DEF LateInv
<1>3. request \in Seq(Byte) /\ n \in 1 .. Firmware!BufSize /\ n \in Nat /\ later \in Seq(Byte)
  BY <1>2, FirstRequest
<1>4. /\ cmd_buf_idx < n
      /\ \A k \in 1 .. cmd_buf_idx : cmd_buf[k - 1] = request[k]
      /\ rx = SubSeq(request, cmd_buf_idx + 1, n) \o later
  BY <1>1, <1>2 DEF LateInv, InOrder
<1>5. cmd_buf \in [0 .. Firmware!BufSize - 1 -> Byte] /\ cmd_buf_idx \in Nat
  BY DEF LateInv, TypeOK, Firmware!TypeOK, Byte, Firmware!Byte
<1> HIDE DEF request, n, later
<1>6. /\ cmd_buf_idx + 1 \in 1 .. n /\ n \in cmd_buf_idx + 1 .. n
      /\ cmd_buf_idx \in 0 .. Firmware!BufSize - 1
  BY <1>3, <1>4, <1>5, Ranges
<1>7. n = Len(request)
  BY DEF n
<1> DEFINE b == request[cmd_buf_idx + 1]
           tail == SubSeq(request, cmd_buf_idx + 1 + 1, n)
<1>8. SubSeq(request, cmd_buf_idx + 1, n) = <<b>> \o tail
  BY <1>3, <1>6, <1>7, SubSeqRecursiveFirst
<1>9. b \in Byte
  BY <1>3, <1>6, <1>7, ElementOfSeq
<1>10. tail \in Seq(Byte)
  <2>1. \A k \in cmd_buf_idx + 1 + 1 .. n : k \in 1 .. Len(request)
    BY <1>3, <1>5, <1>7
  <2>2. \A k \in cmd_buf_idx + 1 + 1 .. n : request[k] \in Byte
    BY <1>3, <2>1, ElementOfSeq
  <2>3. cmd_buf_idx + 1 + 1 \in Int /\ n \in Int
    BY <1>3, <1>5
  <2> QED
    BY <2>2, <2>3, SubSeqProperties
<1> HIDE DEF b, tail
<1>11. rx = <<b>> \o (tail \o later) /\ tail \o later \in Seq(Byte)
  <2>1. <<b>> \in Seq(Byte)
    BY <1>9
  <2>2. \A u, v, w \in Seq(Byte) : (u \o v) \o w = u \o (v \o w)
    BY ConcatAssociative
  <2>3. (<<b>> \o tail) \o later = <<b>> \o (tail \o later)
    BY <1>3, <1>10, <2>1, <2>2, Zenon
  <2>4. tail \o later \in Seq(Byte)
    BY <1>3, <1>10, ConcatProperties
  <2> QED
    BY <1>4, <1>8, <2>3, <2>4
<1>12. Head(rx) = b /\ rx' = tail \o later
  BY <1>1, <1>9, <1>11, ConsIs
<1>13. cmd_buf' \in [0 .. Firmware!BufSize - 1 -> Byte]
  BY <1>1, <1>5, <1>9, <1>12
<1>14. ASSUME NEW k \in 1 .. cmd_buf_idx' PROVE cmd_buf'[k - 1] = request[k]
  <2>1. CASE k = cmd_buf_idx + 1
    <3>1. k - 1 = cmd_buf_idx
      BY <1>5, <2>1
    <3>2. cmd_buf'[cmd_buf_idx] = b
      BY <1>1, <1>5, <1>6, <1>12
    <3> QED
      BY <2>1, <3>1, <3>2 DEF b
  <2>2. CASE k # cmd_buf_idx + 1
    <3>1. k \in 1 .. cmd_buf_idx
      BY <1>1, <1>5, <2>2
    <3>2. k - 1 \in Int /\ k - 1 >= 0 /\ k - 1 < cmd_buf_idx
      BY <1>5, <3>1
    <3>3. k - 1 # cmd_buf_idx /\ k - 1 \in 0 .. Firmware!BufSize - 1
      BY <1>5, <1>6, <3>2, Ranges
    <3> QED
      BY <1>1, <1>4, <1>5, <3>1, <3>3
  <2> QED
    BY <2>1, <2>2
<1>15. rx' = SubSeq(request, cmd_buf_idx' + 1, n) \o later
  BY <1>1, <1>12 DEF tail
<1>16. cmd_buf_idx' \in 1 .. n /\ cmd_buf_idx' \in Nat
  BY <1>1, <1>3, <1>5, <1>6
<1> QED
  BY <1>1, <1>2, <1>11, <1>12, <1>13, <1>14, <1>15, <1>16 DEF request, n, later

LEMMA LateReceive ==
  ASSUME LateInv, Receive
  PROVE  LateInv'
<1>1. /\ Firmware!RecvArgument \/ Firmware!RecvLast
      /\ UNCHANGED <<host, asked, did>>
  BY DEF Receive
<1>2. Firmware!TakeByte
  BY <1>1 DEF Firmware!RecvArgument, Firmware!RecvLast
<1> DEFINE request == Head(asked)
<1>3. /\ asked # << >> /\ pc = "recv"
      /\ cmd_buf' \in [0 .. Firmware!BufSize - 1 -> Byte]
      /\ cmd_buf_idx' \in 1 .. Len(request) /\ cmd_buf_idx' \in Nat
      /\ \A k \in 1 .. cmd_buf_idx' : cmd_buf'[k - 1] = request[k]
      /\ rx' \in Seq(Byte)
      /\ rx' = SubSeq(request, cmd_buf_idx' + 1, Len(request)) \o FlattenSeq(Tail(asked))
  BY <1>2, LateTake
<1>4. /\ hpc' = hpc /\ cmd' = cmd /\ size' = size /\ resp' = resp /\ result' = result
      /\ error' = error /\ version' = version /\ asked' = asked /\ did' = did
  BY <1>1 DEF host
<1>5. PICK n \in Nat : IsCall(request, n)
  BY <1>3, FirstRequest DEF IsRequest
<1>6. Firmware!Incomplete(cmd_buf', cmd_buf_idx') <=> cmd_buf_idx' < Len(request)
  BY <1>3, <1>5, CompleteAt
<1>7. cmd_buf_idx' <= Len(request) /\ Len(request) \in Nat
  BY <1>3, <1>5 DEF IsCall
<1>8. /\ pc' \in {"recv", "exec"}
      /\ pc' = "recv" <=> cmd_buf_idx' < Len(request)
      /\ tx' \in Seq(Byte)
  <2>1. tx \in Seq(Byte)
    BY DEF LateInv, TypeOK, Firmware!TypeOK, Byte, Firmware!Byte
  <2>2. cmd_buf'[0] \in Byte
    <3>1. 0 \in 0 .. Firmware!BufSize - 1
      BY Ranges
    <3> QED
      BY <1>3, <3>1
  <2>3. CASE Firmware!RecvArgument
    BY <1>3, <1>6, <2>1, <2>3 DEF Firmware!RecvArgument
  <2>4. CASE Firmware!RecvLast
    BY <1>3, <1>6, <2>1, <2>2, <2>4, AppendProperties DEF Firmware!RecvLast
  <2> QED
    BY <1>1, <2>3, <2>4
<1>9. TypeOK'
  BY <1>3, <1>4, <1>8 DEF LateInv, TypeOK, Firmware!TypeOK, Byte, Firmware!Byte
<1>10. InOrder'
  BY <1>3, <1>4, <1>7, <1>8 DEF InOrder
<1>11. (hpc # "idle" => IsCall(cmd, size))'
  BY <1>4 DEF LateInv, IsCall
<1>12. (\A i \in 1 .. Len(asked) : IsRequest(asked[i]))'
  BY <1>4 DEF LateInv, IsRequest, IsCall
<1>13. (asked = << >> => rx = << >> /\ cmd_buf_idx = 0 /\ pc = "recv")'
  BY <1>3, <1>4
<1> QED
  BY <1>9, <1>10, <1>11, <1>12, <1>13 DEF LateInv

(* The request served is the first one, as it was sent. *)
LEMMA LateServed ==
  ASSUME LateInv, Firmware!Execute
  PROVE  /\ asked # << >> /\ pc = "exec"
         /\ cmd_buf \in [0 .. Firmware!BufSize - 1 -> Byte]
         /\ cmd_buf_idx = Len(Head(asked)) /\ cmd_buf_idx \in 1 .. Firmware!BufSize
         /\ \A k \in 1 .. cmd_buf_idx : cmd_buf[k - 1] = Head(asked)[k]
         /\ rx = FlattenSeq(Tail(asked))
<1>1. pc = "exec"
  BY DEF Firmware!Execute, Firmware!Serve, Firmware!Serving, Firmware!DoSrst, Firmware!DoRotf,
     Firmware!DoWotf, Firmware!DoInit, Firmware!DoReset, Firmware!DoVersion, Firmware!DoUnknown
<1>2. asked # << >>
  BY <1>1 DEF LateInv
<1>3. cmd_buf \in [0 .. Firmware!BufSize - 1 -> Byte] /\ cmd_buf_idx \in Nat
  BY DEF LateInv, TypeOK, Firmware!TypeOK, Byte, Firmware!Byte
<1> DEFINE request == Head(asked)
<1>4. Len(request) \in 1 .. Firmware!BufSize /\ FlattenSeq(Tail(asked)) \in Seq(Byte)
  BY <1>2, FirstRequest
<1>5. /\ cmd_buf_idx <= Len(request) /\ ~(cmd_buf_idx < Len(request))
      /\ \A k \in 1 .. cmd_buf_idx : cmd_buf[k - 1] = request[k]
      /\ rx = SubSeq(request, cmd_buf_idx + 1, Len(request)) \o FlattenSeq(Tail(asked))
  BY <1>1, <1>2 DEF LateInv, InOrder
<1>6. cmd_buf_idx = Len(request)
  BY <1>3, <1>4, <1>5
<1>7. SubSeq(request, cmd_buf_idx + 1, Len(request)) = << >>
  BY <1>3, <1>6, SubSeqEmpty
<1>8. rx = FlattenSeq(Tail(asked))
  BY <1>4, <1>5, <1>7, ConcatEmptySeq
<1> QED
  BY <1>1, <1>2, <1>3, <1>4, <1>5, <1>6, <1>8

(* Serving a request sends a reply and leaves the line to the others. *)
LEMMA ExecuteSends ==
  ASSUME NEW c, IsRequest(c), Firmware!Execute,
         cmd_buf \in [0 .. Firmware!BufSize - 1 -> Byte],
         cmd_buf_idx = Len(c),
         \A k \in 1 .. cmd_buf_idx : cmd_buf[k - 1] = c[k]
  PROVE  /\ pc' = "recv" /\ cmd_buf_idx' = 0 /\ rx' = rx
         /\ cmd_buf' \in [0 .. Firmware!BufSize - 1 -> Byte]
         /\ \E a \in Seq(Byte) : tx' = tx \o a
<1>1. PICK n \in Nat : IsCall(c, n)
  BY DEF IsRequest
<1>2. /\ cmd_buf_idx \in 1 .. Firmware!BufSize
      /\ cmd_buf_idx >= 2 => c[2] \in 0 .. ByteMax
  BY <1>1, CallFits
<1>3. cmd_buf[0] = c[1] /\ (cmd_buf_idx >= 2 => cmd_buf[1] = c[2])
  <2>1. 1 \in 1 .. cmd_buf_idx /\ 1 - 1 = 0 /\ (cmd_buf_idx >= 2 => 2 \in 1 .. cmd_buf_idx /\ 2 - 1 = 1)
    BY <1>2
  <2> QED
    BY <2>1
<1>4. \E buf \in [0 .. Firmware!BufSize - 1 -> Byte], idx \in 1 .. Firmware!BufSize, res \in Int :
        Firmware!Finish(buf, idx, res)
  <2>0. PICK out \in Firmware!Outcomes : Firmware!Serve(out)
    BY DEF Firmware!Execute
  <2>10. out.result \in Int
    BY OutcomeIs
  <2>1. CASE Firmware!DoSrst(out)
    <3>1. Firmware!Finish(cmd_buf, cmd_buf_idx, out.result)
      BY <2>1 DEF Firmware!DoSrst
    <3> QED
      BY <1>2, <2>10, <3>1
  <2>2. CASE Firmware!DoRotf(out)
    <3> DEFINE buf == Firmware!Stored(Firmware!Header, out.data)
    <3>1. Firmware!Finish(buf, cmd_buf_idx + cmd_buf[1], out.result)
      BY <2>2 DEF Firmware!DoRotf
    <3>4. cmd_buf_idx = Firmware!Header
      BY <1>1, <1>3, <2>2, Codes DEF Firmware!DoRotf, Firmware!Serving, IsCall
    <3>5. cmd_buf[1] \in 0 .. ByteMax
      BY <1>2, <1>3, <3>4, Ranges
    <3>6. cmd_buf_idx + cmd_buf[1] \in 1 .. Firmware!BufSize
      BY <3>4, <3>5, Ranges
    <3>7. cmd_buf[0] = Firmware!CMD_ROTF
      BY <2>2 DEF Firmware!DoRotf, Firmware!Serving
    <3>8. buf \in [0 .. Firmware!BufSize - 1 -> Byte]
      BY <3>5, <3>7, StoredType
    <3> HIDE DEF buf
    <3> QED
      BY <2>10, <3>1, <3>6, <3>8
  <2>3. CASE Firmware!DoWotf(out)
    <3>1. Firmware!Finish(cmd_buf, Firmware!Header, out.result)
      BY <2>3 DEF Firmware!DoWotf
    <3>2. Firmware!Header \in 1 .. Firmware!BufSize
      BY Ranges
    <3> QED
      BY <2>10, <3>1, <3>2
  <2>4. CASE Firmware!DoInit(out)
    <3>1. Firmware!Finish([cmd_buf EXCEPT ![cmd_buf_idx] = Firmware!High(out.result),
                                          ![cmd_buf_idx + 1] = Firmware!Low(out.result)],
                          cmd_buf_idx + 2, out.result)
      BY <2>4 DEF Firmware!DoInit
    <3>2. cmd_buf_idx = 1
      BY <1>1, <1>3, <2>4, Codes DEF Firmware!DoInit, Firmware!Serving, IsCall
    <3> DEFINE buf == [cmd_buf EXCEPT ![cmd_buf_idx] = Firmware!High(out.result),
                                      ![cmd_buf_idx + 1] = Firmware!Low(out.result)]
    <3>4. buf \in [0 .. Firmware!BufSize - 1 -> Byte]
      BY <2>10, HighLow
    <3>5. cmd_buf_idx + 2 \in 1 .. Firmware!BufSize
      BY <3>2, Ranges
    <3> HIDE DEF buf
    <3>6. Firmware!Finish(buf, cmd_buf_idx + 2, out.result)
      BY <3>1 DEF buf
    <3> QED
      BY <2>10, <3>4, <3>5, <3>6
  <2>5. CASE Firmware!DoReset(out)
    <3>1. Firmware!Finish(cmd_buf, 1, out.result) /\ 1 \in 1 .. Firmware!BufSize
      BY <2>5, Ranges DEF Firmware!DoReset
    <3> QED
      BY <2>10, <3>1
  <2>6. CASE Firmware!DoVersion(out)
    <3>1. cmd_buf_idx = 1
      BY <1>1, <1>3, <2>6, Codes DEF Firmware!DoVersion, Firmware!Serving, IsCall
    <3> DEFINE buf == [cmd_buf EXCEPT ![cmd_buf_idx] = Firmware!FIRMWARE_VERSION_MAJOR,
                                      ![cmd_buf_idx + 1] = Firmware!FIRMWARE_VERSION_MINOR]
    <3>2. 0 \in Byte /\ 2 \in Byte
      BY Ranges DEF Byte
    <3>3. buf \in [0 .. Firmware!BufSize - 1 -> Byte]
      BY <3>2 DEF Firmware!FIRMWARE_VERSION_MAJOR, Firmware!FIRMWARE_VERSION_MINOR
    <3>4. cmd_buf_idx + 2 \in 1 .. Firmware!BufSize
      BY <3>1, Ranges
    <3>5. Firmware!Finish(buf, cmd_buf_idx + 2, out.result)
      BY <2>6 DEF Firmware!DoVersion
    <3> HIDE DEF buf
    <3> QED
      BY <2>10, <3>3, <3>4, <3>5
  <2>7. CASE Firmware!DoUnknown(out)
    BY <1>1, <1>3, <2>7 DEF Firmware!DoUnknown, IsCall
  <2> QED
    BY <2>0, <2>1, <2>2, <2>3, <2>4, <2>5, <2>6, <2>7 DEF Firmware!Serve
<1>5. PICK buf \in [0 .. Firmware!BufSize - 1 -> Byte], idx \in 1 .. Firmware!BufSize, res \in Int :
        Firmware!Finish(buf, idx, res)
  BY <1>4
<1> QED
  BY <1>5, FinishSends

LEMMA LateExecute ==
  ASSUME LateInv, Execute
  PROVE  LateInv'
<1>1. /\ Firmware!Execute
      /\ asked' = IF asked = << >> THEN asked ELSE Tail(asked)
      /\ did' = SubSeq(tx', Len(tx) + 1, Len(tx'))
      /\ hpc' = hpc /\ cmd' = cmd /\ size' = size /\ resp' = resp /\ result' = result
      /\ error' = error /\ version' = version
  BY DEF Execute, host
<1>2. /\ asked # << >> /\ rx = FlattenSeq(Tail(asked))
      /\ cmd_buf \in [0 .. Firmware!BufSize - 1 -> Byte]
      /\ cmd_buf_idx = Len(Head(asked))
      /\ \A k \in 1 .. cmd_buf_idx : cmd_buf[k - 1] = Head(asked)[k]
  BY <1>1, LateServed
<1> DEFINE later == Tail(asked)
<1>3. /\ IsRequest(Head(asked)) /\ later \in Seq(Seq(Byte)) /\ FlattenSeq(later) \in Seq(Byte)
      /\ \A i \in 1 .. Len(later) : IsRequest(later[i])
  BY <1>2, FirstRequest
<1>4. /\ pc' = "recv" /\ cmd_buf_idx' = 0 /\ rx' = rx
      /\ cmd_buf' \in [0 .. Firmware!BufSize - 1 -> Byte]
      /\ \E a \in Seq(Byte) : tx' = tx \o a
  BY <1>1, <1>2, <1>3, ExecuteSends
<1> HIDE DEF later
<1>5. asked' = later /\ rx' = FlattenSeq(later)
  BY <1>1, <1>2, <1>4 DEF later
<1>6. tx' \in Seq(Byte) /\ did' \in Seq(Byte)
  <2>1. PICK a \in Seq(Byte) : tx' = tx \o a
    BY <1>4
  <2>2. tx \in Seq(Byte)
    BY DEF LateInv, TypeOK, Firmware!TypeOK, Byte, Firmware!Byte
  <2>3. tx' \in Seq(Byte)
    BY <2>1, <2>2, ConcatProperties
  <2>4. did' = a
    BY <1>1, <2>1, <2>2, AddedIs
  <2> QED
    BY <2>3, <2>4
<1>7. TypeOK'
  BY <1>1, <1>3, <1>4, <1>5, <1>6 DEF LateInv, TypeOK, Firmware!TypeOK, Byte, Firmware!Byte
<1>8. later = << >> => rx' = << >>
  BY <1>5 DEF FlattenSeq
<1>9. InOrder'
  <2> SUFFICES ASSUME later # << >>
               PROVE  /\ 0 <= Len(Head(later)) /\ 0 < Len(Head(later))
                      /\ rx' = SubSeq(Head(later), 0 + 1, Len(Head(later)))
                                 \o FlattenSeq(Tail(later))
    BY <1>4, <1>5 DEF InOrder
  <2>1. IsRequest(Head(later))
    <3>1. 1 \in 1 .. Len(later) /\ Head(later) = later[1]
      BY <1>3, EmptySeq
    <3> QED
      BY <1>3, <3>1
  <2>2. Head(later) \in Seq(Byte) /\ Len(Head(later)) \in 1 .. Firmware!BufSize
    BY <2>1, RequestIs
  <2>3. FlattenSeq(later) = Head(later) \o FlattenSeq(Tail(later))
    BY <1>3, FlattenHead
  <2>4. SubSeq(Head(later), 1, Len(Head(later))) = Head(later)
    BY <2>2, SubSeqFull
  <2>5. rx' = SubSeq(Head(later), 0 + 1, Len(Head(later))) \o FlattenSeq(Tail(later))
    <3>1. 0 + 1 = 1
      OBVIOUS
    <3> QED
      BY <1>5, <2>3, <2>4, <3>1, Zenon
  <2>6. 0 <= Len(Head(later)) /\ 0 < Len(Head(later))
    BY <2>2
  <2> QED
    BY <2>5, <2>6, Zenon
<1> QED
  BY <1>1, <1>3, <1>4, <1>5, <1>7, <1>8, <1>9 DEF LateInv, IsCall

(* A call adds its request behind the others. *)
LEMMA LateAsk ==
  ASSUME LateInv, NEW c, NEW n, IsCall(c, n), Ask(c, n)
  PROVE  LateInv'
<1>1. /\ hpc = "idle" /\ hpc' = "ack" /\ rx' = rx \o c /\ cmd' = c /\ size' = n /\ resp' = << >>
      /\ asked' = Append(asked, c) /\ did' = << >>
      /\ UNCHANGED <<tx, cmd_buf, cmd_buf_idx, pc, result, error, version>>
  BY DEF Ask
<1>2. c \in Seq(Byte) /\ c # << >> /\ n \in Nat /\ Len(c) \in Nat /\ Len(c) >= 1 /\ IsRequest(c)
  BY CallFits DEF IsCall, IsRequest
<1>3. rx \in Seq(Byte) /\ asked \in Seq(Seq(Byte)) /\ cmd_buf_idx \in Nat
  BY DEF LateInv, TypeOK, Firmware!TypeOK, Byte, Firmware!Byte
<1>4. /\ asked' \in Seq(Seq(Byte)) /\ asked' # << >> /\ Len(asked') = Len(asked) + 1
      /\ \A i \in 1 .. Len(asked) : asked'[i] = asked[i]
      /\ asked'[Len(asked) + 1] = c /\ Len(asked) \in Nat
  BY <1>1, <1>2, <1>3, AppendProperties, LenProperties
<1>5. rx' \in Seq(Byte)
  BY <1>1, <1>2, <1>3, ConcatProperties
<1>6. TypeOK'
  BY <1>1, <1>2, <1>4, <1>5 DEF LateInv, TypeOK, Firmware!TypeOK, Byte, Firmware!Byte
<1>7. ASSUME NEW i \in 1 .. Len(asked') PROVE IsRequest(asked'[i])
  <2>1. i \in 1 .. Len(asked) \/ i = Len(asked) + 1
    BY <1>4
  <2> QED
    BY <1>2, <1>4, <2>1 DEF LateInv
<1>8. /\ Head(asked') = IF asked = << >> THEN c ELSE Head(asked)
      /\ Tail(asked') = IF asked = << >> THEN << >> ELSE Append(Tail(asked), c)
  BY <1>1, <1>3, HeadTailAppend
<1>9. InOrder'
  <2>1. CASE asked = << >>
    <3>1. rx = << >> /\ cmd_buf_idx = 0 /\ pc = "recv"
      BY <2>1 DEF LateInv
    <3>2. Head(asked') = c /\ FlattenSeq(Tail(asked')) = << >>
      <4>1. FlattenSeq(<< >>) = << >>
        BY DEF FlattenSeq
      <4>2. Head(asked') = c /\ Tail(asked') = << >>
        BY <1>8, <2>1, Zenon
      <4> QED
        BY <4>1, <4>2, Zenon
    <3>3. rx' = SubSeq(c, 1, Len(c)) \o << >>
      BY <1>1, <1>2, <3>1, SubSeqFull, ConcatEmptySeq
    <3>4. 0 <= Len(c) /\ 0 < Len(c) /\ 0 + 1 = 1 /\ 1 .. 0 = {}
      BY <1>2
    <3>5. rx' = SubSeq(c, 0 + 1, Len(c)) \o << >>
      BY <3>3, <3>4, Zenon
    <3>6. cmd_buf_idx' = 0 /\ pc' = "recv"
      BY <1>1, <3>1
    <3> QED
      BY <3>2, <3>4, <3>5, <3>6, Zenon DEF InOrder
  <2>2. CASE asked # << >>
    <3> DEFINE request == Head(asked)
               part == SubSeq(request, cmd_buf_idx + 1, Len(request))
               later == FlattenSeq(Tail(asked))
    <3>1. /\ cmd_buf_idx <= Len(request)
          /\ pc = "recv" <=> cmd_buf_idx < Len(request)
          /\ \A k \in 1 .. cmd_buf_idx : cmd_buf[k - 1] = request[k]
          /\ rx = part \o later
      BY <2>2 DEF LateInv, InOrder
    <3>2. /\ request \in Seq(Byte) /\ Len(request) \in Nat
          /\ Tail(asked) \in Seq(Seq(Byte)) /\ later \in Seq(Byte)
      BY <2>2, FirstRequest
    <3>3. Head(asked') = request /\ Tail(asked') = Append(Tail(asked), c)
      BY <1>8, <2>2
    <3>4. FlattenSeq(Tail(asked')) = later \o c
      BY <1>2, <3>2, <3>3, FlattenAppend
    <3>5. part \in Seq(Byte)
      <4>1. \A k \in cmd_buf_idx + 1 .. Len(request) : k \in 1 .. Len(request)
        BY <1>3, <3>2
      <4>2. \A k \in cmd_buf_idx + 1 .. Len(request) : request[k] \in Byte
        BY <3>2, <4>1, ElementOfSeq
      <4>3. cmd_buf_idx + 1 \in Int /\ Len(request) \in Int
        BY <1>3, <3>2
      <4> QED
        BY <4>2, <4>3, SubSeqProperties
    <3> HIDE DEF request, part, later
    <3>6. rx' = part \o (later \o c)
      <4>1. \A u, v, w \in Seq(Byte) : (u \o v) \o w = u \o (v \o w)
        BY ConcatAssociative
      <4>2. (part \o later) \o c = part \o (later \o c)
        BY <1>2, <3>2, <3>5, <4>1, Zenon
      <4> QED
        BY <1>1, <3>1, <4>2
    <3> QED
      BY <1>1, <3>1, <3>3, <3>4, <3>6 DEF InOrder, part
  <2> QED
    BY <2>1, <2>2
<1> QED
  BY <1>1, <1>2, <1>4, <1>6, <1>7, <1>9 DEF LateInv, IsCall

(* What a call that ends on a payload leaves in its variables. *)
LEMMA SucceedTypes ==
  ASSUME TypeOK, NEW payload \in Seq(Byte), Succeed(payload),
         cmd[1] = Firmware!CMD_VERSION => Len(payload) >= 2
  PROVE  /\ hpc' = "idle" /\ error' \in 0 .. 4 /\ result' \in Seq(Byte)
         /\ version' \in {-1} \cup Nat
<1> DEFINE value == payload[1] * (ByteMax + 1) + payload[2]
<1>1. cmd[1] = Firmware!CMD_VERSION => value \in Nat
  <2> SUFFICES ASSUME cmd[1] = Firmware!CMD_VERSION PROVE value \in Nat
    OBVIOUS
  <2>1. Len(payload) \in Nat /\ Len(payload) >= 2
    OBVIOUS
  <2>2. 1 \in 1 .. Len(payload) /\ 2 \in 1 .. Len(payload)
    BY <2>1
  <2>3. payload[1] \in Byte /\ payload[2] \in Byte
    BY <2>2, ElementOfSeq
  <2>4. \A a, b, m \in Nat : a * (m + 1) + b \in Nat
    OBVIOUS
  <2>5. payload[1] \in Nat /\ payload[2] \in Nat /\ ByteMax \in Nat
    BY <2>3, Ranges DEF Byte
  <2> QED
    BY <2>4, <2>5
<1>2. <<0>> \o payload \in Seq(Byte) /\ << >> \in Seq(Byte)
  <2>1. <<0>> \in Seq(Byte)
    BY Ranges
  <2> QED
    BY <2>1, ConcatProperties
<1>3. error \in 0 .. 4 /\ version \in {-1} \cup Nat
  BY DEF TypeOK
<1>4. CASE cmd[1] = Firmware!CMD_VERSION /\ value > 2
  <2>1. Fail(4)
    BY <1>4 DEF Succeed, ESPSTLINK_ERROR_VERSION
  <2> QED
    BY <1>2, <1>3, <2>1 DEF Fail
<1>5. CASE ~(cmd[1] = Firmware!CMD_VERSION /\ value > 2)
  <2>1. /\ hpc' = "idle" /\ error' = error /\ result' = <<0>> \o payload
        /\ version' = IF cmd[1] = Firmware!CMD_VERSION THEN value ELSE version
    BY <1>5 DEF Succeed
  <2> HIDE DEF value
  <2> QED
    BY <1>1, <1>2, <1>3, <2>1
<1> QED
  BY <1>4, <1>5

(* What a call that fails leaves in them. *)
LEMMA FailTypes ==
  ASSUME TypeOK, NEW code \in 0 .. 4, Fail(code)
  PROVE  /\ hpc' = "idle" /\ error' \in 0 .. 4 /\ result' \in Seq(Byte)
         /\ version' \in {-1} \cup Nat
BY DEF Fail, TypeOK

(* read() takes bytes that are there. *)
LEMMA ReadTakes ==
  ASSUME tx \in Seq(Byte), NEW m \in Int, NEW n \in AtMost(m), Take(n)
  PROVE  n \in 1 .. Len(tx) /\ tx' \in Seq(Byte) /\ SubSeq(tx, 1, n) \in Seq(Byte)
<1>1. n \in 1 .. Len(tx)
  BY DEF AtMost
<1> QED
  BY <1>1, TakeIs DEF Take

(* The library's steps of error_check change nothing of the requests. *)
LEMMA LateCheck ==
  ASSUME LateInv, ErrorCheck
  PROVE  LateInv'
<1>1. /\ HostOnly /\ hpc # "idle"
  BY DEF ErrorCheck, NothingThere, ReadAck, ReadStatus, ReadPayload, ReadCode, ReadUnexpected
<1>2. /\ rx' = rx /\ cmd_buf' = cmd_buf /\ cmd_buf_idx' = cmd_buf_idx /\ pc' = pc
      /\ cmd' = cmd /\ size' = size /\ asked' = asked /\ did' = did
  BY <1>1 DEF HostOnly
<1>3. /\ TypeOK /\ tx \in Seq(Byte) /\ resp \in Seq(Byte) /\ result \in Seq(Byte)
      /\ error \in 0 .. 4 /\ version \in {-1} \cup Nat
      /\ IsCall(cmd, size) /\ size \in Nat
  BY <1>1 DEF LateInv, TypeOK, Firmware!TypeOK, Byte, Firmware!Byte
<1>4. cmd[1] = Firmware!CMD_VERSION => size = 2
  BY <1>3, Codes DEF IsCall
<1>5. << >> \in Seq(Byte) /\ Len(<< >>) = 0
  OBVIOUS
<1>6. /\ hpc' \in {"idle", "ack", "status", "payload", "code", "unexpected", "badStatus"}
      /\ error' \in 0 .. 4 /\ version' \in {-1} \cup Nat
      /\ tx' \in Seq(Byte) /\ resp' \in Seq(Byte) /\ result' \in Seq(Byte)
  <2>1. CASE NothingThere
    <3>1. Fail(ESPSTLINK_ERROR_READ) /\ tx' = tx /\ resp' = resp /\ ESPSTLINK_ERROR_READ \in 0 .. 4
      BY <2>1 DEF NothingThere, ESPSTLINK_ERROR_READ
    <3> QED
      BY <1>3, <3>1, FailTypes
  <2>2. CASE ReadAck
    <3>1. 1 \in AtMost(1)
      BY <1>3, <2>2, EmptySeq DEF ReadAck, AtMost
    <3>2. tx' \in Seq(Byte)
      BY <1>3, <2>2, <3>1, ReadTakes DEF ReadAck
    <3> QED
      BY <1>3, <2>2, <3>2 DEF ReadAck
  <2>3. CASE ReadStatus
    <3>1. 1 \in AtMost(1)
      BY <1>3, <2>3, EmptySeq DEF ReadStatus, AtMost
    <3>2. tx' \in Seq(Byte) /\ resp' = resp
      BY <1>3, <2>3, <3>1, ReadTakes DEF ReadStatus
    <3>3. CASE tx[1] = 0 /\ size = 0
      <4>1. Succeed(<< >>)
        BY <2>3, <3>3 DEF ReadStatus
      <4>2. cmd[1] # Firmware!CMD_VERSION
        BY <1>4, <3>3
      <4> QED
        BY <1>3, <1>5, <3>2, <4>1, <4>2, SucceedTypes
    <3>4. CASE ~(tx[1] = 0 /\ size = 0)
      <4>1. /\ hpc' = CASE tx[1] = 0 -> "payload" [] tx[1] = ByteMax -> "code"
                        [] OTHER -> "badStatus"
            /\ result' = result /\ error' = error /\ version' = version
        BY <2>3, <3>4 DEF ReadStatus
      <4> QED
        BY <1>3, <3>2, <4>1
    <3> QED
      BY <3>3, <3>4
  <2>4. CASE ReadPayload
    <3>1. PICK n \in AtMost(size) :
            /\ Take(n) /\ resp' = resp \o SubSeq(tx, 1, n)
            /\ IF Len(resp') < size THEN UNCHANGED <<hpc, result, error, version>>
                                    ELSE Succeed(resp')
      BY <2>4 DEF ReadPayload
    <3>2. tx' \in Seq(Byte) /\ SubSeq(tx, 1, n) \in Seq(Byte)
      BY <1>3, <3>1, ReadTakes
    <3>3. resp' \in Seq(Byte)
      BY <1>3, <3>1, <3>2, ConcatProperties
    <3>4. CASE Len(resp') < size
      BY <1>3, <2>4, <3>1, <3>2, <3>3, <3>4 DEF ReadPayload
    <3>5. CASE ~(Len(resp') < size)
      <4>1. cmd[1] = Firmware!CMD_VERSION => Len(resp') >= 2
        BY <1>3, <1>4, <3>3, <3>5
      <4>2. Succeed(resp')
        BY <3>1, <3>5
      <4> QED
        BY <1>3, <3>2, <3>3, <4>1, <4>2, SucceedTypes
    <3> QED
      BY <3>4, <3>5
  <2>5. CASE ReadCode
    <3>1. PICK n \in AtMost(2) :
            /\ Take(n)
            /\ IF n < 2 THEN Fail(ESPSTLINK_ERROR_DATA)
               ELSE /\ hpc' = "idle" /\ error' = ESPSTLINK_ERROR_COMM
                    /\ result' = <<ByteMax>> \o SubSeq(tx, 1, 2)
                    /\ UNCHANGED version
      BY <2>5 DEF ReadCode
    <3>2. tx' \in Seq(Byte) /\ SubSeq(tx, 1, n) \in Seq(Byte) /\ resp' = resp
      BY <1>3, <2>5, <3>1, ReadTakes DEF ReadCode
    <3>3. CASE n < 2
      <4>1. Fail(ESPSTLINK_ERROR_DATA) /\ ESPSTLINK_ERROR_DATA \in 0 .. 4
        BY <3>1, <3>3 DEF ESPSTLINK_ERROR_DATA
      <4> QED
        BY <1>3, <3>2, <4>1, FailTypes
    <3>4. CASE ~(n < 2)
      <4>1. n = 2
        BY <1>3, <3>4 DEF AtMost
      <4>2. result' = <<ByteMax>> \o SubSeq(tx, 1, 2)
        BY <3>1, <3>4
      <4>3. <<ByteMax>> \in Seq(Byte)
        BY Ranges
      <4>4. result' \in Seq(Byte)
        BY <3>2, <4>1, <4>2, <4>3, ConcatProperties
      <4> QED
        BY <1>3, <3>1, <3>2, <3>4, <4>4 DEF ESPSTLINK_ERROR_COMM
    <3> QED
      BY <3>3, <3>4
  <2>6. CASE ReadUnexpected
    <3>1. PICK n \in AtMost(IF hpc = "unexpected" THEN ByteMax ELSE ByteMax - 1) : Take(n)
      BY <2>6 DEF ReadUnexpected
    <3>2. (IF hpc = "unexpected" THEN ByteMax ELSE ByteMax - 1) \in Int
      BY Ranges
    <3>3. tx' \in Seq(Byte) /\ resp' = resp
      BY <1>3, <2>6, <3>1, <3>2, ReadTakes DEF ReadUnexpected
    <3>4. Fail(ESPSTLINK_ERROR_DATA) /\ ESPSTLINK_ERROR_DATA \in 0 .. 4
      BY <2>6 DEF ReadUnexpected, ESPSTLINK_ERROR_DATA
    <3> QED
      BY <1>3, <3>3, <3>4, FailTypes
  <2> QED
    BY <2>1, <2>2, <2>3, <2>4, <2>5, <2>6 DEF ErrorCheck
<1>7. TypeOK'
  BY <1>2, <1>6 DEF LateInv, TypeOK, Firmware!TypeOK, Byte, Firmware!Byte
<1>8. InOrder'
  BY <1>2 DEF LateInv, InOrder
<1> QED
  BY <1>2, <1>3, <1>7, <1>8 DEF LateInv, IsCall, IsRequest

LEMMA LateStep == LateInv /\ [Next]_vars => LateInv'
<1> SUFFICES ASSUME LateInv, [Next]_vars PROVE LateInv'
  OBVIOUS
<1>1. CASE Calls
  <2>1. PICK c, n : IsCall(c, n) /\ Ask(c, n)
    BY <1>1, CallsAsk
  <2> QED
    BY <2>1, LateAsk
<1>2. CASE ErrorCheck
  BY <1>2, LateCheck
<1>3. CASE Receive
  BY <1>3, LateReceive
<1>4. CASE Execute
  BY <1>4, LateExecute
<1>5. CASE UNCHANGED vars
  <2>1. UNCHANGED <<rx, tx, cmd_buf, cmd_buf_idx, pc, hpc, cmd, size, resp, result, error,
                    version, asked, did>>
    BY <1>5 DEF vars, firmware, host
  <2>2. TypeOK'
    BY <2>1 DEF LateInv, TypeOK, Firmware!TypeOK
  <2>3. InOrder'
    BY <2>1 DEF LateInv, InOrder
  <2>4. (hpc # "idle" => IsCall(cmd, size))'
    BY <2>1 DEF LateInv, IsCall
  <2>5. (\A i \in 1 .. Len(asked) : IsRequest(asked[i]))'
    BY <2>1 DEF LateInv, IsRequest, IsCall
  <2>6. (asked = << >> => rx = << >> /\ cmd_buf_idx = 0 /\ pc = "recv")'
    BY <2>1 DEF LateInv
  <2> QED
    BY <2>2, <2>3, <2>4, <2>5, <2>6 DEF LateInv
<1> QED
  BY <1>1, <1>2, <1>3, <1>4, <1>5 DEF Next

LEMMA LateSpec == Spec => []LateInv
BY LateInit, LateStep, PTL DEF Spec

(* Library and interpreter keep their types, however late the answers.      *)
THEOREM TypeCorrect == Spec => []TypeOK
<1>1. LateInv => TypeOK
  BY DEF LateInv
<1> QED
  BY <1>1, LateSpec, PTL

(* However late the answers and whatever the library makes of them, what is *)
(* in the interpreter's buffer and on the line behind it are the requests,  *)
(* whole and in order, and each is served as itself (libespstlink.c:304,    *)
(* serial.c:68).                                                            *)
THEOREM FramedAlways == Spec => []Framed
<1>1. ASSUME LateInv PROVE Framed
  <2> DEFINE gathered == Firmware!Bytes(cmd_buf, cmd_buf_idx)
  <2>1. /\ cmd_buf \in [0 .. Firmware!BufSize - 1 -> Byte] /\ cmd_buf_idx \in Nat
        /\ rx \in Seq(Byte) /\ asked \in Seq(Seq(Byte))
    BY <1>1 DEF LateInv, TypeOK, Firmware!TypeOK, Byte, Firmware!Byte
  <2>2. CASE asked = << >>
    <3>1. rx = << >> /\ cmd_buf_idx = 0 /\ pc = "recv"
      BY <1>1, <2>2 DEF LateInv
    <3>2. gathered \in Seq(Byte) /\ Len(gathered) = 0
      BY <2>1, <3>1, BytesAt, Ranges
    <3>3. gathered = << >> /\ FlattenSeq(asked) = << >>
      BY <2>2, <3>2, EmptySeq DEF FlattenSeq
    <3> QED
      BY <3>1, <3>2, <3>3, ConcatEmptySeq DEF Framed
  <2>3. CASE asked # << >>
    <3> DEFINE request == Head(asked)
               part == SubSeq(request, cmd_buf_idx + 1, Len(request))
               later == FlattenSeq(Tail(asked))
    <3>1. /\ request \in Seq(Byte) /\ Len(request) \in 1 .. Firmware!BufSize
          /\ later \in Seq(Byte)
      BY <1>1, <2>3, FirstRequest
    <3>2. /\ cmd_buf_idx <= Len(request)
          /\ pc = "recv" <=> cmd_buf_idx < Len(request)
          /\ \A k \in 1 .. cmd_buf_idx : cmd_buf[k - 1] = request[k]
          /\ rx = part \o later
      BY <1>1, <2>3 DEF LateInv, InOrder
    <3> HIDE DEF gathered, request, part, later
    <3>3. cmd_buf_idx \in 0 .. Firmware!BufSize
      BY <2>1, <3>1, <3>2, Ranges
    <3>4. /\ gathered \in Seq(Byte) /\ Len(gathered) = cmd_buf_idx
          /\ \A k \in 1 .. cmd_buf_idx : gathered[k] = cmd_buf[k - 1]
      BY <2>1, <3>3, BytesAt DEF gathered
    <3>5. \A k \in 1 .. cmd_buf_idx : k \in 1 .. Len(request) /\ request[k] \in Byte
      BY <2>1, <3>1, <3>2, ElementOfSeq
    <3>6. gathered = SubSeq(request, 1, cmd_buf_idx)
      <4>1. /\ SubSeq(request, 1, cmd_buf_idx) \in Seq(Byte)
            /\ Len(SubSeq(request, 1, cmd_buf_idx)) = cmd_buf_idx
            /\ \A k \in 1 .. cmd_buf_idx : SubSeq(request, 1, cmd_buf_idx)[k] = request[k]
        BY <2>1, <3>5, SubSeqProperties
      <4> QED
        BY <3>2, <3>4, <4>1, SeqEqual
    <3>7. gathered \o part = request
      <4>1. 1 \in 1 .. Len(request) + 1 /\ cmd_buf_idx \in 1 - 1 .. Len(request)
            /\ Len(request) \in cmd_buf_idx .. Len(request)
        BY <2>1, <3>1, <3>2
      <4>2. SubSeq(request, 1, cmd_buf_idx) \o SubSeq(request, cmd_buf_idx + 1, Len(request))
              = SubSeq(request, 1, Len(request))
        BY <3>1, <4>1, ConcatAdjacentSubSeq
      <4> QED
        BY <3>1, <3>6, <4>2, SubSeqFull DEF part
    <3>8. part \in Seq(Byte)
      <4>1. \A k \in cmd_buf_idx + 1 .. Len(request) : k \in 1 .. Len(request)
        BY <2>1, <3>1
      <4>2. \A k \in cmd_buf_idx + 1 .. Len(request) : request[k] \in Byte
        BY <3>1, <4>1, ElementOfSeq
      <4>3. cmd_buf_idx + 1 \in Int /\ Len(request) \in Int
        BY <2>1, <3>1
      <4> QED
        BY <4>2, <4>3, SubSeqProperties DEF part
    <3>9. gathered \o rx = FlattenSeq(asked)
      <4>1. \A u, v, w \in Seq(Byte) : (u \o v) \o w = u \o (v \o w)
        BY ConcatAssociative
      <4>2. (gathered \o part) \o later = gathered \o (part \o later)
        BY <3>1, <3>4, <3>8, <4>1, Zenon
      <4>3. FlattenSeq(asked) = request \o later
        BY <2>1, <2>3, FlattenHead DEF request, later
      <4> QED
        BY <3>2, <3>7, <4>2, <4>3
    <3>10. pc = "exec" => gathered = request
      <4> SUFFICES ASSUME pc = "exec" PROVE gathered = request
        OBVIOUS
      <4>1. cmd_buf_idx = Len(request)
        BY <2>1, <3>1, <3>2
      <4> QED
        BY <3>1, <3>6, <4>1, SubSeqFull
    <3> QED
      BY <3>9, <3>10 DEF Framed, gathered, request
  <2> QED
    BY <2>2, <2>3
<1> QED
  BY <1>1, LateSpec, PTL
=============
