--------------------------- MODULE SwimLinkProofs ---------------------------
(***************************************************************************)
(* Proofs about SwimLink, for every byte width, address length, set of     *)
(* calls and target.  What the driver knows of itself and of the wire      *)
(* (Base) holds whatever becomes of the acknowledgements.  What the two    *)
(* ends know of each other (Shared) holds while each was heard as sent,    *)
(* and the properties of SwimLink follow from the two.                     *)
(***************************************************************************)
EXTENDS SwimLink, SequenceTheorems, TLAPS

Driving == {"cmd", "byte", "reply", "pulses"}

Pinouts == [enable : SUBSET {SWIM, NRST}, high : SUBSET {SWIM, NRST},
            pullup : SUBSET {SWIM, NRST}]

(* Where the driver is in which function, and the pin's direction there. *)
Control ==
  /\ op = "idle" <=> pc = "idle"
  /\ op = "swim_entry" <=> pc \in {"pulses", "sync"}
  /\ pc \in {"cmd", "cmdAck"} => i = 0
  /\ pc \in {"byte", "byteAck"} => op \in {"rotf", "wotf"} /\ i < Len(args)
  /\ pc \in {"cmd", "cmdAck", "byte", "byteAck"} => dest = << >>
  /\ pc \in {"read", "reply"} => op = "rotf" /\ Len(dest) = i /\ i <= args[1]
  /\ pc = "reply" => i < args[1] /\ (got < 0 \/ got \in Byte)
  /\ SWIM \in gpio.enable <=> pc \in Driving

(* The buffer behind the pointer of the call. *)
Buffer == op \in {"rotf", "wotf"} => Len(args) = Count /\ Len(args) > 0

(* What the wire holds, whoever left it there. *)
Frames ==
  /\ line.from = "host" <=> line.kind \in {"cmd", "data"}
  /\ line.kind = "cmd" => pc = "cmdAck" /\ line.val = Command
  /\ line.kind = "data" => pc = "byteAck" /\ line.val = args[i + 1]
  /\ line.kind = "byte" => line.val \in Byte

Base == TypeOK /\ Control /\ Buffer /\ Frames

(* What can be on the wire when the driver is where it is. *)
Wire ==
  /\ pc \in Driving => line.from = "nobody"
  /\ pc = "reply" => line = Quiet
  /\ pc = "cmdAck"  => line \in {HostFrame("cmd", Command), Answer(0), Answer(1), Silence(-1)}
  /\ pc = "byteAck" => line \in {HostFrame("data", args[i + 1]), Answer(0), Answer(1), Silence(-1)}
  /\ pc = "read" =>
       /\ line.kind \in {"quiet", "byte", "oddBits", "zeroStart", "silence"}
       /\ line.from = "target" => i < args[1]
       /\ line.kind \in {"byte", "oddBits"} /\ tcmd = "rotf" => waits
  /\ pc = "reply" /\ tcmd = "rotf" => waits
  /\ pc = "sync" =>
       line = Quiet \/ line.kind \in {"stuckLow", "silence"}
                    \/ (line.kind = "sync" /\ tcmd = "none")

(* The target executes the command of the call, or none. *)
Expected == IF op = "srst" THEN {"none"} ELSE {"none", op}

(* Both ends agree on the request, and on how much of a read is done. *)
Agreed ==
  /\ pc \in {"cmd", "cmdAck", "byte", "pulses", "sync"} => ~InRead
  /\ pc = "cmdAck" /\ HearsAck(1) => treq = << >> /\ tsent = 0 /\ tcmd \in Expected
  /\ pc \in {"byte", "byteAck"} => tsent = 0 /\ tcmd \in Expected
  /\ pc = "byteAck" /\ Len(treq) = Len(args) /\ tcmd # "none" => op = "rotf" /\ args[1] > 0
  /\ pc \in {"read", "reply"} =>
       tcmd \in {"none", "rotf"} /\ (tcmd = "rotf" => i < args[1])

Shared == Wire /\ Agreed /\ InStep /\ SuccessLeavesTargetReady

IInv == Base /\ (sound => Shared)
-----------------------------------------------------------------------------
LEMMA Constants ==
  /\ ByteMax \in Nat /\ Header \in Nat /\ Header >= 2
  /\ SWIM # NRST
  /\ Durations \subseteq Nat
BY SizesAssumption DEF Header, SWIM, NRST

LEMMA WholePrefix == \A s \in Seq(Byte) : SubSeq(s, 1, Len(s)) = s
  OBVIOUS

LEMMA Kinds ==
  /\ Quiet.kind = "quiet" /\ Quiet.from = "nobody" /\ Quiet \in Lines
  /\ \A k \in Int : /\ Answer(k).kind = "answer" /\ Answer(k).from = "target" /\ Answer(k).val = k
                    /\ Answer(k) \in Lines
                    /\ Silence(k).kind = "silence" /\ Silence(k).from = "nobody"
                    /\ Silence(k) \in Lines
  /\ Rest \in {Quiet, BadByte("rest")} /\ BadByte("rest") \in Lines
  /\ BadByte("rest").kind = "rest" /\ BadByte("rest").from = "target"
  /\ line.kind \in {"quiet", "silence", "answer", "sync", "stuckLow", "cmd", "data"} => Rest = Quiet
BY DEF Quiet, Answer, Silence, Rest, BadByte, Lines

LEMMA CellTyped ==
  ASSUME NEW a \in Seq(Byte), Len(a) >= Header, NEW k \in Int
  PROVE  Cell(a, k) \in Byte
<1>1. a[Header] \in Byte
  BY Constants
<1> QED
  BY <1>1, Constants DEF Cell, Byte

(* The pins, as SWIM sees them. *)
LEMMA Pins ==
  ASSUME TypeOK, NEW pin \in {SWIM, NRST}
  PROVE  /\ AsOutput(pin) \in Pinouts /\ AsInput(pin) \in Pinouts
         /\ AsOutput(pin).enable = gpio.enable \cup {pin}
         /\ AsInput(pin).enable = gpio.enable \ {pin}
BY DEF TypeOK, AsOutput, AsInput, Pinouts

LEMMA InitInv == Init => IInv
<1> SUFFICES ASSUME Init PROVE IInv
  OBVIOUS
<1>1. TypeOK
  <2>1. InitialMemory \in [Byte -> Byte]
    BY DEF InitialMemory
  <2>2. << >> \in Seq(Byte)
    OBVIOUS
  <2>3. gpio \in Pinouts
    BY DEF Init, Pinouts
  <2>4. args \in Seq(Byte) /\ dest \in Seq(Byte) /\ treq \in Seq(Byte) /\ mem \in [Byte -> Byte]
    BY <2>1, <2>2 DEF Init
  <2>5. line \in Lines
    BY Kinds DEF Init
  <2>6. active \in BOOLEAN /\ waits \in BOOLEAN /\ sound \in BOOLEAN
    BY DEF Init
  <2>7. /\ op = "idle" /\ pc = "idle" /\ i \in Nat /\ got \in Int /\ result \in Int
        /\ ps = "open" /\ state = "open" /\ tcmd = "none" /\ tsent \in Nat
    BY DEF Init
  <2> QED
    BY <2>3, <2>4, <2>5, <2>6, <2>7 DEF TypeOK, Pinouts
<1>2. Control /\ Buffer /\ Frames
  BY Constants DEF Init, Control, Buffer, Frames, Driving, Quiet
<1>3. Wire /\ Agreed /\ InStep /\ SuccessLeavesTargetReady
  BY DEF Init, Wire, Agreed, InStep, SuccessLeavesTargetReady, Driving, Quiet
<1> QED
  BY <1>1, <1>2, <1>3 DEF IInv, Base, Shared
-----------------------------------------------------------------------------
(* The driver about itself: one lemma for each kind of step.               *)

(* A call starts. *)
LEMMA CallBase ==
  ASSUME Base, NEW c \in Calls, Call(c) \/ StartEntry(c)
  PROVE  Base'
<1>0. TypeOK /\ pc = "idle" /\ line.kind \notin {"cmd", "data"}
  BY DEF Call, StartEntry, Base, Control, Frames
<1>1. /\ c.op \in {"srst", "rotf", "wotf", "swim_entry"} /\ c.args \in Seq(Byte)
      /\ c.op = "rotf" => Len(c.args) = Header
      /\ c.op = "wotf" => Len(c.args) > 0 /\ Len(c.args) = Header + c.args[1]
  BY CallsAssumption
<1>2. /\ gpio' = AsOutput(SWIM) /\ op' = c.op /\ args' = c.args /\ i' = 0 /\ dest' = << >>
      /\ result' = 0 /\ got' = got
      /\ \/ c.op # "swim_entry" /\ pc' = "cmd" /\ state' = ps /\ ps' = "masked"
         \/ c.op = "swim_entry" /\ pc' = "pulses" /\ UNCHANGED <<ps, state>>
      /\ UNCHANGED <<line, target>> /\ sound' \in BOOLEAN
  BY DEF Call, StartEntry
<1>3. TypeOK'
  BY <1>0, <1>1, <1>2, Pins, Constants DEF TypeOK, target, Pinouts
<1>4. Control'
  BY <1>0, <1>1, <1>2, Pins DEF Base, Control, Driving
<1>5. Buffer' /\ Frames'
  BY <1>0, <1>1, <1>2, Constants DEF Base, Buffer, Count, Frames
<1> QED
  BY <1>3, <1>4, <1>5 DEF Base

LEMMA ResetPinBase ==
  ASSUME Base, NEW on \in Resets, ResetPin(on)
  PROVE  Base'
<1>1. /\ gpio' \in Pinouts
      /\ SWIM \in gpio'.enable <=> SWIM \in gpio.enable
  <2>1. \/ gpio' = AsInput(NRST)
        \/ gpio' = [AsOutput(NRST) EXCEPT !.high = AsOutput(NRST).high]
        \/ gpio' = [AsOutput(NRST) EXCEPT !.high = AsOutput(NRST).high \ {NRST}]
    BY Zenon DEF ResetPin
  <2>2. TypeOK
    BY DEF Base
  <2>3. /\ AsOutput(NRST) \in Pinouts
        /\ AsOutput(NRST).enable = gpio.enable \cup {NRST}
        /\ AsInput(NRST) \in Pinouts
        /\ AsInput(NRST).enable = gpio.enable \ {NRST}
    BY <2>2, Pins
  <2> QED
    BY <2>1, <2>3, Constants DEF Pinouts
<1>2. UNCHANGED <<op, pc, args, i, dest, got, result, ps, state, line, target, sound>>
  BY DEF ResetPin
<1>3. TypeOK'
  BY <1>1, <1>2 DEF Base, TypeOK, target, Pinouts
<1>4. Control' /\ Buffer' /\ Frames'
  BY <1>1, <1>2 DEF Base, Control, Buffer, Frames, Count, Command
<1> QED
  BY <1>3, <1>4 DEF Base

(* A frame of the driver, and the wait for its answer. *)
LEMMA SendBase ==
  ASSUME Base, SendCommand \/ SendByte
  PROVE  Base'
<1>0. TypeOK
  BY DEF Base
<1>1. /\ \/ pc = "cmd" /\ pc' = "cmdAck" /\ line' = HostFrame("cmd", Command)
         \/ pc = "byte" /\ pc' = "byteAck" /\ line' = HostFrame("data", args[i + 1])
      /\ gpio' = AsInput(SWIM)
      /\ UNCHANGED <<op, args, i, dest, got, result, ps, state, target, sound>>
  BY DEF SendCommand, SendByte, SendFrame
<1>2. pc = "byte" => args[i + 1] \in Byte
  BY DEF Base, TypeOK, Control
<1>3. Command \in Int \/ pc = "byte"
  BY <1>1 DEF Command, Base, TypeOK, Control
<1>4. TypeOK'
  <2>1. line' \in Lines
    BY <1>1, <1>2, <1>3, Constants DEF Lines, HostFrame, Byte
  <2>2. gpio' \in Pinouts
    BY <1>0, <1>1, Pins
  <2> QED
    BY <1>0, <1>1, <2>1, <2>2 DEF TypeOK, target, Pinouts
<1>5. Control'
  BY <1>0, <1>1, Pins DEF Base, Control, Driving
<1>6. Buffer'
  BY <1>1 DEF Base, Buffer, Count
<1>7. Frames'
  <2>1. /\ line'.from = "host" /\ line'.kind \in {"cmd", "data"}
        /\ line'.kind = "cmd" => pc' = "cmdAck" /\ line'.val = Command
        /\ line'.kind = "data" => pc' = "byteAck" /\ line'.val = args[i + 1]
    BY <1>1 DEF HostFrame
  <2>2. Command' = Command
    BY <1>1 DEF Command
  <2> QED
    BY <1>1, <2>1, <2>2 DEF Frames
<1> QED
  BY <1>4, <1>5, <1>6, <1>7 DEF Base

(* The loop of send_command goes on. *)
LEMMA ContinueBase ==
  ASSUME Base, pc \in {"cmdAck", "byteAck"},
         NEW n \in Nat, n <= Len(args), Continue(n)
  PROVE  Base'
<1>0. TypeOK /\ dest = << >> /\ op \in {"srst", "rotf", "wotf"}
  BY DEF Base, TypeOK, Control
<1>1. Count = IF op = "srst" THEN 0 ELSE Len(args)
  BY <1>0 DEF Base, Buffer, Count
<1>2. /\ line' \in {Quiet, BadByte("rest")} /\ line' \in Lines
      /\ UNCHANGED <<dest, got, target, sound>>
  BY Kinds DEF Continue
<1>3. Frames' /\ line'.kind \notin {"cmd", "data"}
  BY <1>2, Kinds DEF Frames
<1>4. CASE n < Count /\ i' = n /\ pc' = "byte" /\ gpio' = AsOutput(SWIM)
             /\ UNCHANGED <<op, args, ps, state, result>>
  <2>1. op \in {"rotf", "wotf"} /\ n < Len(args)
    BY <1>0, <1>1, <1>4
  <2>2. TypeOK'
    BY <1>0, <1>2, <1>4, Pins DEF TypeOK, target, Pinouts
  <2>3. Control'
    BY <1>0, <1>2, <1>4, <2>1, Pins DEF Base, Control, Driving
  <2>4. Buffer'
    BY <1>4 DEF Base, Buffer, Count
  <2> QED
    BY <1>3, <2>2, <2>3, <2>4 DEF Base
<1>5. CASE n = Count /\ op = "rotf" /\ i' = 0 /\ pc' = "read"
             /\ UNCHANGED <<op, args, ps, state, result, gpio>>
  <2>1. TypeOK'
    BY <1>0, <1>2, <1>5 DEF TypeOK, target
  <2>2. args[1] \in Nat
    BY <1>0, <1>5, Constants DEF Base, Buffer, TypeOK, Byte
  <2>3. Control' /\ Buffer'
    BY <1>0, <1>2, <1>5, <2>2 DEF Base, Control, Driving, Buffer, Count
  <2> QED
    BY <1>3, <2>1, <2>3 DEF Base
<1>6. CASE n = Count /\ op # "rotf" /\ Return(0) /\ UNCHANGED gpio
  <2>1. TypeOK'
    BY <1>0, <1>2, <1>6 DEF TypeOK, Return, target
  <2>2. Control' /\ Buffer'
    BY <1>2, <1>6 DEF Base, Control, Driving, Buffer, Return
  <2> QED
    BY <1>3, <2>1, <2>2 DEF Base
<1> QED
  BY <1>4, <1>5, <1>6 DEF Continue

LEMMA AnsweredBase ==
  ASSUME Base, CommandAcked \/ ByteAcked \/ ByteRefused
  PROVE  Base'
<1>1. \/ pc = "cmdAck" /\ Continue(0)
      \/ pc = "byteAck" /\ (Continue(i + 1) \/ Continue(i)) /\ i < Len(args)
  BY DEF CommandAcked, ByteAcked, ByteRefused, Base, Control
<1>2. i \in Nat /\ args \in Seq(Byte)
  BY DEF Base, TypeOK
<1> QED
  BY <1>1, <1>2, ContinueBase

LEMMA ReplyTyped ==
  ASSUME TypeOK, NEW heard \in {0, 1}, TakesReply(heard)
  PROVE  tsent' \in Nat /\ tcmd' \in {"none", tcmd} /\ waits' \in BOOLEAN
<1>1. CASE LeavesCommand
  BY <1>1 DEF LeavesCommand
<1>2. CASE tsent' = tsent + heard /\ waits' = FALSE /\ tcmd' = tcmd
  <2>1. tsent + heard \in Nat
    BY DEF TypeOK
  <2> QED
    BY <1>2, <2>1
<1> QED
  BY <1>1, <1>2 DEF TakesReply

(* The acknowledgement of the driver reaches the target, or does not. *)
LEMMA HearsTyped ==
  ASSUME TypeOK, NEW bit \in {0, 1}, TargetHears(bit)
  PROVE  /\ UNCHANGED <<active, treq, mem>>
         /\ tsent' \in Nat /\ tcmd' \in {"none", tcmd} /\ waits' \in BOOLEAN
         /\ sound' \in BOOLEAN /\ (sound' => sound)
<1>1. ASSUME NEW heard \in {0, 1}, TakesReply(heard)
      PROVE  tsent' \in Nat /\ tcmd' \in {"none", tcmd} /\ waits' \in BOOLEAN
  BY <1>1, ReplyTyped
<1>2. /\ UNCHANGED <<active, treq, mem>>
      /\ \/ \E heard \in {0, 1} : TakesReply(heard) /\ sound' = (sound /\ heard = bit)
         \/ UNCHANGED <<tsent, tcmd, waits>> /\ sound' = (sound /\ ~(InRead /\ waits))
  BY DEF TargetHears
<1>3. sound' \in BOOLEAN /\ (sound' => sound)
  BY <1>2
<1>4. tsent' \in Nat /\ tcmd' \in {"none", tcmd} /\ waits' \in BOOLEAN
  BY <1>1, <1>2 DEF TypeOK
<1> QED
  BY <1>2, <1>3, <1>4

(* The returns, with success and with an error. *)
LEMMA ReturnBase ==
  ASSUME Base,
         \/ CommandRefused \/ NoAnswer \/ NoByte \/ ReplyNack \/ NotSynchronised
         \/ AllRead \/ Synchronised
  PROVE  Base'
<1>0. TypeOK /\ line \in Lines
  BY DEF Base, TypeOK
<1>1. /\ op' = "idle" /\ pc' = "idle" /\ args' = << >> /\ i' = 0 /\ dest' = dest
      /\ result' \in Int /\ got' \in Int
      /\ ps' \in {"open", "masked"} /\ state' = "open"
  BY <1>0 DEF CommandRefused, NoAnswer, NoByte, ReplyNack, NotSynchronised, AllRead,
       Synchronised, Return, TypeOK, SWIM_ERROR_NACK, SWIM_ERROR_READ_BIT_TIMEOUT,
       SWIM_ERROR_INVALID_TARGET_ID, SWIM_ERROR_SYNC_TIMEOUT_1, SWIM_ERROR_SYNC_TIMEOUT_2,
       ReadBitTimeout, Lines
<1>2. gpio' = AsInput(SWIM) \/ (gpio' = gpio /\ pc \notin Driving)
  BY DEF CommandRefused, NoAnswer, NoByte, ReplyNack, NotSynchronised, AllRead, Synchronised,
         Driving
<1>3. line' = line \/ line' \in {Quiet, BadByte("rest")}
  BY Kinds DEF CommandRefused, NoAnswer, NoByte, ReplyNack, NotSynchronised, AllRead,
               Synchronised
<1>4. UNCHANGED <<target, sound>> \/ TargetHears(0)
  BY DEF CommandRefused, NoAnswer, NoByte, ReplyNack, NotSynchronised, AllRead, Synchronised
<1>5. TypeOK'
  <2>1. line' \in Lines
    BY <1>0, <1>3, Kinds
  <2>2. gpio' \in Pinouts
    BY <1>0, <1>2, Pins DEF TypeOK, Pinouts
  <2>3. /\ active' \in BOOLEAN /\ tcmd' \in {"none", "rotf", "wotf"} /\ treq' \in Seq(Byte)
        /\ tsent' \in Nat /\ waits' \in BOOLEAN /\ mem' \in [Byte -> Byte] /\ sound' \in BOOLEAN
    BY <1>0, <1>4, HearsTyped DEF TypeOK, target
  <2> QED
    BY <1>0, <1>1, <2>1, <2>2, <2>3 DEF TypeOK, Pinouts
<1>6. Control' /\ Buffer'
  BY <1>0, <1>1, <1>2, Pins DEF Base, Control, Driving, Buffer
<1>7. Frames'
  <2>1. line.kind \notin {"cmd", "data"}
    BY DEF CommandRefused, NoAnswer, NoByte, ReplyNack, NotSynchronised, AllRead, Synchronised,
           Base, Frames, HearsAck
  <2> QED
    BY <1>3, <2>1, Kinds DEF Base, Frames
<1> QED
  BY <1>5, <1>6, <1>7 DEF Base

(* A byte of a read, its answer, and the entry pulses. *)
LEMMA ReceiveBase ==
  ASSUME Base, ReceiveByte
  PROVE  Base'
<1>0. TypeOK
  BY DEF Base
<1>1. /\ pc = "read" /\ pc' = "reply" /\ line' = Quiet /\ gpio' = AsOutput(SWIM)
      /\ got' = IF line.kind = "byte" THEN line.val ELSE -3
      /\ i < args[1]
      /\ UNCHANGED <<op, args, i, dest, result, ps, state, target, sound>>
  BY DEF ReceiveByte, SWIM_ERROR_PARITY
<1>2. got' \in Byte \/ got' = -3
  BY <1>1 DEF Base, Frames
<1>3. TypeOK'
  <2>1. got' \in Int
    BY <1>2, Constants DEF Byte
  <2> QED
    BY <1>0, <1>1, <2>1, Kinds, Pins DEF TypeOK, target, Pinouts
<1>4. Control'
  BY <1>0, <1>1, <1>2, Pins DEF Base, Control, Driving
<1>5. Buffer' /\ Frames'
  BY <1>1, Kinds DEF Base, Buffer, Count, Frames
<1> QED
  BY <1>3, <1>4, <1>5 DEF Base

LEMMA ReplyBase ==
  ASSUME Base, ReplyAck
  PROVE  Base'
<1>0. TypeOK /\ got \in Byte
  BY DEF Base, Control, ReplyAck, TypeOK
<1>1. /\ pc = "reply" /\ pc' = "read" /\ gpio' = AsInput(SWIM)
      /\ dest' = Append(dest, got) /\ got' = 0 /\ i' = i + 1
      /\ UNCHANGED <<op, args, result, ps, state, line>>
      /\ TargetHears(1)
  BY DEF ReplyAck
<1>2. /\ i \in Nat /\ dest \in Seq(Byte) /\ Len(dest) = i /\ i < args[1] /\ op = "rotf"
      /\ args[1] \in Nat
  <2>1. i \in Nat /\ dest \in Seq(Byte) /\ Len(dest) = i /\ i < args[1] /\ op = "rotf"
    BY <1>0, <1>1 DEF Base, Control, TypeOK
  <2>2. args \in Seq(Byte) /\ Len(args) > 0
    BY <1>0, <2>1 DEF Base, Buffer, TypeOK
  <2>3. args[1] \in Byte
    BY <2>2
  <2> QED
    BY <2>1, <2>3, Constants DEF Byte
<1>3. dest' \in Seq(Byte) /\ Len(dest') = i + 1
  BY <1>0, <1>1, <1>2
<1>4. TypeOK'
  <2>1. gpio' \in Pinouts
    BY <1>0, <1>1, Pins
  <2>2. /\ active' \in BOOLEAN /\ tcmd' \in {"none", "rotf", "wotf"} /\ treq' \in Seq(Byte)
        /\ tsent' \in Nat /\ waits' \in BOOLEAN /\ mem' \in [Byte -> Byte] /\ sound' \in BOOLEAN
    BY <1>0, <1>1, HearsTyped DEF TypeOK
  <2> QED
    BY <1>0, <1>1, <1>2, <1>3, <2>1, <2>2 DEF TypeOK, Pinouts
<1>5. Control'
  BY <1>0, <1>1, <1>2, <1>3, Pins DEF Base, Control, Driving
<1>6. Buffer' /\ Frames'
  BY <1>1 DEF Base, Buffer, Count, Frames
<1> QED
  BY <1>4, <1>5, <1>6 DEF Base

LEMMA PulsesBase ==
  ASSUME Base, EndPulses
  PROVE  Base'
<1>0. TypeOK
  BY DEF Base
<1>1. /\ pc = "pulses" /\ pc' = "sync" /\ gpio' = AsInput(SWIM) /\ line' = Quiet
      /\ state' = ps /\ ps' = "masked"
      /\ UNCHANGED <<op, args, i, dest, got, result, target, sound>>
  BY DEF EndPulses
<1>2. TypeOK'
  BY <1>0, <1>1, Kinds, Pins DEF TypeOK, target, Pinouts
<1>3. Control' /\ Buffer' /\ Frames'
  BY <1>0, <1>1, Kinds, Pins DEF Base, Control, Driving, Buffer, Count, Frames
<1> QED
  BY <1>2, <1>3 DEF Base
-----------------------------------------------------------------------------
(* A step of the target: what it puts on the wire, and its own state. *)
LEMMA TargetBase ==
  ASSUME Base, UNCHANGED driver,
         line' \in Lines, line'.from # "host", line'.kind \notin {"cmd", "data"},
         line'.kind = "byte" => line'.val \in Byte,
         active' \in BOOLEAN, tcmd' \in {"none", "rotf", "wotf"}, treq' \in Seq(Byte),
         tsent' \in Nat, waits' \in BOOLEAN, mem' \in [Byte -> Byte], sound' \in BOOLEAN
  PROVE  Base'
<1>1. TypeOK'
  BY DEF Base, TypeOK, driver
<1>2. Control' /\ Buffer' /\ Frames'
  BY DEF Base, Control, Buffer, Count, Frames, driver
<1> QED
  BY <1>1, <1>2 DEF Base

LEMMA TakesBase ==
  ASSUME Base, TargetTakes
  PROVE  Base'
<1>0. TypeOK
  BY DEF Base
<1>1. UNCHANGED <<driver, active>> /\ Answers(1)
  BY DEF TargetTakes, TargetTakesCommand, TargetTakesByte
<1>2. /\ line' \in Lines /\ line'.kind \in {"answer", "silence"} /\ line'.from # "host"
      /\ sound' \in BOOLEAN
  BY <1>1, Kinds DEF Answers
<1>3. CASE TargetTakesCommand
  <2>1. /\ line.val = Command /\ pc = "cmdAck"
        /\ treq' = << >> /\ tsent' = 0 /\ waits' = FALSE /\ mem' = mem
        /\ tcmd' = CASE line.val = 0 -> "none" [] line.val = 1 -> "rotf" [] line.val = 2 -> "wotf"
    BY <1>3 DEF TargetTakesCommand, Base, Frames
  <2>2. op \in {"srst", "rotf", "wotf"}
    BY <1>0, <2>1 DEF Base, Control, TypeOK
  <2>3. tcmd' \in {"none", "rotf", "wotf"}
    BY <2>1, <2>2 DEF Command
  <2>4. /\ tsent' \in Nat /\ waits' \in BOOLEAN
        /\ active' \in BOOLEAN /\ mem' \in [Byte -> Byte]
    BY <1>0, <1>1, <2>1 DEF TypeOK
  <2>6. treq' \in Seq(Byte)
    BY <2>1
  <2>5. line'.kind = "byte" => line'.val \in Byte
    BY <1>2
  <2> QED
    BY <1>1, <1>2, <2>3, <2>4, <2>5, <2>6, TargetBase
<1>4. CASE TargetTakesByte
  <2>1. /\ line.val = args[i + 1] /\ pc = "byteAck"
        /\ treq' = Append(treq, line.val) /\ UNCHANGED <<tsent, waits>>
        /\ tcmd' \in {"none", tcmd}
        /\ mem' = IF Len(treq) < Header THEN mem
                  ELSE [mem EXCEPT ![Cell(treq, Len(treq) - Header)] = line.val]
    BY <1>4 DEF TargetTakesByte, Base, Frames
  <2>2. line.val \in Byte
    BY <1>0, <2>1 DEF Base, Control, TypeOK
  <2>3. treq' \in Seq(Byte) /\ mem' \in [Byte -> Byte]
    <3>1. treq \in Seq(Byte) /\ mem \in [Byte -> Byte]
      BY <1>0 DEF TypeOK
    <3>2. mem' = mem \/ \E a : mem' = [mem EXCEPT ![a] = line.val]
      BY <2>1
    <3>3. treq' \in Seq(Byte)
      BY <2>1, <2>2, <3>1
    <3>4. mem' \in [Byte -> Byte]
      BY <2>2, <3>1, <3>2
    <3> QED
      BY <3>3, <3>4
  <2>4. active' \in BOOLEAN /\ tcmd' \in {"none", "rotf", "wotf"} /\ tsent' \in Nat
        /\ waits' \in BOOLEAN
    BY <1>0, <1>1, <2>1 DEF TypeOK
  <2> QED
    BY <1>1, <1>2, <2>3, <2>4, TargetBase
<1> QED
  BY <1>3, <1>4 DEF TargetTakes

LEMMA SendsBase ==
  ASSUME Base, TargetSends
  PROVE  Base'
<1>0. TypeOK
  BY DEF Base
<1>1. /\ UNCHANGED <<driver, active, tcmd, treq, tsent, mem>>
      /\ waits' = TRUE /\ sound' \in BOOLEAN
  BY <1>0 DEF TargetSends, TypeOK
<1>2. /\ line' \in Lines /\ line'.from # "host" /\ line'.kind \notin {"cmd", "data"}
      /\ line'.kind = "byte" => line'.val \in Byte
  <2>1. CASE line' = TargetByte(mem[Cell(treq, tsent)]) /\ InRead
    <3>1. Cell(treq, tsent) \in Byte
      <4>1. treq \in Seq(Byte) /\ Len(treq) >= Header /\ tsent \in Int
        BY <1>0, <2>1, Constants DEF TypeOK, InRead
      <4> QED
        BY <4>1, CellTyped
    <3>2. mem[Cell(treq, tsent)] \in Byte
      BY <1>0, <3>1 DEF TypeOK
    <3>3. mem[Cell(treq, tsent)] \in Int
      BY <3>2, Constants DEF Byte
    <3> HIDE DEF Cell
    <3> QED
      BY <2>1, <3>2, <3>3 DEF TargetByte, Lines
  <2>2. CASE line' \in {BadByte("oddBits"), BadByte("zeroStart"), Silence(-1), Silence(0),
                        Silence(8)}
    BY <2>2 DEF BadByte, Silence, Lines
  <2>3. CASE \E d \in Durations : line' = [from |-> "target", kind |-> "sync", val |-> d]
    BY <2>3, Constants DEF Lines
  <2> QED
    BY <2>1, <2>2, <2>3 DEF TargetSends
<1> QED
  BY <1>0, <1>1, <1>2, TargetBase DEF TypeOK

LEMMA OthersBase ==
  ASSUME Base,
         \/ TargetRefuses \/ TargetTakesForReply \/ TargetMisses
         \/ TargetQuiet \/ TargetFinishes \/ TargetSynchronises
  PROVE  Base'
<1>0. TypeOK
  BY DEF Base
<1>1. UNCHANGED <<driver, treq, mem>>
  BY DEF TargetRefuses, TargetTakesForReply, TargetMisses, TargetQuiet, TargetFinishes,
         TargetSynchronises, target
<1>2. /\ tcmd' \in {"none", tcmd} /\ tsent' \in Nat /\ waits' \in BOOLEAN /\ sound' \in BOOLEAN
      /\ active' \in BOOLEAN
  <2>1. UNCHANGED <<tcmd, tsent, waits>> \/ LeavesCommand \/ \E heard \in {0, 1} : TakesReply(heard)
    BY DEF TargetRefuses, TargetTakesForReply, TargetMisses, TargetQuiet, TargetFinishes,
           TargetSynchronises, target
  <2>2. tcmd' \in {"none", tcmd} /\ tsent' \in Nat /\ waits' \in BOOLEAN
    <3>1. CASE UNCHANGED <<tcmd, tsent, waits>>
      BY <1>0, <3>1 DEF TypeOK
    <3>2. CASE LeavesCommand
      BY <3>2 DEF LeavesCommand
    <3> QED
      BY <1>0, <2>1, <3>1, <3>2, ReplyTyped
  <2>3. sound' \in BOOLEAN /\ active' \in BOOLEAN
    BY <1>0 DEF TypeOK, TargetRefuses, TargetTakesForReply, TargetMisses, TargetQuiet,
                TargetFinishes, TargetSynchronises, target, Answers
  <2> QED
    BY <2>2, <2>3
<1>3. /\ line' \in Lines /\ line'.from # "host"
      /\ line'.kind \in {"answer", "silence", "quiet", "sync", "stuckLow"}
  <2>1. \/ line' \in {Answer(0), Answer(1), Silence(-1), Quiet, BadByte("stuckLow")}
        \/ \E d \in Durations : line' = [from |-> "target", kind |-> "sync", val |-> d]
    BY DEF TargetRefuses, TargetTakesForReply, TargetMisses, TargetQuiet, TargetFinishes,
           TargetSynchronises, Answers
  <2> QED
    BY <2>1, Constants DEF Answer, Silence, Quiet, BadByte, Lines
<1> QED
  BY <1>0, <1>1, <1>2, <1>3, TargetBase DEF TypeOK

LEMMA ResetsBase ==
  ASSUME Base, TargetResets
  PROVE  Base'
<1>1. UNCHANGED <<driver, line, treq, mem, sound>> /\ LeavesCommand /\ active' \in {FALSE, active}
  BY DEF TargetResets
<1>2. TypeOK'
  BY <1>1 DEF Base, TypeOK, driver, LeavesCommand
<1>3. Control' /\ Buffer' /\ Frames'
  BY <1>1 DEF Base, Control, Buffer, Count, Frames, Command, driver
<1> QED
  BY <1>2, <1>3 DEF Base

LEMMA BaseStep == Base /\ [Next]_vars => Base'
<1> SUFFICES ASSUME Base, [Next]_vars PROVE Base'
  OBVIOUS
<1>1. CASE Driver
  BY <1>1, SendBase, AnsweredBase, ReturnBase, ReceiveBase, ReplyBase, PulsesBase DEF Driver
<1>2. CASE Caller
  BY <1>2, CallBase, ResetPinBase DEF Caller
<1>3. CASE Target
  BY <1>3, TakesBase, SendsBase, OthersBase DEF Target
<1>4. CASE TargetResets
  BY <1>4, ResetsBase
<1>5. CASE UNCHANGED vars
  <2>1. TypeOK' /\ Control'
    BY <1>5 DEF vars, driver, target, Base, TypeOK, Control
  <2>2. Buffer' /\ Frames'
    BY <1>5 DEF vars, driver, target, Base, Buffer, Count, Frames, Command
  <2> QED
    BY <2>1, <2>2 DEF Base
<1> QED
  BY <1>1, <1>2, <1>3, <1>4, <1>5 DEF Next
-----------------------------------------------------------------------------
(* What driver and target know of each other, while nothing is misheard.   *)

(* A call starts, with the target outside of a read. *)
LEMMA CallShared ==
  ASSUME Base, NEW c \in Calls, Call(c) \/ StartEntry(c), sound'
  PROVE  Shared'
<1>0. TypeOK /\ pc = "idle" /\ line.from # "host"
  BY DEF Call, StartEntry, Base, Control, Frames
<1>1. ~InRead /\ line.from = "nobody"
  BY <1>0 DEF Call, StartEntry, Left, TypeOK, Lines
<1>2. /\ pc' \in {"cmd", "pulses"} /\ op' = c.op /\ op' # "idle" /\ UNCHANGED <<line, target>>
  BY CallsAssumption DEF Call, StartEntry
<1>3. Wire' /\ Agreed' /\ InStep' /\ SuccessLeavesTargetReady'
  BY <1>1, <1>2 DEF Wire, Agreed, InStep, SuccessLeavesTargetReady, Driving, InRead, target
<1> QED
  BY <1>3 DEF Shared

(* A step that leaves both ends and the wire alone. *)
LEMMA SameShared ==
  ASSUME Shared,
         UNCHANGED <<op, pc, args, i, dest, got, result, line, tcmd, treq, tsent, waits, sound>>,
         Command' = Command, Expected' = Expected, InRead' = InRead,
         HearsAck(0)' <=> HearsAck(0), HearsAck(1)' <=> HearsAck(1)
  PROVE  Shared'
<1>1. Wire'
  BY DEF Shared, Wire
<1>2. Agreed'
  BY DEF Shared, Agreed
<1>3. InStep' /\ SuccessLeavesTargetReady'
  BY DEF Shared, InStep, SuccessLeavesTargetReady
<1> QED
  BY <1>1, <1>2, <1>3 DEF Shared

LEMMA ResetPinShared ==
  ASSUME Base, Shared, NEW on \in Resets, ResetPin(on)
  PROVE  Shared'
<1>1. UNCHANGED <<op, pc, args, i, dest, got, result, line, target, sound>>
  BY DEF ResetPin
<1>2. (HearsAck(0) <=> HearsAck(0)') /\ (HearsAck(1) <=> HearsAck(1)')
  BY <1>1 DEF HearsAck
<1>3. /\ UNCHANGED <<op, pc, args, i, dest, got, result, line, tcmd, treq, tsent, waits, sound>>
      /\ Command' = Command /\ Expected' = Expected /\ InRead' = InRead
  BY <1>1 DEF Command, Expected, InRead, target
<1> QED
  BY <1>2, <1>3, SameShared

(* A frame of the driver. *)
LEMMA SendShared ==
  ASSUME Base, Shared, sound, SendCommand \/ SendByte
  PROVE  Shared'
<1>0. TypeOK
  BY DEF Base
<1>1. /\ \/ pc = "cmd" /\ pc' = "cmdAck" /\ line' = HostFrame("cmd", Command)
         \/ pc = "byte" /\ pc' = "byteAck" /\ line' = HostFrame("data", args[i + 1])
      /\ UNCHANGED <<op, args, i, dest, got, result, target, sound>>
  BY DEF SendCommand, SendByte, SendFrame
<1>2. ~HearsAck(0)' /\ ~HearsAck(1)'
  BY <1>1 DEF HearsAck, HostFrame
<1>3. pc = "byte" => treq = SubSeq(args, 1, i) /\ i \in Nat /\ i < Len(args)
                     /\ Len(treq) # Len(args) /\ tsent = 0 /\ tcmd \in Expected
  BY <1>0 DEF TypeOK, Base, Control, Shared, InStep, Agreed
<1>4. Expected' = Expected /\ Command' = Command /\ InRead' = InRead
  BY <1>1 DEF Expected, Command, InRead, target
<1>5. Wire'
  BY <1>1, <1>4 DEF Wire, Driving
<1>6. Agreed'
  BY <1>1, <1>2, <1>3, <1>4 DEF Shared, Agreed, target
<1>7. InStep'
  BY <1>1, <1>2, <1>3 DEF InStep, target
<1>8. SuccessLeavesTargetReady'
  BY <1>1 DEF Base, Control, SuccessLeavesTargetReady
<1> QED
  BY <1>5, <1>6, <1>7, <1>8 DEF Shared

(* The loop of send_command goes on, with n bytes taken by the target. *)
LEMMA ContinueShared ==
  ASSUME Base, Shared, sound, pc \in {"cmdAck", "byteAck"}, line.kind = "answer",
         NEW n \in Nat, n <= Len(args), Continue(n),
         treq = SubSeq(args, 1, n), tsent = 0, tcmd \in Expected,
         n = Len(args) /\ tcmd # "none" => op = "rotf" /\ args[1] > 0
  PROVE  Shared'
<1>0. TypeOK /\ dest = << >> /\ op \in {"srst", "rotf", "wotf"}
  BY DEF Base, TypeOK, Control
<1>1. /\ Count = IF op = "srst" THEN 0 ELSE Len(args)
      /\ op = "rotf" => Len(args) = Header
  BY <1>0 DEF Base, Buffer, Count
<1>2. /\ line' = Quiet
      /\ UNCHANGED <<dest, got, target, sound>>
  BY Kinds DEF Continue
<1>3. Len(treq) = n
  BY <1>0 DEF TypeOK
<1>4. CASE n < Count /\ i' = n /\ pc' = "byte" /\ UNCHANGED <<op, args, result>>
  <2>1. op \in {"rotf", "wotf"} /\ n < Len(args) /\ ~InRead
    BY <1>0, <1>1, <1>3, <1>4 DEF InRead, Expected
  <2>2. Wire'
    BY <1>2, <1>4, Kinds DEF Wire
  <2>3. Agreed'
    BY <1>2, <1>4, <2>1 DEF Agreed, Expected, InRead, target
  <2>4. InStep' /\ SuccessLeavesTargetReady'
    BY <1>0, <1>2, <1>4, <2>1 DEF InStep, SuccessLeavesTargetReady, target
  <2> QED
    BY <2>2, <2>3, <2>4 DEF Shared
<1>5. CASE n = Count /\ op = "rotf" /\ i' = 0 /\ pc' = "read"
             /\ UNCHANGED <<op, args, result>>
  <2>1. treq = args
    BY <1>0, <1>1, <1>5, WholePrefix DEF TypeOK
  <2>2. Wire'
    BY <1>2, <1>5, Kinds DEF Wire, Driving
  <2>3. tcmd \in {"none", "rotf"} /\ (tcmd = "rotf" => 0 < args[1])
    BY <1>1, <1>5 DEF Expected
  <2>4. Agreed' /\ InStep' /\ SuccessLeavesTargetReady'
    BY <1>0, <1>2, <1>5, <2>1, <2>3 DEF Agreed, InStep, SuccessLeavesTargetReady, target
  <2> QED
    BY <2>2, <2>4 DEF Shared
<1>6. CASE n = Count /\ op # "rotf" /\ Return(0)
  <2>1. tcmd = "none"
    BY <1>0, <1>1, <1>6 DEF Expected
  <2>2. Wire' /\ Agreed' /\ InStep' /\ SuccessLeavesTargetReady'
    BY <1>2, <1>6, <2>1, Kinds
       DEF Driving, Wire, Agreed, InStep, SuccessLeavesTargetReady, Return, target
  <2> QED
    BY <2>2 DEF Shared
<1> QED
  BY <1>4, <1>5, <1>6 DEF Continue

(* While it waits for an answer, the driver hears no start bit.            *)
LEMMA Answered ==
  ASSUME Shared, pc \in {"cmdAck", "byteAck"}, NEW bit \in {0, 1}, HearsAck(bit)
  PROVE  line = Answer(bit) /\ line.kind = "answer"
<1>1. \/ line.kind \in {"cmd", "data", "silence"}
      \/ line = Answer(0) \/ line = Answer(1)
  BY DEF Shared, Wire, HostFrame, Silence
<1>2. Answer(0).kind = "answer" /\ Answer(1).kind = "answer" /\ Answer(0).val = 0 /\ Answer(1).val = 1
  BY Kinds
<1>3. \/ line.kind = "answer" /\ line.val = bit
      \/ line.kind \in {"byte", "oddBits", "zeroStart"}
  BY DEF HearsAck
<1> QED
  BY <1>1, <1>2, <1>3

LEMMA CommandAckedShared ==
  ASSUME Base, Shared, sound, CommandAcked
  PROVE  Shared'
<1>1. pc = "cmdAck" /\ HearsAck(1) /\ Continue(0)
  BY DEF CommandAcked
<1>2. /\ treq = << >> /\ tsent = 0 /\ tcmd \in Expected
      /\ args \in Seq(Byte)
  BY <1>1 DEF Base, Shared, Agreed, TypeOK
<1>3. 0 = Len(args) /\ tcmd # "none" => op = "rotf" /\ args[1] > 0
  BY <1>1, <1>2 DEF Base, Buffer, Control, TypeOK, Expected
<1>4. line.kind = "answer"
  BY <1>1, Answered
<1>5. treq = SubSeq(args, 1, 0) /\ 0 <= Len(args)
  BY <1>2
<1> QED
  BY <1>1, <1>2, <1>3, <1>4, <1>5, ContinueShared

LEMMA ByteAnsweredShared ==
  ASSUME Base, Shared, sound, ByteAcked \/ ByteRefused
  PROVE  Shared'
<1>1. /\ pc = "byteAck" /\ i \in Nat /\ i < Len(args) /\ tsent = 0 /\ tcmd \in Expected
      /\ args \in Seq(Byte)
  BY DEF ByteAcked, ByteRefused, Base, Control, Shared, Agreed, TypeOK
<1>2. CASE ByteAcked
  <2>1. HearsAck(1) /\ Continue(i + 1)
    BY <1>2 DEF ByteAcked
  <2>2. treq = SubSeq(args, 1, i + 1)
    BY <1>1, <2>1 DEF Shared, InStep
  <2>3. i + 1 = Len(args) /\ tcmd # "none" => op = "rotf" /\ args[1] > 0
    BY <1>1, <2>2 DEF Shared, Agreed
  <2>4. line.kind = "answer"
    BY <1>1, <2>1, Answered
  <2> QED
    BY <1>1, <2>1, <2>2, <2>3, <2>4, ContinueShared
<1>3. CASE ByteRefused
  <2>1. HearsAck(0) /\ Continue(i)
    BY <1>3 DEF ByteRefused
  <2>2. treq = SubSeq(args, 1, i)
    BY <1>1, <2>1 DEF Shared, InStep
  <2>3. line.kind = "answer"
    BY <1>1, <2>1, Answered
  <2> QED
    BY <1>1, <2>1, <2>2, <2>3, ContinueShared
<1> QED
  BY <1>2, <1>3

(* The calls that end with an error promise nothing of the target. *)
LEMMA FailShared ==
  ASSUME Base, CommandRefused \/ NoAnswer \/ NoByte \/ ReplyNack \/ NotSynchronised
  PROVE  Shared'
<1>0. TypeOK
  BY DEF Base
<1>1. op' = "idle" /\ pc' = "idle" /\ ~(result' >= 0)
  BY <1>0 DEF CommandRefused, NoAnswer, NoByte, ReplyNack, NotSynchronised, Return, TypeOK,
       SWIM_ERROR_NACK, SWIM_ERROR_READ_BIT_TIMEOUT, SWIM_ERROR_INVALID_TARGET_ID,
       SWIM_ERROR_SYNC_TIMEOUT_1, SWIM_ERROR_SYNC_TIMEOUT_2, ReadBitTimeout, Lines
<1>2. Wire' /\ Agreed' /\ InStep' /\ SuccessLeavesTargetReady'
  BY <1>1 DEF Driving, Wire, Agreed, InStep, SuccessLeavesTargetReady
<1> QED
  BY <1>2 DEF Shared

LEMMA ReceiveShared ==
  ASSUME Base, Shared, sound, ReceiveByte
  PROVE  Shared'
<1>1. /\ pc = "read" /\ pc' = "reply" /\ line' = Quiet
      /\ line.kind \in {"byte", "oddBits"}
      /\ UNCHANGED <<op, args, i, dest, result, target, sound>>
  BY DEF ReceiveByte
<1>2. op' = "rotf"
  BY <1>1 DEF Base, Control
<1>3. Wire' /\ Agreed' /\ InStep' /\ SuccessLeavesTargetReady'
  BY <1>1, <1>2, Kinds DEF Shared, Wire, Driving, Agreed, InStep, SuccessLeavesTargetReady, target
<1> QED
  BY <1>3 DEF Shared

(* The ACK was heard, or the target was no longer there to hear it.        *)
LEMMA ReplyShared ==
  ASSUME Base, Shared, ReplyAck, sound'
  PROVE  Shared'
<1>0. TypeOK
  BY DEF Base
<1>1. /\ pc = "reply" /\ pc' = "read" /\ dest' = Append(dest, got) /\ i' = i + 1
      /\ UNCHANGED <<op, args, line>>
      /\ TargetHears(1)
  BY DEF ReplyAck
<1>2. sound /\ UNCHANGED <<treq, mem>>
  BY <1>0, <1>1, HearsTyped
<1>3. /\ op = "rotf" /\ Len(dest) = i /\ i < args[1] /\ i \in Nat /\ got \in Byte
      /\ dest \in Seq(Byte) /\ args \in Seq(Byte) /\ Len(args) = Header
  BY <1>0, <1>1 DEF Base, Control, Buffer, Count, TypeOK, ReplyAck
<1>4. args[1] \in Nat /\ tsent \in Nat
  <2>1. args[1] \in Byte
    BY <1>3, Constants
  <2> QED
    BY <1>0, <2>1, Constants DEF TypeOK, Byte
<1>5. line = Quiet /\ treq = args /\ tcmd \in {"none", "rotf"}
      /\ (tcmd = "rotf" => tsent = i /\ waits /\ InRead)
  BY <1>1, <1>2, <1>3 DEF Shared, Wire, Agreed, InStep, InRead
<1>6. \/ LeavesCommand
      \/ tcmd = "rotf" /\ tsent' = i + 1 /\ tcmd' = "rotf" /\ tsent + 1 # treq[1]
      \/ tcmd = "none" /\ tcmd' = "none"
  <2>1. CASE InRead /\ waits /\ \E heard \in {0, 1} : TakesReply(heard) /\ sound' = (sound /\ heard = 1)
    <3>1. TakesReply(1) /\ tcmd = "rotf"
      BY <2>1, <1>5 DEF InRead
    <3> QED
      BY <1>5, <3>1 DEF TakesReply
  <2>2. CASE UNCHANGED <<tsent, tcmd, waits>> /\ sound' = (sound /\ ~(InRead /\ waits))
    BY <1>5, <2>2
  <2> QED
    BY <1>1, <2>1, <2>2 DEF TargetHears
<1>7. /\ tcmd' \in {"none", "rotf"}
      /\ tcmd' = "rotf" => tsent' = i' /\ i' < args[1]
  BY <1>1, <1>3, <1>4, <1>5, <1>6 DEF LeavesCommand
<1>8. Len(dest') = i'
  BY <1>1, <1>3
<1>9. Wire'
  BY <1>1, <1>5, Kinds DEF Wire, Driving
<1>10. Agreed' /\ InStep' /\ SuccessLeavesTargetReady'
  BY <1>1, <1>2, <1>3, <1>5, <1>7, <1>8 DEF Agreed, InStep, SuccessLeavesTargetReady
<1> QED
  BY <1>9, <1>10 DEF Shared

LEMMA AllReadShared ==
  ASSUME Base, Shared, sound, AllRead
  PROVE  Shared'
<1>1. /\ pc = "read" /\ i = args[1] /\ op' = "idle" /\ pc' = "idle"
      /\ UNCHANGED <<line, target>>
  BY DEF AllRead, Return
<1>2. i \in Nat
  BY DEF Base, TypeOK
<1>3. tcmd = "none" /\ line.from # "target"
  BY <1>1, <1>2 DEF Shared, Agreed, Wire
<1>4. Wire' /\ Agreed' /\ InStep' /\ SuccessLeavesTargetReady'
  BY <1>1, <1>3 DEF Wire, Driving, Agreed, InStep, SuccessLeavesTargetReady, target
<1> QED
  BY <1>4 DEF Shared

(* swim_entry. *)
LEMMA EntryShared ==
  ASSUME Base, Shared, sound, EndPulses \/ Synchronised
  PROVE  Shared'
<1>1. CASE EndPulses
  <2>1. pc = "pulses" /\ pc' = "sync" /\ line' = Quiet /\ op' = "swim_entry"
        /\ UNCHANGED target
    BY <1>1 DEF EndPulses, Base, Control
  <2>2. Wire' /\ Agreed' /\ InStep' /\ SuccessLeavesTargetReady'
    BY <2>1, Kinds DEF Shared, Wire, Driving, Agreed, InStep, SuccessLeavesTargetReady, InRead, target
  <2> QED
    BY <2>2 DEF Shared
<1>2. CASE Synchronised
  <2>1. /\ pc = "sync" /\ line.kind = "sync" /\ op' = "idle" /\ pc' = "idle" /\ line' = Quiet
        /\ UNCHANGED target
    BY <1>2 DEF Synchronised, Return
  <2>2. tcmd = "none"
    BY <2>1, Kinds DEF Shared, Wire
  <2>3. Wire' /\ Agreed' /\ InStep' /\ SuccessLeavesTargetReady'
    BY <2>1, <2>2, Kinds DEF Wire, Driving, Agreed, InStep, SuccessLeavesTargetReady, target
  <2> QED
    BY <2>3 DEF Shared
<1> QED
  BY <1>1, <1>2
-----------------------------------------------------------------------------
(* What comes of an answer that is not taken for its opposite. *)
LEMMA AnsweredAsSent ==
  ASSUME sound', NEW bit \in {0, 1}, Answers(bit)
  PROVE  line' \in {Answer(bit), Silence(-1)}
<1>1. line' \in {Answer(0), Answer(1), Silence(-1)} /\ line' # Answer(1 - bit)
  BY DEF Answers
<1>2. \/ bit = 0 /\ 1 - bit = 1
      \/ bit = 1 /\ 1 - bit = 0
  OBVIOUS
<1> QED
  BY <1>1, <1>2

LEMMA TakesCommandShared ==
  ASSUME Base, Shared, sound', sound, TargetTakesCommand
  PROVE  Shared'
<1>0. TypeOK
  BY DEF Base
<1>1. /\ pc = "cmdAck" /\ line.val = Command
      /\ line' \in {Answer(1), Silence(-1)}
      /\ treq' = << >> /\ tsent' = 0
      /\ tcmd' = CASE line.val = 0 -> "none" [] line.val = 1 -> "rotf" [] line.val = 2 -> "wotf"
      /\ UNCHANGED driver
  BY AnsweredAsSent DEF TargetTakesCommand, Base, Frames
<1>2. op \in {"srst", "rotf", "wotf"}
  BY <1>0, <1>1 DEF Base, Control, TypeOK
<1>3. tcmd' \in Expected
  BY <1>1, <1>2 DEF Command, Expected
<1>4. ~InRead'
  BY <1>1, Constants DEF InRead
<1>5. Wire' /\ SuccessLeavesTargetReady'
  BY <1>1, <1>2 DEF Wire, Driving, SuccessLeavesTargetReady, driver
<1>6. Agreed' /\ InStep'
  BY <1>1, <1>3, <1>4 DEF Agreed, InStep, Expected, driver
<1> QED
  BY <1>5, <1>6 DEF Shared

LEMMA TakesByteShared ==
  ASSUME Base, Shared, sound', sound, TargetTakesByte
  PROVE  Shared'
<1>0. TypeOK
  BY DEF Base
<1>1. /\ pc = "byteAck" /\ line.val = args[i + 1] /\ line.kind = "data" /\ tcmd # "none"
      /\ line' \in {Answer(1), Silence(-1)}
      /\ treq' = Append(treq, line.val)
      /\ tcmd' = IF Len(treq') < Header
                      \/ treq'[1] > (IF tcmd = "rotf" THEN 0 ELSE Len(treq') - Header)
                 THEN tcmd ELSE "none"
      /\ UNCHANGED <<driver, active, tsent>>
  BY AnsweredAsSent DEF TargetTakesByte, Base, Frames
<1>2. /\ i \in Nat /\ i < Len(args) /\ args \in Seq(Byte) /\ args[i + 1] \in Byte
      /\ tsent = 0 /\ tcmd = op /\ op \in {"rotf", "wotf"}
  BY <1>0, <1>1 DEF Base, Control, Shared, Agreed, TypeOK, Expected
<1>3. treq = SubSeq(args, 1, i)
  BY <1>1 DEF Shared, InStep
<1>4. treq' = SubSeq(args, 1, i + 1) /\ Len(treq') = i + 1
  BY <1>1, <1>2, <1>3
<1>5. Len(treq') = Len(args) /\ tcmd' # "none" => op = "rotf" /\ args[1] > 0
  <2>1. SUFFICES ASSUME Len(treq') = Len(args), tcmd' # "none"
                 PROVE  op = "rotf" /\ args[1] > 0
    OBVIOUS
  <2>2. treq' = args
    BY <1>2, <1>4, <2>1, WholePrefix
  <2>3. Len(args) = (IF op = "rotf" THEN Header ELSE Header + args[1])
    BY <1>2 DEF Base, Buffer, Count
  <2>4. args[1] \in Nat
    BY <1>2, Constants DEF Byte
  <2> QED
    BY <1>1, <1>2, <2>1, <2>2, <2>3, <2>4, Constants
<1>6. tcmd' \in {"none", op}
  BY <1>1, <1>2
<1>7. Wire' /\ SuccessLeavesTargetReady'
  BY <1>1, <1>2 DEF Wire, Driving, SuccessLeavesTargetReady, driver
<1>8. Agreed'
  BY <1>1, <1>2, <1>5, <1>6 DEF Agreed, Expected, driver
<1>9. InStep'
  BY <1>1, <1>4, Kinds DEF InStep, HearsAck, driver
<1> QED
  BY <1>7, <1>8, <1>9 DEF Shared

LEMMA RefusesShared ==
  ASSUME Base, Shared, sound', sound, TargetRefuses \/ TargetMisses
  PROVE  Shared'
<1>0. TypeOK
  BY DEF Base
<1>1. /\ pc \in {"cmdAck", "byteAck"} /\ line.from = "host"
      /\ line' \in {Answer(0), Silence(-1)}
      /\ UNCHANGED <<driver, treq, mem>>
      /\ LeavesCommand \/ UNCHANGED <<tcmd, tsent, waits>>
  <2>1. line.from = "host" /\ pc \in {"cmdAck", "byteAck"}
    BY DEF TargetRefuses, TargetMisses, Base, Frames
  <2> QED
    BY <2>1, AnsweredAsSent DEF TargetRefuses, TargetMisses, target
<1>2. ~HearsAck(1)'
  BY <1>1, Kinds DEF HearsAck
<1>3. pc = "byteAck" => treq = SubSeq(args, 1, i)
  BY <1>1 DEF Shared, InStep, Base, Frames
<1>4. /\ tcmd' \in {"none", tcmd} /\ (tsent = 0 => tsent' = 0)
      /\ InRead' => InRead
  BY <1>1 DEF LeavesCommand, InRead
<1>5. Wire' /\ SuccessLeavesTargetReady'
  BY <1>1 DEF Base, Control, Wire, Driving, SuccessLeavesTargetReady, driver
<1>6. Agreed'
  BY <1>1, <1>2, <1>4 DEF Shared, Agreed, Expected, driver
<1>7. InStep'
  BY <1>1, <1>2, <1>3 DEF InStep, driver
<1> QED
  BY <1>5, <1>6, <1>7 DEF Shared

(* The target sends only to a driver that listens. *)
LEMMA SendsShared ==
  ASSUME Base, Shared, sound', sound, TargetSends
  PROVE  Shared'
<1>0. TypeOK
  BY DEF Base
<1>1. /\ UNCHANGED <<driver, tcmd, treq, tsent, mem>> /\ waits' = TRUE
      /\ InRead /\ ~waits /\ pc \notin {"cmdAck", "byteAck"} /\ tcmd = "rotf"
  BY DEF TargetSends, InRead
<1>2. pc \in {"idle", "read"}
  <2>1. pc \notin {"cmd", "pulses", "sync", "byte", "reply"}
    BY <1>1 DEF Shared, Agreed, Wire
  <2> QED
    BY <1>0, <1>1, <2>1 DEF TypeOK
<1>3. line'.kind \in {"byte", "oddBits", "zeroStart", "silence"}
  BY <1>2 DEF TargetSends, TargetByte, BadByte, Silence
<1>4. pc = "read" => i < args[1]
  BY <1>1 DEF Shared, Agreed
<1>5. Wire'
  BY <1>1, <1>2, <1>3, <1>4 DEF Wire, Driving, driver
<1>6. Agreed' /\ InStep'
  BY <1>1, <1>2 DEF Shared, Agreed, InStep, driver
<1>7. SuccessLeavesTargetReady'
  BY <1>1, <1>2 DEF Shared, SuccessLeavesTargetReady, driver
<1> QED
  BY <1>5, <1>6, <1>7 DEF Shared

(* No frame comes to a target that waits for an acknowledgement. *)
LEMMA NotForReply ==
  ASSUME Base, Shared, sound
  PROVE  ~TargetTakesForReply
<1>1. SUFFICES ASSUME line.from = "host", InRead
               PROVE  FALSE
  BY DEF TargetTakesForReply
<1>2. pc \in {"cmdAck", "byteAck"} /\ TypeOK /\ line.kind \in {"cmd", "data"}
  BY <1>1 DEF Base, Frames
<1>3. pc = "byteAck"
  BY <1>1, <1>2 DEF Shared, Agreed
<1>4. treq = SubSeq(args, 1, i) /\ tcmd \in Expected
  BY <1>2, <1>3 DEF Shared, InStep, Agreed
<1>5. op = "rotf" /\ i < Len(args) /\ Len(args) = Header /\ i \in Nat /\ args \in Seq(Byte)
  BY <1>1, <1>2, <1>3, <1>4 DEF Base, Control, Buffer, Count, Expected, InRead, TypeOK
<1>6. Len(treq) = i
  BY <1>4, <1>5
<1> QED
  BY <1>1, <1>5, <1>6, Constants DEF InRead

LEMMA QuietShared ==
  ASSUME Base, Shared, sound', sound, TargetQuiet \/ TargetFinishes
  PROVE  Shared'
<1>1. /\ line' \in {Silence(-1), Quiet} /\ UNCHANGED <<driver, target>>
      /\ pc \in {"read", "idle", "cmd", "byte", "pulses"}
  BY DEF TargetQuiet, TargetFinishes
<1>2. line'.from = "nobody" /\ line'.kind \in {"silence", "quiet"}
  BY <1>1, Kinds
<1>3. Wire'
  BY <1>1, <1>2 DEF Wire, Driving, driver
<1>4. Agreed' /\ InStep' /\ SuccessLeavesTargetReady'
  BY <1>1, <1>2 DEF Shared, Agreed, InStep, SuccessLeavesTargetReady, Expected, InRead, driver, target
<1> QED
  BY <1>3, <1>4 DEF Shared

LEMMA SynchronisesShared ==
  ASSUME Base, Shared, sound', sound, TargetSynchronises
  PROVE  Shared'
<1>1. /\ pc = "sync" /\ UNCHANGED <<driver, treq, mem>>
      /\ LeavesCommand \/ UNCHANGED <<tcmd, tsent, waits>>
  BY DEF TargetSynchronises
<1>2. line'.kind \in {"stuckLow", "silence"} \/ (line'.kind = "sync" /\ tcmd' = "none")
  BY DEF TargetSynchronises, BadByte, Silence, LeavesCommand
<1>3. InRead' => InRead
  BY <1>1 DEF InRead, LeavesCommand
<1>4. op = "swim_entry"
  BY <1>1 DEF Base, Control
<1>5. Wire' /\ Agreed' /\ InStep' /\ SuccessLeavesTargetReady'
  BY <1>1, <1>2, <1>3, <1>4
     DEF Shared, Wire, Driving, Agreed, InStep, SuccessLeavesTargetReady, driver
<1> QED
  BY <1>5 DEF Shared

LEMMA ResetsShared ==
  ASSUME Base, Shared, sound, TargetResets
  PROVE  Shared'
<1>1. LeavesCommand /\ UNCHANGED <<driver, line, treq, mem, sound>>
  BY DEF TargetResets
<1>2. tcmd' = "none" /\ tsent' = 0 /\ ~InRead'
  BY <1>1 DEF LeavesCommand, InRead
<1>3. (HearsAck(0) <=> HearsAck(0)') /\ (HearsAck(1) <=> HearsAck(1)')
  BY <1>1 DEF HearsAck
<1>4. Wire'
  BY <1>1, <1>2 DEF Shared, Wire, Command, driver
<1>5. Agreed' /\ InStep' /\ SuccessLeavesTargetReady'
  BY <1>1, <1>2, <1>3 DEF Shared, Agreed, Expected, InStep, SuccessLeavesTargetReady, driver
<1> QED
  BY <1>4, <1>5 DEF Shared

LEMMA UnchangedShared ==
  ASSUME Shared, UNCHANGED vars
  PROVE  Shared'
<1>1. UNCHANGED <<op, pc, args, i, dest, got, result, line, sound, tcmd, treq, tsent, waits>>
  BY DEF vars, driver, target
<1>2. (HearsAck(0) <=> HearsAck(0)') /\ (HearsAck(1) <=> HearsAck(1)')
  BY <1>1 DEF HearsAck
<1>3. Command' = Command /\ Expected' = Expected /\ InRead' = InRead
  BY <1>1 DEF Command, Expected, InRead
<1> QED
  BY <1>1, <1>2, <1>3, SameShared
-----------------------------------------------------------------------------
(* Only a new call makes the acknowledgements count again. *)
LEMMA StaysSound ==
  ASSUME TypeOK, [Next]_vars, sound', ~\E c \in Calls : Call(c) \/ StartEntry(c)
  PROVE  sound
<1>1. CASE Driver
  BY <1>1, HearsTyped DEF Driver, SendCommand, SendByte, SendFrame, CommandAcked,
     CommandRefused, ByteAcked, ByteRefused, NoAnswer, Continue, ReceiveByte, ReplyAck,
     ReplyNack, NoByte, AllRead, EndPulses, Synchronised, NotSynchronised
<1>2. CASE Caller \/ Target \/ TargetResets \/ UNCHANGED vars
  BY <1>2 DEF Caller, Target, TargetTakes, TargetTakesCommand, TargetTakesByte, TargetRefuses,
     TargetTakesForReply, TargetMisses, TargetSends, TargetQuiet, TargetFinishes,
     TargetSynchronises, TargetResets, ResetPin, Answers, vars
<1> QED
  BY <1>1, <1>2 DEF Next

LEMMA StepInv == IInv /\ [Next]_vars => IInv'
<1> SUFFICES ASSUME IInv, [Next]_vars PROVE IInv'
  OBVIOUS
<1>0. Base /\ Base' /\ TypeOK
  BY BaseStep DEF IInv, Base
<1>1. ASSUME sound' PROVE Shared'
  <2>1. CASE \E c \in Calls : Call(c) \/ StartEntry(c)
    BY <1>0, <1>1, <2>1, CallShared
  <2>2. CASE ~\E c \in Calls : Call(c) \/ StartEntry(c)
    <3>1. sound /\ Shared
      BY <1>0, <1>1, <2>2, StaysSound DEF IInv
    <3>2. CASE SendCommand \/ SendByte \/ CommandAcked \/ ByteAcked \/ ByteRefused
      BY <1>0, <3>1, <3>2, SendShared, CommandAckedShared, ByteAnsweredShared
    <3>3. CASE CommandRefused \/ NoAnswer \/ NoByte \/ ReplyNack \/ NotSynchronised
      BY <1>0, <3>3, FailShared
    <3>4. CASE ReceiveByte \/ ReplyAck \/ AllRead \/ EndPulses \/ Synchronised
      BY <1>0, <1>1, <3>1, <3>4, ReceiveShared, ReplyShared, AllReadShared, EntryShared
    <3>5. CASE \E on \in Resets : ResetPin(on)
      BY <1>0, <3>1, <3>5, ResetPinShared
    <3>6. CASE Target
      BY <1>0, <1>1, <3>1, <3>6, TakesCommandShared, TakesByteShared, RefusesShared,
         SendsShared, NotForReply, QuietShared, SynchronisesShared DEF Target, TargetTakes
    <3>7. CASE TargetResets
      BY <1>0, <3>1, <3>7, ResetsShared
    <3>8. CASE UNCHANGED vars
      BY <3>1, <3>8, UnchangedShared
    <3> QED
      BY <2>2, <3>2, <3>3, <3>4, <3>5, <3>6, <3>7, <3>8 DEF Next, Driver, Caller
  <2> QED
    BY <2>1, <2>2
<1> QED
  BY <1>0, <1>1 DEF IInv

LEMMA Invariant == Spec => []IInv
BY InitInv, StepInv, PTL DEF Spec

(* The variables of the driver and the target keep their types, memory      *)
(* accesses of the target among them, whatever either mishears.             *)
THEOREM TypeCorrect == Spec => []TypeOK
BY Invariant, PTL DEF IInv, Base

(* Driver and target send at once only after an acknowledgement was         *)
(* misheard or a call has left the target in a read.                        *)
THEOREM NoContentionAlways == Spec => []NoContention
<1>1. IInv => NoContention
  BY DEF IInv, Base, Control, Shared, Wire, Driving, NoContention
<1> QED
  BY <1>1, Invariant, PTL

(* send_command's index counts the bytes the target has taken, and rotf's   *)
(* the bytes it has delivered, while acknowledgements are heard as sent.    *)
THEOREM InStepAlways == Spec => []InStep
<1>1. IInv => InStep
  BY DEF IInv, Shared, InStep
<1> QED
  BY <1>1, Invariant, PTL

(* After a success the target waits for a command and sends nothing, if all *)
(* acknowledgements of the call were heard.                                 *)
THEOREM SuccessMeansReady == Spec => []SuccessLeavesTargetReady
<1>1. IInv => SuccessLeavesTargetReady
  BY DEF IInv, Shared, SuccessLeavesTargetReady
<1> QED
  BY <1>1, Invariant, PTL
-----------------------------------------------------------------------------
(***************************************************************************)
(* SwimLink implements MemoryPort: proofs for every memory, count, address *)
(* length and fault of the wire and the target.  While nothing is misheard *)
(* a step of the driver or the target is one step of the port on its data  *)
(* or leaves it alone; in a call with a misheard acknowledgement it is the *)
(* step of which the port promises little.                                 *)
(***************************************************************************)

(* What rotf is about to store is what the memory holds. *)
Fetched ==
  /\ pc = "read" /\ line.kind = "byte" =>
       i < args[1] /\ line.val = mem[Cell(args, i)]
  /\ pc = "reply" /\ got >= 0 =>
       i < args[1] /\ got = mem[Cell(args, i)]

LEMMA CallsElsewhere ==
  ASSUME NEW c \in Calls, Call(c) \/ StartEntry(c)
  PROVE  Fetched'
BY DEF Call, StartEntry, Fetched

LEMMA FetchedStep ==
  ASSUME Base, Shared, sound, sound', Fetched, [Next]_vars
  PROVE  Fetched'
<1>0. TypeOK
  BY DEF Base
<1>1. CASE pc' \notin {"read", "reply"}
  BY <1>1 DEF Fetched
<1>2. CASE pc' \in {"read", "reply"} /\ pc \notin {"read", "reply"}
  <2>1. CommandAcked \/ ByteAcked \/ ByteRefused
    BY <1>2 DEF Next, Driver, Caller, Target, TargetTakes, SendCommand, SendByte, SendFrame,
         CommandRefused, NoAnswer, Return,
         ReceiveByte, ReplyAck, ReplyNack, NoByte, AllRead, EndPulses, Synchronised,
         NotSynchronised, Call, StartEntry, ResetPin, TargetTakesCommand, TargetTakesByte,
         TargetRefuses, TargetTakesForReply, TargetMisses, TargetSends, TargetQuiet,
         TargetFinishes, TargetSynchronises, TargetResets, vars, driver
  <2>2. line.kind = "answer" /\ pc' = "read" /\ line' = Rest
    <3>1. pc \in {"cmdAck", "byteAck"} /\ (HearsAck(0) \/ HearsAck(1))
      BY <2>1 DEF CommandAcked, ByteAcked, ByteRefused
    <3>2. pc' = "read" /\ line' = Rest
      BY <1>2, <2>1 DEF CommandAcked, ByteAcked, ByteRefused, Continue, Return
    <3> QED
      BY <3>1, <3>2, Answered
  <2> QED
    BY <2>2, Kinds DEF Fetched
<1>3. CASE pc' \in {"read", "reply"} /\ pc \in {"read", "reply"}
  <2>0. line.from # "host" /\ pc \notin {"idle", "sync", "cmd", "cmdAck", "byte", "byteAck", "pulses"}
    BY <1>3 DEF Base, Frames
  <2>1. \/ ReceiveByte \/ ReplyAck \/ TargetSends \/ TargetQuiet \/ TargetResets \/ UNCHANGED vars
    BY <1>3, <2>0 DEF Next, Driver, Caller, Target, TargetTakes, SendCommand, SendByte,
         SendFrame, CommandAcked, CommandRefused, ByteAcked, ByteRefused, NoAnswer, Return,
         ReplyNack, NoByte, AllRead, EndPulses, Synchronised, NotSynchronised, Call,
         StartEntry, ResetPin, Base, Control, Frames, TargetTakesCommand, TargetTakesByte,
         TargetRefuses, TargetTakesForReply, TargetMisses, TargetFinishes, TargetSynchronises
  <2>2. CASE ReceiveByte
    BY <2>2, Constants DEF ReceiveByte, Fetched, SWIM_ERROR_PARITY, target
  <2>3. CASE ReplyAck
    BY <2>3, Kinds DEF ReplyAck, Fetched, Shared, Wire
  <2>4. CASE TargetSends
    <3>1. /\ UNCHANGED <<driver, mem>> /\ InRead /\ tcmd = "rotf" /\ ~waits
          /\ line' \in {TargetByte(mem[Cell(treq, tsent)]), BadByte("oddBits"),
                        BadByte("zeroStart"), Silence(-1), Silence(0), Silence(8)}
      BY <2>0, <2>4 DEF TargetSends, InRead
    <3>2. pc = "read" /\ i < args[1] /\ treq = args /\ tsent = i
      BY <1>3, <3>1 DEF Shared, Wire, Agreed, InStep
    <3>3. line'.kind = "byte" => line'.val = mem[Cell(treq, tsent)]
      BY <3>1 DEF TargetByte, BadByte, Silence
    <3>4. line'.kind = "byte" => line'.val = mem'[Cell(args, i)]
      BY <3>1, <3>2, <3>3
    <3> QED
      BY <3>1, <3>2, <3>4 DEF Fetched, driver, Cell
  <2>5. CASE TargetQuiet \/ TargetResets \/ UNCHANGED vars
    <3>1. CASE TargetQuiet
      <4>1. UNCHANGED driver /\ UNCHANGED target /\ line' = Silence(-1)
        BY <3>1 DEF TargetQuiet
      <4>2. line'.kind = "silence"
        BY <4>1 DEF Silence
      <4> QED
        BY <4>1, <4>2 DEF Fetched, driver, target
    <3>2. CASE TargetResets
      <4>1. UNCHANGED driver /\ UNCHANGED line /\ UNCHANGED mem
        BY <3>2 DEF TargetResets
      <4> QED
        BY <4>1 DEF Fetched, driver, Cell
    <3>3. CASE UNCHANGED vars
      BY <3>3 DEF Fetched, vars, driver, target, Cell
    <3> QED
      BY <2>5, <3>1, <3>2, <3>3
  <2> QED
    BY <2>1, <2>2, <2>3, <2>4, <2>5
<1> QED
  BY <1>1, <1>2, <1>3
-----------------------------------------------------------------------------
(* The bytes moved, in this state and in the next. *)
LEMMA MovedIs ==
  /\ op = "wotf" /\ pc \in {"byte", "byteAck"} /\ Len(treq) > Header =>
       Moved = Len(treq) - Header
  /\ op = "rotf" /\ pc \in {"read", "reply"} => Moved = i
  /\ ~(op = "wotf" /\ pc \in {"byte", "byteAck"} /\ Len(treq) > Header)
       /\ ~(op = "rotf" /\ pc \in {"read", "reply"}) => Moved = 0
BY DEF Moved

LEMMA MovedIsNext ==
  /\ op' = "wotf" /\ pc' \in {"byte", "byteAck"} /\ Len(treq') > Header =>
       Moved' = Len(treq') - Header
  /\ op' = "rotf" /\ pc' \in {"read", "reply"} => Moved' = i'
  /\ ~(op' = "wotf" /\ pc' \in {"byte", "byteAck"} /\ Len(treq') > Header)
       /\ ~(op' = "rotf" /\ pc' \in {"read", "reply"}) => Moved' = 0
BY DEF Moved

LEMMA InitPort == Init => Port!Init
BY MovedIs DEF Init, Port!Init

LEMMA BeginStep ==
  ASSUME NEW c \in Calls, Call(c) \/ StartEntry(c)
  PROVE  Port!Begin
<1>1. Moved' = 0
  BY MovedIsNext DEF Call, StartEntry
<1>2. sound' \in BOOLEAN
  BY DEF Call, StartEntry
<1> QED
  BY <1>1, <1>2 DEF Call, StartEntry, Port!Begin, target

(* The steps that move nothing. *)
LEMMA StutterStep ==
  ASSUME UNCHANGED <<op, args, dest, mem, result, sound>>, Moved' = Moved
  PROVE  UNCHANGED Port!vars
BY DEF Port!vars

LEMMA Stutters ==
  ASSUME Base, Shared, sound' = sound,
         \/ SendCommand \/ SendByte \/ ReceiveByte \/ EndPulses \/ ByteRefused
         \/ TargetTakesCommand \/ TargetRefuses \/ TargetMisses \/ TargetQuiet
         \/ TargetFinishes \/ TargetSends \/ TargetSynchronises \/ TargetResets
         \/ UNCHANGED vars \/ \E on \in Resets : ResetPin(on)
  PROVE  UNCHANGED Port!vars
<1>0. TypeOK
  BY DEF Base
<1>1. CASE \/ TargetRefuses \/ TargetMisses \/ TargetSends \/ TargetQuiet \/ TargetFinishes
           \/ TargetSynchronises \/ TargetResets \/ UNCHANGED vars
           \/ \E on \in Resets : ResetPin(on)
  <2>1. UNCHANGED <<op, pc, args, i, dest, mem, result, treq>>
    BY <1>1 DEF TargetRefuses, TargetMisses, TargetSends, TargetQuiet, TargetFinishes,
         TargetSynchronises, TargetResets, ResetPin, driver, target, vars
  <2> QED
    BY <2>1, StutterStep DEF Moved
<1>2. CASE SendCommand \/ EndPulses \/ TargetTakesCommand
  <2>1. UNCHANGED <<op, args, dest, mem, result>>
    BY <1>2 DEF SendCommand, SendFrame, EndPulses, TargetTakesCommand, driver, target
  <2>2. pc \in {"cmd", "cmdAck", "pulses"} /\ pc' \in {"cmdAck", "sync"}
    BY <1>2 DEF SendCommand, SendFrame, EndPulses, TargetTakesCommand, driver, Base, Frames
  <2>3. Moved = 0 /\ Moved' = 0
    BY <2>2, MovedIs, MovedIsNext
  <2> QED
    BY <2>1, <2>3, StutterStep
<1>3. CASE SendByte \/ ByteRefused
  <2>1. ByteRefused => pc = "byteAck" /\ Continue(i) /\ i # Count
    <3>1. ByteRefused => pc = "byteAck" /\ Continue(i)
      BY DEF ByteRefused
    <3>2. pc = "byteAck" => i < Len(args) /\ i \in Nat /\ Len(args) = Count
      BY <1>0 DEF Base, Control, Buffer, TypeOK
    <3> QED
      BY <3>1, <3>2
  <2>2. /\ UNCHANGED <<op, args, dest, mem, result, treq>>
        /\ pc \in {"byte", "byteAck"} /\ pc' \in {"byte", "byteAck"}
    BY <1>3, <2>1 DEF SendByte, SendFrame, Continue, target
  <2>3. Moved' = Moved
    BY <2>2, MovedIs, MovedIsNext
  <2> QED
    BY <2>2, <2>3, StutterStep
<1>4. CASE ReceiveByte
  <2>1. /\ UNCHANGED <<op, args, i, dest, mem, result>> /\ op = "rotf"
        /\ pc = "read" /\ pc' = "reply"
    BY <1>4 DEF ReceiveByte, Base, Control, target
  <2> QED
    BY <2>1, MovedIs, MovedIsNext, StutterStep
<1> QED
  BY <1>1, <1>2, <1>3, <1>4

(* A frame that the target takes stores its byte, or belongs to the header. *)
LEMMA StoreStep ==
  ASSUME Base, Shared, sound, sound' = sound, TargetTakesByte
  PROVE  Port!Store \/ UNCHANGED Port!vars
<1>0. TypeOK
  BY DEF Base
<1>1. /\ pc = "byteAck" /\ line.val = args[i + 1] /\ tcmd # "none"
      /\ tcmd = "rotf" => Len(treq) < Header
      /\ treq' = Append(treq, line.val)
      /\ mem' = IF Len(treq) < Header THEN mem
                ELSE [mem EXCEPT ![Cell(treq, Len(treq) - Header)] = line.val]
      /\ UNCHANGED <<op, pc, args, dest, result>>
  BY DEF TargetTakesByte, driver, Base, Frames
<1>2. /\ i \in Nat /\ i < Len(args) /\ args \in Seq(Byte)
      /\ treq = SubSeq(args, 1, i)
      /\ tcmd = op /\ op \in {"rotf", "wotf"}
  BY <1>0, <1>1 DEF Base, Control, Shared, Agreed, TypeOK, Expected, TargetTakesByte, InStep
<1>3. Len(treq) = i /\ Len(treq') = i + 1 /\ \A k \in 1 .. i : treq[k] = args[k]
  BY <1>1, <1>2
<1>4. CASE i < Header
  <2>1. mem' = mem
    BY <1>1, <1>3, <1>4
  <2>2. ~(Len(treq) > Header) /\ ~(Len(treq') > Header)
    BY <1>2, <1>3, <1>4, Constants
  <2>3. Moved = 0 /\ Moved' = 0
    BY <1>1, <2>2, MovedIs, MovedIsNext
  <2> QED
    BY <1>1, <2>1, <2>3, StutterStep
<1>5. CASE i >= Header
  <2>1. op = "wotf" /\ ~(Len(treq) < Header)
    BY <1>1, <1>2, <1>3, <1>5, Constants
  <2>2. Moved = i - Header
    BY <1>1, <1>2, <1>3, <1>5, <2>1, Constants, MovedIs
  <2>3. Moved' = i + 1 - Header
    BY <1>1, <1>2, <1>3, <1>5, <2>1, Constants, MovedIsNext
  <2>4. treq[Header] = args[Header]
    BY <1>2, <1>3, <1>5, Constants
  <2>5. Len(args) = Header + args[1] /\ args[1] \in Int
    <3>1. args[1] \in Byte
      BY <1>2
    <3> QED
      BY <2>1, <3>1, Constants DEF Base, Buffer, Count, Byte
  <2>6. /\ Len(treq) - Header = Moved
        /\ i + 1 = Header + Moved + 1
        /\ Moved' = Moved + 1
        /\ Moved < args[1]
    BY <1>2, <1>3, <2>2, <2>3, <2>5, Constants
  <2>7. Cell(treq, Len(treq) - Header) = Cell(args, Moved)
    BY <2>4, <2>6 DEF Cell
  <2>8. mem' = [mem EXCEPT ![Cell(args, Moved)] = args[Header + Moved + 1]]
    <3>1. mem' = [mem EXCEPT ![Cell(treq, Len(treq) - Header)] = args[i + 1]]
      BY <1>1, <2>1
    <3> QED
      BY <2>6, <2>7, <3>1
  <2> QED
    BY <1>1, <2>1, <2>6, <2>8 DEF Port!Store, Port!Size
<1> QED
  BY <1>2, <1>4, <1>5, Constants

(* An acknowledged byte of a read is fetched. *)
LEMMA FetchStep ==
  ASSUME Base, Fetched, sound, sound' = sound, ReplyAck
  PROVE  Port!Fetch
<1>1. /\ pc = "reply" /\ op = "rotf" /\ pc' = "read" /\ i' = i + 1
      /\ dest' = Append(dest, got)
      /\ UNCHANGED <<op, args, result, mem>>
  BY DEF ReplyAck, TargetHears, Base, Control
<1>2. i < args[1] /\ got = mem[Cell(args, i)]
  BY <1>1 DEF Fetched, ReplyAck
<1>3. Moved = i /\ Moved' = i + 1
  BY <1>1, MovedIs, MovedIsNext
<1> QED
  BY <1>1, <1>2, <1>3 DEF Port!Fetch, Port!Size
-----------------------------------------------------------------------------
(* The end of a call: with everything moved, or with an error. *)
LEMMA EndStep ==
  ASSUME op # "idle", result' \in Int,
         op' = "idle", pc' = "idle", args' = << >>, UNCHANGED <<dest, mem>>
  PROVE  Port!End
<1>1. Moved' = 0
  BY MovedIsNext
<1> QED
  BY <1>1 DEF Port!End

LEMMA FailStep ==
  ASSUME Base, CommandRefused \/ NoAnswer \/ NoByte \/ ReplyNack \/ NotSynchronised
  PROVE  Port!End /\ ~(result' >= 0)
<1>0. TypeOK
  BY DEF Base
<1>1. /\ op' = "idle" /\ pc' = "idle" /\ args' = << >>
      /\ result' \in Int /\ ~(result' >= 0)
      /\ UNCHANGED <<dest, mem>>
  BY <1>0 DEF CommandRefused, NoAnswer, NoByte, ReplyNack, NotSynchronised, Return, TypeOK,
       SWIM_ERROR_NACK, SWIM_ERROR_READ_BIT_TIMEOUT, SWIM_ERROR_INVALID_TARGET_ID,
       SWIM_ERROR_SYNC_TIMEOUT_1, SWIM_ERROR_SYNC_TIMEOUT_2, ReadBitTimeout, Lines, target,
       TargetHears
<1>2. op # "idle"
  BY DEF CommandRefused, NoAnswer, NoByte, ReplyNack, NotSynchronised, Base, Control
<1> QED
  BY <1>1, <1>2, EndStep

(* A read that comes to its end has filled its buffer, heard or misheard. *)
LEMMA AllReadStep ==
  ASSUME Base, AllRead
  PROVE  Port!End /\ op = "rotf" /\ Moved = Port!Size /\ Len(dest) = Port!Size
<1>1. /\ pc = "read" /\ op = "rotf" /\ i = args[1] /\ result' = 0 /\ Len(dest) = i
      /\ op' = "idle" /\ pc' = "idle" /\ args' = << >>
      /\ UNCHANGED <<dest, mem>>
  BY DEF AllRead, Return, Base, Control, target
<1>2. Moved = Port!Size /\ Len(dest) = Port!Size
  BY <1>1, MovedIs DEF Port!Size
<1> QED
  BY <1>1, <1>2, EndStep

LEMMA SynchronisedStep ==
  ASSUME Base, Synchronised
  PROVE  Port!End /\ op = "swim_entry" /\ Moved = Port!Size
<1>1. /\ pc = "sync" /\ op = "swim_entry" /\ result' \in Int
      /\ op' = "idle" /\ pc' = "idle" /\ args' = << >>
      /\ UNCHANGED <<dest, mem>>
  BY DEF Synchronised, Return, Base, Control, TypeOK, Lines, target
<1>2. Moved = Port!Size
  BY <1>1, MovedIs DEF Port!Size
<1> QED
  BY <1>1, <1>2, EndStep

(* send_command returns only for the commands that end with it. *)
LEMMA CommandEnd ==
  ASSUME Base, pc \in {"cmdAck", "byteAck"}, Return(0), op # "rotf", UNCHANGED <<dest, target>>
  PROVE  Port!End
<1>1. op # "idle" /\ result' \in Int /\ op' = "idle" /\ pc' = "idle" /\ args' = << >>
      /\ UNCHANGED <<dest, mem>>
  BY DEF Base, Control, Return, target
<1> QED
  BY <1>1, EndStep

(* send_command goes on or ends; a write has then stored all its bytes. *)
LEMMA AckedStep ==
  ASSUME Base, Shared, sound, sound' = sound, CommandAcked \/ ByteAcked
  PROVE  Port!Return \/ UNCHANGED Port!vars
<1>0. /\ TypeOK /\ UNCHANGED <<dest, mem, target>> /\ pc \in {"cmdAck", "byteAck"}
      /\ op \in {"srst", "rotf", "wotf"} /\ args \in Seq(Byte)
  BY DEF CommandAcked, ByteAcked, Continue, target, Base, TypeOK, Control
<1>1. PICK n \in Nat : Continue(n) /\ Len(treq) = n /\ (pc = "cmdAck" => n = 0)
  <2>1. CASE CommandAcked
    BY <2>1 DEF CommandAcked, Shared, Agreed
  <2>2. CASE ByteAcked
    <3>1. Continue(i + 1) /\ treq = SubSeq(args, 1, i + 1) /\ i + 1 \in Nat /\ pc = "byteAck"
          /\ i < Len(args)
      BY <1>0, <2>2 DEF ByteAcked, Base, Control, Shared, InStep, TypeOK
    <3> QED
      BY <1>0, <3>1
  <2> QED
    BY <2>1, <2>2
<1>2. CASE pc' = "byte" /\ UNCHANGED <<op, args, result>>
  <2>1. treq' = treq
    BY <1>1 DEF Continue, target
  <2>2. Moved' = Moved
    BY <1>0, <1>1, <1>2, <2>1, Constants, MovedIs, MovedIsNext
  <2> QED
    BY <1>0, <1>2, <2>2, StutterStep
<1>3. CASE op = "rotf" /\ i' = 0 /\ pc' = "read" /\ UNCHANGED <<op, args, result>>
  <2>1. Moved = 0 /\ Moved' = 0
    BY <1>0, <1>3, MovedIs, MovedIsNext
  <2> QED
    BY <1>0, <1>3, <2>1, StutterStep
<1>4. CASE n = Count /\ op # "rotf" /\ Return(0)
  <2>1. Moved = Port!Size
    <3>1. CASE op = "srst"
      BY <3>1, MovedIs DEF Port!Size
    <3>2. CASE op = "wotf"
      <4>1. n = Header + args[1] /\ args[1] \in Nat
        BY <1>0, <1>4, <3>2, Constants DEF Count, Base, Buffer, Byte
      <4>2. pc = "byteAck"
        BY <1>0, <1>1, <4>1, Constants
      <4>3. Moved = args[1]
        BY <1>1, <3>2, <4>1, <4>2, Constants, MovedIs
      <4> QED
        BY <3>2, <4>3 DEF Port!Size
    <3> QED
      BY <1>0, <1>4, <3>1, <3>2
  <2>2. Port!End
    BY <1>0, <1>4, CommandEnd
  <2> QED
    BY <2>1, <2>2 DEF Port!Return
<1> QED
  BY <1>1, <1>2, <1>3, <1>4 DEF Continue
-----------------------------------------------------------------------------
(* With a misheard acknowledgement, a call still ends as it should. *)
LEMMA MisheardStep ==
  ASSUME Base, Next, sound' = FALSE, ~\E c \in Calls : Call(c) \/ StartEntry(c)
  PROVE  Port!Misheard
<1>1. \/ UNCHANGED <<op, args, result>>
      \/ Port!End /\ (op = "rotf" /\ result' >= 0 => Len(dest) = Port!Size)
  <2>1. CASE CommandRefused \/ NoAnswer \/ NoByte \/ ReplyNack \/ NotSynchronised
    BY <2>1, FailStep
  <2>2. CASE AllRead \/ Synchronised
    BY <2>2, AllReadStep, SynchronisedStep
  <2>3. CASE CommandAcked \/ ByteAcked \/ ByteRefused
    <3>1. PICK n : Continue(n) /\ pc \in {"cmdAck", "byteAck"}
      BY <2>3 DEF CommandAcked, ByteAcked, ByteRefused
    <3>2. UNCHANGED <<op, args, result>> \/ (Return(0) /\ op # "rotf")
      BY <3>1 DEF Continue
    <3>3. UNCHANGED <<dest, target>>
      BY <3>1 DEF Continue
    <3> QED
      BY <3>1, <3>2, <3>3, CommandEnd
  <2>4. CASE SendCommand \/ SendByte \/ ReceiveByte \/ ReplyAck \/ EndPulses
    BY <2>4 DEF SendCommand, SendByte, SendFrame, ReceiveByte, ReplyAck, EndPulses
  <2>5. CASE Target \/ TargetResets \/ \E on \in Resets : ResetPin(on)
    BY <2>5 DEF Target, TargetTakes, TargetTakesCommand, TargetTakesByte, TargetRefuses,
       TargetTakesForReply, TargetMisses, TargetSends, TargetQuiet, TargetFinishes,
       TargetSynchronises, TargetResets, ResetPin, driver
  <2> QED
    BY <2>1, <2>2, <2>3, <2>4, <2>5 DEF Next, Driver, Caller
<1> QED
  BY <1>1 DEF Port!Misheard

LEMMA PortStep ==
  ASSUME IInv, sound => Fetched, [Next]_vars
  PROVE  [Port!Next]_(Port!vars)
<1>0. Base /\ TypeOK /\ sound' \in BOOLEAN
  BY StepInv DEF IInv, Base, TypeOK
<1>1. CASE \E c \in Calls : Call(c) \/ StartEntry(c)
  BY <1>1, BeginStep DEF Port!Next
<1>2. CASE UNCHANGED vars
  BY <1>2, StutterStep DEF vars, driver, target, Moved
<1>3. CASE Next /\ ~(\E c \in Calls : Call(c) \/ StartEntry(c)) /\ sound' = FALSE
  BY <1>0, <1>3, MisheardStep DEF Port!Next
<1>4. CASE Next /\ ~(\E c \in Calls : Call(c) \/ StartEntry(c)) /\ sound' = TRUE
  <2>1. sound /\ sound' = sound /\ Shared /\ Fetched
    <3>1. sound
      BY <1>0, <1>4, StaysSound
    <3>2. sound \in BOOLEAN
      BY <1>0 DEF TypeOK
    <3> QED
      BY <1>4, <3>1, <3>2 DEF IInv
  <2>2. CASE \/ SendCommand \/ SendByte \/ ReceiveByte \/ EndPulses \/ ByteRefused
             \/ TargetTakesCommand \/ TargetRefuses \/ TargetMisses \/ TargetQuiet
             \/ TargetFinishes \/ TargetSends \/ TargetSynchronises \/ TargetResets
             \/ \E on \in Resets : ResetPin(on)
    BY <1>0, <2>1, <2>2, Stutters
  <2>3. CASE TargetTakesByte
    BY <1>0, <2>1, <2>3, StoreStep DEF Port!Next
  <2>4. CASE ReplyAck
    BY <1>0, <2>1, <2>4, FetchStep DEF Port!Next
  <2>5. CASE CommandRefused \/ NoAnswer \/ NoByte \/ ReplyNack \/ NotSynchronised
    BY <1>0, <2>1, <2>5, FailStep DEF Port!Next, Port!Return
  <2>6. CASE AllRead \/ Synchronised
    BY <1>0, <2>1, <2>6, AllReadStep, SynchronisedStep DEF Port!Next, Port!Return
  <2>7. CASE CommandAcked \/ ByteAcked
    BY <1>0, <2>1, <2>7, AckedStep DEF Port!Next
  <2>8. ~TargetTakesForReply
    BY <1>0, <2>1, NotForReply
  <2> QED
    BY <1>4, <2>2, <2>3, <2>4, <2>5, <2>6, <2>7, <2>8
       DEF Next, Driver, Caller, Target, TargetTakes
<1> QED
  BY <1>0, <1>1, <1>2, <1>3, <1>4

(* While acknowledgements are heard as sent, a call of the driver that      *)
(* returns 0 has stored or fetched all its bytes, each at its place and in  *)
(* order, and one that fails has moved some first part of them and touched  *)
(* nothing else.  A read that returns 0 has filled its buffer in any case.  *)
THEOREM ImplementsPortAlways == Spec => ImplementsPort
<1>1. Init => (sound => Fetched)
  BY DEF Init, Fetched
<1>2. IInv /\ (sound => Fetched) /\ [Next]_vars => (sound => Fetched)'
  <2>1. SUFFICES ASSUME IInv, sound => Fetched, [Next]_vars, sound'
                 PROVE  Fetched'
    OBVIOUS
  <2>2. CASE \E c \in Calls : Call(c) \/ StartEntry(c)
    BY <2>2, CallsElsewhere
  <2>3. CASE ~\E c \in Calls : Call(c) \/ StartEntry(c)
    BY <2>1, <2>3, StaysSound, FetchedStep DEF IInv, Base
  <2> QED
    BY <2>2, <2>3
<1> QED
  BY <1>1, <1>2, Invariant, InitPort, PortStep, PTL DEF Spec, ImplementsPort, Port!Spec
=============================================================================
