------------------------------ MODULE SwimLink ------------------------------
(***************************************************************************)
(* The SWIM driver of src/driver/swim.c and, outside it, an STM8 target.   *)
(* The driver runs one call at a time.  A call is a command frame, one     *)
(* frame per argument byte, each answered by the target with an ACK or a   *)
(* NACK bit, and for a read one byte per count from the target, each       *)
(* answered by the driver.  A frame is one step here: its bits, their      *)
(* parity and their timing are abstracted to what can become of it on the  *)
(* wire (taken, refused, missed, taken with the answer lost).              *)
(*                                                                         *)
(* Every acknowledgement, of the target and of the driver, may be lost or  *)
(* read as its opposite.  None is protected: no parity, no second bit.     *)
(*                                                                         *)
(* Assumed of the target, which is not part of the repository: it checks   *)
(* parity (it refuses a damaged frame), it never acknowledges a command    *)
(* frame while it is still inside an earlier command, in a read it sends   *)
(* the next byte when it hears an ACK and the same one when it hears a     *)
(* NACK, whether the driver listens or not, and it may leave SWIM mode at  *)
(* any time.                                                               *)
(***************************************************************************)
EXTENDS Integers, Sequences, FiniteSets

CONSTANTS ByteMax,   \* 255: largest byte
          AddrLen,   \* 3: address bytes
          Durations, \* lengths of the synchronisation pulse, in cycles
          Calls,     \* what the driver may be called with
          Resets     \* what reset may be called with

Byte   == 0 .. ByteMax
Header == 1 + AddrLen  \* the count and the address: 4 in the code

(* The k-th cell from the address in a: of an address its low byte, for    *)
(* the model's memory is one page, after whose end it begins again.        *)
Cell(a, k) == (a[Header] + k) % (ByteMax + 1)

InitialMemory == [a \in Byte |-> a]

ASSUME SizesAssumption == ByteMax \in Nat /\ AddrLen \in Nat \ {0} /\ Durations \subseteq Nat

(* The buffers the command interpreter passes: the count tells their size. *)
ASSUME CallsAssumption ==
  \A c \in Calls :
    /\ c \in [op : {"srst", "rotf", "wotf", "swim_entry"}, args : Seq(Byte)]
    /\ c.op = "rotf" => Len(c.args) = Header
    /\ c.op = "wotf" => Len(c.args) > 0 /\ Len(c.args) = Header + c.args[1]

SWIM == "GPIO4"
NRST == "GPIO5"

SWIM_ERROR_READ_BIT_TIMEOUT  == -1
SWIM_ERROR_INVALID_TARGET_ID == -2
SWIM_ERROR_PARITY            == -3
SWIM_ERROR_NACK              == -4
SWIM_ERROR_SYNC_TIMEOUT_1    == -5
SWIM_ERROR_SYNC_TIMEOUT_2    == -6
ReadBitTimeout(k)            == -k - 20  \* the k-th bit of a byte never came

VARIABLES
  op,     \* the driver function that runs: "srst", "rotf", "wotf", "swim_entry"
  pc,     \* where it is
  args,   \* the bytes its pointer leads to
  i,      \* the loop index of send_command, then of rotf
  dest,   \* the bytes rotf has stored
  got,    \* what read_byte found, a byte or SWIM_ERROR_PARITY
  result, \* what the last call returned, 0 during one
  ps,     \* the processor's interrupt level: "open" or "masked"
  state,  \* esp8266_enter_critical's copy of it
  gpio,   \* the pins: output enable, output latch, pull-up
  line,   \* what is on the wire: who sent it, what it is, its value
  active, \* the target is in SWIM mode
  tcmd,   \* the command the target is executing
  treq,   \* the argument bytes it has accepted for its last command
  tsent,  \* the bytes of a read it heard an ACK for
  waits,  \* it has sent a byte of a read and waits for the acknowledgement
  mem,    \* its memory
  sound   \* history: this call began with the target outside of a read, and
          \* every acknowledgement since was heard as it was sent

driver == <<op, pc, args, i, dest, got, result, ps, state, gpio>>
target == <<active, tcmd, treq, tsent, waits, mem>>
vars   == <<driver, line, target, sound>>

Quiet              == [from |-> "nobody", kind |-> "quiet", val |-> 0]
Silence(k)         == [from |-> "nobody", kind |-> "silence", val |-> k]
HostFrame(kind, v) == [from |-> "host", kind |-> kind, val |-> v]
Answer(bit)        == [from |-> "target", kind |-> "answer", val |-> bit]
TargetByte(v)      == [from |-> "target", kind |-> "byte", val |-> v]
BadByte(kind)      == [from |-> "target", kind |-> kind, val |-> 0]

InRead == tcmd = "rotf" /\ Len(treq) = Header

(* An earlier call has left the target in a read, or sending.              *)
Left == InRead \/ line.from = "target"
-----------------------------------------------------------------------------
(* The GPIO macros.  PIN_AS_INPUT names GPIO4's pull-up whatever the pin.  *)
AsOutput(pin) == [gpio EXCEPT !.enable = @ \cup {pin}, !.high = @ \cup {pin}]
AsInput(pin)  == [gpio EXCEPT !.enable = @ \ {pin}, !.pullup = @ \cup {SWIM}]

Init ==  \* after swim_init, before the first call
  /\ op = "idle" /\ pc = "idle" /\ args = << >> /\ i = 0 /\ dest = << >>
  /\ got = 0 /\ result = 0
  /\ ps = "open" /\ state = "open"
  /\ gpio = [enable |-> {NRST}, high |-> {NRST}, pullup |-> {}]
  /\ line = Quiet
  /\ active = FALSE /\ tcmd = "none" /\ treq = << >> /\ tsent = 0
  /\ waits = FALSE /\ mem = InitialMemory
  /\ sound = TRUE

(* What a bit that was sampled leaves on the wire: nothing, or the rest of *)
(* the target's byte of which it was the first.                            *)
Rest == IF line.kind \in {"byte", "oddBits", "zeroStart", "rest"} THEN BadByte("rest") ELSE Quiet

(* esp8266_leave_critical and the return of a call. *)
Return(r) ==
  /\ op' = "idle" /\ pc' = "idle"
  /\ result' = r
  /\ ps' = state /\ state' = "open"
  /\ args' = << >> /\ i' = 0

(* Mutation: the count byte is taken for the size of the whole buffer. *)
CountShort ==
  CASE op = "srst" -> 0
    [] op = "rotf" -> Header
    [] op = "wotf" -> IF args[1] > 0 THEN Header + args[1] - 1 ELSE Header

(* The arguments send_command is called with. *)
Count ==
  CASE op = "srst" -> 0
    [] op = "rotf" -> Header
    [] op = "wotf" -> Header + args[1]
Command == CASE op = "srst" -> 0 [] op = "rotf" -> 1 [] op = "wotf" -> 2

(* srst, rotf and wotf: interrupts off, SWIM an output. *)
Call(c) ==
  /\ op = "idle"
  /\ c.op # "swim_entry"
  /\ op' = c.op /\ args' = c.args /\ i' = 0 /\ dest' = << >> /\ result' = 0
  /\ state' = ps /\ ps' = "masked"
  /\ gpio' = AsOutput(SWIM)
  /\ pc' = "cmd"
  /\ sound' = ~Left
  /\ UNCHANGED <<got, line, target>>

(* Mutation: the pin stays an output after the frame. *)
SendFrameDriving(from, frame, to) ==
  /\ pc = from
  /\ line' = frame
  /\ pc' = to
  /\ UNCHANGED <<op, args, i, dest, got, result, ps, state, gpio, target, sound>>

(* write_byte up to its read_bit: the frame, then the pin becomes an input. *)
SendFrame(from, frame, to) ==
  /\ pc = from
  /\ line' = frame
  /\ gpio' = AsInput(SWIM)
  /\ pc' = to
  /\ UNCHANGED <<op, args, i, dest, got, result, ps, state, target, sound>>

SendCommand == SendFrame("cmd", HostFrame("cmd", Command), "cmdAck")
SendByte    == SendFrame("byte", HostFrame("data", args[i + 1]), "byteAck")

(* send_command's loop with n bytes sent: the next byte, or the end. *)
Continue(n) ==
  /\ line' = Rest
  /\ \/ /\ n < Count
        /\ i' = n /\ pc' = "byte" /\ gpio' = AsOutput(SWIM)
        /\ UNCHANGED <<op, args, ps, state, result>>
     \/ /\ n = Count /\ op = "rotf"
        /\ i' = 0 /\ pc' = "read"
        /\ UNCHANGED <<op, args, ps, state, result, gpio>>
     \/ /\ n = Count /\ op # "rotf"
        /\ Return(0)
        /\ UNCHANGED gpio
  /\ UNCHANGED <<dest, got, target, sound>>

(* One bit, whoever sends it and as a part of what: the start bit of a     *)
(* byte the target was left to send counts as an answer.                   *)
HearsAck(bit) ==
  \/ line.kind = "answer" /\ line.val = bit
  \/ line.kind \in (IF bit = 1 THEN {"byte", "oddBits"} ELSE {"zeroStart"})

CommandAcked == pc = "cmdAck" /\ HearsAck(1) /\ Continue(0)

CommandRefused ==
  /\ pc = "cmdAck" /\ HearsAck(0)
  /\ Return(SWIM_ERROR_NACK)
  /\ line' = Rest
  /\ UNCHANGED <<dest, got, gpio, target, sound>>

ByteAcked == pc = "byteAck" /\ HearsAck(1) /\ Continue(i + 1)

(* Mutation: a refused byte is not sent again. *)
ByteRefusedSkipped == pc = "byteAck" /\ HearsAck(0) /\ Continue(i + 1)

(* NACK: i-- in the loop, the byte goes out again, without a limit. *)
ByteRefused == pc = "byteAck" /\ HearsAck(0) /\ Continue(i)

(* Mutation: the wait for the answer has no timeout. *)
NoAnswerUnlimited == FALSE /\ UNCHANGED vars

(* read_bit's timeout on the answer of either kind of frame. *)
NoAnswer ==
  /\ pc \in {"cmdAck", "byteAck"} /\ line.kind = "silence"
  /\ Return(SWIM_ERROR_READ_BIT_TIMEOUT)
  /\ line' = Quiet
  /\ UNCHANGED <<dest, got, gpio, target, sound>>

(* Mutation: the parity of a received byte is not looked at. *)
ReceiveByteUnchecked ==
  /\ pc = "read" /\ i < args[1] /\ line.kind \in {"byte", "oddBits"}
  /\ got' = line.val
  /\ gpio' = AsOutput(SWIM)
  /\ pc' = "reply" /\ line' = Quiet
  /\ UNCHANGED <<op, args, i, dest, result, ps, state, target, sound>>

(* read_byte up to its PIN_AS_OUTPUT: ten bits, with or without parity. *)
ReceiveByte ==
  /\ pc = "read" /\ i < args[1] /\ line.kind \in {"byte", "oddBits"}
  /\ got' = IF line.kind = "byte" THEN line.val ELSE SWIM_ERROR_PARITY
  /\ gpio' = AsOutput(SWIM)
  /\ pc' = "reply" /\ line' = Quiet
  /\ UNCHANGED <<op, args, i, dest, result, ps, state, target, sound>>

(* The target's side of a reply: it is outside of any command again ...    *)
LeavesCommand == tcmd' = "none" /\ tsent' = 0 /\ waits' = FALSE

(* ... or hears a bit where it waits for an acknowledgement.               *)
TakesReply(bit) ==
  IF tsent + bit = treq[1] THEN LeavesCommand
  ELSE tsent' = tsent + bit /\ waits' = FALSE /\ UNCHANGED tcmd

(* What becomes of the acknowledgement the driver sends: the target hears  *)
(* it, hears its opposite, or misses it.                                   *)
TargetHears(bit) ==
  /\ \/ /\ InRead /\ waits
        /\ \E heard \in {0, 1} : TakesReply(heard) /\ sound' = (sound /\ heard = bit)
     \/ /\ UNCHANGED <<tsent, tcmd, waits>>
        /\ sound' = (sound /\ ~(InRead /\ waits))
  /\ UNCHANGED <<active, treq, mem>>

(* Mutation: the byte is stored before its parity error is seen. *)
ReplyAckUnchecked ==
  /\ pc = "reply"
  /\ gpio' = AsInput(SWIM)
  /\ dest' = Append(dest, got) /\ got' = 0
  /\ i' = i + 1
  /\ pc' = "read"
  /\ TargetHears(1)
  /\ UNCHANGED <<op, args, result, ps, state, line>>

(* The ACK, after which nothing tells the driver whether it was heard.     *)
ReplyAck ==
  /\ pc = "reply" /\ got >= 0
  /\ gpio' = AsInput(SWIM)
  /\ dest' = Append(dest, got) /\ got' = 0
  /\ i' = i + 1
  /\ pc' = "read"
  /\ TargetHears(1)
  /\ UNCHANGED <<op, args, result, ps, state, line>>

(* The end of rotf's loop: what the target sends now goes on.              *)
AllRead ==
  /\ pc = "read" /\ i = args[1]
  /\ Return(0)
  /\ UNCHANGED <<dest, got, gpio, line, target, sound>>

(* The NACK ends the call; the target sends its byte again, to nobody.     *)
ReplyNack ==
  /\ pc = "reply" /\ got < 0
  /\ gpio' = AsInput(SWIM)
  /\ Return(got) /\ got' = 0
  /\ TargetHears(0)
  /\ UNCHANGED <<dest, line>>

(* The bits of a byte that end rotf without an answer. *)
NoByte ==
  /\ pc = "read" /\ i < args[1]
  /\ \/ line.kind = "silence" /\ line.val < 0 /\ Return(SWIM_ERROR_READ_BIT_TIMEOUT)
     \/ line.kind = "silence" /\ line.val >= 0 /\ Return(ReadBitTimeout(line.val))
     \/ line.kind \in {"zeroStart", "rest"} /\ Return(SWIM_ERROR_INVALID_TARGET_ID)
     \/ line.kind = "rest" /\ Return(ReadBitTimeout(8))
  /\ line' = Rest
  /\ UNCHANGED <<dest, got, gpio, target, sound>>

(* swim_entry: the activation pulses, with interrupts on. *)
StartEntry(c) ==
  /\ op = "idle"
  /\ c.op = "swim_entry"
  /\ op' = c.op /\ args' = c.args /\ i' = 0 /\ dest' = << >> /\ result' = 0
  /\ gpio' = AsOutput(SWIM)
  /\ pc' = "pulses"
  /\ sound' = ~Left
  /\ UNCHANGED <<got, ps, state, line, target>>

EndPulses ==
  /\ pc = "pulses"
  /\ state' = ps /\ ps' = "masked"
  /\ gpio' = AsInput(SWIM)
  /\ pc' = "sync" /\ line' = Quiet
  /\ UNCHANGED <<op, args, i, dest, got, result, target, sound>>

Synchronised ==
  /\ pc = "sync" /\ line.kind = "sync"
  /\ Return(line.val)
  /\ line' = Quiet
  /\ UNCHANGED <<dest, got, gpio, target, sound>>

(* The two early returns: the interrupt level is left as it is. *)
NotSynchronised ==
  /\ pc = "sync"
  /\ \/ line.kind = "silence" /\ result' = SWIM_ERROR_SYNC_TIMEOUT_1 /\ line' = Quiet
     \/ line.kind = "stuckLow" /\ result' = SWIM_ERROR_SYNC_TIMEOUT_2 /\ UNCHANGED line
  /\ op' = "idle" /\ pc' = "idle"
  /\ args' = << >> /\ i' = 0 /\ state' = "open"
  /\ UNCHANGED <<dest, got, ps, gpio, target, sound>>

(* reset: the NRST pin as an input, low or high. *)
ResetPin(on) ==
  /\ op = "idle"
  /\ gpio' = IF on = ByteMax THEN AsInput(NRST)
             ELSE [AsOutput(NRST) EXCEPT !.high = IF on = 0 THEN @ ELSE @ \ {NRST}]
  /\ UNCHANGED <<op, pc, args, i, dest, got, result, ps, state, line, target, sound>>

Driver ==
  \/ SendCommand \/ CommandAcked \/ CommandRefused
  \/ SendByte \/ ByteAcked \/ ByteRefused \/ NoAnswer
  \/ ReceiveByte \/ ReplyAck \/ ReplyNack \/ NoByte \/ AllRead
  \/ EndPulses \/ Synchronised \/ NotSynchronised

Caller ==
  \/ \E c \in Calls : Call(c) \/ StartEntry(c)
  \/ \E on \in Resets : ResetPin(on)
-----------------------------------------------------------------------------
(* The target.  Its answer comes, comes as its opposite, or is lost.       *)
Answers(bit) ==
  /\ line' \in {Answer(0), Answer(1), Silence(-1)}
  /\ sound' = (sound /\ line' # Answer(1 - bit))

TargetTakesCommand ==
  /\ line.kind = "cmd" /\ active /\ tcmd = "none"
  /\ Answers(1)
  /\ treq' = << >> /\ tsent' = 0 /\ waits' = FALSE
  /\ tcmd' = CASE line.val = 0 -> "none" [] line.val = 1 -> "rotf" [] line.val = 2 -> "wotf"
  /\ UNCHANGED <<driver, active, mem>>

TargetTakesByte ==
  /\ line.kind = "data" /\ active /\ tcmd # "none"
  /\ tcmd = "rotf" => Len(treq) < Header
  /\ Answers(1)
  /\ treq' = Append(treq, line.val)
  /\ mem' = IF Len(treq) < Header THEN mem
            ELSE [mem EXCEPT ![Cell(treq, Len(treq) - Header)] = line.val]
  /\ tcmd' = IF Len(treq') < Header \/ treq'[1] > (IF tcmd = "rotf" THEN 0 ELSE Len(treq') - Header)
             THEN tcmd ELSE "none"
  /\ UNCHANGED <<driver, active, tsent, waits>>

TargetTakes == TargetTakesCommand \/ TargetTakesByte

(* A damaged frame, or a command frame inside another command. *)
TargetRefuses ==
  /\ line.from = "host" /\ active
  /\ Answers(0)
  /\ IF line.kind = "cmd" THEN LeavesCommand ELSE UNCHANGED <<tcmd, tsent, waits>>
  /\ UNCHANGED <<driver, active, treq, mem>>

(* Still waiting for an acknowledgement, it takes a bit of the frame for it. *)
TargetTakesForReply ==
  /\ line.from = "host" /\ InRead /\ waits
  /\ \E heard \in {0, 1} : TakesReply(heard)
  /\ line' \in {Answer(0), Silence(-1)}
  /\ UNCHANGED <<driver, active, treq, mem, sound>>

TargetMisses ==
  /\ line.from = "host"
  /\ line' = Silence(-1)
  /\ UNCHANGED <<driver, target, sound>>

(* The next byte of a read, whole, damaged or broken off, whatever the     *)
(* driver does meanwhile: behind a frame its first bit is an answer, after *)
(* the entry pulses it is a synchronisation pulse.                         *)
TargetSends ==
  /\ InRead /\ ~waits /\ line.from = "nobody"
  /\ IF pc = "sync"
     THEN \E d \in Durations : line' = [from |-> "target", kind |-> "sync", val |-> d]
     ELSE line' \in {TargetByte(mem[Cell(treq, tsent)]), BadByte("oddBits"), BadByte("zeroStart"),
                     Silence(-1), Silence(0), Silence(8)}
  /\ waits' = TRUE
  /\ sound' = (sound /\ pc \notin {"cmdAck", "byteAck"})
  /\ UNCHANGED <<driver, active, tcmd, treq, tsent, mem>>

TargetQuiet ==
  /\ pc = "read" /\ i < args[1] /\ line = Quiet
  /\ line' = Silence(-1)
  /\ UNCHANGED <<driver, target, sound>>

(* A byte that the driver did not take is over. *)
TargetFinishes ==
  /\ line.from = "target" /\ pc \in {"idle", "cmd", "byte", "pulses"}
  /\ line' = Quiet
  /\ UNCHANGED <<driver, target, sound>>

TargetSynchronises ==
  /\ pc = "sync" /\ line = Quiet
  /\ \/ /\ \/ \E d \in Durations : line' = [from |-> "target", kind |-> "sync", val |-> d]
           \/ line' = BadByte("stuckLow")
        /\ active' = TRUE /\ LeavesCommand
     \/ line' = Silence(-1) /\ UNCHANGED <<active, tcmd, tsent, waits>>
  /\ UNCHANGED <<driver, treq, mem, sound>>

(* A reset, a power cycle or a timeout of its own, at any time. *)
TargetResets ==
  /\ active' \in {FALSE, active}
  /\ LeavesCommand
  /\ UNCHANGED <<driver, line, treq, mem, sound>>

Target ==
  \/ TargetTakes \/ TargetRefuses \/ TargetTakesForReply \/ TargetMisses
  \/ TargetSends \/ TargetQuiet \/ TargetFinishes \/ TargetSynchronises

Next == Driver \/ Caller \/ Target \/ TargetResets

Spec == Init /\ [][Next]_vars

(* The driver runs until it returns; something or nothing comes back on    *)
(* the wire within its timeouts.                                           *)
Fairness == WF_vars(Driver) /\ WF_vars(Target)

(* The environment assumption under which calls return: the wire does not  *)
(* bring NACKs for ever, it brings something else as well.                 *)
NotRefusedForEver ==
  []<><<ByteRefused>>_vars => []<><<ByteAcked \/ NoAnswer>>_vars

SpecRefusing == Spec /\ Fairness
FairSpec     == SpecRefusing /\ NotRefusedForEver
-----------------------------------------------------------------------------
Lines ==
  [from : {"nobody", "host", "target"},
   kind : {"quiet", "silence", "cmd", "data", "answer", "byte", "oddBits", "zeroStart",
           "rest", "sync", "stuckLow"},
   val  : Int]

TypeOK ==
  /\ op \in {"idle", "srst", "rotf", "wotf", "swim_entry"}
  /\ pc \in {"idle", "cmd", "cmdAck", "byte", "byteAck", "read", "reply", "pulses", "sync"}
  /\ args \in Seq(Byte) /\ i \in Nat /\ dest \in Seq(Byte)
  /\ got \in Int /\ result \in Int
  /\ ps \in {"open", "masked"} /\ state \in {"open", "masked"}
  /\ gpio \in [enable : SUBSET {SWIM, NRST}, high : SUBSET {SWIM, NRST},
               pullup : SUBSET {SWIM, NRST}]
  /\ line \in Lines
  /\ active \in BOOLEAN /\ tcmd \in {"none", "rotf", "wotf"}
  /\ treq \in Seq(Byte) /\ tsent \in Nat /\ waits \in BOOLEAN
  /\ mem \in [Byte -> Byte]
  /\ sound \in BOOLEAN

(* The ESP and the target send at once only in a call that began while the *)
(* target was left in a read, or in which an acknowledgement was misheard. *)
(* Otherwise the pin is an output only while no frame of the target is on  *)
(* the wire, through every resend, reply and return of swim.c (lines 137,  *)
(* 195 to 198, 208, 214).  What leaves a target in a read is said by       *)
(* SuccessLeavesTargetReady: only a call that failed (lines 177 to 179 or  *)
(* 199) or was misheard.  A frame is over here once its last bit is        *)
(* sampled; what remains of that bit on the wire is finer than this module.*)
NoContention == SWIM \in gpio.enable /\ line.from = "target" => ~sound

(* While a byte is outstanding the target has taken exactly the bytes that *)
(* send_command counts in i, and at most the one in flight besides: the    *)
(* i-- of a NACK neither repeats nor skips one (swim.c:212-222).  Of a     *)
(* read it has heard the ACK of each byte that rotf has stored.  Unless an *)
(* acknowledgement was misheard, which nothing in the code notices.        *)
InStep ==
  sound =>
    /\ pc = "byte" => treq = SubSeq(args, 1, i)
    /\ pc = "byteAck" =>
         \/ treq = SubSeq(args, 1, i) /\ ~HearsAck(1)
         \/ treq = SubSeq(args, 1, i + 1) /\ line.kind \in {"answer", "silence"} /\ ~HearsAck(0)
    /\ pc \in {"read", "reply"} => treq = args /\ Len(dest) = i /\ (tcmd = "rotf" => tsent = i)

(* A call that reports success, its acknowledgements heard, leaves the     *)
(* target outside any command and silent, so that the next command frame   *)
(* is taken as one (swim.c:240-279).  The ACK of the last byte of a read   *)
(* is answered by nothing: when it is missed the call succeeds as well.    *)
SuccessLeavesTargetReady ==
  op = "idle" /\ result >= 0 /\ sound => tcmd = "none" /\ line.from # "target"

(* How many bytes of the data of this call are in their place. *)
Moved ==
  CASE op = "wotf" /\ pc \in {"byte", "byteAck"} /\ Len(treq) > Header -> Len(treq) - Header
    [] op = "rotf" /\ pc \in {"read", "reply"} -> i
    [] OTHER -> 0

(* The driver with the target implements a memory port: a write that       *)
(* returns 0 has stored all its bytes, in order and at their addresses, a  *)
(* read that returns 0 delivers what the memory holds, and a failed call   *)
(* has moved a first part of its bytes and touched nothing else.  Of a     *)
(* call with a misheard acknowledgement it promises little: a read then    *)
(* stores a byte twice and returns 0 (swim.c:195-201).                     *)
Port == INSTANCE MemoryPort WITH moved <- Moved

ImplementsPort == Port!Spec

(* Every call returns: each wait of the driver is bounded, so is the       *)
(* number of resends if the target does not refuse for ever.               *)
CallsReturn == op # "idle" ~> op = "idle"

(* swim.c:205-206 on send_command: it "Returns -1 if the host failed to    *)
(* ACK a packet within TIMEOUT".  Refuted without NotRefusedForEver: the   *)
(* resend loop has no limit, and it runs with interrupts masked.           *)
SendCommandReturns == pc \in {"byte", "byteAck"} ~> pc \notin {"byte", "byteAck"}

(* swim.c:58 on esp8266_enter_critical: "Used for timing-critical parts."  *)
(* Between calls there is none, so interrupts are on.  Refuted by the      *)
(* early returns of swim_entry (swim.c:314, 323).                          *)
InterruptsOnBetweenCalls == op = "idle" => ps = "open"
=============================================================================
