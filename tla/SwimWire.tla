------------------------------ MODULE SwimWire ------------------------------
(***************************************************************************)
(* The wire below SwimLink: the bits of a frame as edges at processor      *)
(* cycles, driver/swim.c lines 44-51 and 67-222, against a target that     *)
(* times its own bits.  A call sends a command frame, then byte frames,    *)
(* resending a refused one, or reads bytes and acknowledges them.          *)
(*                                                                         *)
(* Time is counted in cycles from some moment of the processor's life; the *)
(* code sees it, and what it computes from it, only modulo W.  After a     *)
(* sync the processor is some cycles late (Lags), and it notices a falling *)
(* edge some cycles after it (Detect).  Interrupts are off, so both are    *)
(* the length of a few instructions.                                       *)
(***************************************************************************)
EXTENDS Integers, Sequences, FiniteSets

CONSTANTS W,         \* 2^32: the cycle counter wraps here
          Lags,      \* cycles between a deadline and the next instruction
          Detect,    \* cycles between a falling edge and reading ccount
          NBits,     \* 8: bits of a byte (3 in a command)
          Gaps,      \* cycles a target waits before it takes its turn
          Starts,    \* when calls start
          MaxFrames  \* bound: frames sent and bytes read in a call

SHORT_PERIOD_LENGTH     == 27
SWIM_CLOCK              == 10
BIT_HALF_TIME           == 9 * SWIM_CLOCK
BIT_TOTAL_PERIOD_LENGTH == 22 * SWIM_CLOCK

(* The target's bits: low for 20 clocks of 22 or for 2. *)
LowTime(bit) == IF bit = 1 THEN 20 ELSE 200
Slot         == 220
(* It takes a pulse for a 1 that is shorter than half a bit. *)
Decoded(low) == IF low < Slot \div 2 THEN 1 ELSE 0

ASSUME WireAssumption ==
  /\ W \in Nat /\ W >= 2048 /\ W % 2 = 0
  /\ Lags \subseteq 0 .. SHORT_PERIOD_LENGTH - 1
  /\ Detect \subseteq 0 .. 8 * SWIM_CLOCK
  /\ NBits \in Nat /\ Gaps \subseteq 0 .. Slot /\ Starts \subseteq Nat
  /\ MaxFrames \in Nat \ {0}

VARIABLES now,   \* cycles
          pc,    \* where the driver is
          pin,   \* the driver's pin: "in", or an output that is "high", "low"
          next,  \* the variable of write_byte, read_byte and send_command
          frame, \* the bits the driver sends, with the parity bit
          k,     \* the one that is due
          mode,  \* the frame's purpose: "command", "byte", "reply"
          got,   \* the bits of the target read so far
          count, \* frames sent and bytes read in this call
          seen,  \* target: the bits it has made out of the driver's edges
          fell,  \* target: the last falling edge of the driver
          says,  \* target: the bits it sends,
          at,    \* and when it started to
          delay, \* history: how late the last low level was noticed
          prompt \* history: the delays around each wait of read_byte make up for it

driver == <<pc, pin, next, frame, k, mode, got, count>>
target == <<seen, fell, says, at>>
vars   == <<now, driver, target, delay, prompt>>

Bits == [1 .. NBits -> {0, 1}]
Parity(bits) == Cardinality({i \in DOMAIN bits : bits[i] = 1}) % 2
-----------------------------------------------------------------------------
(* sync_ccount: the signed difference decides, modulo W. *)
Sync(t, deadline) ==
  IF (t - deadline) % W < W \div 2 THEN t ELSE t + ((deadline - t) % W)

(* MAX of two cycle counts, which are unsigned. *)
MAX(a, b) == IF a % W > b % W THEN a ELSE b

(* The target's line. *)
Fall(i)  == at + (i - 1) * Slot
LowAt(t) == \E i \in DOMAIN says : t \in Fall(i) .. Fall(i) + LowTime(says[i]) - 1
SlotsEnd == Fall(Len(says) + 1)

(* The driver's pin is set at time t, and the target sees the edge. *)
Raise(t) ==
  /\ pin' = "high"
  /\ seen' = IF pin = "low" THEN Append(seen, Decoded(t - fell)) ELSE seen
  /\ UNCHANGED fell

Lower(t) ==
  /\ pin' = "low"
  /\ fell' = IF pin = "low" THEN fell ELSE t
  /\ UNCHANGED seen
-----------------------------------------------------------------------------
Init ==
  /\ now = 0
  /\ pc = "idle" /\ pin = "in" /\ next = 0
  /\ frame = << >> /\ k = 1 /\ mode = "command" /\ got = << >> /\ count = 0
  /\ seen = << >> /\ fell = 0 /\ says = << >> /\ at = 0
  /\ delay = 0 /\ prompt = TRUE

(* PIN_AS_OUTPUT and the start of write_byte at time t, a frame to follow. *)
Start(purpose, bits, t) ==
  /\ pin' = "high" /\ pc' = "raise"
  /\ mode' = purpose /\ frame' = bits /\ k' = 1
  /\ next' = t /\ seen' = << >>
  /\ UNCHANGED <<got, fell, says, at, delay, prompt>>

(* Mutation: without the artificial delay of write_byte. *)
FrameDelayNone == 0

FrameDelay == 200

SendFrame(purpose, t) ==
  \E data \in Bits :
    Start(purpose, <<0>> \o data \o <<Parity(data)>>, t + FrameDelay)

(* send_command. *)
SendCommand ==
  /\ pc = "idle"
  /\ now' \in Starts
  /\ SendFrame("command", now' + 40)
  /\ count' = 1

(* write_bit_sync in three steps.  A 0 is ended by the next bit's first. *)
Previous == IF k = 1 THEN 0 ELSE frame[k - 1]

(* Mutation: the mask is not shifted to the bit before. *)
RaiseBeforeCurrent ==
  /\ pc = "raise"
  /\ IF frame[k] = 0
     THEN /\ \E l \in Lags : now' = Sync(now, next - SHORT_PERIOD_LENGTH) + l
          /\ Raise(now')
     ELSE UNCHANGED <<now, pin, seen, fell>>
  /\ pc' = "lower"
  /\ UNCHANGED <<next, frame, k, mode, got, count, says, at, delay, prompt>>

RaiseBefore ==
  /\ pc = "raise"
  /\ IF Previous = 0
     THEN /\ \E l \in Lags : now' = Sync(now, next - SHORT_PERIOD_LENGTH) + l
          /\ Raise(now')
     ELSE UNCHANGED <<now, pin, seen, fell>>
  /\ pc' = "lower"
  /\ UNCHANGED <<next, frame, k, mode, got, count, says, at, delay, prompt>>

(* Mutation: the loop runs once more. *)
OnwardOnceMore ==
  IF k <= Len(frame)
  THEN pc' = "raise" /\ k' = k + 1 /\ next' = next + BIT_TOTAL_PERIOD_LENGTH
  ELSE pc' = "finish" /\ UNCHANGED <<k, next>>

(* The loop of write_byte; after the last bit finish_sync. *)
Onward ==
  IF k < Len(frame)
  THEN pc' = "raise" /\ k' = k + 1 /\ next' = next + BIT_TOTAL_PERIOD_LENGTH
  ELSE pc' = "finish" /\ UNCHANGED <<k, next>>

FallingEdge ==
  /\ pc = "lower"
  /\ \E l \in Lags : now' = Sync(now, next) + l
  /\ Lower(now')
  /\ IF frame[k] = 1 THEN pc' = "one" /\ UNCHANGED <<k, next>> ELSE Onward
  /\ UNCHANGED <<frame, mode, got, count, says, at, delay, prompt>>

RaiseOne ==
  /\ pc = "one"
  /\ \E l \in Lags : now' = Sync(now, next + SHORT_PERIOD_LENGTH) + l
  /\ Raise(now')
  /\ Onward
  /\ UNCHANGED <<frame, mode, got, count, says, at, delay, prompt>>

(* finish_sync and PIN_AS_INPUT. *)
Finish ==
  /\ pc = "finish"
  /\ \E l \in Lags :
       now' = Sync(now, next + BIT_TOTAL_PERIOD_LENGTH - SHORT_PERIOD_LENGTH) + l
  /\ seen' = IF pin = "low" THEN Append(seen, Decoded(now' - fell)) ELSE seen
  /\ pin' = "in"
  /\ pc' \in IF mode # "reply" THEN {"ack"}
            ELSE IF frame = <<1>> THEN {"listen", "return"} ELSE {"return"}
  /\ got' = << >> /\ says' = << >>
  /\ UNCHANGED <<next, frame, k, mode, count, fell, at, delay, prompt>>
-----------------------------------------------------------------------------
(* read_bit from time t on: start is when the low level is noticed, and the *)
(* bit is sampled half a bit later.  No low level: the timeout.             *)
Noticed(t) ==
  IF LowAt(t) THEN t
  ELSE CHOOSE u \in {Fall(i) : i \in DOMAIN says} :
         u > t /\ \A i \in DOMAIN says : Fall(i) > t => u <= Fall(i)

Audible(t) == LowAt(t) \/ \E i \in DOMAIN says : Fall(i) > t

ReadBit(t, before) ==
  /\ Audible(t)
  /\ \E d \in Detect, l \in Lags :
       /\ next' = Noticed(t) + d /\ delay' = d
       /\ now' = Sync(next', next' + BIT_HALF_TIME) + l
  /\ got' = Append(before, IF LowAt(now') THEN 0 ELSE 1)
  /\ UNCHANGED <<mode, count, fell, says, at>>

(* The answer to a frame: an ACK lets the call go on, with a byte to send   *)
(* or read or to its end, a NACK repeats a byte and ends a command.         *)
ReadAck ==
  /\ pc = "ack" /\ ReadBit(now, << >>)
  /\ pc' \in CASE got' = <<1>>                 -> {"write", "listen", "return"}
             [] got' = <<0>> /\ mode = "byte" -> {"write"}
             [] OTHER                         -> {"return"}
  /\ frame' = << >> /\ k' = 1 /\ seen' = << >>
  /\ UNCHANGED <<pin, prompt>>

(* send_command: the next byte, or the same again. *)
NextByte ==
  /\ pc = "write" /\ count < MaxFrames
  /\ SendFrame("byte", MAX(next + BIT_TOTAL_PERIOD_LENGTH, now + 40))
  /\ count' = count + 1
  /\ UNCHANGED now

(* read_byte: the target's first bit is a 1. *)
ReadHead ==
  /\ pc = "listen" /\ ReadBit(now, << >>)
  /\ pc' = IF got' = <<1>> THEN "bits" ELSE "return"
  /\ UNCHANGED <<pin, frame, k, seen, prompt>>

(* Mutation: the wait is one SWIM clock short. *)
BitWaitShort == 17 * SWIM_CLOCK

(* Mutation: the wait is that of the comment. *)
BitWaitFull == 200

BitWait == 18 * SWIM_CLOCK

(* Where the wait ends in the slot of the bit before: behind its low, and   *)
(* not behind its end.  A 0 is low for 20 cycles more than the wait.        *)
InMargin(bit, late) == 18 * SWIM_CLOCK + late \in LowTime(bit) .. Slot

ReadDataBit ==
  /\ pc = "bits" /\ Len(got) < NBits + 2
  /\ \E l \in Lags :
       /\ ReadBit(Sync(now, next + BitWait) + l, got)
       /\ prompt' = (prompt /\ InMargin(got[Len(got)], delay + l))
  /\ UNCHANGED <<pc, pin, frame, k, seen>>

(* The ACK or NACK of read_byte. *)
ReplyBit ==
  /\ pc = "bits" /\ Len(got) = NBits + 2
  /\ Start("reply", <<1 - Parity(Tail(got))>>, next + BIT_TOTAL_PERIOD_LENGTH)
  /\ UNCHANGED <<now, count>>

(* A read_bit that times out ends the call. *)
Timeout ==
  /\ pc \in {"ack", "listen", "bits"} /\ Len(got) < NBits + 2
  /\ \E l \in Lags :
       ~Audible(IF pc = "bits" THEN Sync(now, next + BitWait) + l ELSE now)
  /\ pc' = "return"
  /\ UNCHANGED <<now, pin, next, frame, k, mode, got, count, target, delay, prompt>>

(* The end of the call, or of what is looked at of it: what it leaves in    *)
(* its variables and on the wire is gone when the next one starts.          *)
Return ==
  /\ \/ pc = "return"
     \/ pc = "write" /\ count = MaxFrames
  /\ now' = 0 /\ pc' = "idle" /\ pin' = "in" /\ next' = 0
  /\ frame' = << >> /\ k' = 1 /\ mode' = "command" /\ got' = << >> /\ count' = 0
  /\ seen' = << >> /\ fell' = 0 /\ says' = << >> /\ at' = 0
  /\ delay' = 0 /\ prompt' = TRUE

Driver ==
  \/ SendCommand \/ RaiseBefore \/ FallingEdge \/ RaiseOne \/ Finish
  \/ ReadAck \/ NextByte \/ ReadHead \/ ReadDataBit \/ ReplyBit \/ Timeout \/ Return
-----------------------------------------------------------------------------
(* The target, outside the repository.  It answers a frame in the slot      *)
(* behind it, or later, and sends a byte behind its own ACK or the          *)
(* driver's, perhaps a damaged one, perhaps only its beginning.             *)
TargetAnswers ==
  /\ pc = "ack" /\ says = << >>
  /\ \E a \in {0, 1}, g \in Gaps : says' = <<a>> /\ at' = fell + Slot + g
  /\ UNCHANGED <<now, driver, seen, fell, delay, prompt>>

TargetSends ==
  /\ pc = "listen" /\ count < MaxFrames /\ ~Audible(now)
  /\ \E data \in Bits, p \in {0, 1}, n \in {2, NBits + 2}, g \in Gaps :
       /\ says' = SubSeq(<<1>> \o data \o <<p>>, 1, n)
       /\ at' = (IF mode = "reply" THEN fell + Slot ELSE SlotsEnd) + g
  /\ count' = count + 1
  /\ UNCHANGED <<now, pc, pin, next, frame, k, mode, got, seen, fell, delay, prompt>>

Next == Driver \/ TargetAnswers \/ TargetSends

Spec == Init /\ [][Next]_vars
-----------------------------------------------------------------------------
TypeOK ==
  /\ now \in Nat /\ next \in Nat
  /\ pc \in {"idle", "raise", "lower", "one", "finish", "ack", "write",
             "listen", "bits", "return"}
  /\ pin \in {"in", "high", "low"}
  /\ frame \in Seq({0, 1}) /\ k \in 1 .. NBits + 2
  /\ mode \in {"command", "byte", "reply"}
  /\ got \in Seq({0, 1}) /\ count \in 0 .. MaxFrames
  /\ seen \in Seq({0, 1}) /\ fell \in Nat
  /\ says \in Seq({0, 1}) /\ at \in Nat
  /\ delay \in Nat /\ prompt \in BOOLEAN

(* From the edges alone the target makes out every frame the driver sends,  *)
(* bit for bit, parity bit and ACK included, wherever the cycle counter     *)
(* wraps: each 0 is ended in time for the next bit's edge, by the bit after *)
(* it or by finish_sync (swim.c:88-140, 193-196).  The ACK of a byte needs  *)
(* a target that is through with it: see BitsHeard.                         *)
FrameUnderstood ==
  pc \in {"ack", "listen", "return"} /\ (mode = "reply" => prompt) => seen = frame

(* The driver hears what the target says, bit for bit, ACKs and bytes with  *)
(* any run of zeros, until the first wait of read_byte whose delays do not  *)
(* make up for its length: 180 cycles where the comment asks for 200        *)
(* (swim.c:148-149, 184), so that the end of one 0 may be taken for the     *)
(* start of the next bit.  Nothing else makes it mishear.                   *)
BitsHeard ==
  prompt => Len(got) <= Len(says) /\ got = SubSeq(says, 1, Len(got))

(* And no other delays do: from the first wait that they do not make up for *)
(* the driver comes back inside the low level that it has read already, or  *)
(* when the next bit has begun, and what it notices is not the falling edge *)
(* of that bit (swim.c:184-185).                                            *)
MarginExact ==
  [][prompt /\ ~prompt' => next' - delay' # Fall(Len(got'))]_vars

(* The two ends take turns on the wire.  The driver's falling edges come    *)
(* when the last slot of the target is over, although the MAX of            *)
(* send_command (swim.c:213) picks a time in the past when one of its       *)
(* arguments has wrapped, and the target's come when the driver has let go  *)
(* (swim.c:150-151).  A driver that has misheard the byte it acknowledges   *)
(* may be early.  It raises its pin before the slot's end, see README.      *)
TakeTurns ==
  [][/\ prompt /\ pin # "low" /\ pin' = "low" => says = << >> \/ now' >= SlotsEnd
     /\ says' # says /\ says' # << >> => pin = "in" /\ now <= at']_vars
=============================================================================
