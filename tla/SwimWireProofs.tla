--------------------------- MODULE SwimWireProofs ---------------------------
(***************************************************************************)
(* Proofs about SwimWire, for every period W of the cycle counter, every   *)
(* lag and detection time, every width of a byte, gap and start: each end  *)
(* makes out what the other sends and their falling edges never meet, as   *)
(* long as the delays make up for the waits of read_byte, and no longer.   *)
(***************************************************************************)
EXTENDS SwimWire, FiniteSetTheorems, SequenceTheorems, TLAPS

Sending == {"raise", "lower", "one", "finish"}

(* The target has made out the first n bits of the frame. *)
MadeOut(n) == Len(seen) = n /\ \A i \in 1 .. n : seen[i] = frame[i]

(* The bit that the driver writes has its deadline at next.  Before every   *)
(* bit the clock is less than half its period away from the deadline.       *)
Framing ==
  /\ pc \in Sending => Len(frame) <= NBits + 2 /\ k <= Len(frame)
  /\ pc = "raise" =>
       /\ now \in next - 330 .. next - 104
       /\ IF k > 1 /\ Previous = 0
          THEN pin = "low" /\ fell \in next - 220 .. next - 194 /\ MadeOut(k - 2)
          ELSE pin = "high" /\ MadeOut(k - 1) /\ (k > 1 => now >= next - 193)
  /\ pc = "lower" =>
       pin = "high" /\ now \in next - 193 .. next - 1 /\ MadeOut(k - 1)
  /\ pc = "one" =>
       /\ pin = "low" /\ frame[k] = 1 /\ MadeOut(k - 1)
       /\ now = fell /\ fell \in next .. next + 26
  /\ pc = "finish" =>
       /\ k = Len(frame) /\ fell \in next .. next + 26
       /\ \/ frame[k] = 0 /\ pin = "low" /\ now = fell /\ MadeOut(k - 1)
          \/ frame[k] = 1 /\ pin = "high" /\ now \in next + 27 .. next + 53 /\ MadeOut(k)
  /\ pc \in {"ack", "write", "listen", "bits", "return"} => seen = frame

(* The driver has sampled bit j of the target. *)
Sampled(j) ==
  /\ delay \in Detect /\ next = Fall(j) + delay
  /\ \E l \in Lags : now = next + BIT_HALF_TIME + l

(* While the delays make up for the waits, what the driver has heard is the *)
(* beginning of what the target says, and the two are never in different    *)
(* bits.                                                                    *)
Heard == Len(got) <= Len(says) /\ \A i \in 1 .. Len(got) : got[i] = says[i]

Hearing ==
  /\ prompt => Heard
  /\ pc = "idle" => says = << >>
  /\ pc \in Sending => ~prompt \/ says = << >> \/ next >= SlotsEnd
  /\ pc \in {"ack", "listen", "bits"} => pin = "in" /\ Len(says) <= NBits + 2
  /\ pc = "ack" => /\ mode # "reply" /\ got = << >> /\ now < fell + Slot
                   /\ says = << >> \/ (Len(says) = 1 /\ now < at)
  /\ pc = "write" => Len(says) = 1 /\ Len(got) = 1 /\ Sampled(1)
  /\ pc = "listen" =>
       \/ says = << >> /\ mode = "reply" /\ now < fell + Slot
       \/ Len(says) = 1 /\ says[1] = 1 /\ Len(got) = 1 /\ mode # "reply" /\ Sampled(1)
       \/ says # << >> /\ says[1] = 1 /\ now < at
  /\ pc = "bits" => /\ Len(got) \in 1 .. NBits + 2 /\ now \in next + 90 .. next + 116
                    /\ prompt => Sampled(Len(got))

(* The inductive invariant. *)
IInv == TypeOK /\ Framing /\ Hearing
-----------------------------------------------------------------------------
LEMMA Sizes ==
  /\ W \in Nat /\ W >= 2048 /\ NBits \in Nat /\ MaxFrames \in Nat /\ MaxFrames >= 1
  /\ Starts \subseteq Nat /\ Gaps \subseteq Nat
  /\ \A l \in Lags : l \in Nat /\ l <= 26
  /\ \A d \in Detect : d \in Nat /\ d <= 80
<1>1. \A l \in Lags : l \in Nat /\ l <= 26
  BY WireAssumption DEF SHORT_PERIOD_LENGTH
<1>2. \A d \in Detect : d \in Nat /\ d <= 80
  BY WireAssumption DEF SWIM_CLOCK
<1> QED
  BY <1>1, <1>2, WireAssumption DEF Slot

(* sync_ccount waits for a deadline ahead and returns at once behind one,   *)
(* if the two are closer than half the counter's period.                    *)
LEMMA SyncMeans ==
  ASSUME NEW t \in Int, NEW deadline \in Int, t - deadline >= -1000, t - deadline <= 1000
  PROVE  Sync(t, deadline) = IF t >= deadline THEN t ELSE deadline
<1>1. W \in Nat /\ W >= 2048 /\ W \div 2 >= 1024 /\ W \div 2 \in Nat /\ W >= W \div 2 + 1000
  <2>1. W \in Nat /\ W >= 2048 /\ W % 2 = 0
    BY WireAssumption
  <2> QED
    BY <2>1
<1>2. \A x \in Int : 0 <= x /\ x < W => x % W = x
  BY <1>1
<1>3. \A x \in Int : -W <= x /\ x < 0 => x % W = x + W
  BY <1>1
<1>4. CASE t >= deadline
  <2>1. (t - deadline) % W = t - deadline
    BY <1>1, <1>2, <1>4
  <2> QED
    BY <1>1, <1>4, <2>1 DEF Sync
<1>5. CASE t < deadline
  <2>1. (t - deadline) % W = (t - deadline) + W
    BY <1>1, <1>3, <1>5
  <2>2. (deadline - t) % W = deadline - t
    BY <1>1, <1>2, <1>5
  <2>3. ~((t - deadline) % W < W \div 2)
    BY <1>1, <2>1
  <2> QED
    BY <1>5, <2>2, <2>3 DEF Sync
<1> QED
  BY <1>4, <1>5

LEMMA ParityBit ==
  ASSUME NEW n \in Nat, NEW bits \in [1 .. n -> {0, 1}]
  PROVE  Parity(bits) \in {0, 1}
<1>1. IsFiniteSet({i \in 1 .. n : bits[i] = 1})
  BY FS_Interval, FS_Subset
<1>2. Cardinality({i \in 1 .. n : bits[i] = 1}) \in Nat
  BY <1>1, FS_CardinalityType
<1> QED
  BY <1>2 DEF Parity

LEMMA Picked == ASSUME NEW a, NEW b PROVE MAX(a, b) \in {a, b}
BY DEF MAX

(* The target takes a pulse of less than half a bit for a 1. *)
LEMMA Decoding ==
  ASSUME NEW rise \in Int, NEW fall \in Int
  PROVE  Decoded(rise - fall) = IF rise < fall + 110 THEN 1 ELSE 0
BY DEF Decoded, Slot

(* The target makes a bit out. *)
LEMMA OneMore ==
  ASSUME NEW n \in Nat, NEW v, seen \in Seq({0, 1}), frame' = frame,
         MadeOut(n), seen' = Append(seen, v), v = frame[n + 1]
  PROVE  Len(seen') = n + 1 /\ \A i \in 1 .. n + 1 : seen'[i] = frame'[i]
BY AppendProperties DEF MadeOut
-----------------------------------------------------------------------------
LEMMA InitInv == Init => IInv
<1> SUFFICES ASSUME Init PROVE IInv
  OBVIOUS
<1>1. TypeOK
  BY Sizes DEF Init, TypeOK
<1>2. Framing
  BY DEF Init, Framing, Sending
<1>3. Hearing
  <2>1. Len(got) = 0 /\ Len(says) = 0
    BY DEF Init
  <2> QED
    BY <2>1 DEF Init, Hearing, Heard, Sending
<1> QED
  BY <1>1, <1>2, <1>3 DEF IInv
-----------------------------------------------------------------------------
(* The start of a frame whose first bit is due at t. *)
LEMMA StartInv ==
  ASSUME IInv, NEW bits \in Seq({0, 1}), Len(bits) >= 1, Len(bits) <= NBits + 2,
         NEW t \in Nat, NEW purpose \in {"command", "byte", "reply"}, Start(purpose, bits, t),
         now' \in Nat, now' \in t - 330 .. t - 104, count' \in 0 .. MaxFrames,
         ~prompt \/ says = << >> \/ t >= SlotsEnd
  PROVE  IInv'
<1>1. /\ pin' = "high" /\ pc' = "raise" /\ mode' = purpose /\ frame' = bits /\ k' = 1
      /\ next' = t /\ seen' = << >> /\ UNCHANGED <<got, fell, says, at, delay, prompt>>
  BY DEF Start
<1>2. TypeOK'
  BY <1>1, Sizes DEF IInv, TypeOK
<1>3. Framing'
  BY <1>1 DEF Framing, Sending, MadeOut, Previous
<1>4. SlotsEnd' = SlotsEnd
  BY <1>1 DEF SlotsEnd, Fall
<1>5. Hearing'
  BY <1>1, <1>4 DEF IInv, Hearing, Heard, Sending
<1> QED
  BY <1>2, <1>3, <1>5 DEF IInv

LEMMA FrameOf ==
  ASSUME NEW data \in Bits
  PROVE  LET bits == <<0>> \o data \o <<Parity(data)>>
         IN  bits \in Seq({0, 1}) /\ Len(bits) >= 1 /\ Len(bits) <= NBits + 2
<1>1. NBits \in Nat /\ data \in [1 .. NBits -> {0, 1}] /\ Parity(data) \in {0, 1}
  BY ParityBit, Sizes DEF Bits
<1>2. data \in Seq({0, 1}) /\ Len(data) = NBits
  BY <1>1
<1> QED
  BY <1>1, <1>2

LEMMA SendFrameInv ==
  ASSUME IInv, NEW t \in Nat, NEW purpose \in {"command", "byte"}, SendFrame(purpose, t),
         now' \in Nat, now' \in t - 130 .. t - 40, count' \in 0 .. MaxFrames,
         says = << >> \/ t + 200 >= SlotsEnd
  PROVE  IInv'
<1>1. PICK data \in Bits : Start(purpose, <<0>> \o data \o <<Parity(data)>>, t + 200)
  BY DEF SendFrame, FrameDelay
<1>2. t + 200 \in Nat /\ now' \in (t + 200) - 330 .. (t + 200) - 104
  OBVIOUS
<1> DEFINE bits == <<0>> \o data \o <<Parity(data)>>
<1>3. bits \in Seq({0, 1}) /\ Len(bits) >= 1 /\ Len(bits) <= NBits + 2
  BY FrameOf
<1>4. Start(purpose, bits, t + 200)
  BY <1>1
<1> HIDE DEF bits
<1> QED
  BY <1>2, <1>3, <1>4, StartInv

LEMMA SendCommandInv ==
  ASSUME IInv, SendCommand
  PROVE  IInv'
<1>1. pc = "idle" /\ now' \in Nat /\ SendFrame("command", now' + 40) /\ count' = 1
  BY Sizes DEF SendCommand
<1>2. says = << >>
  BY <1>1 DEF IInv, Hearing
<1>4. \A x \in Nat : x + 40 \in Nat /\ x \in (x + 40) - 130 .. (x + 40) - 40
  OBVIOUS
<1>3. count' \in 0 .. MaxFrames
  BY <1>1, Sizes
<1> QED
  BY <1>1, <1>2, <1>3, <1>4, SendFrameInv

(* Half a bit behind its fall the driver has made up its mind. *)
LEMMA SampledWhen ==
  ASSUME NEW j \in Nat, Sampled(j), at \in Nat
  PROVE  /\ next \in Int /\ next >= Fall(j) /\ next <= Fall(j) + 80 /\ Fall(j) \in Int
         /\ now \in next + 90 .. next + 116 /\ now \in Fall(j) + 90 .. Fall(j) + 196
         /\ Fall(j) = at + (j - 1) * 220
<1>1. PICK d \in Detect, l \in Lags : next = Fall(j) + d /\ now = next + 90 + l
  BY DEF Sampled, BIT_HALF_TIME, SWIM_CLOCK
<1>2. d \in Nat /\ l \in Nat /\ l <= 26 /\ d <= 80
  BY Sizes
<1>3. Fall(j) \in Int /\ Fall(j) = at + (j - 1) * 220
  BY DEF Fall, Slot
<1> QED
  BY <1>1, <1>2, <1>3

LEMMA NextByteInv ==
  ASSUME IInv, NextByte
  PROVE  IInv'
<1>1. /\ pc = "write" /\ count < MaxFrames /\ count' = count + 1 /\ now' = now
      /\ SendFrame("byte", MAX(next + 220, now + 40))
  BY DEF NextByte, BIT_TOTAL_PERIOD_LENGTH, SWIM_CLOCK
<1>2. Len(says) = 1 /\ Sampled(1) /\ TypeOK
  BY <1>1 DEF IInv, Hearing
<1>3. /\ next >= at /\ now \in next + 90 .. next + 116 /\ SlotsEnd = at + 220
      /\ next \in Nat /\ now \in Nat /\ at \in Nat
  BY <1>2, SampledWhen DEF TypeOK, SlotsEnd, Fall, Slot
<1> DEFINE t == MAX(next + 220, now + 40)
<1>4. t \in {next + 220, now + 40}
  BY Picked
<1>5. t \in Nat /\ now \in t - 130 .. t - 40 /\ t + 200 >= SlotsEnd
  BY <1>3, <1>4
<1>6. count' \in 0 .. MaxFrames
  BY <1>1, <1>2, Sizes DEF TypeOK
<1> HIDE DEF t
<1> QED
  BY <1>1, <1>3, <1>5, <1>6, SendFrameInv DEF t

LEMMA ReplyBitInv ==
  ASSUME IInv, ReplyBit
  PROVE  IInv'
<1>1. /\ pc = "bits" /\ Len(got) = NBits + 2 /\ UNCHANGED <<now, count>>
      /\ Start("reply", <<1 - Parity(Tail(got))>>, next + 220)
  BY DEF ReplyBit, BIT_TOTAL_PERIOD_LENGTH, SWIM_CLOCK
<1>2. TypeOK /\ NBits + 2 \in Nat /\ now \in next + 90 .. next + 116 /\ next \in Nat
  BY <1>1, Sizes DEF IInv, Hearing, TypeOK
<1>3. ASSUME prompt PROVE next + 220 >= SlotsEnd
  <2>1. Len(says) <= NBits + 2 /\ Len(got) <= Len(says) /\ Sampled(NBits + 2)
    BY <1>1, <1>3 DEF IInv, Hearing, Heard
  <2>2. Len(says) = NBits + 2
    BY <1>1, <1>2, <2>1 DEF TypeOK
  <2>3. next >= Fall(NBits + 2)
    BY <1>2, <2>1, SampledWhen DEF TypeOK
  <2>4. SlotsEnd = Fall(NBits + 2) + 220 /\ Fall(NBits + 2) \in Int
    BY <1>2, <2>2, Sizes DEF SlotsEnd, Fall, Slot, TypeOK
  <2> QED
    BY <1>2, <2>3, <2>4
<1>4. ~prompt \/ next + 220 >= SlotsEnd
  BY <1>3
<1>5. Parity(Tail(got)) \in {0, 1}
  <2>1. Tail(got) \in Seq({0, 1}) /\ Len(Tail(got)) = NBits + 1
    BY <1>1, <1>2, Sizes DEF TypeOK
  <2>2. Tail(got) \in [1 .. NBits + 1 -> {0, 1}] /\ NBits + 1 \in Nat
    <3>1. Tail(got) \in [1 .. Len(Tail(got)) -> {0, 1}]
      BY <2>1, LenProperties
    <3> QED
      BY <2>1, <3>1, Sizes
  <2> QED
    BY <2>2, ParityBit
<1>6. /\ <<1 - Parity(Tail(got))>> \in Seq({0, 1}) /\ Len(<<1 - Parity(Tail(got))>>) = 1
  BY <1>5
<1>7. next + 220 \in Nat /\ now' \in (next + 220) - 330 .. (next + 220) - 104 /\ now' \in Nat
      /\ count' \in 0 .. MaxFrames
  BY <1>1, <1>2 DEF TypeOK
<1> HIDE DEF Parity
<1>8. 1 <= NBits + 2 /\ 1 >= 1
  BY Sizes
<1> QED
  BY <1>1, <1>4, <1>6, <1>7, <1>8, StartInv
-----------------------------------------------------------------------------
(* The bits of a frame: a rising edge for the 0 before, *)
LEMMA RaiseBeforeInv ==
  ASSUME IInv, RaiseBefore
  PROVE  IInv'
<1>1. /\ pc = "raise" /\ pc' = "lower" /\ UNCHANGED <<next, frame, k, mode, got, count, says, at, delay, prompt>>
  BY DEF RaiseBefore
<1>2. TypeOK /\ Framing /\ Hearing /\ k \in Nat /\ k >= 1 /\ k <= Len(frame) /\ Len(frame) <= NBits + 2
  BY <1>1 DEF IInv, TypeOK, Framing, Sending
<1>3. now \in next - 330 .. next - 104 /\ now \in Nat /\ next \in Nat
  BY <1>1, <1>2 DEF Framing, TypeOK
<1>4. IF k > 1 /\ Previous = 0
      THEN pin = "low" /\ fell \in next - 220 .. next - 194 /\ MadeOut(k - 2)
      ELSE pin = "high" /\ MadeOut(k - 1) /\ (k > 1 => now >= next - 193)
  BY <1>1, <1>2 DEF Framing
<1>5. CASE Previous = 0
  <2>1. PICK l \in Lags : now' = Sync(now, next - 27) + l
    BY <1>5 DEF RaiseBefore, SHORT_PERIOD_LENGTH
  <2>2. Sync(now, next - 27) = next - 27
    BY <1>3, SyncMeans
  <2>3. now' = next - 27 + l /\ l \in Nat /\ l <= 26
    BY <2>1, <2>2, Sizes
  <2>4. now' \in Nat /\ now' \in next - 193 .. next - 1
    BY <1>3, <2>3
  <2>5. pin' = "high" /\ fell' = fell /\ seen' = IF pin = "low" THEN Append(seen, Decoded(now' - fell)) ELSE seen
    BY <1>5 DEF RaiseBefore, Raise
  <2>6. CASE k > 1
    <3>1. fell \in Int /\ now' \in Int /\ now' >= fell + 110
      BY <1>3, <1>4, <1>5, <2>3, <2>6
    <3>2. Decoded(now' - fell) = 0
      BY <3>1, Decoding
    <3>3. seen' = Append(seen, 0) /\ k - 2 \in Nat /\ frame[(k - 2) + 1] = 0 /\ MadeOut(k - 2)
      BY <1>2, <1>4, <1>5, <2>5, <2>6, <3>2 DEF Previous
    <3>4. Len(seen') = (k - 2) + 1 /\ \A i \in 1 .. (k - 2) + 1 : seen'[i] = frame'[i]
      BY <1>1, <1>2, <3>3, OneMore DEF TypeOK
    <3>5. MadeOut(k - 1)'
      BY <1>1, <1>2, <3>4 DEF MadeOut
    <3>6. seen' \in Seq({0, 1})
      BY <1>2, <3>3 DEF TypeOK
    <3> QED
      BY <1>1, <1>2, <2>4, <2>5, <3>5, <3>6 DEF IInv, TypeOK, Framing, Hearing, Heard, Sending, SlotsEnd, Fall
  <2>7. CASE k = 1
    <3>1. seen' = seen /\ MadeOut(k - 1)'
      BY <1>1, <1>4, <2>5, <2>7 DEF MadeOut
    <3> QED
      BY <1>1, <1>2, <2>4, <2>5, <3>1 DEF IInv, TypeOK, Framing, Hearing, Heard, Sending, SlotsEnd, Fall
  <2> QED
    BY <1>2, <2>6, <2>7
<1>6. CASE Previous # 0
  <2>1. UNCHANGED <<now, pin, seen, fell>>
    BY <1>6 DEF RaiseBefore
  <2>2. k > 1 /\ now \in next - 193 .. next - 1
    BY <1>2, <1>3, <1>4, <1>6 DEF Previous
  <2>3. MadeOut(k - 1)'
    BY <1>1, <1>4, <1>6, <2>1 DEF MadeOut
  <2> QED
    BY <1>1, <1>2, <1>4, <1>6, <2>1, <2>2, <2>3 DEF IInv, TypeOK, Framing, Hearing, Heard, Sending, SlotsEnd, Fall
<1> QED
  BY <1>5, <1>6
-----------------------------------------------------------------------------
(* the end of a bit, *)
LEMMA OnwardInv ==
  ASSUME IInv, pc \in {"lower", "one"}, Onward, UNCHANGED <<frame, mode, got, count, says, at, delay, prompt>>,
         now' \in Nat, fell' \in Nat, seen' \in Seq({0, 1}), fell' \in next .. next + 26,
         \/ /\ frame[k] = 0 /\ pin' = "low" /\ now' = fell'
            /\ Len(seen') = k - 1 /\ \A i \in 1 .. k - 1 : seen'[i] = frame[i]
         \/ /\ frame[k] = 1 /\ pin' = "high" /\ now' \in next + 27 .. next + 53
            /\ Len(seen') = k /\ \A i \in 1 .. k : seen'[i] = frame[i]
  PROVE  IInv'
<1>1. /\ TypeOK /\ k \in Nat /\ k >= 1 /\ k <= Len(frame) /\ Len(frame) <= NBits + 2
      /\ next \in Nat /\ (~prompt \/ says = << >> \/ next >= SlotsEnd)
  BY DEF IInv, TypeOK, Framing, Hearing, Heard, Sending
<1>2. Len(frame) \in Nat /\ NBits \in Nat
  BY <1>1, Sizes DEF TypeOK
<1>3. SlotsEnd' = SlotsEnd
  BY DEF SlotsEnd, Fall
<1>4. CASE k < Len(frame)
  <2>1. pc' = "raise" /\ k' = k + 1 /\ next' = next + 220
    BY <1>4 DEF Onward, BIT_TOTAL_PERIOD_LENGTH, SWIM_CLOCK
  <2>2. k' > 1 /\ k' \in 1 .. NBits + 2 /\ k' <= Len(frame) /\ Previous' = frame[k] /\ next' \in Nat
        /\ k' - 1 = k /\ k' - 2 = k - 1
    BY <1>1, <1>2, <1>4, <2>1 DEF Previous
  <2>3. /\ now' \in next' - 330 .. next' - 104
        /\ IF k' > 1 /\ Previous' = 0
           THEN pin' = "low" /\ fell' \in next' - 220 .. next' - 194 /\ MadeOut(k - 2)'
           ELSE pin' = "high" /\ MadeOut(k - 1)' /\ (k' > 1 => now' >= next' - 193)
    BY <1>1, <2>1, <2>2 DEF MadeOut
  <2>4. Framing'
    BY <1>1, <2>1, <2>2, <2>3 DEF Framing, Sending
  <2>5. ~prompt' \/ says' = << >> \/ next' >= SlotsEnd'
    <3>1. prompt /\ says # << >> => SlotsEnd <= next
      BY <1>1
    <3>2. SlotsEnd \in Int
      BY <1>1 DEF TypeOK, SlotsEnd, Fall, Slot
    <3> QED
      BY <1>1, <1>3, <2>1, <3>1, <3>2
  <2>6. TypeOK'
    BY <1>1, <2>1, <2>2 DEF TypeOK
  <2>7. Hearing'
    BY <2>1, <2>5 DEF IInv, Hearing, Heard, Sending
  <2> QED
    BY <2>4, <2>6, <2>7 DEF IInv
<1>5. CASE ~(k < Len(frame))
  <2>1. pc' = "finish" /\ UNCHANGED <<k, next>> /\ k = Len(frame)
    BY <1>1, <1>2, <1>5 DEF Onward
  <2>2. TypeOK' /\ Framing'
    BY <1>1, <2>1 DEF TypeOK, Framing, Sending, MadeOut
  <2>3. Hearing'
    BY <1>1, <1>3, <2>1 DEF IInv, Hearing, Heard, Sending
  <2> QED
    BY <2>2, <2>3 DEF IInv
<1> QED
  BY <1>4, <1>5

(* its falling edge, at its deadline, *)
LEMMA FallingEdgeWhen ==
  ASSUME IInv, FallingEdge
  PROVE  \E l \in Lags : now' = next + l
<1>1. pc = "lower" /\ now \in next - 193 .. next - 1 /\ now \in Nat /\ next \in Nat
  BY DEF FallingEdge, IInv, Framing, TypeOK
<1>2. Sync(now, next) = next
  BY <1>1, SyncMeans
<1> QED
  BY <1>2 DEF FallingEdge

LEMMA FallingEdgeInv ==
  ASSUME IInv, FallingEdge
  PROVE  IInv'
<1>1. /\ pc = "lower" /\ pin = "high" /\ pin' = "low" /\ fell' = now' /\ seen' = seen
      /\ UNCHANGED <<frame, mode, got, count, says, at, delay, prompt>> /\ MadeOut(k - 1)
      /\ TypeOK /\ k \in Nat /\ k >= 1 /\ k <= Len(frame) /\ Len(frame) <= NBits + 2 /\ next \in Nat
  BY DEF FallingEdge, Lower, IInv, Framing, Sending, TypeOK
<1>2. now' \in Nat /\ now' \in next .. next + 26
  <2>1. PICK l \in Lags : now' = next + l
    BY FallingEdgeWhen
  <2>2. l \in Nat /\ l <= 26
    BY Sizes
  <2> QED
    BY <1>1, <2>1, <2>2
<1>3. frame[k] \in {0, 1}
  <2>1. k \in 1 .. Len(frame)
    BY <1>1 DEF TypeOK
  <2> QED
    BY <1>1, <2>1, ElementOfSeq DEF TypeOK
<1>4. CASE frame[k] = 1
  <2>1. pc' = "one" /\ UNCHANGED <<k, next>>
    BY <1>4 DEF FallingEdge
  <2>2. TypeOK' /\ Framing'
    BY <1>1, <1>2, <1>4, <2>1 DEF TypeOK, Framing, Sending, MadeOut
  <2>3. Hearing'
    BY <1>1, <2>1 DEF IInv, Hearing, Heard, Sending, SlotsEnd, Fall
  <2> QED
    BY <2>2, <2>3 DEF IInv
<1>5. CASE frame[k] = 0
  <2>1. Onward
    BY <1>5 DEF FallingEdge
  <2>2. Len(seen') = k - 1 /\ \A i \in 1 .. k - 1 : seen'[i] = frame[i]
    BY <1>1 DEF MadeOut
  <2>3. seen' \in Seq({0, 1})
    BY <1>1 DEF TypeOK
  <2> QED
    BY <1>1, <1>2, <1>5, <2>1, <2>2, <2>3, OnwardInv
<1> QED
  BY <1>3, <1>4, <1>5

(* the rising edge of a 1. *)
LEMMA RaiseOneInv ==
  ASSUME IInv, RaiseOne
  PROVE  IInv'
<1>1. /\ pc = "one" /\ pin = "low" /\ frame[k] = 1 /\ MadeOut(k - 1) /\ now = fell /\ fell \in next .. next + 26
      /\ TypeOK /\ k \in Nat /\ k >= 1 /\ next \in Nat /\ now \in Nat
  BY DEF RaiseOne, IInv, Framing, Sending, TypeOK
<1>2. /\ Onward /\ UNCHANGED <<frame, mode, got, count, says, at, delay, prompt>>
      /\ pin' = "high" /\ fell' = fell /\ seen' = Append(seen, Decoded(now' - fell))
  BY <1>1 DEF RaiseOne, Raise
<1>3. PICK l \in Lags : now' = Sync(now, next + 27) + l
  BY DEF RaiseOne, SHORT_PERIOD_LENGTH
<1>4. Sync(now, next + 27) = next + 27 /\ l \in Nat /\ l <= 26
  BY <1>1, SyncMeans, Sizes
<1>5. now' \in Nat /\ now' \in next + 27 .. next + 53
  BY <1>1, <1>3, <1>4
<1>6. Decoded(now' - fell) = 1
  <2>1. fell \in Int /\ now' \in Int /\ now' < fell + 110
    BY <1>1, <1>5
  <2> QED
    BY <2>1, Decoding
<1>7. Len(seen') = k /\ \A i \in 1 .. k : seen'[i] = frame[i]
  <2>1. k - 1 \in Nat /\ frame[(k - 1) + 1] = 1 /\ (k - 1) + 1 = k
    BY <1>1
  <2>2. Len(seen') = (k - 1) + 1 /\ \A i \in 1 .. (k - 1) + 1 : seen'[i] = frame'[i]
    BY <1>1, <1>2, <1>6, <2>1, OneMore DEF TypeOK
  <2> QED
    BY <1>2, <2>1, <2>2
<1>8. seen' \in Seq({0, 1}) /\ fell' \in Nat /\ fell' \in next .. next + 26
  BY <1>1, <1>2, <1>6 DEF TypeOK
<1> QED
  BY <1>1, <1>2, <1>5, <1>7, <1>8, OnwardInv

(* finish_sync. *)
LEMMA FinishInv ==
  ASSUME IInv, Finish
  PROVE  IInv'
<1>1. /\ pc = "finish" /\ UNCHANGED <<next, frame, k, mode, count, fell, at, delay, prompt>>
      /\ pin' = "in" /\ got' = << >> /\ says' = << >>
      /\ pc' \in {"ack", "listen", "return"} /\ (pc' = "listen" => mode = "reply") /\ (pc' = "ack" => mode # "reply")
      /\ seen' = IF pin = "low" THEN Append(seen, Decoded(now' - fell)) ELSE seen
  BY DEF Finish
<1>2. /\ TypeOK /\ next \in Nat /\ now \in Nat /\ fell \in next .. next + 26 /\ now \in next .. next + 53
      /\ k = Len(frame) /\ k \in Nat /\ k >= 1
      /\ \/ frame[k] = 0 /\ pin = "low" /\ now = fell /\ MadeOut(k - 1)
         \/ frame[k] = 1 /\ pin = "high" /\ MadeOut(k)
  BY <1>1 DEF IInv, Framing, TypeOK
<1>3. PICK l \in Lags : now' = Sync(now, next + 193) + l
  BY DEF Finish, SHORT_PERIOD_LENGTH, BIT_TOTAL_PERIOD_LENGTH, SWIM_CLOCK
<1>4. Sync(now, next + 193) = next + 193 /\ l \in Nat /\ l <= 26
  BY <1>2, SyncMeans, Sizes
<1>5. now' \in Nat /\ now' \in next + 193 .. next + 219 /\ now' < fell + 220
  BY <1>2, <1>3, <1>4
<1>6. seen' = frame
  <2>1. CASE frame[k] = 0
    <3>1. fell \in Int /\ now' \in Int /\ now' >= fell + 110
      BY <1>2, <1>5
    <3>2. Decoded(now' - fell) = 0
      BY <3>1, Decoding
    <3>3. seen' = Append(seen, 0) /\ k - 1 \in Nat /\ frame[(k - 1) + 1] = 0 /\ (k - 1) + 1 = k /\ MadeOut(k - 1)
      BY <1>1, <1>2, <2>1, <3>2
    <3>4. Len(seen') = (k - 1) + 1 /\ \A i \in 1 .. (k - 1) + 1 : seen'[i] = frame'[i]
      BY <1>1, <1>2, <3>3, OneMore DEF TypeOK
    <3>5. seen' \in Seq({0, 1}) /\ frame \in Seq({0, 1})
      BY <1>2, <3>3 DEF TypeOK
    <3> QED
      BY <1>1, <1>2, <3>3, <3>4, <3>5, SeqEqual
  <2>2. CASE frame[k] = 1
    <3>1. seen' = seen /\ MadeOut(k)
      BY <1>1, <1>2, <2>2
    <3> QED
      BY <1>2, <3>1, SeqEqual DEF MadeOut, TypeOK
  <2> QED
    BY <1>2, <2>1, <2>2
<1>7. TypeOK'
  BY <1>1, <1>2, <1>5, <1>6 DEF TypeOK
<1>8. Framing'
  BY <1>1, <1>6 DEF Framing, Sending
<1>9. Hearing'
  BY <1>1, <1>5, Sizes DEF Hearing, Heard, Sending, Slot
<1> QED
  BY <1>7, <1>8, <1>9 DEF IInv
-----------------------------------------------------------------------------
(* The falling edges of the target are a slot apart, its lows are shorter. *)
LEMMA FallAt ==
  ASSUME TypeOK, NEW i \in Nat
  PROVE  Fall(i) \in Int /\ Fall(i + 1) = Fall(i) + 220
BY DEF Fall, Slot, TypeOK

LEMMA Apart ==
  ASSUME TypeOK, NEW i \in Nat, NEW j \in Nat, i < j
  PROVE  Fall(j) >= Fall(i) + 220 /\ Fall(i) \in Int /\ Fall(j) \in Int
BY DEF Fall, Slot, TypeOK

LEMMA InOrder ==
  ASSUME TypeOK, NEW i \in Nat, NEW j \in Nat, i <= j
  PROVE  Fall(j) >= Fall(i)
BY DEF Fall, Slot, TypeOK

LEMMA Low ==
  ASSUME TypeOK, NEW i \in 1 .. Len(says)
  PROVE  /\ says[i] \in {0, 1} /\ i \in Nat
         /\ LowTime(says[i]) = IF says[i] = 0 THEN 200 ELSE 20
<1>1. says \in Seq({0, 1}) /\ Len(says) \in Nat
  BY DEF TypeOK
<1>2. says[i] \in {0, 1}
  BY <1>1, ElementOfSeq
<1> QED
  BY <1>1, <1>2 DEF LowTime

(* A bit that has begun or is next, with no other low in between, is the    *)
(* one that the driver notices.                                             *)
LEMMA NoticedIs ==
  ASSUME TypeOK, NEW j \in Nat, j >= 1, j <= Len(says), NEW t \in Int, t <= Fall(j),
         j > 1 => t >= Fall(j - 1) + LowTime(says[j - 1])
  PROVE  Audible(t) /\ Noticed(t) = Fall(j)
<1>1. DOMAIN says = 1 .. Len(says) /\ Len(says) \in Nat /\ j \in 1 .. Len(says)
  BY DEF TypeOK
<1>2. Fall(j) \in Int
  BY FallAt
<1>3. CASE t = Fall(j)
  <2>1. LowTime(says[j]) >= 20 /\ LowTime(says[j]) \in Int
    BY <1>1, Low
  <2>2. t \in Fall(j) .. Fall(j) + LowTime(says[j]) - 1
    BY <1>2, <1>3, <2>1
  <2>3. LowAt(t)
    BY <1>1, <2>2 DEF LowAt
  <2> QED
    BY <1>3, <2>3 DEF Audible, Noticed
<1>4. CASE t < Fall(j)
  <2>1. ASSUME NEW i \in 1 .. Len(says), t \in Fall(i) .. Fall(i) + LowTime(says[i]) - 1
        PROVE  FALSE
    <3>1. i \in Nat /\ Fall(i) \in Int /\ LowTime(says[i]) <= 200 /\ LowTime(says[i]) \in Int
      <4>1. i \in Nat /\ LowTime(says[i]) <= 200 /\ LowTime(says[i]) \in Int
        BY Low
      <4> QED
        BY <4>1, FallAt
    <3>2. Fall(i) <= t /\ t < Fall(i) + 200
      BY <2>1, <3>1
    <3>3. i < j
      <4>1. ~(j <= i)
        BY <1>2, <1>4, <3>1, <3>2, InOrder
      <4> QED
        BY <3>1, <4>1
    <3>4. j > 1 /\ i <= j - 1 /\ j - 1 \in 1 .. Len(says)
      BY <1>1, <2>1, <3>1, <3>3
    <3>5. j - 1 \in Nat /\ LowTime(says[j - 1]) >= 20 /\ LowTime(says[j - 1]) \in Int
      BY <3>4, Low
    <3>6. Fall(j - 1) \in Int
      BY <3>5, FallAt
    <3>7. i # j - 1
      BY <3>1, <3>2, <3>4, <3>5, <3>6, <2>1
    <3>8. Fall(j - 1) >= Fall(i) + 220
      BY <3>1, <3>4, <3>5, <3>7, Apart
    <3> QED
      BY <3>1, <3>2, <3>4, <3>5, <3>6, <3>8
  <2>2. ~LowAt(t)
    BY <1>1, <2>1 DEF LowAt
  <2>3. ASSUME NEW i \in 1 .. Len(says), Fall(i) > t PROVE Fall(j) <= Fall(i)
    <3>1. i \in Nat /\ Fall(i) \in Int
      BY <1>1, Low, FallAt
    <3>2. CASE i < j
      <4>1. j > 1 /\ j - 1 \in Nat /\ i <= j - 1 /\ j - 1 \in 1 .. Len(says)
        BY <1>1, <3>1, <3>2, <2>3
      <4>2. Fall(i) <= Fall(j - 1) /\ Fall(j - 1) \in Int
        BY <3>1, <4>1, InOrder, FallAt
      <4>3. LowTime(says[j - 1]) >= 20 /\ LowTime(says[j - 1]) \in Int
        BY <4>1, Low
      <4> QED
        BY <2>3, <3>1, <4>1, <4>2, <4>3
    <3>3. CASE ~(i < j)
      <4>1. j <= i
        BY <3>1, <3>3
      <4> QED
        BY <3>1, <4>1, InOrder
    <3> QED
      BY <3>2, <3>3
  <2> DEFINE Set == {Fall(i) : i \in DOMAIN says}
             P(u) == u > t /\ \A i \in DOMAIN says : Fall(i) > t => u <= Fall(i)
  <2>4. Fall(j) \in Set /\ P(Fall(j))
    BY <1>1, <1>2, <1>4, <2>3
  <2>5. \A u \in Set : P(u) => u = Fall(j)
    <3>1. ASSUME NEW i \in 1 .. Len(says), P(Fall(i)) PROVE Fall(i) = Fall(j)
      <4>1. Fall(i) <= Fall(j) /\ Fall(j) <= Fall(i) /\ Fall(i) \in Int
        <5>1. i \in Nat /\ Fall(i) \in Int
          BY Low, FallAt
        <5> QED
          BY <1>1, <1>4, <2>3, <3>1, <5>1
      <4> QED
        BY <1>2, <4>1
    <3> QED
      BY <1>1, <3>1
  <2>6. (CHOOSE u \in Set : P(u)) = Fall(j)
    <3> HIDE DEF Set, P
    <3> QED
      BY <2>4, <2>5
  <2>7. Noticed(t) = CHOOSE u \in Set : P(u)
    BY <2>2 DEF Noticed
  <2> QED
    BY <1>1, <1>4, <2>6, <2>7 DEF Audible
<1> QED
  BY <1>2, <1>3, <1>4

(* Behind its low the last bit says no more. *)
LEMMA Silent ==
  ASSUME TypeOK, NEW t \in Int, NEW n \in 1 .. Len(says), Len(says) = n,
         t >= Fall(n) + LowTime(says[n])
  PROVE  ~Audible(t)
<1>1. /\ n \in Nat /\ Fall(n) \in Int /\ LowTime(says[n]) >= 20 /\ LowTime(says[n]) \in Int
  <2>1. n \in Nat /\ LowTime(says[n]) >= 20 /\ LowTime(says[n]) \in Int
    BY Low
  <2> QED
    BY <2>1, FallAt
<1>2. ASSUME NEW i \in 1 .. Len(says)
      PROVE  /\ Fall(i) \in Int /\ ~(Fall(i) > t)
             /\ t \notin Fall(i) .. Fall(i) + LowTime(says[i]) - 1
  <2>1. i \in Nat /\ LowTime(says[i]) <= 200 /\ LowTime(says[i]) \in Int
    BY Low
  <2>2. Fall(i) \in Int /\ i <= n
    BY <1>1, <2>1, FallAt
  <2>3. CASE i = n
    BY <1>1, <2>3
  <2>4. CASE i # n
    <3>1. Fall(n) >= Fall(i) + 220
      BY <1>1, <2>1, <2>2, <2>4, Apart
    <3> QED
      BY <1>1, <2>1, <2>2, <3>1
  <2> QED
    BY <2>3, <2>4
<1>3. DOMAIN says = 1 .. Len(says)
  BY DEF TypeOK
<1> QED
  BY <1>2, <1>3 DEF Audible, LowAt

(* The driver takes the bit that it has noticed for what it is. *)
LEMMA HearsBit ==
  ASSUME TypeOK, NEW j \in Nat, j >= 1, j <= Len(says), NEW t \in Int, Noticed(t) = Fall(j),
         NEW before, ReadBit(t, before)
  PROVE  /\ got' = Append(before, says[j]) /\ says[j] \in {0, 1}
         /\ Sampled(j)' /\ now' \in Nat /\ next' \in Nat /\ delay' \in Nat
         /\ now' \in next' + 90 .. next' + 116
         /\ UNCHANGED <<mode, count, fell, says, at>>
<1>1. PICK d \in Detect, l \in Lags :
        next' = Fall(j) + d /\ delay' = d /\ now' = Sync(next', next' + 90) + l
  BY DEF ReadBit, BIT_HALF_TIME, SWIM_CLOCK
<1>2. d \in Nat /\ l \in Nat /\ l <= 26 /\ d <= 80
  BY Sizes
<1>3. Fall(j) \in Nat
  BY DEF Fall, Slot, TypeOK
<1>4. next' \in Nat /\ Sync(next', next' + 90) = next' + 90
  <2>1. Fall(j) + d \in Nat
    BY <1>2, <1>3
  <2>2. Sync(Fall(j) + d, (Fall(j) + d) + 90) = (Fall(j) + d) + 90
    BY <2>1, SyncMeans
  <2> QED
    BY <1>1, <2>1, <2>2
<1>5. now' = next' + 90 + l /\ now' \in Nat /\ now' >= Fall(j) + 90 /\ now' <= Fall(j) + 196
  <2> DEFINE start == Fall(j)
  <2>1. next' = start + d /\ now' = next' + 90 + l /\ start \in Nat
    BY <1>1, <1>3, <1>4
  <2> HIDE DEF start
  <2>2. now' \in Nat /\ now' >= start + 90 /\ now' <= start + 196
    BY ONLY <2>1, <1>2
  <2> QED
    BY <2>1, <2>2 DEF start
<1>6. UNCHANGED <<mode, count, fell, says, at>> /\ got' = Append(before, IF LowAt(now') THEN 0 ELSE 1)
  BY DEF ReadBit
<1>7. Sampled(j)'
  <2>1. Fall(j)' = Fall(j)
    BY <1>6 DEF Fall
  <2>2. next' = Fall(j)' + delay' /\ delay' \in Detect /\ now' = next' + BIT_HALF_TIME + l
    BY <1>1, <1>5, <2>1 DEF BIT_HALF_TIME, SWIM_CLOCK
  <2> QED
    BY <2>2 DEF Sampled
<1>8. says[j] \in {0, 1} /\ DOMAIN says = 1 .. Len(says) /\ j \in 1 .. Len(says) /\ Len(says) \in Nat
  <2>1. Len(says) \in Nat /\ DOMAIN says = 1 .. Len(says)
    BY DEF TypeOK
  <2>2. j \in 1 .. Len(says)
    BY <2>1
  <2> QED
    BY <2>1, <2>2, Low
<1>9. LowAt(now') <=> says[j] = 0
  <2>1. ASSUME NEW i \in 1 .. Len(says), i # j
        PROVE  now' \notin Fall(i) .. Fall(i) + LowTime(says[i]) - 1
    <3>1. i \in Nat /\ Fall(i) \in Int /\ LowTime(says[i]) <= 200 /\ LowTime(says[i]) \in Int
      <4>1. i \in Nat /\ LowTime(says[i]) <= 200 /\ LowTime(says[i]) \in Int
        BY Low
      <4> QED
        BY <4>1, FallAt
    <3>2. Fall(j) >= Fall(i) + 220 \/ Fall(i) >= Fall(j) + 220
      <4>1. i < j \/ j < i
        BY <2>1, <3>1
      <4> QED
        BY <3>1, <4>1, Apart
    <3>3. now' \in Int /\ Fall(j) \in Int /\ now' >= Fall(j) + 90 /\ now' <= Fall(j) + 196
      BY <1>3, <1>5
    <3>4. now' < Fall(i) \/ now' >= Fall(i) + 200
      BY <3>1, <3>2, <3>3
    <3> QED
      BY <3>1, <3>3, <3>4
  <2>2. says[j] = 0 => now' \in Fall(j) .. Fall(j) + LowTime(says[j]) - 1
    BY <1>3, <1>5, <1>8, Low
  <2>3. says[j] = 1 => now' \notin Fall(j) .. Fall(j) + LowTime(says[j]) - 1
    BY <1>3, <1>5, <1>8, Low
  <2> QED
    BY <1>8, <2>1, <2>2, <2>3 DEF LowAt
<1>10. delay' \in Nat /\ now' \in next' + 90 .. next' + 116
  BY <1>1, <1>2, <1>4, <1>5
<1> QED
  BY <1>4, <1>5, <1>6, <1>7, <1>8, <1>9, <1>10
-----------------------------------------------------------------------------
(* What is heard of a first bit that is still to come. *)
LEMMA FirstBit ==
  ASSUME TypeOK, says # << >>, now < at
  PROVE  Audible(now) /\ Noticed(now) = Fall(1) /\ Len(says) \in Nat /\ 1 <= Len(says)
<1>1. Len(says) \in Nat /\ 1 <= Len(says) /\ now \in Int /\ now <= Fall(1)
  BY DEF TypeOK, Fall, Slot
<1> QED
  BY <1>1, NoticedIs

LEMMA NothingSaid == says = << >> => \A t : ~Audible(t)
BY DEF Audible, LowAt

LEMMA ReadAckInv ==
  ASSUME IInv, ReadAck
  PROVE  IInv'
<1>1. /\ pc = "ack" /\ ReadBit(now, << >>) /\ frame' = << >> /\ k' = 1 /\ seen' = << >> /\ pin' = pin
      /\ prompt' = prompt
  BY DEF ReadAck
<1>2. pc' \in {"write", "listen", "return"} /\ (pc' = "listen" => got' = <<1>>)
  BY DEF ReadAck
<1>3. /\ TypeOK /\ mode # "reply" /\ (says = << >> \/ (Len(says) = 1 /\ now < at))
      /\ Audible(now) /\ pin = "in"
  <2>1. Audible(now)
    BY <1>1 DEF ReadBit
  <2> QED
    BY <1>1, <2>1 DEF IInv, Hearing
<1>4. says # << >> /\ Len(says) = 1 /\ now < at
  BY <1>3, NothingSaid
<1>5. /\ got' = Append(<< >>, says[1]) /\ says[1] \in {0, 1} /\ Sampled(1)'
      /\ now' \in Nat /\ next' \in Nat /\ delay' \in Nat /\ UNCHANGED <<mode, count, fell, says, at>>
      /\ now' \in next' + 90 .. next' + 116
  <2>1. Noticed(now) = Fall(1) /\ now \in Int /\ 1 <= Len(says)
    BY <1>3, <1>4, FirstBit DEF TypeOK
  <2>2. TypeOK /\ ReadBit(now, << >>)
    BY <1>1, <1>3
  <2>3. 1 \in Nat /\ 1 >= 1
    OBVIOUS
  <2> QED
    BY <2>1, <2>2, <2>3, HearsBit
<1>6. got' = <<says[1]>> /\ Len(got') = 1 /\ got'[1] = says[1] /\ got' \in Seq({0, 1})
  BY <1>5
<1>7. TypeOK'
  BY <1>1, <1>2, <1>3, <1>5, <1>6, Sizes DEF TypeOK
<1>8. Framing'
  BY <1>1, <1>2 DEF Framing, Sending
<1>9. pc' = "listen" => says[1] = 1
  BY <1>2, <1>6
<1>10. Hearing'
  <2>1. NBits + 2 >= 1
    BY Sizes
  <2>2. Len(says') = 1 /\ \A i \in 1 .. Len(got') : got'[i] = says'[i]
    BY <1>4, <1>5, <1>6
  <2>3. Heard'
    BY <1>6, <2>2 DEF Heard
  <2>4. pc' = "listen" => says'[1] = 1
    BY <1>5, <1>9
  <2> QED
    BY <1>1, <1>2, <1>3, <1>5, <1>6, <2>1, <2>2, <2>3, <2>4 DEF Hearing, Sending
<1> QED
  BY <1>7, <1>8, <1>10 DEF IInv

LEMMA ReadHeadInv ==
  ASSUME IInv, ReadHead
  PROVE  IInv'
<1>1. /\ pc = "listen" /\ ReadBit(now, << >>) /\ UNCHANGED <<pin, frame, k, seen, prompt>>
      /\ pc' = IF got' = <<1>> THEN "bits" ELSE "return"
  BY DEF ReadHead
<1>2. /\ TypeOK /\ Audible(now) /\ pin = "in" /\ seen = frame /\ Len(says) <= NBits + 2
      /\ \/ says = << >>
         \/ Len(says) = 1 /\ says[1] = 1 /\ Sampled(1)
         \/ says # << >> /\ says[1] = 1 /\ now < at
  BY <1>1 DEF IInv, Hearing, Framing, ReadBit
<1>3. ~(Len(says) = 1 /\ says[1] = 1 /\ Sampled(1))
  <2> SUFFICES ASSUME Len(says) = 1, says[1] = 1, Sampled(1) PROVE FALSE
    OBVIOUS
  <2>1. now >= Fall(1) + 90 /\ now \in Int /\ Fall(1) \in Int
    <3>1. now \in Fall(1) + 90 .. Fall(1) + 196 /\ Fall(1) \in Int
      BY <1>2, SampledWhen DEF TypeOK
    <3> QED
      BY <3>1
  <2>2. LowTime(says[1]) = 20
    BY DEF LowTime
  <2>3. ~(now \in Fall(1) .. Fall(1) + LowTime(says[1]) - 1) /\ ~(Fall(1) > now)
    BY <2>1, <2>2
  <2>4. DOMAIN says = {1}
    BY <1>2 DEF TypeOK
  <2> QED
    BY <1>2, <2>3, <2>4 DEF Audible, LowAt
<1>4. says # << >> /\ says[1] = 1 /\ now < at
  BY <1>2, <1>3, NothingSaid
<1>5. /\ got' = Append(<< >>, says[1]) /\ says[1] \in {0, 1} /\ Sampled(1)'
      /\ now' \in Nat /\ next' \in Nat /\ delay' \in Nat /\ UNCHANGED <<mode, count, fell, says, at>>
      /\ now' \in next' + 90 .. next' + 116
  <2>1. Noticed(now) = Fall(1) /\ now \in Int /\ 1 <= Len(says)
    BY <1>2, <1>4, FirstBit DEF TypeOK
  <2>2. TypeOK /\ ReadBit(now, << >>)
    BY <1>1, <1>2
  <2>3. 1 \in Nat /\ 1 >= 1
    OBVIOUS
  <2> QED
    BY <2>1, <2>2, <2>3, HearsBit
<1>6. got' = <<1>> /\ Len(got') = 1 /\ got'[1] = says[1] /\ got' \in Seq({0, 1}) /\ pc' = "bits"
  BY <1>1, <1>4, <1>5
<1>7. Len(says) \in Nat /\ 1 <= Len(says)
  BY <1>2, <1>4, FirstBit
<1>8. TypeOK'
  BY <1>1, <1>2, <1>5, <1>6 DEF TypeOK
<1>9. Framing'
  BY <1>1, <1>2, <1>6 DEF Framing, Sending
<1>10. Hearing'
  <2>1. Len(got') <= Len(says') /\ \A i \in 1 .. Len(got') : got'[i] = says'[i]
    BY <1>5, <1>6, <1>7
  <2>2. Len(got') \in 1 .. NBits + 2 /\ pin' = "in" /\ Len(says') <= NBits + 2
    BY <1>1, <1>2, <1>5, <1>6, Sizes
  <2> QED
    BY <1>5, <1>6, <2>1, <2>2 DEF Hearing, Heard, Sending
<1> QED
  BY <1>8, <1>9, <1>10 DEF IInv

(* When the driver looks for the bit behind bit n, that is the next to      *)
(* fall, and a 0 in bit n has risen, if the delays make up for the wait.    *)
LEMMA LooksAt ==
  ASSUME TypeOK, NEW n \in Nat, Sampled(n), NEW l \in Lags
  PROVE  Sync(now, next + BitWait) + l = Fall(n) + (180 + delay + l)
         /\ Fall(n) \in Int /\ delay \in Nat /\ l \in Nat
<1>1. PICK m \in Lags : next = Fall(n) + delay /\ now = next + 90 + m
  BY DEF Sampled, BIT_HALF_TIME, SWIM_CLOCK
<1>2. delay \in Nat /\ m \in Nat /\ m <= 26 /\ l \in Nat /\ l <= 26
  BY Sizes DEF Sampled
<1>3. Fall(n) \in Int /\ next \in Int /\ now \in Int /\ BitWait = 180
  BY FallAt DEF TypeOK, BitWait, SWIM_CLOCK
<1>4. Sync(now, next + 180) = next + 180
  BY <1>1, <1>2, <1>3, SyncMeans
<1> QED
  BY <1>1, <1>2, <1>3, <1>4

LEMMA LookAgain ==
  ASSUME TypeOK, NEW n \in 1 .. Len(says), Sampled(n), NEW l \in Lags,
         InMargin(says[n], delay + l)
  PROVE  LET t == Sync(now, next + BitWait) + l
         IN  t \in Int /\ t >= Fall(n) + LowTime(says[n]) /\ t <= Fall(n + 1)
<1>1. says[n] \in {0, 1} /\ n \in Nat /\ LowTime(says[n]) = IF says[n] = 0 THEN 200 ELSE 20
  BY Low
<1>2. Sync(now, next + BitWait) + l = Fall(n) + (180 + delay + l)
      /\ Fall(n) \in Int /\ delay \in Nat /\ l \in Nat
  BY <1>1, LooksAt
<1>3. 180 + (delay + l) \in LowTime(says[n]) .. 220
  BY DEF InMargin, SWIM_CLOCK, Slot
<1>4. Fall(n + 1) = Fall(n) + 220
  BY <1>1, FallAt
<1> QED
  BY <1>1, <1>2, <1>3, <1>4

(* Whatever the driver notices, it is a cycle count. *)
LEMMA NoticedType ==
  ASSUME TypeOK, NEW t \in Nat, Audible(t)
  PROVE  Noticed(t) \in Nat /\ Noticed(t) >= t
<1>1. DOMAIN says = 1 .. Len(says) /\ Len(says) \in Nat /\ at \in Nat
  BY DEF TypeOK
<1>2. CASE LowAt(t)
  BY <1>2 DEF Noticed
<1>3. CASE ~LowAt(t)
  <2>1. PICK i \in 1 .. Len(says) : Fall(i) > t
    BY <1>1, <1>3 DEF Audible
  <2>2. \A j \in Nat : Fall(j) = at + (j - 1) * 220
    BY DEF Fall, Slot
  <2>3. \E j \in 1 .. i : Fall(j) > t /\ (j > 1 => Fall(j - 1) <= t)
    <3>1. CASE t < at
      <4>1. Fall(1) = at /\ 1 \in 1 .. i
        BY <1>1, <2>2
      <4> QED
        BY <3>1, <4>1
    <3>2. CASE t >= at
      <4> DEFINE q == (t - at) \div 220
      <4>1. q \in Nat /\ q * 220 <= t - at /\ t - at < q * 220 + 220
        BY <1>1, <3>2
      <4> HIDE DEF q
      <4>2. Fall(q + 1) = at + q * 220 /\ Fall(q + 2) = at + q * 220 + 220
        <5>1. q + 1 \in Nat /\ q + 2 \in Nat /\ (q + 1) - 1 = q /\ ((q + 2) - 1) * 220 = q * 220 + 220
          BY <4>1
        <5>2. Fall(q + 1) = at + ((q + 1) - 1) * 220 /\ Fall(q + 2) = at + ((q + 2) - 1) * 220
          BY <2>2, <5>1
        <5> QED
          BY <1>1, <4>1, <5>1, <5>2
      <4>3. i \in Nat /\ at + (i - 1) * 220 > t
        BY <1>1, <2>1, <2>2
      <4>4. q + 2 <= i
        BY <1>1, <4>1, <4>3
      <4>5. q + 2 \in 1 .. i /\ q + 2 > 1 /\ (q + 2) - 1 = q + 1
        BY <4>1, <4>3, <4>4
      <4> QED
        BY <1>1, <4>1, <4>2, <4>5
    <3> QED
      BY <1>1, <3>1, <3>2
  <2>4. PICK j \in 1 .. i : Fall(j) > t /\ (j > 1 => Fall(j - 1) <= t)
    BY <2>3
  <2>5. j \in 1 .. Len(says) /\ j \in Nat
    BY <1>1, <2>1, <2>4
  <2>6. ASSUME NEW m \in 1 .. Len(says), Fall(m) > t PROVE Fall(j) <= Fall(m)
    <3>1. m \in Nat /\ Fall(m) \in Int
      BY <1>1, FallAt
    <3>2. CASE m < j
      <4>1. j > 1 /\ j - 1 \in Nat /\ m <= j - 1
        BY <2>5, <3>1, <3>2, <2>6
      <4>2. Fall(m) <= Fall(j - 1) /\ Fall(j - 1) \in Int
        BY <3>1, <4>1, InOrder, FallAt
      <4> QED
        BY <2>4, <2>6, <3>1, <4>1, <4>2
    <3>3. CASE ~(m < j)
      <4>1. j <= m
        BY <2>5, <3>1, <3>3
      <4> QED
        BY <2>5, <3>1, <4>1, InOrder
    <3> QED
      BY <3>2, <3>3
  <2> DEFINE Set == {Fall(m) : m \in DOMAIN says}
             P(u) == u > t /\ \A m \in DOMAIN says : Fall(m) > t => u <= Fall(m)
  <2>7. Fall(j) \in Set /\ P(Fall(j))
    BY <1>1, <2>4, <2>5, <2>6
  <2>8. (CHOOSE u \in Set : P(u)) \in Set /\ P(CHOOSE u \in Set : P(u))
    <3> HIDE DEF Set, P
    <3> QED
      BY <2>7
  <2>9. \A m \in 1 .. Len(says) : Fall(m) \in Nat
    BY <1>1 DEF Fall, Slot
  <2>10. Set \subseteq Nat
    BY <1>1, <2>9
  <2>11. Noticed(t) = CHOOSE u \in Set : P(u)
    BY <1>3 DEF Noticed
  <2> DEFINE c == CHOOSE u \in Set : P(u)
  <2>12. c \in Set /\ c > t
    BY <2>8
  <2>13. Noticed(t) = c
    BY <2>11
  <2>14. c \in Nat
    <3> HIDE DEF c, Set
    <3> QED
      BY <2>10, <2>12
  <2> HIDE DEF c
  <2> QED
    BY <2>12, <2>13, <2>14
<1> QED
  BY <1>2, <1>3

(* What a bit read in the middle of a byte leaves behind, heard or misheard. *)
LEMMA ReadBitType ==
  ASSUME TypeOK, NEW t \in Nat, ReadBit(t, got)
  PROVE  /\ got' \in Seq({0, 1}) /\ Len(got') = Len(got) + 1
         /\ now' \in Nat /\ next' \in Nat /\ delay' \in Nat
         /\ now' \in next' + 90 .. next' + 116
         /\ next' = Noticed(t) + delay'
         /\ UNCHANGED <<mode, count, fell, says, at>>
<1>1. PICK d \in Detect, l \in Lags :
        next' = Noticed(t) + d /\ delay' = d /\ now' = Sync(next', next' + 90) + l
  BY DEF ReadBit, BIT_HALF_TIME, SWIM_CLOCK
<1>2. d \in Nat /\ l \in Nat /\ l <= 26
  BY Sizes
<1>3. Noticed(t) \in Nat
  BY NoticedType DEF ReadBit
<1>4. next' \in Nat
  BY <1>1, <1>2, <1>3
<1>5. Sync(next', next' + 90) = next' + 90
  <2> DEFINE start == next'
  <2>1. start \in Nat
    BY <1>4
  <2> HIDE DEF start
  <2>2. Sync(start, start + 90) = start + 90
    BY <2>1, SyncMeans
  <2> QED
    BY <2>2 DEF start
<1>6. now' = next' + 90 + l /\ now' \in Nat /\ now' \in next' + 90 .. next' + 116
  BY <1>1, <1>2, <1>4, <1>5
<1>7. got' \in Seq({0, 1}) /\ Len(got') = Len(got) + 1
  <2>1. got' = Append(got, IF LowAt(now') THEN 0 ELSE 1)
    BY DEF ReadBit
  <2>2. got \in Seq({0, 1}) /\ (IF LowAt(now') THEN 0 ELSE 1) \in {0, 1}
    BY DEF TypeOK
  <2> QED
    BY <2>1, <2>2, AppendProperties
<1>8. UNCHANGED <<mode, count, fell, says, at>>
  BY DEF ReadBit
<1> QED
  BY <1>1, <1>2, <1>4, <1>6, <1>7, <1>8

LEMMA ReadDataBitInv ==
  ASSUME IInv, ReadDataBit
  PROVE  IInv'
<1>1. pc = "bits" /\ Len(got) < NBits + 2 /\ UNCHANGED <<pc, pin, frame, k, seen>>
  BY DEF ReadDataBit
<1>2. PICK l \in Lags : /\ ReadBit(Sync(now, next + BitWait) + l, got)
                        /\ prompt' = (prompt /\ InMargin(got[Len(got)], delay + l))
  BY DEF ReadDataBit
<1>3. /\ TypeOK /\ Len(got) \in 1 .. NBits + 2 /\ pin = "in" /\ seen = frame
      /\ Len(says) <= NBits + 2 /\ now \in next + 90 .. next + 116 /\ next \in Nat
  BY <1>1 DEF IInv, Hearing, Framing, TypeOK
<1>4. PICK n \in Nat : n = Len(got)
  BY <1>3 DEF TypeOK
<1> DEFINE t == Sync(now, next + BitWait) + l
<1>5. t \in Nat
  <2>1. l \in Nat /\ BitWait = 180 /\ now \in Int /\ next \in Int
    BY <1>3, Sizes DEF BitWait, SWIM_CLOCK
  <2>2. Sync(now, next + 180) = next + 180
    BY <1>3, <2>1, SyncMeans
  <2> QED
    BY <1>3, <2>1, <2>2
<1> HIDE DEF t
<1>6. Audible(t) /\ ReadBit(t, got)
  BY <1>2 DEF t, ReadBit
<1>7. /\ got' \in Seq({0, 1}) /\ Len(got') = n + 1
      /\ now' \in Nat /\ next' \in Nat /\ delay' \in Nat
      /\ now' \in next' + 90 .. next' + 116
      /\ UNCHANGED <<mode, count, fell, says, at>>
  BY <1>3, <1>4, <1>5, <1>6, ReadBitType
<1>8. ASSUME prompt' PROVE Heard' /\ Sampled(n + 1)'
  <2>1. /\ Sampled(n) /\ n \in 1 .. Len(says) /\ InMargin(says[n], delay + l)
        /\ Len(says) \in Nat /\ n >= 1 /\ \A i \in 1 .. n : got[i] = says[i]
    <3>1. prompt /\ InMargin(got[n], delay + l)
      BY <1>2, <1>4, <1>8
    <3>2. Sampled(n) /\ n <= Len(says) /\ n >= 1 /\ \A i \in 1 .. n : got[i] = says[i]
      BY <1>1, <1>3, <1>4, <3>1 DEF IInv, Hearing, Heard
    <3>3. Len(says) \in Nat
      BY <1>3 DEF TypeOK
    <3> QED
      BY <3>1, <3>2, <3>3
  <2>2. t \in Int /\ t >= Fall(n) + LowTime(says[n]) /\ t <= Fall(n + 1)
    BY <1>3, <2>1, LookAgain DEF t
  <2>3. n + 1 <= Len(says)
    <3>1. ~(Len(says) <= n)
      <4> SUFFICES ASSUME Len(says) = n PROVE FALSE
        BY <2>1
      <4> QED
        BY <1>3, <1>6, <2>1, <2>2, Silent
    <3> QED
      BY <2>1, <3>1
  <2>4. Noticed(t) = Fall(n + 1)
    <3>1. n + 1 \in Nat /\ n + 1 >= 1 /\ (n + 1) - 1 = n
      BY <2>1
    <3> QED
      BY <1>3, <2>1, <2>2, <2>3, <3>1, NoticedIs
  <2>5. /\ got' = Append(got, says[n + 1]) /\ Sampled(n + 1)'
    <3>1. n + 1 \in Nat /\ n + 1 >= 1
      BY <2>1
    <3> QED
      BY <1>3, <1>6, <2>2, <2>3, <2>4, <3>1, HearsBit
  <2>6. \A i \in 1 .. n + 1 : got'[i] = says[i]
    BY <1>3, <1>4, <2>1, <2>5, AppendProperties DEF TypeOK
  <2> QED
    BY <1>7, <2>3, <2>5, <2>6 DEF Heard
<1>9. prompt' \in BOOLEAN
  BY <1>2
<1>10. TypeOK'
  BY <1>1, <1>3, <1>7, <1>9 DEF TypeOK
<1>11. Framing'
  BY <1>1, <1>3 DEF Framing, Sending
<1>12. Hearing'
  <2>1. Len(got') \in 1 .. NBits + 2 /\ pin' = "in" /\ Len(says') <= NBits + 2
    BY <1>1, <1>3, <1>4, <1>7, Sizes
  <2>2. prompt' => Sampled(Len(got))'
    BY <1>7, <1>8 DEF Sampled, Fall
  <2> QED
    BY <1>1, <1>7, <1>8, <2>1, <2>2 DEF Hearing, Sending
<1> QED
  BY <1>10, <1>11, <1>12 DEF IInv
-----------------------------------------------------------------------------
LEMMA TimeoutInv ==
  ASSUME IInv, Timeout
  PROVE  IInv'
<1>1. /\ pc \in {"ack", "listen", "bits"} /\ pc' = "return"
      /\ UNCHANGED <<now, pin, next, frame, k, mode, got, count, seen, fell, says, at, delay, prompt>>
  BY DEF Timeout, target
<1>2. TypeOK /\ seen = frame
  BY <1>1 DEF IInv, Framing
<1>3. TypeOK' /\ Framing'
  BY <1>1, <1>2 DEF TypeOK, Framing, Sending
<1>4. Hearing'
  BY <1>1 DEF IInv, Hearing, Heard, Sending
<1> QED
  BY <1>3, <1>4 DEF IInv

LEMMA ReturnInv ==
  ASSUME IInv, Return
  PROVE  IInv'
<1>1. TypeOK'
  BY Sizes DEF Return, TypeOK
<1>2. Framing'
  BY DEF Return, Framing, Sending
<1>3. Hearing'
  <2>1. Len(got') = 0 /\ Len(says') = 0
    BY DEF Return
  <2> QED
    BY <2>1 DEF Return, Hearing, Heard, Sending
<1> QED
  BY <1>1, <1>2, <1>3 DEF IInv
-----------------------------------------------------------------------------
(* The target. *)
LEMMA TargetAnswersInv ==
  ASSUME IInv, TargetAnswers
  PROVE  IInv' /\ pin = "in" /\ now <= at'
<1>1. pc = "ack" /\ says = << >> /\ UNCHANGED <<now, driver, seen, fell, delay, prompt>>
  BY DEF TargetAnswers
<1>2. UNCHANGED <<pc, pin, next, frame, k, mode, got, count>>
  BY <1>1 DEF driver
<1>3. PICK a \in {0, 1}, g \in Gaps : says' = <<a>> /\ at' = fell + Slot + g
  BY DEF TargetAnswers
<1>4. /\ TypeOK /\ seen = frame /\ pin = "in" /\ now < fell + 220 /\ mode # "reply" /\ got = << >>
      /\ fell \in Nat /\ now \in Nat
  BY <1>1 DEF IInv, Hearing, Framing, Slot, TypeOK
<1>5. at' \in Nat /\ now < at' /\ Len(says') = 1 /\ says' \in Seq({0, 1})
  <2>1. g \in Nat
    BY Sizes
  <2> QED
    BY <1>3, <1>4, <2>1 DEF Slot
<1>6. TypeOK' /\ Framing'
  BY <1>1, <1>2, <1>4, <1>5 DEF TypeOK, Framing, Sending
<1>7. Hearing'
  <2>1. NBits + 2 >= 1
    BY Sizes
  <2>2. Len(got') = 0 /\ now' < fell' + Slot
    BY <1>1, <1>2, <1>4 DEF Slot
  <2> QED
    BY <1>1, <1>2, <1>4, <1>5, <2>1, <2>2 DEF Hearing, Heard, Sending
<1> QED
  BY <1>4, <1>5, <1>6, <1>7 DEF IInv

LEMMA BeginningOf ==
  ASSUME NEW data \in Bits, NEW p \in {0, 1}, NEW n \in {2, NBits + 2}
  PROVE  LET byte == SubSeq(<<1>> \o data \o <<p>>, 1, n)
         IN  byte \in Seq({0, 1}) /\ Len(byte) = n /\ byte[1] = 1 /\ n \in Nat /\ n >= 2 /\ n <= NBits + 2
<1>1. NBits \in Nat /\ data \in [1 .. NBits -> {0, 1}]
  BY Sizes DEF Bits
<1>2. data \in Seq({0, 1}) /\ Len(data) = NBits
  BY <1>1
<1> DEFINE whole == <<1>> \o data \o <<p>>
<1>3. whole \in Seq({0, 1}) /\ Len(whole) = NBits + 2 /\ whole[1] = 1
  BY <1>1, <1>2
<1>4. n \in Nat /\ n >= 2 /\ n <= NBits + 2 /\ n \in 1 .. Len(whole)
  BY <1>1, <1>3
<1> HIDE DEF whole
<1>5. SubSeq(whole, 1, n) \in Seq({0, 1}) /\ Len(SubSeq(whole, 1, n)) = n
      /\ SubSeq(whole, 1, n)[1] = whole[1]
  BY <1>3, <1>4, SubSeqProperties
<1> QED
  BY <1>3, <1>4, <1>5 DEF whole

LEMMA TargetSendsInv ==
  ASSUME IInv, TargetSends
  PROVE  IInv' /\ pin = "in" /\ now <= at'
<1>1. /\ pc = "listen" /\ count < MaxFrames /\ ~Audible(now) /\ count' = count + 1
      /\ UNCHANGED <<now, pc, pin, next, frame, k, mode, got, seen, fell, delay, prompt>>
  BY DEF TargetSends
<1>2. PICK data \in Bits, p \in {0, 1}, n \in {2, NBits + 2}, g \in Gaps :
        /\ says' = SubSeq(<<1>> \o data \o <<p>>, 1, n)
        /\ at' = (IF mode = "reply" THEN fell + Slot ELSE SlotsEnd) + g
  BY DEF TargetSends
<1>3. /\ TypeOK /\ seen = frame /\ pin = "in" /\ fell \in Nat /\ now \in Nat /\ at \in Nat
      /\ (prompt => Heard)
      /\ \/ says = << >> /\ mode = "reply" /\ now < fell + Slot
         \/ Len(says) = 1 /\ says[1] = 1 /\ Len(got) = 1 /\ mode # "reply" /\ Sampled(1)
         \/ says # << >> /\ says[1] = 1 /\ now < at
  BY <1>1 DEF IInv, Hearing, Framing, TypeOK
<1>4. ~(says # << >> /\ now < at)
  BY <1>1, <1>3, FirstBit
<1>5. says' \in Seq({0, 1}) /\ Len(says') >= 2 /\ Len(says') <= NBits + 2 /\ says'[1] = 1 /\ Len(says') \in Nat
  BY <1>2, BeginningOf
<1>6. g \in Nat
  BY Sizes
<1>7. at' \in Nat /\ now < at'
  <2>1. CASE mode = "reply"
    BY <1>2, <1>3, <1>4, <1>6, <2>1 DEF Slot
  <2>2. CASE mode # "reply"
    <3>1. Len(says) = 1 /\ Sampled(1)
      BY <1>3, <1>4, <2>2
    <3>2. SlotsEnd = at + 220
      BY <1>3, <3>1 DEF SlotsEnd, Fall, Slot
    <3>3. now <= at + 196
      <4>1. now \in Fall(1) + 90 .. Fall(1) + 196 /\ Fall(1) = at + (1 - 1) * 220
        BY <1>3, <3>1, SampledWhen
      <4> QED
        BY <1>3, <4>1
    <3>4. at' = at + 220 + g
      BY <1>2, <2>2, <3>2
    <3> QED
      BY <1>3, <1>6, <3>3, <3>4
  <2> QED
    BY <2>1, <2>2
<1>8. ASSUME prompt PROVE Len(got) <= 1 /\ \A i \in 1 .. Len(got) : got[i] = 1 /\ i = 1
  <2>1. says = << >> \/ (Len(says) = 1 /\ says[1] = 1)
    BY <1>3, <1>4
  <2>2. Len(got) \in Nat /\ Len(got) <= Len(says) /\ \A i \in 1 .. Len(got) : got[i] = says[i]
    BY <1>3, <1>8 DEF TypeOK, Heard
  <2> QED
    BY <2>1, <2>2
<1>10. TypeOK'
  BY <1>1, <1>3, <1>5, <1>7, Sizes DEF TypeOK
<1>11. Framing'
  BY <1>1, <1>3 DEF Framing, Sending
<1>12. Hearing'
  <2>1. prompt' => Heard'
    <3>1. Len(got) \in Nat /\ got' = got /\ prompt' = prompt
      BY <1>1, <1>3 DEF TypeOK
    <3> QED
      BY <1>5, <1>8, <3>1 DEF Heard
  <2>2. says' # << >>
    BY <1>5
  <2> QED
    BY <1>1, <1>3, <1>5, <1>7, <2>1, <2>2 DEF Hearing, Sending
<1> QED
  BY <1>3, <1>7, <1>10, <1>11, <1>12 DEF IInv
-----------------------------------------------------------------------------
LEMMA StepInv ==
  ASSUME IInv, [Next]_vars
  PROVE  IInv'
<1>1. CASE UNCHANGED vars
  <2>1. UNCHANGED <<now, pc, pin, next, frame, k, mode, got, count, seen, fell, says, at, delay, prompt>>
    BY <1>1 DEF vars, driver, target
  <2>2. TypeOK'
    BY <2>1 DEF IInv, TypeOK
  <2>3. Framing'
    BY <2>1 DEF IInv, Framing, MadeOut, Previous
  <2>4. Hearing'
    BY <2>1 DEF IInv, Hearing, Heard, Sampled, SlotsEnd, Fall
  <2> QED
    BY <2>2, <2>3, <2>4 DEF IInv
<1> QED
  BY <1>1, SendCommandInv, RaiseBeforeInv, FallingEdgeInv, RaiseOneInv, FinishInv, ReadAckInv,
     NextByteInv, ReadHeadInv, ReadDataBitInv, ReplyBitInv, TimeoutInv, ReturnInv,
     TargetAnswersInv, TargetSendsInv DEF Next, Driver

LEMMA Invariant == Spec => []IInv
BY InitInv, StepInv, PTL DEF Spec

(* Driver and target keep their types: whatever the counter's period, every *)
(* cycle count the driver computes is one (swim.c:44-51, 88-222).           *)
THEOREM TypeCorrect == Spec => []TypeOK
<1>1. IInv => TypeOK
  BY DEF IInv
<1> QED
  BY <1>1, Invariant, PTL

(* The target makes out every frame of the driver from its edges, whatever  *)
(* the counter's period and wherever it wraps (swim.c:88-140, 193-196).     *)
THEOREM FrameUnderstoodAlways == Spec => []FrameUnderstood
<1>1. IInv => FrameUnderstood
  BY DEF IInv, Framing, FrameUnderstood
<1> QED
  BY <1>1, Invariant, PTL

(* The driver hears what the target says, whatever its delays are, until    *)
(* the first wait of read_byte that they do not make up for (swim.c:        *)
(* 148-149, 160-191): no other cause makes it mishear a bit.                *)
THEOREM BitsHeardAlways == Spec => []BitsHeard
<1>1. IInv => BitsHeard
  <2> SUFFICES ASSUME IInv, prompt
               PROVE  Len(got) <= Len(says) /\ got = SubSeq(says, 1, Len(got))
    BY DEF BitsHeard
  <2>1. /\ got \in Seq({0, 1}) /\ says \in Seq({0, 1}) /\ Len(got) \in Nat /\ Len(says) \in Nat
        /\ Len(got) <= Len(says) /\ \A i \in 1 .. Len(got) : got[i] = says[i]
    BY DEF IInv, TypeOK, Hearing, Heard
  <2>2. /\ SubSeq(says, 1, Len(got)) \in Seq({0, 1}) /\ Len(SubSeq(says, 1, Len(got))) = Len(got)
        /\ \A i \in 1 .. Len(got) : SubSeq(says, 1, Len(got))[i] = says[i]
    BY <2>1, SubSeqProperties
  <2>3. got = SubSeq(says, 1, Len(got))
    BY <2>1, <2>2, SeqEqual
  <2> QED
    BY <2>1, <2>3
<1> QED
  BY <1>1, Invariant, PTL

(* The margin is no wider than it must be: from the first wait outside of   *)
(* it the driver notices something else than the fall of the next bit, the  *)
(* same low once more or a bit that is under way (swim.c:148-149, 184-185). *)
THEOREM MarginIsExact == Spec => MarginExact
<1> DEFINE Slips == prompt /\ ~prompt' => next' - delay' # Fall(Len(got'))
<1>1. ASSUME IInv, ReadDataBit, prompt, ~prompt' PROVE next' - delay' # Fall(Len(got'))
  <2>1. PICK l \in Lags : /\ ReadBit(Sync(now, next + BitWait) + l, got)
                          /\ prompt' = (prompt /\ InMargin(got[Len(got)], delay + l))
    BY <1>1 DEF ReadDataBit
  <2>2. /\ TypeOK /\ pc = "bits" /\ Sampled(Len(got)) /\ Len(got) \in Nat /\ Len(got) >= 1
        /\ Len(got) <= Len(says) /\ \A i \in 1 .. Len(got) : got[i] = says[i]
    BY <1>1 DEF ReadDataBit, IInv, Hearing, Heard, TypeOK
  <2>3. PICK n \in Nat : n = Len(got)
    BY <2>2
  <2>4. n \in 1 .. Len(says) /\ got[n] = says[n] /\ Sampled(n) /\ DOMAIN says = 1 .. Len(says)
    BY <2>2, <2>3 DEF TypeOK
  <2>5. ~InMargin(says[n], delay + l)
    BY <1>1, <2>1, <2>3, <2>4
  <2>6. LowTime(says[n]) \in Int /\ LowTime(says[n]) >= 20 /\ LowTime(says[n]) <= 200
    BY <2>2, <2>4, Low
  <2> DEFINE t == Sync(now, next + BitWait) + l
  <2>7. t = Fall(n) + (180 + delay + l) /\ Fall(n) \in Int /\ delay \in Nat /\ l \in Nat
    BY <2>2, <2>4, LooksAt
  <2>8. Fall(n) \in Nat /\ Fall(n + 1) = Fall(n) + 220
    BY <2>2, <2>4 DEF Fall, Slot, TypeOK
  <2>9. t \in Nat
    BY <2>7, <2>8
  <2> HIDE DEF t
  <2>10. ReadBit(t, got) /\ Audible(t)
    BY <2>1 DEF t, ReadBit
  <2>11. next' = Noticed(t) + delay' /\ delay' \in Nat /\ Len(got') = n + 1
    BY <2>2, <2>3, <2>9, <2>10, ReadBitType
  <2>12. Noticed(t) \in Nat /\ Noticed(t) >= t
    BY <2>2, <2>9, <2>10, NoticedType
  <2>13. ~(180 + (delay + l) \in LowTime(says[n]) .. 220)
    BY <2>5 DEF InMargin, SWIM_CLOCK, Slot
  <2>14. CASE t > Fall(n) + 220
    BY <2>8, <2>9, <2>11, <2>12, <2>14
  <2>15. CASE ~(t > Fall(n) + 220)
    <3>1. t < Fall(n) + LowTime(says[n]) /\ t >= Fall(n)
      BY <2>6, <2>7, <2>9, <2>13, <2>15
    <3>2. t \in Fall(n) .. Fall(n) + LowTime(says[n]) - 1
      BY <2>6, <2>8, <2>9, <3>1
    <3>3. Noticed(t) = t
      BY <2>4, <3>2 DEF LowAt, Noticed
    <3> QED
      BY <2>6, <2>8, <2>9, <2>11, <3>1, <3>3
  <2> QED
    BY <2>14, <2>15
<1>2. ASSUME IInv, [Next]_vars PROVE [Slips]_vars
  <2>1. CASE ReadDataBit
    BY <1>1, <1>2, <2>1
  <2>2. CASE Return
    BY <2>2 DEF Return
  <2>3. CASE SendCommand \/ RaiseBefore \/ FallingEdge \/ RaiseOne \/ Finish \/ ReadAck
             \/ NextByte \/ ReadHead \/ ReplyBit \/ Timeout
    <3>1. prompt' = prompt
      BY <2>3 DEF SendCommand, NextByte, SendFrame, ReplyBit, Start, RaiseBefore, FallingEdge,
         RaiseOne, Finish, ReadAck, ReadHead, Timeout
    <3> QED
      BY <3>1
  <2>4. CASE TargetAnswers \/ TargetSends
    <3>1. prompt' = prompt
      BY <2>4 DEF TargetAnswers, TargetSends
    <3> QED
      BY <3>1
  <2>5. CASE UNCHANGED vars
    BY <2>5
  <2> QED
    BY <1>2, <2>1, <2>2, <2>3, <2>4, <2>5 DEF Next, Driver
<1> QED
  BY <1>2, Invariant, PTL DEF Spec, MarginExact

(* The falling edges of the two ends never meet, although the MAX of        *)
(* send_command picks the wrong one of two cycle counts next to a wrap      *)
(* (swim.c:150-151, 213), unless the driver has misheard the byte.          *)
THEOREM TurnsTaken == Spec => TakeTurns
<1> DEFINE Turn == /\ prompt /\ pin # "low" /\ pin' = "low" => says = << >> \/ now' >= SlotsEnd
                   /\ says' # says /\ says' # << >> => pin = "in" /\ now <= at'
<1>1. ASSUME IInv, [Next]_vars PROVE [Turn]_vars
  <2>1. CASE UNCHANGED vars
    BY <2>1
  <2>2. CASE FallingEdge
    <3>1. says' = says /\ pc = "lower"
      BY <2>2 DEF FallingEdge
    <3>2. ~prompt \/ says = << >> \/ next >= SlotsEnd
      BY <1>1, <3>1 DEF IInv, Hearing, Sending
    <3>3. PICK l \in Lags : now' = next + l
      BY <1>1, <2>2, FallingEdgeWhen
    <3>4. l \in Nat /\ next \in Nat
      BY <1>1, Sizes DEF IInv, TypeOK
    <3>5. SlotsEnd \in Int
      BY <1>1 DEF IInv, TypeOK, SlotsEnd, Fall, Slot
    <3>6. ~prompt \/ says = << >> \/ now' >= SlotsEnd
      BY <3>2, <3>3, <3>4, <3>5
    <3> QED
      BY <3>1, <3>6
  <2>3. CASE TargetAnswers \/ TargetSends
    <3>1. pin = "in" /\ now <= at'
      BY <1>1, <2>3, TargetAnswersInv, TargetSendsInv
    <3>2. pin' = pin
      BY <2>3 DEF TargetAnswers, TargetSends, driver
    <3> QED
      BY <3>1, <3>2
  <2>4. CASE SendCommand \/ RaiseBefore \/ RaiseOne \/ NextByte \/ ReplyBit
    BY <2>4 DEF SendCommand, NextByte, SendFrame, ReplyBit, Start, RaiseBefore, RaiseOne, Raise
  <2>5. CASE Finish \/ ReadAck \/ ReadHead \/ ReadDataBit \/ Timeout \/ Return
    <3>1. pin' = pin \/ pin' = "in"
      BY <2>5 DEF Finish, ReadAck, ReadHead, ReadDataBit, Timeout, Return
    <3>2. says' = says \/ says' = << >>
      BY <2>5 DEF Finish, ReadAck, ReadHead, ReadDataBit, ReadBit, Timeout, target, Return
    <3> QED
      BY <3>1, <3>2
  <2> QED
    BY <1>1, <2>1, <2>2, <2>3, <2>4, <2>5 DEF Next, Driver
<1> QED
  BY <1>1, Invariant, PTL DEF Spec, TakeTurns
=============================================================================
