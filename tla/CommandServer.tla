---------------------------- MODULE CommandServer ----------------------------
(***************************************************************************)
(* What the firmware promises on its serial line, without a buffer: bytes  *)
(* are gathered into a request; a request that is complete is acknowledged *)
(* with its command code and handed to the SWIM driver with exactly the    *)
(* argument bytes the host sent; the driver's outcome is then reported in  *)
(* one reply, byte for byte the one serial-protocol.md tabulates.          *)
(* RecordedTask, which is SerialTask, the model of serial_recvTask, with   *)
(* the driver's outcome noted, is shown to implement it.                   *)
(***************************************************************************)
EXTENDS Integers, Sequences

CONSTANTS ByteMax,  \* largest value of a byte, 255 in the code
          AddrLen,  \* address bytes of a request, 3 in the code
          SwimErrors, Durations, ReadBytes, \* what the driver returns, see SerialTask
          MaxRx, MaxTx  \* the host's bounds, see SerialTask

VARIABLES rx,   \* bytes from the host, not yet taken
          tx,   \* bytes to the host, not yet read
          req,  \* bytes of the request being gathered or served
          busy, \* a complete request is being served
          args, \* what the SWIM driver was called with, << >> when it is not
          outcome \* what it returned in the last step, << >> if it did not

vars == <<rx, tx, req, busy, args, outcome>>

Byte == 0 .. ByteMax
Header == 1 + AddrLen  \* count byte and address

SoftReset == 0
Read      == 1
Write     == 2
Reset     == ByteMax - 2
SwimEntry == ByteMax - 1
Version   == ByteMax

High(n) == (n \div (ByteMax + 1)) % (ByteMax + 1)
Low(n)  == n % (ByteMax + 1)

(* The request table of the protocol: has r all its bytes? *)
IsComplete(r) ==
  CASE r[1] = Read  -> Len(r) = 1 + Header
    [] r[1] = Write -> Len(r) > Header /\ Len(r) = 1 + Header + r[2]
    [] r[1] = Reset -> Len(r) = 2
    [] OTHER        -> Len(r) = 1

(* What the driver may return for r: a result and, for a read, its data.   *)
Outcomes(r) ==
  {out \in [result : SwimErrors \cup Durations \cup {0, -1}, data : Seq(ReadBytes)] :
     /\ r[1] \in {Reset, Version} => out.result = 0
     /\ r[1] \notin {SoftReset, Read, Write, Reset, SwimEntry, Version} => out.result < 0
     /\ r[1] = Read /\ ~(out.result < 0) => Len(out.data) = r[2]}

(* The tables of replies: the status byte 0 and what the command asked     *)
(* for, or 0xFF and the error code in two bytes.                           *)
Reply(r, out) ==
  IF out.result < 0 THEN <<ByteMax, 0, -out.result>>
  ELSE <<0>> \o CASE r[1] = Read      -> SubSeq(r, 2, 1 + Header) \o out.data
                  [] r[1] = Write     -> SubSeq(r, 2, 1 + Header)
                  [] r[1] = SwimEntry -> <<High(out.result), Low(out.result)>>
                  [] r[1] = Version   -> <<0, 2>>
                  [] OTHER            -> << >>

Init ==
  /\ rx = << >> /\ tx = << >> /\ req = << >>
  /\ busy = FALSE
  /\ args = << >> /\ outcome = << >>

HostSends ==
  /\ Len(rx) < MaxRx /\ Len(tx) <= MaxTx
  /\ \E b \in Byte : rx' = Append(rx, b)
  /\ outcome' = << >>
  /\ UNCHANGED <<tx, req, busy, args>>

HostReads ==
  /\ tx # << >>
  /\ tx' = << >>
  /\ outcome' = << >>
  /\ UNCHANGED <<rx, req, busy, args>>

Gather ==
  /\ ~busy /\ rx # << >>
  /\ req' = Append(req, Head(rx))
  /\ rx' = Tail(rx)
  /\ ~IsComplete(req')
  /\ outcome' = << >>
  /\ UNCHANGED <<tx, busy, args>>

Accept ==
  /\ ~busy /\ rx # << >>
  /\ req' = Append(req, Head(rx))
  /\ rx' = Tail(rx)
  /\ IsComplete(req')
  /\ tx' = Append(tx, req'[1])
  /\ args' = Tail(req')
  /\ busy' = TRUE
  /\ outcome' = << >>

Answer ==
  /\ busy
  /\ outcome' \in Outcomes(req)
  /\ tx' = tx \o Reply(req, outcome')
  /\ req' = << >>
  /\ args' = << >>
  /\ busy' = FALSE
  /\ UNCHANGED rx

Next == HostSends \/ HostReads \/ Gather \/ Accept \/ Answer

Spec == Init /\ [][Next]_vars
=============================================================================
