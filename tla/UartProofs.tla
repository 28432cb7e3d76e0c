----------------------------- MODULE UartProofs -----------------------------
(***************************************************************************)
(* Uart implements UartRx, so what UartRxProofs shows of the receive path  *)
(* holds with the transmitter in place; and neither FIFO is overrun.       *)
(***************************************************************************)
EXTENDS Uart, UartRxProofs, FiniteSetTheorems

(* The receive path of Uart takes only steps of UartRx: printing, replying  *)
(* and the RTS line only choose when (uart.c:107-246, serial.c:61-120).     *)
LEMMA StepRefinesRx == [UartNext]_allvars => [Next]_vars
<1> SUFFICES ASSUME [UartNext]_allvars PROVE [Next]_vars
  OBVIOUS
<1>1. CASE MainStep
  BY <1>1, Zenon DEF MainStep, TakeAndReply, Next, Task
<1>2. CASE SdkPrints \/ HandlerPrints
  BY <1>2, Zenon DEF SdkPrints, HandlerPrints
<1>3. CASE HandlerPosts
  BY <1>3, Zenon DEF HandlerPosts, Next
<1>4. CASE Sending \/ \E u \in {UART0, UART1} : ShiftOut(u)
  <2>1. ASSUME NEW t \in Thread, SeeRoom(t) \/ StoreChar(t) PROVE UNCHANGED vars
    BY <2>1, Zenon DEF SeeRoom, StoreChar
  <2>2. ASSUME NEW u \in {UART0, UART1}, ShiftOut(u) PROVE UNCHANGED vars
    BY <2>2, Zenon DEF ShiftOut
  <2> QED
    BY <1>4, <2>1, <2>2, Zenon DEF Sending
<1>5. CASE HostSends \/ Clock
  BY <1>5, Zenon DEF HostSends, Clock, Next
<1>6. CASE UNCHANGED allvars
  BY <1>6, Zenon DEF allvars
<1> QED
  BY <1>1, <1>2, <1>3, <1>4, <1>5, <1>6, Zenon DEF UartNext

(* With transmitter, debug output and RTS the driver still implements the   *)
(* receive path on its own, whose theorems therefore hold of it.            *)
THEOREM ImplementsRx == UartSpec => Spec
<1>1. UartInit => Init
  BY DEF UartInit
<1> QED
  BY <1>1, StepRefinesRx, PTL DEF UartSpec, Spec
-----------------------------------------------------------------------------
(* The inductive invariant of the transmitter.  A thread that has seen room *)
(* still has room when it stores: the handler found one place less than the *)
(* limit and nobody stores meanwhile, the main thread may lose that place   *)
(* to the handler and has the one above it.                                 *)
Places ==
  /\ \A u \in {UART0, UART1} : txfifo[u] <= TxRoom + 1
  /\ \A t \in Thread : ready[t] => left[t] > 0
  /\ left["intr"] > 0 => printing
  /\ ready["intr"] => txfifo[port["intr"]] < TxRoom
  /\ ready["main"] => txfifo[port["main"]] <= TxRoom

(* With RTS connected the receive FIFO is over the flow threshold by what   *)
(* has come since RTS went off.                                             *)
Paced == rts_wired => rxfifo_cnt <= FlowThrhd + unpaced

SendInv == SendingTypeOK /\ Places /\ Paced

LEMMA PrintedNat ==
  ASSUME NEW line, NEW n \in Nat, DOMAIN line = 1 .. n PROVE Printed(line) \in Nat
<1>2. IsFiniteSet(DOMAIN line)
  BY FS_Interval
<1>3. /\ IsFiniteSet({k \in DOMAIN line : line[k] # "\r"})
      /\ IsFiniteSet({k \in DOMAIN line : line[k] = "\n"})
  BY <1>2, FS_Subset
<1> QED
  BY <1>3, FS_CardinalityType DEF Printed

LEMMA OutputInv ==
  ASSUME SendInv, NEW t \in Thread, NEW u \in {UART0, UART1}, NEW n \in Nat,
         Output(t, u, n), ~ready[t],
         txfifo' = txfifo, printing' \in BOOLEAN, printing => printing',
         t = "intr" => printing',
         UNCHANGED flow, rxfifo_cnt' \in Nat, rxfifo_cnt' <= rxfifo_cnt,
         rxfifo_cnt \in Nat
  PROVE  SendInv'
<1>1. /\ port' = [port EXCEPT ![t] = u] /\ left' = [left EXCEPT ![t] = n]
      /\ ready' = ready /\ rts_wired' = rts_wired /\ unpaced' = unpaced
  BY DEF Output, flow
<1>2. SendingTypeOK'
  BY <1>1 DEF SendInv, SendingTypeOK
<1>3. Places'
  BY <1>1 DEF SendInv, SendingTypeOK, Places, Thread
<1>4. Paced'
  BY <1>1, FlowAssumption DEF SendInv, SendingTypeOK, Paced
<1> QED
  BY <1>2, <1>3, <1>4 DEF SendInv

(* Steps that leave the transmitter alone and take nothing in. *)
LEMMA QuietInv ==
  ASSUME SendInv, rxfifo_cnt' \in Nat, rxfifo_cnt \in Nat, rxfifo_cnt' <= rxfifo_cnt,
         UNCHANGED <<sending, flow>>
  PROVE  SendInv'
<1>1. /\ txfifo' = txfifo /\ port' = port /\ left' = left /\ ready' = ready
      /\ printing' = printing /\ rts_wired' = rts_wired /\ unpaced' = unpaced
  BY DEF sending, output, flow
<1> QED
  BY <1>1, FlowAssumption DEF SendInv, SendingTypeOK, Places, Paced

LEMMA StepSendInv ==
  ASSUME SendInv, TypeOK, TypeOK', [UartNext]_allvars
  PROVE  SendInv'
<1> USE DEF SendInv
<1>0. rxfifo_cnt \in Nat /\ rxfifo_cnt' \in Nat /\ rxfifo_cnt \in 0 .. FifoSize
  BY UartAssumption DEF TypeOK
<1>1. CASE MainStep
  <2>1. CASE TakeAndReply
    <3>1. PICK n \in ReplyLens \cup {0} : Output("main", UART0, n)
      BY <2>1 DEF TakeAndReply
    <3>2. n \in Nat /\ "main" \in Thread /\ UART0 \in {UART0, UART1}
      BY TxAssumption DEF Thread
    <3>3. ~ready["main"] /\ left["main"] = 0
      BY <2>1, <3>2 DEF TakeAndReply, MainIsFree, Places, SendingTypeOK
    <3>4. txfifo' = txfifo /\ printing' = printing /\ UNCHANGED flow
      BY <2>1 DEF TakeAndReply
    <3>5. rxfifo_cnt' <= rxfifo_cnt
      BY <1>0, <2>1 DEF TakeAndReply, Drain
    <3> QED
      BY <1>0, <3>1, <3>2, <3>3, <3>4, <3>5, OutputInv DEF SendingTypeOK
  <2>2. CASE ~TakeAndReply
    <3>1. UNCHANGED <<sending, flow>>
      BY <1>1, <2>2 DEF MainStep
    <3>2. rxfifo_cnt' = rxfifo_cnt
      BY <1>1, <2>2 DEF MainStep, SerialInit, TaskStarts, Drained, TestStatus,
                        TestTout, ClearFull, ClearTout, Enable, hardware
    <3> QED
      BY <1>0, <3>1, <3>2, QuietInv
  <2> QED
    BY <2>1, <2>2
<1>2. CASE SdkPrints
  <2>1. PICK line \in SdkLines : Output("main", UART1, Printed(line))
    BY <1>2 DEF SdkPrints
  <2>2. Printed(line) \in Nat
    <3>1. line \in Seq(STRING)
      BY TxAssumption
    <3>2. DOMAIN line = 1 .. Len(line) /\ Len(line) \in Nat
      BY <3>1
    <3> QED
      BY <3>2, PrintedNat
  <2>3. "main" \in Thread /\ UART1 \in {UART0, UART1}
    BY DEF Thread
  <2>4. ~ready["main"]
    BY <1>2, <2>3 DEF SdkPrints, MainIsFree, Places, SendingTypeOK
  <2>5. /\ txfifo' = txfifo /\ printing' = printing /\ UNCHANGED flow
        /\ rxfifo_cnt' = rxfifo_cnt
    BY <1>2 DEF SdkPrints, vars, hardware
  <2> QED
    BY <1>0, <2>1, <2>2, <2>3, <2>4, <2>5, OutputInv DEF SendingTypeOK
<1>3. CASE HandlerPrints
  <2>1. Printed(FRM_ERR) \in Nat
    <3>1. DOMAIN FRM_ERR = 1 .. 9
      BY DEF FRM_ERR
    <3> QED
      BY <3>1, PrintedNat
  <2>2. "intr" \in Thread /\ UART1 \in {UART0, UART1}
    BY DEF Thread
  <2>3. ~ready["intr"]
    BY <1>3, <2>2, Zenon DEF HandlerPrints, Places
  <2>4. /\ txfifo' = txfifo /\ printing' = TRUE /\ UNCHANGED flow
        /\ rxfifo_cnt' = rxfifo_cnt /\ Output("intr", UART1, Printed(FRM_ERR))
    BY <1>3 DEF HandlerPrints, vars, hardware
  <2> QED
    BY <1>0, <2>1, <2>2, <2>3, <2>4, OutputInv DEF SendingTypeOK
<1>4. CASE HandlerPosts
  <2>1. ~ready["intr"]
    <3>1. ~(left["intr"] > 0)
      BY <1>4 DEF HandlerPosts
    <3>2. "intr" \in Thread
      BY DEF Thread
    <3> QED
      BY <3>1, <3>2, Zenon DEF Places
  <2>2. /\ txfifo' = txfifo /\ printing' = FALSE
        /\ port' = port /\ left' = left /\ ready' = ready
        /\ rts_wired' = rts_wired /\ unpaced' = unpaced
    BY <1>4 DEF HandlerPosts, output, flow
  <2>3. rxfifo_cnt' = rxfifo_cnt
    BY <1>4 DEF HandlerPosts, InterruptHandler
  <2>4. ~(left["intr"] > 0)
    BY <1>4 DEF HandlerPosts
  <2>5. SendingTypeOK' /\ Paced'
    BY <2>2, <2>3, Zenon DEF SendingTypeOK, Paced
  <2>6. Places'
    BY <2>1, <2>2, <2>4, Zenon DEF Places
  <2> QED
    BY <2>5, <2>6
<1>5. ASSUME NEW t \in Thread, SeeRoom(t) PROVE SendInv'
  <2>1. /\ ready' = [ready EXCEPT ![t] = TRUE]
        /\ txfifo' = txfifo /\ port' = port /\ left' = left /\ printing' = printing
        /\ rts_wired' = rts_wired /\ unpaced' = unpaced /\ rxfifo_cnt' = rxfifo_cnt
    BY <1>5 DEF SeeRoom, vars, hardware, flow
  <2>2. left[t] > 0 /\ txfifo[port[t]] < TxRoom /\ (t = "main" => ~printing)
    BY <1>5 DEF SeeRoom, HasRoom, Runs
  <2>3. SendingTypeOK'
    <3>1. ready' \in [Thread -> BOOLEAN]
      BY <2>1, Zenon DEF SendingTypeOK
    <3> QED
      BY <2>1, <3>1, Zenon DEF SendingTypeOK
  <2>4. /\ \A s \in Thread : s # t => ready'[s] = ready[s]
        /\ "intr" \in Thread /\ "main" \in Thread
    BY <2>1, Zenon DEF SendingTypeOK, Thread
  <2>5. \A s \in Thread : ready'[s] => left[s] > 0
    BY <2>2, <2>4, Zenon DEF Places
  <2>6. ready'["intr"] => txfifo[port["intr"]] < TxRoom
    <3>1. CASE t = "intr"
      BY <2>2, <3>1 DEF Places
    <3>2. CASE t # "intr"
      BY <2>4, <3>2, Zenon DEF Places
    <3> QED
      BY <3>1, <3>2
  <2>7. ready'["main"] => txfifo[port["main"]] <= TxRoom
    <3>1. CASE t = "main"
      BY <2>2, <2>4, <3>1, TxAssumption DEF SendingTypeOK
    <3>2. CASE t # "main"
      BY <2>4, <3>2, Zenon DEF Places
    <3> QED
      BY <3>1, <3>2
  <2>8. Places'
    BY <2>1, <2>5, <2>6, <2>7, Zenon DEF Places
  <2> QED
    BY <2>1, <2>3, <2>8 DEF Paced
<1>6. ASSUME NEW t \in Thread, StoreChar(t) PROVE SendInv'
  <2>1. /\ txfifo' = [txfifo EXCEPT ![port[t]] = @ + 1]
        /\ ready' = [ready EXCEPT ![t] = FALSE]
        /\ left' = [left EXCEPT ![t] = @ - 1]
        /\ port' = port /\ printing' = printing
        /\ rts_wired' = rts_wired /\ unpaced' = unpaced /\ rxfifo_cnt' = rxfifo_cnt
    BY <1>6 DEF StoreChar, vars, hardware, flow
  <2>2. ready[t] /\ (t = "main" => ~printing)
    BY <1>6 DEF StoreChar, Runs
  <2>3. SendingTypeOK'
    BY <2>1, <2>2 DEF SendingTypeOK, Places
  <2>4. Places'
    BY <2>1, <2>2, TxAssumption DEF SendingTypeOK, Places, Thread
  <2> QED
    BY <2>1, <2>3, <2>4 DEF Paced
<1>7. ASSUME NEW u \in {UART0, UART1}, ShiftOut(u) PROVE SendInv'
  <2>1. /\ txfifo' = [txfifo EXCEPT ![u] = @ - 1] /\ txfifo[u] > 0
        /\ port' = port /\ left' = left /\ ready' = ready /\ printing' = printing
        /\ rts_wired' = rts_wired /\ unpaced' = unpaced /\ rxfifo_cnt' = rxfifo_cnt
    BY <1>7 DEF ShiftOut, output, vars, hardware, flow
  <2>2. SendingTypeOK'
    BY <2>1 DEF SendingTypeOK
  <2>3. Places'
    BY <2>1, TxAssumption DEF SendingTypeOK, Places, Thread
  <2> QED
    BY <2>1, <2>2, <2>3 DEF Paced
<1>8. CASE HostSends
  <2>1. /\ rts_wired => rxfifo_cnt < FlowThrhd \/ unpaced < RtsSlack
        /\ unpaced' = IF rxfifo_cnt < FlowThrhd \/ ~rts_wired THEN 0 ELSE unpaced + 1
        /\ rxfifo_cnt' = IF rxfifo_cnt < FifoSize THEN rxfifo_cnt + 1 ELSE rxfifo_cnt
        /\ txfifo' = txfifo /\ port' = port /\ left' = left /\ ready' = ready
        /\ printing' = printing /\ rts_wired' = rts_wired
    BY <1>8 DEF HostSends, RtsOn, ByteArrives, sending, output
  <2>2. SendingTypeOK'
    BY <2>1, FlowAssumption DEF SendingTypeOK
  <2>3. Places'
    BY <2>1 DEF Places
  <2>4. Paced'
    BY <1>0, <2>1, FlowAssumption DEF SendingTypeOK, Paced
  <2> QED
    BY <2>2, <2>3, <2>4
<1>9. CASE Clock
  BY <1>0, <1>9, QuietInv DEF Clock, Timeout, FramingError
<1>10. CASE UNCHANGED allvars
  BY <1>0, <1>10, QuietInv DEF allvars, vars, hardware
<1> QED
  BY <1>1, <1>2, <1>3, <1>4, <1>5, <1>6, <1>7, <1>8, <1>9, <1>10
  DEF UartNext, Sending

LEMMA InitSendInv == UartInit => SendInv
<1> SUFFICES ASSUME UartInit PROVE SendInv
  OBVIOUS
<1>1. /\ txfifo = [u \in {UART0, UART1} |-> 0]
      /\ port = [t \in Thread |-> UART0]
      /\ left = [t \in Thread |-> IF t = "main" THEN BannerLen ELSE 0]
      /\ ready = [t \in Thread |-> FALSE]
      /\ printing = FALSE /\ rts_wired \in BOOLEAN /\ unpaced = 0 /\ rxfifo_cnt = 0
  BY DEF UartInit, Init
<1>2. SendingTypeOK
  <2>1. ready \in [Thread -> BOOLEAN]
    BY <1>1, Zenon
  <2>2. port \in [Thread -> {UART0, UART1}]
    BY <1>1, Zenon
  <2>3. left \in [Thread -> Nat] /\ txfifo \in [{UART0, UART1} -> Nat] /\ unpaced \in 0 .. RtsSlack
    BY <1>1, TxAssumption, FlowAssumption
  <2> QED
    BY <1>1, <2>1, <2>2, <2>3, Zenon DEF SendingTypeOK
<1>3. Places
  BY <1>1, TxAssumption DEF Places, Thread
<1>4. Paced
  BY <1>1, FlowAssumption DEF Paced
<1> QED
  BY <1>2, <1>3, <1>4 DEF SendInv

LEMMA SendInvariant == UartSpec => [](SendInv /\ TypeOK)
<1>1. UartSpec => []TypeOK
  BY ImplementsRx, TypeCorrect, PTL
<1>2. SendInv /\ TypeOK /\ TypeOK' /\ [UartNext]_allvars => SendInv'
  BY StepSendInv
<1> QED
  BY <1>1, <1>2, InitSendInv, PTL DEF UartSpec
-----------------------------------------------------------------------------
(* The variables of the sending side keep their types.                      *)
THEOREM SendingTypeCorrect == UartSpec => []SendingTypeOK
<1>1. SendInv => SendingTypeOK
  BY DEF SendInv
<1> QED
  BY <1>1, SendInvariant, PTL

(* No character is stored into a full transmit FIFO, although the check and *)
(* the store of uart_tx_one_char (uart.c:110-118) are two steps and the     *)
(* handler's report may come between them, for every FIFO and every limit   *)
(* that is at least one below its size.                                     *)
THEOREM NothingOverwrittenAlways == UartSpec => []NothingOverwritten
<1>1. SendInv => NothingOverwritten
  BY TxAssumption DEF SendInv, SendingTypeOK, Places, NothingOverwritten
<1> QED
  BY <1>1, SendInvariant, PTL

(* With RTS connected no received byte is dropped, for every threshold that *)
(* leaves room for what the host sends before it stops (uart.c:79-84).      *)
THEOREM NothingDroppedAlways == UartSpec => NothingDropped
<1>1. SendInv /\ TypeOK => (rts_wired /\ HostSends => rxfifo_cnt' = rxfifo_cnt + 1)
  <2> SUFFICES ASSUME SendInv, TypeOK, rts_wired, HostSends
               PROVE  rxfifo_cnt' = rxfifo_cnt + 1
    OBVIOUS
  <2>1. rxfifo_cnt < FlowThrhd \/ unpaced < RtsSlack
    BY DEF HostSends, RtsOn
  <2>2. rxfifo_cnt < FifoSize
    BY <2>1, FlowAssumption, UartAssumption
    DEF SendInv, SendingTypeOK, Paced, TypeOK
  <2> QED
    BY <2>2 DEF HostSends, ByteArrives
<1>2. SendInv /\ TypeOK /\ [UartNext]_allvars
        => [rts_wired /\ HostSends => rxfifo_cnt' = rxfifo_cnt + 1]_allvars
  BY <1>1
<1> QED
  BY <1>2, SendInvariant, PTL DEF UartSpec, NothingDropped
=============================================================================
