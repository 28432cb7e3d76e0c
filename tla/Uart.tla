-------------------------------- MODULE Uart --------------------------------
(***************************************************************************)
(* UartRx with what driver/uart.c sends.  The firmware's main thread (the  *)
(* boot, the command task, the SDK's debug output) and the interrupt       *)
(* handler, which reports framing errors on UART1, both send through       *)
(* uart_tx_one_char: it waits until the transmit FIFO has room and then    *)
(* stores, in two steps that an interrupt may come between.  The handler   *)
(* busy-waits inside the interrupt.                                        *)
(*                                                                         *)
(* Of the characters only the number matters.  The host may obey the RTS   *)
(* line that uart_config drives from the receive FIFO's fill level, or     *)
(* have it not connected (rts_wired).                                      *)
(***************************************************************************)
EXTENDS UartRx, FiniteSets, Sequences

CONSTANTS TxFifoSize, \* 128: characters a transmit FIFO holds
          TxRoom,     \* 126: the fill level below which one more is stored
          BannerLen,  \* 14: "\r\nESP-STLINK\r\n"
          ReplyLens,  \* lengths of the command task's replies
          SdkLines,   \* what the SDK prints, as sequences of characters
          FlowThrhd,  \* 16: UART_RX_FLOW_THRHD of uart_config
          RtsSlack    \* characters the host still sends after RTS is off

ASSUME TxAssumption ==
  /\ TxFifoSize \in Nat /\ TxRoom \in Nat \ {0} /\ TxRoom + 1 <= TxFifoSize
  /\ BannerLen \in Nat /\ ReplyLens \subseteq Nat /\ SdkLines \subseteq Seq(STRING)

ASSUME FlowAssumption ==
  FlowThrhd \in Nat /\ RtsSlack \in Nat /\ FlowThrhd + RtsSlack <= FifoSize

VARIABLES txfifo,    \* the fill level of each UART's transmit FIFO
          port,      \* for each thread: the UART it sends on,
          left,      \* the characters it has yet to send,
          ready,     \* it has seen room for the next one
          printing,  \* the handler is in its os_printf
          rts_wired, \* the host obeys RTS
          unpaced    \* characters that have come since RTS went off

output  == <<port, left, ready>>
sending == <<txfifo, output, printing>>
flow    == <<rts_wired, unpaced>>
allvars == <<vars, sending, flow>>

UART0 == 0  \* the host's line
UART1 == 1  \* debug output

Thread == {"main", "intr"}

(* A thread starts to send: uart0_tx_buffer, uart0_sendStr, os_printf. *)
Output(t, u, n) ==
  /\ port' = [port EXCEPT ![t] = u]
  /\ left' = [left EXCEPT ![t] = n]
  /\ ready' = ready

(* uart1_write_char, for each character of a line: \n goes out as \r\n and  *)
(* \r not at all.                                                           *)
Printed(line) == Cardinality({k \in DOMAIN line : line[k] # "\r"})
                   + Cardinality({k \in DOMAIN line : line[k] = "\n"})
FRM_ERR == <<"F", "R", "M", "_", "E", "R", "R", "\r", "\n">>
-----------------------------------------------------------------------------
(* uart_init has run, and uart0_sendStr starts on the banner. *)
UartInit ==
  /\ Init
  /\ txfifo = [u \in {UART0, UART1} |-> 0]
  /\ port = [t \in Thread |-> UART0]
  /\ left = [t \in Thread |-> IF t = "main" THEN BannerLen ELSE 0]
  /\ ready = [t \in Thread |-> FALSE]
  /\ printing = FALSE
  /\ rts_wired \in BOOLEAN /\ unpaced = 0

(* Mutation: all of the FIFO is used. *)
HasRoomToTheBrim(u) == txfifo[u] < TxFifoSize

HasRoom(u) == txfifo[u] < TxRoom

(* The handler keeps the main thread from running. *)
Runs(t) == t = "main" => ~printing

(* uart_tx_one_char: the loop sees room ... *)
SeeRoom(t) ==
  /\ Runs(t) /\ left[t] > 0 /\ ~ready[t]
  /\ HasRoom(port[t])
  /\ ready' = [ready EXCEPT ![t] = TRUE]
  /\ UNCHANGED <<vars, txfifo, port, left, printing, flow>>

(* ... and the character is stored.  Its caller goes on to the next. *)
StoreChar(t) ==
  /\ Runs(t) /\ ready[t]
  /\ txfifo' = [txfifo EXCEPT ![port[t]] = @ + 1]
  /\ ready' = [ready EXCEPT ![t] = FALSE]
  /\ left' = [left EXCEPT ![t] = @ - 1]
  /\ UNCHANGED <<vars, port, printing, flow>>

(* The hardware sends a character. *)
ShiftOut(u) ==
  /\ txfifo[u] > 0
  /\ txfifo' = [txfifo EXCEPT ![u] = @ - 1]
  /\ UNCHANGED <<vars, output, printing, flow>>

(* The main thread gets on when its output is stored. *)
MainIsFree == ~printing /\ left["main"] = 0

(* The task, with the reply to a command that a byte completes. *)
TakeAndReply ==
  /\ MainIsFree /\ Drain
  /\ \E n \in ReplyLens \cup {0} : Output("main", UART0, n)
  /\ UNCHANGED <<txfifo, printing, flow>>

MainStep ==
  \/ TakeAndReply
  \/ /\ MainIsFree /\ UNCHANGED <<sending, flow>>
     /\ \/ SerialInit \/ TaskStarts \/ Drained
        \/ TestStatus \/ TestTout \/ ClearFull \/ ClearTout \/ Enable

(* The SDK prints, between two runs of the task. *)
SdkPrints ==
  /\ MainIsFree /\ pc = "idle"
  /\ \E line \in SdkLines : Output("main", UART1, Printed(line))
  /\ UNCHANGED <<vars, txfifo, printing, flow>>

(* uart0_rx_intr_handler in two steps: it prints, which takes time, and then *)
(* clears the framing error and looks at the other two.                      *)
HandlerPrints ==
  /\ uart_intr /\ frm_err_st /\ ~printing
  /\ printing' = TRUE
  /\ Output("intr", UART1, Printed(FRM_ERR))
  /\ UNCHANGED <<vars, txfifo, flow>>

HandlerPosts ==
  /\ frm_err_st => printing
  /\ left["intr"] = 0
  /\ InterruptHandler
  /\ printing' = FALSE
  /\ UNCHANGED <<txfifo, output, flow>>

(* Mutation: uart_config does not turn on UART_RX_FLOW_EN. *)
RtsOnAlways == TRUE

(* RTS, which UART_RX_FLOW_EN drives from the fill level. *)
RtsOn == rxfifo_cnt < FlowThrhd

(* The host sends a character; one that obeys RTS stops soon. *)
HostSends ==
  /\ rts_wired => RtsOn \/ unpaced < RtsSlack
  /\ unpaced' = IF RtsOn \/ ~rts_wired THEN 0 ELSE unpaced + 1
  /\ ByteArrives
  /\ UNCHANGED <<sending, rts_wired>>

Clock == (Timeout \/ FramingError) /\ UNCHANGED <<sending, flow>>

Sending == \E t \in Thread : SeeRoom(t) \/ StoreChar(t)

UartNext ==
  \/ MainStep \/ SdkPrints \/ HandlerPrints \/ HandlerPosts
  \/ Sending \/ (\E u \in {UART0, UART1} : ShiftOut(u))
  \/ HostSends \/ Clock

UartSpec == UartInit /\ [][UartNext]_allvars

(* The fairness of UartRx, thread by thread; the transmitter is a clock.    *)
(* The scheduler runs the task although the SDK may print at any time.      *)
UartFairness ==
  /\ SF_allvars(MainStep)
  /\ WF_allvars(HandlerPrints) /\ WF_allvars(HandlerPosts)
  /\ \A t \in Thread : WF_allvars(SeeRoom(t) \/ StoreChar(t))
  /\ \A u \in {UART0, UART1} : WF_allvars(ShiftOut(u))
  /\ WF_allvars(Timeout /\ UNCHANGED <<sending, flow>>)

FairUartSpec == UartSpec /\ UartFairness
-----------------------------------------------------------------------------
(* The types of what uart.c sends and of the RTS line, for the proofs. *)
SendingTypeOK ==
  /\ txfifo \in [{UART0, UART1} -> Nat]
  /\ port \in [Thread -> {UART0, UART1}]
  /\ left \in [Thread -> Nat]
  /\ ready \in [Thread -> BOOLEAN]
  /\ printing \in BOOLEAN /\ rts_wired \in BOOLEAN
  /\ unpaced \in 0 .. RtsSlack

(* Looking for room and storing are two steps, and the handler's report may *)
(* come between them and fill the FIFO that the interrupted thread has seen *)
(* room in: still no character is stored into a full FIFO, because the      *)
(* limit of 126 leaves one place for each of the two (uart.c:110-118, 211). *)
NothingOverwritten == \A u \in {UART0, UART1} : txfifo[u] <= TxFifoSize

(* With RTS connected no received byte is dropped, however long the task    *)
(* is held in a command: the flow threshold is low enough for what the host *)
(* sends before it stops (uart.c:79-84).                                    *)
NothingDropped == [][rts_wired /\ HostSends => rxfifo_cnt' = rxfifo_cnt + 1]_allvars

(* The line recovers: there is a last framing error. *)
Calm == <>[][frm_err_st' => frm_err_st]_allvars

(* What is to be sent is sent, though the main thread is held by a full     *)
(* FIFO, and by a handler that is held by a full FIFO itself: neither busy  *)
(* wait (uart.c:110-116) waits for something that the other one stops.      *)
SentOut == Calm => (left["main"] > 0 ~> left["main"] = 0)

(* Bytes are served as in UartRx while the handler prints, the SDK prints   *)
(* and RTS holds the host back.  A host that waits for RTS does not send    *)
(* again, so then it is the UART that has to time old bytes again.          *)
ServedBusy == Calm => Served
=============================================================================
