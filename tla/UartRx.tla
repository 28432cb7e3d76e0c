------------------------------- MODULE UartRx -------------------------------
(***************************************************************************)
(* How a received byte wakes the command interpreter: the UART's receive   *)
(* FIFO and interrupt status, the handler uart0_rx_intr_handler of         *)
(* driver/uart.c, the SDK's task queue and the outer shape of              *)
(* serial_recvTask, its drain loop and its epilogue.  Handler and task     *)
(* share the interrupt enable and the status bits without a lock; bytes    *)
(* and the receive timeout come between any two of their steps.            *)
(*                                                                         *)
(* Outside the repository: the UART's status bits and the SDK's post.  The *)
(* FULL bit follows the fill level.  Whether the TOUT bit comes back after *)
(* it is cleared while bytes are waiting is not documented: rearms, fixed  *)
(* from the start, covers both.  A post to a task that is not registered   *)
(* yet is lost.                                                            *)
(***************************************************************************)
EXTENDS Integers

CONSTANTS FifoSize,   \* 128: bytes the receive FIFO holds
          FullThrhd,  \* 16: UART_RXFIFO_FULL_THRHD of uart_config
          QueueLen    \* 64: serial_recvTaskQueueLen

ASSUME UartAssumption ==
  /\ FifoSize \in Nat /\ FullThrhd \in 1 .. FifoSize
  /\ QueueLen \in Nat \ {0}

VARIABLES rxfifo_cnt, \* bytes in the receive FIFO
          full_st,    \* UART_RXFIFO_FULL_INT_ST
          tout_st,    \* UART_RXFIFO_TOUT_INT_ST
          frm_err_st, \* UART_FRM_ERR_INT_ST
          timer,      \* the receive timeout runs
          rearms,     \* it starts again if TOUT is cleared over data
          uart_intr,  \* ETS_UART_INTR_ENABLE / DISABLE
          registered, \* serial_init has run
          posted,     \* events in serial_recvTaskQueue
          unheard,    \* posts that found no task, or no room
          pc          \* where serial_recvTask is, "idle" between two runs

hardware == <<rxfifo_cnt, full_st, tout_st, frm_err_st, timer, rearms>>
vars     == <<hardware, uart_intr, registered, posted, unheard, pc>>
-----------------------------------------------------------------------------
Init ==  \* uart_init has run: the FIFO is reset, the interrupt on
  /\ rxfifo_cnt = 0
  /\ full_st = FALSE /\ tout_st = FALSE /\ frm_err_st = FALSE
  /\ timer = FALSE /\ rearms \in BOOLEAN
  /\ uart_intr = TRUE
  /\ registered = FALSE
  /\ posted = 0 /\ unheard = 0
  /\ pc = "idle"

(* user_init goes on to serial_init. *)
SerialInit ==
  /\ ~registered
  /\ registered' = TRUE
  /\ UNCHANGED <<hardware, uart_intr, posted, unheard, pc>>

(* system_os_post. *)
Post ==
  IF registered /\ posted < QueueLen
  THEN posted' = posted + 1 /\ UNCHANGED unheard
  ELSE unheard' = unheard + 1 /\ UNCHANGED posted

(* Mutation: uart_config does not enable the timeout interrupt. *)
WantsTaskFullOnly == full_st

(* The two interrupts that uart_config enables and the handler posts for. *)
WantsTask == full_st \/ tout_st

(* Mutation: the handler leaves the interrupt on while the task is due. *)
InterruptHandlerOpen ==
  /\ uart_intr /\ (WantsTask \/ frm_err_st)
  /\ frm_err_st' = FALSE
  /\ IF WantsTask THEN Post ELSE UNCHANGED <<posted, unheard>>
  /\ UNCHANGED <<rxfifo_cnt, full_st, tout_st, timer, rearms, uart_intr, registered, pc>>

(* Mutation: the handler does not clear the framing error. *)
InterruptHandlerUncleared ==
  /\ uart_intr /\ (WantsTask \/ frm_err_st)
  /\ IF WantsTask THEN uart_intr' = FALSE /\ Post
                  ELSE UNCHANGED <<uart_intr, posted, unheard>>
  /\ UNCHANGED <<hardware, registered, pc>>

(* uart0_rx_intr_handler.  It clears neither FULL nor TOUT: it turns the   *)
(* interrupt off and leaves the clearing to the task.                      *)
InterruptHandler ==
  /\ uart_intr /\ (WantsTask \/ frm_err_st)
  /\ frm_err_st' = FALSE
  /\ IF WantsTask THEN uart_intr' = FALSE /\ Post
                  ELSE UNCHANGED <<uart_intr, posted, unheard>>
  /\ UNCHANGED <<rxfifo_cnt, full_st, tout_st, timer, rearms, registered, pc>>
-----------------------------------------------------------------------------
(* serial_recvTask. *)
TaskStarts ==
  /\ pc = "idle" /\ posted > 0
  /\ posted' = posted - 1
  /\ pc' = "drain"
  /\ UNCHANGED <<hardware, uart_intr, registered, unheard>>

(* Mutation: the loop reads before it looks whether there is a byte. *)
DrainUnchecked ==
  /\ pc = "drain"
  /\ rxfifo_cnt' = rxfifo_cnt - 1
  /\ UNCHANGED <<full_st, tout_st, frm_err_st, timer, uart_intr, rearms, registered, posted, unheard, pc>>

(* HAVE_SERIAL_DATA, and one byte for the interpreter of SerialTask. *)
Drain ==
  /\ pc = "drain" /\ rxfifo_cnt > 0
  /\ rxfifo_cnt' = rxfifo_cnt - 1
  /\ UNCHANGED <<full_st, tout_st, frm_err_st, timer, uart_intr, rearms, registered, posted, unheard, pc>>

Drained ==
  /\ pc = "drain" /\ rxfifo_cnt = 0
  /\ pc' = "test"
  /\ UNCHANGED <<hardware, uart_intr, registered, posted, unheard>>

(* The epilogue reads the status and then clears one bit, FULL before TOUT. *)
TestStatus ==
  /\ pc = "test"
  /\ \/ full_st /\ pc' = "clearFull"
     \/ ~full_st /\ pc' = "testTout"
  /\ UNCHANGED <<hardware, uart_intr, registered, posted, unheard>>

TestTout ==
  /\ pc = "testTout"
  /\ pc' = IF tout_st THEN "clearTout" ELSE "enable"
  /\ UNCHANGED <<hardware, uart_intr, registered, posted, unheard>>

ClearFull ==
  /\ pc = "clearFull"
  /\ full_st' = (rxfifo_cnt >= FullThrhd)
  /\ pc' = "enable"
  /\ UNCHANGED <<rxfifo_cnt, tout_st, frm_err_st, timer, uart_intr, rearms, registered, posted, unheard>>

ClearTout ==
  /\ pc = "clearTout"
  /\ tout_st' = FALSE
  /\ timer' = (timer \/ (rearms /\ rxfifo_cnt > 0))
  /\ pc' = "enable"
  /\ UNCHANGED <<rxfifo_cnt, full_st, frm_err_st, uart_intr, rearms, registered, posted, unheard>>

(* Mutation: the task returns without ETS_UART_INTR_ENABLE. *)
EnableForgotten ==
  /\ pc = "enable"
  /\ pc' = "idle"
  /\ UNCHANGED <<hardware, uart_intr, registered, posted, unheard>>

Enable ==
  /\ pc = "enable"
  /\ uart_intr' = TRUE
  /\ pc' = "idle"
  /\ UNCHANGED <<hardware, registered, posted, unheard>>

Task ==
  \/ TaskStarts \/ Drain \/ Drained
  \/ TestStatus \/ TestTout \/ ClearFull \/ ClearTout \/ Enable
-----------------------------------------------------------------------------
(* The UART.  A byte for a full FIFO is dropped. *)
ByteArrives ==
  /\ rxfifo_cnt' = IF rxfifo_cnt < FifoSize THEN rxfifo_cnt + 1 ELSE rxfifo_cnt
  /\ full_st' = (full_st \/ rxfifo_cnt' >= FullThrhd)
  /\ timer' = TRUE
  /\ UNCHANGED <<tout_st, frm_err_st, uart_intr, rearms, registered, posted, unheard, pc>>

(* Two byte times without a byte. *)
Timeout ==
  /\ timer /\ rxfifo_cnt > 0
  /\ tout_st' = TRUE /\ timer' = FALSE
  /\ UNCHANGED <<rxfifo_cnt, full_st, frm_err_st, uart_intr, rearms, registered, posted, unheard, pc>>

FramingError ==
  /\ frm_err_st' = TRUE
  /\ UNCHANGED <<rxfifo_cnt, full_st, tout_st, timer, uart_intr, rearms, registered, posted, unheard, pc>>

Next ==
  \/ SerialInit \/ InterruptHandler \/ Task
  \/ ByteArrives \/ Timeout \/ FramingError

Spec == Init /\ [][Next]_vars

(* Boot goes on, a pending interrupt is taken, the SDK runs a posted task   *)
(* and the timeout is a clock.  Nothing makes the host send.                *)
Fairness ==
  /\ WF_vars(SerialInit) /\ WF_vars(InterruptHandler)
  /\ WF_vars(Task) /\ WF_vars(Timeout)

FairSpec == Spec /\ Fairness

-----------------------------------------------------------------------------
TypeOK ==
  /\ rxfifo_cnt \in 0 .. FifoSize
  /\ full_st \in BOOLEAN /\ tout_st \in BOOLEAN /\ frm_err_st \in BOOLEAN
  /\ timer \in BOOLEAN /\ rearms \in BOOLEAN /\ uart_intr \in BOOLEAN /\ registered \in BOOLEAN
  /\ posted \in 0 .. QueueLen
  /\ unheard \in Nat
  /\ pc \in {"idle", "drain", "test", "testTout", "clearFull", "clearTout", "enable"}

Outstanding == posted + unheard + (IF pc = "idle" THEN 0 ELSE 1)

(* Handler and task hand one token to and fro: either the interrupt is on,  *)
(* or exactly one post is waiting, running or lost.  So the queue of 64 is  *)
(* never more than one deep, the task never races a second copy of its      *)
(* wake-up, and the interrupt is never off with nobody left to enable it    *)
(* but for a post that was lost before serial_init (uart.c:218-235,         *)
(* serial.c:111-119, user_main.c:60-62).                                    *)
OneToken == Outstanding = IF uart_intr THEN 0 ELSE 1

(* A post is lost only in the window of the boot that uart_init opens and   *)
(* serial_init closes: never because of the queue's length.                 *)
LostOnlyAtBoot == [][unheard' > unheard => ~registered]_vars

(* No lost wake-up: with the interrupt on, bytes that wait in the FIFO have *)
(* an interrupt pending or the timeout running, although the epilogue may   *)
(* clear TOUT over bytes that came after its last look at the FIFO          *)
(* (serial.c:61, 111-119).  It needs the UART to time those bytes again.    *)
NoLostWakeup ==
  rearms /\ uart_intr /\ rxfifo_cnt > 0 => WantsTask \/ timer

(* The host that goes on sending, as one does that retries its command. *)
Retries == []<><<ByteArrives>>_vars

(* Bytes do not wait for ever: the task comes to drain the FIFO, unless     *)
(* the wake-up went to a task that was not there yet.  With a UART that     *)
(* does not time old bytes again it takes a host that retries.              *)
Served ==
  rearms \/ Retries => (rxfifo_cnt > 0 ~> pc = "drain") \/ <>(unheard > 0)
=============================================================================
