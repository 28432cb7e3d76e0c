---------------------------- MODULE UartRxProofs ----------------------------
(***************************************************************************)
(* Proofs about UartRx, for every FIFO size, threshold and queue length:   *)
(* the hand-over between interrupt handler and task neither duplicates nor *)
(* loses a wake-up.                                                        *)
(***************************************************************************)
EXTENDS UartRx, TLAPS

(* Bytes that wait have been told of by a timeout, or will be: the status   *)
(* FULL plays no part, which is why clearing it alone loses nothing.        *)
Timed == rearms /\ rxfifo_cnt > 0 => tout_st \/ timer

(* The inductive invariant.  OneToken needs TypeOK for its arithmetic. *)
IInv == TypeOK /\ OneToken /\ Timed

-----------------------------------------------------------------------------
LEMMA InitInv == Init => IInv
<1> SUFFICES ASSUME Init PROVE IInv
  OBVIOUS
<1>1. 0 \in 0 .. FifoSize /\ 0 \in 0 .. QueueLen /\ 0 \in Nat
  BY UartAssumption
<1>2. TypeOK
  BY <1>1 DEF Init, TypeOK
<1>3. OneToken
  BY DEF Init, OneToken, Outstanding
<1>4. Timed
  BY DEF Init, Timed
<1> QED
  BY <1>2, <1>3, <1>4 DEF IInv

(* With the interrupt on nothing is outstanding, so a post has room. *)
LEMMA NothingOutstanding ==
  ASSUME IInv, uart_intr
  PROVE  posted = 0 /\ unheard = 0 /\ pc = "idle"
BY UartAssumption DEF IInv, TypeOK, OneToken, Outstanding

LEMMA InterruptHandlerInv ==
  ASSUME IInv, InterruptHandler
  PROVE  IInv'
<1>1. posted = 0 /\ unheard = 0 /\ pc = "idle" /\ uart_intr
  BY NothingOutstanding DEF InterruptHandler
<1>2. /\ rxfifo_cnt' = rxfifo_cnt /\ full_st' = full_st /\ tout_st' = tout_st
      /\ timer' = timer /\ rearms' = rearms /\ registered' = registered /\ pc' = pc
      /\ frm_err_st' = FALSE
  BY DEF InterruptHandler
<1>3. CASE WantsTask
  <2>1. uart_intr' = FALSE /\ Post
    BY <1>3 DEF InterruptHandler
  <2>2. \/ posted' = 1 /\ unheard' = 0
        \/ posted' = 0 /\ unheard' = 1
    BY <2>1, <1>1 DEF Post
  <2>3. posted' \in 0 .. QueueLen /\ unheard' \in Nat
    BY <2>2, UartAssumption
  <2>4. TypeOK'
    BY <1>2, <2>1, <2>3 DEF IInv, TypeOK
  <2>5. OneToken'
    BY <1>1, <1>2, <2>1, <2>2 DEF OneToken, Outstanding
  <2>6. Timed'
    BY <1>2 DEF IInv, Timed
  <2> QED
    BY <2>4, <2>5, <2>6 DEF IInv
<1>4. CASE ~WantsTask
  <2>1. UNCHANGED <<uart_intr, posted, unheard>>
    BY <1>4 DEF InterruptHandler
  <2> QED
    BY <1>2, <2>1 DEF IInv, TypeOK, OneToken, Outstanding, Timed
<1> QED
  BY <1>3, <1>4

(* Only the first and the last step of the task move the token. *)
LEMMA TaskInv ==
  ASSUME IInv, Task
  PROVE  IInv'
<1>1. CASE TaskStarts
  BY <1>1, UartAssumption
  DEF TaskStarts, hardware, IInv, TypeOK, OneToken, Outstanding, Timed
<1>2. CASE Drain
  BY <1>2, UartAssumption DEF Drain, IInv, TypeOK, OneToken, Outstanding, Timed
<1>3. CASE Drained
  BY <1>3 DEF Drained, hardware, IInv, TypeOK, OneToken, Outstanding, Timed
<1>4. CASE TestStatus
  BY <1>4 DEF TestStatus, hardware, IInv, TypeOK, OneToken, Outstanding, Timed
<1>5. CASE TestTout
  BY <1>5 DEF TestTout, hardware, IInv, TypeOK, OneToken, Outstanding, Timed
<1>6. CASE ClearFull
  BY <1>6 DEF ClearFull, IInv, TypeOK, OneToken, Outstanding, Timed
<1>7. CASE ClearTout
  BY <1>7 DEF ClearTout, IInv, TypeOK, OneToken, Outstanding, Timed
<1>8. CASE Enable
  <2>1. uart_intr = FALSE /\ posted = 0 /\ unheard = 0
    BY <1>8, NothingOutstanding, UartAssumption
    DEF Enable, IInv, TypeOK, OneToken, Outstanding
  <2> QED
    BY <1>8, <2>1, UartAssumption
    DEF Enable, hardware, IInv, TypeOK, OneToken, Outstanding, Timed
<1> QED
  BY <1>1, <1>2, <1>3, <1>4, <1>5, <1>6, <1>7, <1>8 DEF Task

(* What the UART does on its own leaves the token alone. *)
LEMMA HardwareInv ==
  ASSUME IInv, ByteArrives \/ Timeout \/ FramingError
  PROVE  IInv'
<1>1. CASE ByteArrives
  BY <1>1, UartAssumption DEF ByteArrives, IInv, TypeOK, OneToken, Outstanding, Timed
<1>2. CASE Timeout
  BY <1>2 DEF Timeout, IInv, TypeOK, OneToken, Outstanding, Timed
<1>3. CASE FramingError
  BY <1>3 DEF FramingError, IInv, TypeOK, OneToken, Outstanding, Timed
<1> QED
  BY <1>1, <1>2, <1>3

LEMMA StepInv == IInv /\ [Next]_vars => IInv'
<1> SUFFICES ASSUME IInv, [Next]_vars PROVE IInv'
  OBVIOUS
<1>1. CASE SerialInit
  BY <1>1 DEF SerialInit, hardware, IInv, TypeOK, OneToken, Outstanding, Timed
<1>2. CASE InterruptHandler
  BY <1>2, InterruptHandlerInv
<1>3. CASE Task
  BY <1>3, TaskInv
<1>4. CASE ByteArrives \/ Timeout \/ FramingError
  BY <1>4, HardwareInv
<1>5. CASE UNCHANGED vars
  BY <1>5 DEF vars, hardware, IInv, TypeOK, OneToken, Outstanding, Timed
<1> QED
  BY <1>1, <1>2, <1>3, <1>4, <1>5 DEF Next

LEMMA SpecInv == Spec => []IInv
BY InitInv, StepInv, PTL DEF Spec

-----------------------------------------------------------------------------
(* The state of the receive path keeps its types: the FIFO count stays      *)
(* between empty and full although handler, task and UART all move it.      *)
THEOREM TypeCorrect == Spec => []TypeOK
<1>1. IInv => TypeOK
  BY DEF IInv
<1> QED
  BY <1>1, SpecInv, PTL

(* Interrupt handler and task own the wake-up in turn: one post at most is  *)
(* outstanding, and none while the interrupt is on.                         *)
THEOREM OneTokenAlways == Spec => []OneToken
<1>1. IInv => OneToken
  BY DEF IInv
<1> QED
  BY <1>1, SpecInv, PTL

(* On a UART that times waiting bytes again, the epilogue of the task never *)
(* leaves bytes in the FIFO without an interrupt to come.                   *)
THEOREM WakeupsNotLost == Spec => []NoLostWakeup
<1>1. IInv => NoLostWakeup
  BY DEF IInv, Timed, NoLostWakeup, WantsTask
<1> QED
  BY <1>1, SpecInv, PTL

(* The SDK's queue never overflows: the only post that finds no task is one *)
(* of an interrupt taken before serial_init.                                *)
THEOREM PostsLostOnlyAtBoot == Spec => LostOnlyAtBoot
<1>1. IInv /\ [Next]_vars => [unheard' > unheard => ~registered]_vars
  <2> SUFFICES ASSUME IInv, [Next]_vars, unheard' > unheard, registered
               PROVE  FALSE
    OBVIOUS
  <2>1. unheard \in Nat
    BY DEF IInv, TypeOK
  <2>2. CASE InterruptHandler
    <3>1. posted = 0
      BY <2>2, NothingOutstanding DEF InterruptHandler
    <3>2. posted < QueueLen
      BY <3>1, UartAssumption
    <3>3. Post \/ unheard' = unheard
      BY <2>2 DEF InterruptHandler
    <3>4. unheard' = unheard
      BY <3>2, <3>3 DEF Post
    <3> QED
      BY <2>1, <3>4
  <2>3. CASE ~InterruptHandler
    <3>1. unheard' = unheard
      BY <2>3 DEF Next, vars, SerialInit, Task, TaskStarts, Drain, Drained, TestStatus,
                  TestTout, ClearFull, ClearTout, Enable, ByteArrives, Timeout, FramingError
    <3> QED
      BY <2>1, <3>1
  <2> QED
    BY <2>2, <2>3
<1> QED
  BY <1>1, SpecInv, PTL DEF Spec, LostOnlyAtBoot
=============================================================================
