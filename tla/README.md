# esp-stlink in TLA+

esp-stlink turns an ESP8266 into a programmer and debugger for STM8 microcontrollers. A tool on the
host sends commands over a serial line to the firmware of the ESP8266, which carries them out on the
one-wire SWIM interface of the target. This directory holds TLA+ models of that system, TLC runs over
small instances, and TLAPS proofs. Paths below are relative to the repository.

## Inventory

| Component | State | Operations | Speaks to |
|---|---|---|---|
| Host library `lib/libespstlink.c` | a file descriptor, the cached version, a global last error | open, version, swim entry, soft reset, reset pin, read, write; `error_check` reads every reply | the tty; called by the tools |
| Python tools `python/` | registers and flash state live in the target; `ihx.py` and `flash.py` hold images | register bits by read-modify-write, block programming, break points, hex files | the host library |
| UART driver `src/driver/uart.c` | receive FIFO, two transmit FIFOs, interrupt status, RTS (hardware), interrupt enable, task queue | receive interrupt, transmit on either UART, configuration | posts to the interpreter's task; carries its replies and the SDK's debug output |
| Command interpreter `src/user/serial.c` | `cmd_buf`, `cmd_buf_idx` | one task that drains the FIFO, executes commands, re-enables the interrupt | UART driver, SWIM driver |
| SWIM driver `src/driver/swim.c` | pin direction and latch, the processor's interrupt level, deadlines in cycle counts | srst, rotf, wotf, swim_entry, reset | the wire |
| Boot `src/user/user_main.c` | - | swim_init, uart_init, serial_init in that order | all of the firmware |
| STM8 target (external) | SWIM mode, the command in progress, memory | takes, refuses or misses a frame; resets | the wire |

How they interact: requests and replies are bytes on a serial line, without frames, numbers or check
sums, so both ends rely on being in step. Inside the firmware the interrupt handler and the task
share the interrupt enable and the UART's status bits without a lock. The driver runs inside the task,
with interrupts masked, and shares one wire with the target.

What is hard here, and what makes each part correct (PROJECT.json lists every hazard at its line):

- **Interpreter.** One static buffer gathers a request and holds its reply; it is never cleared, its
  index has no check of its own and the end of a write is found with `!=`. Correct: no store leaves the
  buffer, nothing stale in it reaches a request or a reply, one acknowledgement and one well-formed
  reply per request, no byte stream wedges it.
- **Wake-up.** Bytes and the receive timeout come between any two steps of handler, drain loop and
  epilogue; boot enables the interrupt before the task exists. Correct: exactly one wake-up is
  outstanding, none is lost, waiting bytes are served.
- **Transmission.** Task, boot, SDK and the interrupt handler send through one function that looks for
  room and stores in two steps, and busy-waits in between. Correct: no character is stored into a full
  FIFO, no busy wait is without end, and RTS stops the host before the receive FIFO is full.
- **Bit level of SWIM.** Every edge is a deadline in a counter that wraps, met some cycles late; an edge
  of one bit is caused by the code of the next. Correct: each end makes out every bit of the other, and
  they take turns.
- **SWIM driver.** Frames are damaged, acknowledgements of either end are lost or misheard, the target resets; the
  driver resends, gives up in the middle and returns early, with the target perhaps still sending. Correct, as far
  as unprotected acknowledgements allow: a success is no lie about the target's memory, the
  two ends do not send at once, driver and target count the same bytes, calls return.
- **Host library.** Answers come late and in pieces; reads may block; the device has one of two rates and
  may be in the middle of an old command. Correct: a call returns the reply to its own request, nothing is
  left over between calls, the interpreter always sees whole requests, what was opened is in step.
- **Tools.** Polling of a flag that a read clears, multi-step programming with failures in between,
  padding and merging of images, lost updates of registers a running target also writes.

## Modules

| Module | Models | State ↔ code |
|---|---|---|
| `SerialTask` | `serial_recvTask`, lines 28-109 | `cmd_buf`, `cmd_buf_idx` as in the code; `rx`, `tx` the two directions of the UART; `pc` whether a byte is being taken or a command served |
| `RecordedTask` | `SerialTask` with what the driver returned in the last step | `outcome` history: without it nothing tells which data a reply must hold |
| `CommandServer` | what the interpreter promises: the tables of serial-protocol.md without a buffer, every byte of every reply | `RecordedTask!ImplementsServer` refines it |
| `UartRx` | `uart0_rx_intr_handler`, the drain loop and epilogue of the task (111-119), the boot order | FIFO count, FULL/TOUT/framing status, interrupt enable, posts; `pc` the statement of the task |
| `Uart` | extends `UartRx` by all that `uart.c` sends: banner, replies, debug output, the handler's report of a framing error; the RTS line | `txfifo` the fill level per UART; `port`, `left`, `ready` what each thread (main, handler) has yet to send and whether it has seen room; `printing` the handler is inside `os_printf`; `rts_wired`, `unpaced` the host |
| `SwimLink` | `swim.c` with a target, one frame per step | `pc`, `i`, `dest`, `result` the driver's position; `gpio` the pins; `ps`, `state` the interrupt level and its saved copy; `line` the frame or answer on the wire; `active` ... `mem` the target, `waits` it has sent a byte and waits for its acknowledgement; `sound` history: this call began with the target outside of a read, and every acknowledgement since was heard as it was sent |
| `SwimWire` | below `SwimLink`: `sync_ccount`, `write_bit_sync`, `write_byte`, `finish_sync`, `read_bit`, `read_byte`, `send_command` edge by edge | `now` cycles; `next` the variable the code computes deadlines with, which it sees modulo `W`; `pin`; `frame`, `k` the bits and the one due; `got` bits read; `seen`, `fell` what the target makes of the edges; `says`, `at` what it sends; `delay`, `prompt` history: whether each wait of `read_byte` has ended in the high part of a slot |
| `MemoryPort` | what the driver promises: a port onto the target's memory | `SwimLink!ImplementsPort` refines it |
| `HostLink` | the commands and `error_check` of `libespstlink.c`, composed with the interpreter of `SerialTask` (INSTANCE) | `hpc` the read that is due, `cmd`, `resp`, `size` its arguments, `result`, `error` the outcome; `asked`, `did` history |
| `HostOpen` | `espstlink_open`: flush, version query, second rate; `error_check` is `HostLink`'s and the device `SerialTask`'s (INSTANCE) | `rate` and `tty` the host's side, `device` the device's rate, `line` bytes under way; `phase` the position in `espstlink_open`; `late`, `astray` history |
| `Flasher` | `python/flash.py`, `ihx.py` and `Flash.write` of `espstlink/flash.py` against a flash controller | `merged`, `addr`, `data`, `offset` as in the code, `looks` the loop of line 79; `prg`, `eop`, `busy`, `mem` the target; `mem0`, `spoilt` history |
| `RemoteCall` | what the library promises on a healthy line: carried out once, answered by its own reply | `HostLink!ImplementsRemoteCall` refines it |
| `MCSerialTask`, `MCSwimLink`, `MCSwimWire`, `MCHostLink`, `MCHostOpen`, `MCFlasher`, `MCUart` | constants for TLC | |
| `SerialTaskProofs`, `UartRxProofs`, `UartProofs`, `SwimLinkProofs`, `SwimWireProofs`, `HostLinkProofs`, `HostOpenProofs`, `FlasherProofs` | TLAPS proofs | |

Actions follow the code: one per byte taken and per `case` of the switch in `SerialTask` (the reply and
the reset of the index, lines 102-108, belong to each); one per statement of the epilogue in `UartRx`,
where the order of two statements is the point; one per look for room and one per store in `Uart`; one
per edge and per sampled bit in `SwimWire`; one per frame, answer and early return in
`SwimLink`; one per `read()` in `HostLink`; one per call to the device in `Flasher`. Definitions named in a comment as a mutation are plausible
slips in the code; they are in no specification and show that a property can fail.

Abstractions. Bytes scale with `ByteMax` and addresses with `AddrLen`, so that TLC can fill buffers:
the command codes keep their places at both ends of the byte range. In `SwimLink` a frame is a step with
the outcomes taken, refused, missed, and taken with the answer lost or read as its opposite; `SwimWire` is the same
frames as edges, without what they mean. A target's address is its
low byte: memory is one page, after whose end it begins again. Of characters sent `Uart` keeps the number. In `HostOpen` a byte received at the wrong rate is
lost or one of `Garbled`.

`SwimWire` takes the time between a deadline and the next instruction (`Lags`) and between a falling edge
and reading `ccount` (`Detect`) as sets, interrupts being off. Nothing in the repository fixes these delays, so
nothing is assumed of them but bounds of the size of a few instructions (a lag below the short pulse, a detection within
eight SWIM clocks): every wait takes any of them, and the variable
`prompt` notes the first one that the 180 cycles of line 184 and the delays around it put outside the high part
of the slot. Up to there the two ends hear each other, and at that wait the next bit is lost (`MarginExact`).

Nothing protects an acknowledgement, neither the target's nor the driver's: one bit, which may be missed or read as the
opposite. What the code can promise of a call with a misheard one is little (`MemoryPort!Misheard`), so
`sound` notes it and the properties of `SwimLink` speak of calls without. An acknowledgement of the target that is lost,
and seen to be lost by the timeout, does not end `sound`; one of the driver that the target missed does, for nothing
tells the driver.

Assumed of what is outside the repository: the UART's FULL status follows its fill level; the
SDK loses a post to a task that is not registered and runs a posted task; the interrupt level is open
when the task starts (the SDK's scheduler sees to that after `swim_entry` has left it masked, so the
leak of `swim_interrupts` is seen between calls only). The flash controller clears EOP when it is
read and PRG when it has programmed a block. The target checks parity, does not acknowledge a
command frame inside another command, in a read sends the next byte behind an ACK and the same one again behind a
NACK, whether the driver listens or not, waits for an acknowledgement as long as none comes, and may leave SWIM mode at
any time; it sends in the slot behind a
frame or later, low for 20 or 2 SWIM clocks of 22, and takes a pulse of less than half a bit for a 1. A tty that `cfmakeraw` set
up returns at least one byte, and perhaps fewer than asked for; noise is not taken for the answer to a version
query. A host that obeys RTS sends at most `RtsSlack` characters more once it is off. Whether the UART times old
bytes again after TOUT was cleared over them is not documented: both answers are modelled
(`rearms`).

## Runs

| Run | Question | Result and bounds |
|---|---|---|
| `serial_data` | Reads and writes of counts 1, 2 and 6 behind each other, so that the buffer is stale: `InBounds`, `ImplementsServer` (requests, driver calls and replies byte for byte); `Resynchronises`: the interpreter comes back to a command's start while the host sends | holds; ByteMax 6, so counts 1, 2 and 6 include the one that fills the buffer; one byte in flight is enough since the task takes one at a time; the target's data is one value that no request holds (3) |
| `serial_control` | The commands without a count and the unknown one, between reads that fill the buffer: `ImplementsServer`, also `TypeOK` | holds; data of two values, so that a byte an earlier read left in the buffer is told from the one this command must store there |
| `swim_safety` | `NoContention`, `InStep`, `SuccessLeavesTargetReady`, `ImplementsPort` over damaged frames, acknowledgements lost or misheard on either side, a target that resends to nobody and sends into the next call, target resets; `CallsReturn` | holds; memory of 3 bytes, reads and writes of 0 and of 2 bytes that share a cell: a first and a last byte, and a write between two reads of it. Calls return if the wire does not bring NACKs for ever |
| `swim_refused` | `CallsReturn` without that assumption (`SendCommandReturns`) | refuted: finding 1 |
| `swim_interrupts` | what the comment at swim.c:58 says | refuted: finding 2 |
| `swim_wire` | `FrameUnderstood`, `BitsHeard`, `MarginExact`, `TakeTurns`: frames sent and resent, answers, bytes read and acknowledged, beginnings of bytes | holds; `W` 2048 and calls started 300 cycles apart over all of it, each longer than `W`: the counter wraps in frames, answers and bytes and between the two arguments of the MAX of line 213 (the mutation of `TakeTurns` fails only there); lags 8 and 16, detection 4 and 32: together 12, 20, 40 or 48 cycles at each wait, where a 0 leaves 20 to 40, so both limits and both sides are in the run; gaps 0 and 30; bytes of 2 bits have each bit before and behind each, the parity bit included; 3 frames: a command, a byte, a reply |
| `host_steady` | Every command of the library, replies cut up by `read()` in every way: `LockStep`, `ReplyFits`, `ImplementsRemoteCall`; `CallsReturn` | holds; sizes 0, 3 and one above a byte, so a reply has at least four payload bytes to cut up. Calls return while the device answers |
| `host_late` | `Framed`: calls that gave up, split error codes, truncated sizes | holds; two requests outstanding, so a late answer meets the next call |
| `host_stall` | the read timeout of lines 85-86 | refuted: finding 3 |
| `host_open` | `OpenInStep`, `OpenFinds`, `OpenSettles`: either rate, what an earlier session left in the tty, on the line and in the interpreter, answers that come too late | holds: a device that answers in time is missed for two reasons only, of which one is a `read()` that never returns (findings below); both rates on both sides, noise that is an unknown command or a reset (which then waits for an argument), leftovers none, one byte, and an answer of another version |
| `flash_files` | `MergeKeeps`, `WrittenOnSuccess`, `NeighboursSurvive`, `BlockFinished`, `RunEnds`: hex files burnt one after another, any call may raise, one block is protected, a reset tears the block in work | holds; three blocks of three bytes: files with records out of order, joined, over a boundary, with a gap inside a block, with an empty record, without an end, and with a type the loader refuses |
| `uart` | `OneToken`, `NoLostWakeup`, `LostOnlyAtBoot`, `ServedBusy` for reception, `NothingOverwritten`, `NothingDropped`, `SentOut` for transmission; handler, task, SDK, both transmitters, RTS and the host interleaved from boot | holds; receive FIFO 4, threshold 2: below, at and above the threshold, and full; transmit FIFO 3 with room below 2, so a reply of 3 waits for room and one place is left for each thread, as with 126 of 128; the handler's report (9 characters) fills it. On a UART that times old bytes again and on one that does not (`rearms`), where a byte and its timeout inside the epilogue are stranded until the host sends the next byte: there `ServedBusy` supposes that it does |

`host_late` and `host_open` switch the deadlock check off: opening ends, callers stop at the bound `MaxTx`, and the library may wait
for bytes that never come, which is what `host_stall` shows on purpose.

Bounds, all in guards of the environment: `MaxRx`, `MaxTx` (bytes in flight or unread), `MaxAsked`
(requests the device has not carried out); `MaxFrames` in `SwimWire` also ends the driver's call. `FifoSize`, `FullThrhd`, `QueueLen` and `TxFifoSize`, `TxRoom` are sizes of the code made small.

## Fairness

`SerialTask`: the task is fair because the UART wakes it (that is `UartRx`); the host is fair only in
`FairSpec`, where it sends on. `UartRx`: boot goes on, a pending interrupt is taken, the SDK runs a
posted task, the timeout is a clock; no fairness of the host, whose retries are an antecedent of
`Served` for a UART without `rearms`. `Uart`: the same thread by thread, and a transmitter sends what it holds. The
SDK may print whenever the task does not run, so the main thread's own steps are strongly fair: the
scheduler gets round to a posted task. `SentOut` and `ServedBusy` suppose a last framing error (`Calm`), for
a line that never stops producing them keeps the processor in the handler. `SwimLink`: the driver
is straight-line code between bounded waits, and something or nothing comes within its timeouts;
`NotRefusedForEver` (where refusals keep coming, so do bytes that are taken or not answered) is an assumption about the
target and the wire and is stated apart. `HostOpen`: the library and the interpreter run on and the line delivers; the
driver call of a command that an earlier session left unfinished is supposed to return. `HostLink`: the library runs
and the interpreter takes what is there; that it carries out what it acknowledged is an extra
assumption (`FairSpec` against `SpecStalling`), because the resend loop of the driver may hold it.
`Flasher`: the tool runs on; neither the user nor the flash controller has to do anything.

## Findings

1. `swim.c:218` resends a refused byte for ever, where line 205 promises an error (`swim_refused`).
2. `swim.c:314` and `323` return with interrupts masked (`swim_interrupts`).
3. `libespstlink.c:90` undoes the read timeout of lines 85-86 (`host_stall`).

Read in the code and not the subject of a run of their own:

- `swim.c:35` configures GPIO4's pull-up for any pin, so reset 0xFF leaves NRST without the pull-up of
  serial-protocol.md:22.
- `swim.c:172` documents -2 for a parity error where line 199 returns -3.
- `swim.c:184` waits 180 cycles where the comment at 148-149 asks for 200. A 0 of the target is low for 200 of 220
  cycles, so whether the next bit is heard is up to the loops: the detection of the bit and the lag behind the wait must add up to
  20 to 40 cycles (`BitsHeard`, `MarginExact`). Nothing in the repository says that they do; a wait of 200 would allow 0 to 20.
- `swim.c:195-198`: the driver's ACK is answered by nothing. If the target takes it for a NACK it sends the byte again, and `rotf`
  stores it as the next one and returns 0; if the target misses the ACK of the last byte, `rotf` returns 0 and the target is still
  in the read. In the same way a NACK of the target read as an ACK (`swim.c:216`) leaves a byte out of a write that returns 0.
- `swim.c:177-179, 186-189, 199`: after these returns the target may go on sending, or sends its byte again after the NACK of a parity
  error, while the next call makes the pin an output at line 208 without looking. `NoContention` says that the two ends drive
  the wire at once in no other case than this and a misheard acknowledgement.
- `swim.c:195, 214`: `PIN_AS_OUTPUT` drives the pin high while a 0 of the target may still be low for up to
  about 100 cycles, against the comment at 150-151. Its falling edges wait (`TakeTurns`).
- `swim.c:213` takes the maximum of two counts that wrap; the 200 cycles added before the first edge hide a
  wrong choice.
- `libespstlink.c:227` reads the error code once: of a code that comes in two pieces the second byte is left
  for the next call (`SplitCodes`, an outcome in `host_late` and `host_open`).
- `libespstlink.c:107-115`: an answer that arrives at the right rate between the second flush and the change of rate
  lets the open succeed at the wrong rate. `OpenInStep` therefore speaks of opens without late bytes.
- `libespstlink.c:212`: with a late answer in front of its own, a call may read more than its buffer takes.
  `ReplyFits` is about a line without late answers.
- `libespstlink.c:307-309` skips the echo of count and address unread, so a read that follows a call which
  gave up takes that call's late answer for its own.
- `libespstlink.c:198` reads on after one unexpected byte without looking whether more will come, and for want of the read timeout
  (finding 3) for ever: an open of a slow device whose first, garbled query is answered by something of which one byte gets through
  never tries the slow rate. `OpenFinds` says that this and a query taken for an argument are the only ways to miss a device
  that answers in time.
- A failing second query replaces the error "unsupported version" of the first one.
- `Flash.write` relies on a controller that clears EOP when it is read: if only the next operation cleared it,
  a protected block after a written one would be reported as written (`Flasher` takes the read to clear it,
  as `wait_till_ready` does).
- `espstlink/__init__.py`: the text of `write_w` says little-endian, and it stores big-endian, as an STM8 does.

## Proofs

For every value of the constants their assumptions allow:

- `SerialTaskProofs`: `TypeCorrect` and `BufferSafe` (`InBounds`). The unchecked store at serial.c:64 is
  safe although nothing compares the index with the buffer's size. The inductive invariant says what the
  continue tests establish: while a byte is awaited the bytes so far are an incomplete request, so the index
  is below the header, or the command is a write whose index has not passed its own count. `InBounds`
  alone is not inductive: it does not know that the count in `cmd_buf[1]` was compared at every index,
  which is why equality cannot be stepped over. `ImplementsServerAlways` is the refinement of `CommandServer`: the first
  `cmd_buf_idx` bytes of the buffer are the abstract request at every moment, so nothing stale behind them can count, and
  a reply ends where the last byte that this command has stored does: length and content are the server's.
- `UartRxProofs`: `TypeCorrect`, `OneTokenAlways`, `WakeupsNotLost`, `PostsLostOnlyAtBoot`. The token invariant
  gives the queue bound (one post at most once the task is registered), which gives that a post is lost
  only at boot. For the wake-up the inductive part is that waiting bytes always have TOUT set or the timeout
  running, whatever becomes of FULL: that is why clearing FULL alone never strands a byte.
- `FlasherProofs`: `BlockFinishedAlways`. Not inductive by itself: that a block left behind is finished depends
  on the EOP which ended the loop being its own. The invariant adds that EOP is clear while the tool holds a
  block it has not given away, and that an EOP seen while polling means an idle controller.
  `MergeKeepsAlways` is about the model's operators for every file: ranks are a bijection onto places, so that sorting by
  them keeps every record (and `ByAddressSorts`: it is a stable sort by address), and after `k` records the segments yielded and the one in the making store exactly
  the bytes of these `k` (`MergeAllKeeps`).
  `TypeCorrect`, `NeighboursSurviveAlways` and `WrittenOnSuccessAlways` rest on it. Three invariants carry
  them. `Shape`: from the padding on a segment starts at a block and is whole blocks, inside the flash. `SpoiltInv`: a
  byte in hand that no file asked for is the one the flash holds. `WrittenInv`: the flash is right outside what is in work,
  and what is in work is right, where "right" is the byte wanted or one that a later segment replaces. The last case is the
  point: padding behind a segment is read from the flash before the next segment of the same block is written.
- `UartProofs`: `ImplementsRx`: every step of `Uart` is a step of `UartRx` or leaves it alone, so the theorems of
  `UartRxProofs` hold of the whole UART. `NothingOverwrittenAlways`: the invariant counts places: a FIFO is filled above
  `TxRoom` by at most one character for each thread that has seen room and not yet stored. `NothingDroppedAlways`: what
  has come since RTS went off is on top of `FlowThrhd`, and threshold and slack fit.
- `SwimLinkProofs`: `NoContentionAlways`, `InStepAlways`, `SuccessMeansReady` for every memory, count and fault, a target that sends
  whatever the driver does and acknowledgements lost or misheard on both sides, with what `sound` excepts. The inductive
  invariant names, for each position of the driver, what may be on the wire, what the pin is, and what the target
  believes of the transfer while nothing was misheard (`Control`, `Buffer`, `Wire`, `Agreed`).
  `ImplementsPortAlways` is the refinement of `MemoryPort`: beyond this invariant it needs that the byte
  `rotf` is about to store is still what memory holds at its address.
- `SwimWireProofs`: `FrameUnderstoodAlways`, `BitsHeardAlways`, `MarginIsExact`, `TurnsTaken` for every counter of 2048 values or more, every
  lag below `SHORT_PERIOD_LENGTH`, every gap and every detection delay of up to eight SWIM clocks: no delays are assumed that make
  the wait of line 184 work. `MarginIsExact` shows that the margin `prompt` stands for is not the result of a
  cautious proof. The invariant bounds, for each position of the
  driver, `now` against `next`: the code compares the two modulo `W` and takes a difference of more than half of it for
  "not yet", so a bound of a few hundred cycles is what makes the comparison right wherever the counter wraps. While it reads,
  the driver has sampled bit `j` half a bit behind its fall (`Sampled`), so that it is never in another bit than the target as long as
  it is `prompt`.
- `HostLinkProofs`: `LockStepOnTime`, `ReplyFitsOnTime`, `ImplementsRemoteCallOnTime`, composed of the library, the line and the whole
  interpreter. They suppose a line without late answers and split error codes (`~Late`, `~SplitCodes`), which is the
  condition of `host_steady`; without it they are false. The invariant says that during a call the request is under way, is being served or has been
  answered, and that in each case the line holds exactly what is still to come. `LockStep` alone says nothing during a call.
  `FramedAlways` and `TypeCorrect` suppose nothing of the line. Their invariant (`LateInv`) is that the buffer holds a beginning
  of the first request outstanding and the line its rest and all later ones, and that the interpreter is receiving exactly
  while that beginning is not the whole: the continue tests of serial.c agree with the library on where a request ends.
- `HostOpenProofs`: `TypeCorrect`, `OpenInStepAlways`, `OpenFindsAlways`. As long as no byte was late an open is in one of three
  cases: the device answers the query and what is under way is the middle of its answer (`Answering`), it has taken the query for
  the argument of a command (`Missed`), or everything is noise at the wrong rate (`Deaf`). In the first
  no read blocks, in the third only the one for the rest of unexpected data, in the first phase: that is `OpenFinds`.

What a recursive definition computes (`FlattenSeq`, the merge) is proved by least counterexamples: the numbers are
well-founded, and a first place where the claim fails follows from the place before it.

Every invariant of the passing runs is a theorem. Only model-checked is all liveness (`Resynchronises`, `CallsReturn`, `ServedBusy`,
`SentOut`, `RunEnds`, `OpenSettles`), outside the prover's reach, as is ENABLED. No module uses a recursive operator.

## Not modelled

- The pulses of `swim_entry` are one step of `SwimLink`: their number and lengths are left out.
- Option bytes, data area and `wait_till_ready` (`espstlink/flash.py:7-31, 47-53, 61-65`): that loop spins
  while EOP is set, the opposite of line 80; the stores it follows are not modelled. `enable_rop` (line 26) assigns
  `.value`, which does not wait at all.
- Overlapping hex records: `load_merged` sorts them by address and the later one wins.
- The debugger, the register classes and the small scripts, see below.
- `user_rf_cal_sector_set` and the register constants of `uart_config` (rate, parity, pins): tables for hardware that
  nothing here reads back. SDK start-up; vendored headers.
- The texts of `last_error`, and `espstlink_close`, which frees.

The debugger and the register classes read, change and write registers of a target that runs; they promise nothing about
what it writes meanwhile, so that a model of them would have nothing to check. The small scripts are straight-line calls.

## What could come next

1. Option bytes in `Flasher`, and an abstract specification it refines: a store that changes block by block.
2. `SwimLink` and `SwimWire` composed: a frame of the one is the frames, edges and slots of the other.
