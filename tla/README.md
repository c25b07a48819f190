# Verification of the vector-sum accelerator and its drivers

The repository implements, on a Cyclone V FPGA, a custom instruction of the
Nios II soft processor that computes

    sum over i of  0.5 x[i] + x[i]^2 cos((x[i] - 128) / 128)

in a pipeline two elements wide, and the software around it. This directory
models the accelerator (`src/ip/`), the program that drives it
(`src/software/CORDIC/hello_world.c`) and those parts of the board support
package that keep state and are interrupted (`src/software/CORDIC_bsp/`).
TLC checks the models on small instances; TLAPS proves, for every value of the
constants, all their safety properties but one (the accuracy of the cosine).

## 1. Inventory

| Component | State | Operations | Hard because |
|---|---|---|---|
| **Controller** `ip/CUSTOM_INSTRUCTION.v` | `STATE`, `clk_en_use`, `tick`, `done`, `COUNT`, `COUNT_INIT`, `x_in`, `y_in` | one branch of the `case` per clock edge; asynchronous `aclr` | shares only `done` with the processor; `done` toggles; gaps of any length; a reset in any cycle |
| **Processing element** `ip/PE.v`, two lanes `ip/DOT_PRODUCT.v` | about 480 pipeline registers in chains, eight partial sums in the accumulator's loop | shift at an edge with `clk_en`; clear *or* hold without it; clear on `aclr` | paths of different kinds must have equal latency; nothing but zeroes may enter in a gap; the drain time is added up by hand |
| **Cosine path** `ip/CORDIC_Top.v`, `CORDIC_BASIC.v`, `Inside_COS.v`, `Floating2Fix.v`, `Fix2Floating.v` | x, y, z of 21 stages, 24 bits | one rotation per stage; conversions in front and behind | fixed width, truncation, convergence range, signs |
| **Driver** `software/CORDIC/hello_world.c` | `j`, `y` | loop with N = 0, one last call with N = 1 | loop bound, pairs, several calls |
| **Custom-instruction port** (Nios II, encrypted) | `clk_en`, `start`, `N`, `dataa`, `datab` | issue, wait for `done`, complete, pause | external: the protocol only |
| **Fixed-latency instructions** `CUSTOM_TOP.v`, `MOD_*_hw.tcl` | cores behind a multiplexer | fixed number of cycles | declared length against pipeline length; no `done` |
| **JTAG UART driver** `altera_avalon_jtag_uart_{init,read,write,ioctl}.c` | two ring buffers, `irq_enable`, `host_inactive`, `timeout` | `write`, `read`, `close`, `ioctl`, interrupt handler, timeout alarm | handler against caller over rings and over one register; a host that leaves |
| **Tick and alarms** `alt_tick.c`, `alt_alarm_start.c`, `alt_llist.h` | `_alt_nticks`, ring of alarms with time and roll-over flag | tick, start, stop, callbacks | the counter wraps; callbacks change the list while it is walked |
| **Interrupt dispatch** `alt_irq_handler.c`, `alt_legacy_irq.h`, `alt_irq.h`, `alt_iic_isr_register.c` | `ienable`, PIE, `alt_irq_active`, `alt_priority_mask`, handler table | sections, registration, dispatch, nesting, enable and disable | an interrupt between any two steps; masks saved on the stack |
| **Descriptor table** `alt_open.c`, `alt_close.c`, `alt_fd_lock.c`, ... | `alt_fd_list`, `alt_max_fd`, flags | open, close, lock, unlock, fcntl, redirection at boot | searches bounded by a mark that only rises; locks |
| **Heap** `alt_sbrk.c` | `heap_end` | `sbrk` by program and handlers | interrupted between its steps |
| **Caches** `alt_dcache_flush*.c`, `alt_icache_flush.c` | external | walk over a region | lines against bytes |
| **Clock, delay** `alt_gettod.c`, `alt_settod.c`, `alt_busy_sleep.c` | `alt_resettime` | get, set; sleep | width of products |
| **Instruction emulation** `alt_exception_muldiv.S` | registers | multiplication and division loops | carries, signs |
| Floating-point cores `ip/MOD_FP_*.v` | 6 and 8 registers | shift, hold, clear | generated: parameters of the model |
| SoC fabric, PLL, `db/`, boot code, `printf` | - | - | not modelled, see 5 |

How they interact. The driver executes one custom instruction per pair of
elements. The processor puts the pair on the bus with `clk_en`, with `start` in
the first cycle, and keeps it there until it sees `done`. The controller
latches the pair into `x_in`/`y_in` for one cycle and zero otherwise; the
processing element takes whatever is there at *every* edge with `clk_en_use`.
The instruction with N = 1 is held until the pipeline has drained and returns
the output of the adder tree. The program prints through a descriptor to the
UART driver, whose ring the interrupt handler empties; the handler is called by
the dispatch loop, the driver's timeout by an alarm of the tick.

What makes each part correct: no instruction ends on another's `done`; every
pair enters the pipeline once and in order; each square meets the cosine of its
own element; the result is read when all eight partial sums are in the tree; no
stage overflows and the cosine is accurate; the driver passes every element
once; no byte is lost and no wake-up missed between ring and handler; alarms
are called in their tick; sections hold and masks unwind; a device's lock has
one holder; heap blocks are apart. The hazards behind these are listed, each
with its line, in `PROJECT.json`.

## 2. Modules

    Operands ---> CustomInstruction -----------> CustomInstruction_proofs
       \                 \                                 \
        \-> ProcessingElement -> Accelerator ----> Accelerator_proofs <- Sums_proofs
              ^                    |    \--INSTANCE--> VectorSum
             Sums                  v
                            VectorProgram --INSTANCE--> SumVector
    FloatFix -> Cordic
    UartCore -> JtagUart --INSTANCE--> ByteChannel    JtagUart -> JtagUart_proofs
          \---> JtagUartPolled
    Alarms  --INSTANCE--> Deadlines                   Alarms -> Alarms_proofs
    FdTable --INSTANCE--> DeviceLocks                 FdTable -> FdTable_proofs
    IrqDispatch -> IrqDispatch_proofs
    Units = Heap, SumVector, MulDiv, BusySleep, CacheFlush, WallClock,
            JtagUartPolled, FixedLatency, side by side -> MCUnits
    Units, Cordic, Sums_proofs -> Units_proofs

### The accelerator

**Operands** declares the operand pairs. `x_in` and `y_in` are always assigned
together, so one value stands for `(dataa, datab)`.

**CustomInstruction** is the controller with the processor's side of the port.
A step of `Clock` is a rising edge: the controller's branch, the processor's
move and the sampling by the pipeline happen at once on the values before the
edge, as nonblocking assignments do. Every branch of the Verilog is an action
(`IdleAccept`, `ProcessWait`, `ProcessElement`, `ProcessLast`, `FinishCount`,
`FinishDone`, `FinishLeave`, `Hold`), `Aclr` is the asynchronous reset, which
also restarts the program. Two histories say what happened: `sent` are the
operands of the completed instructions, `taken` what the pipeline sampled.
`tick` is not reset, so it is arbitrary at the start.

**ProcessingElement** has a sequence for each register chain, first element
nearest the input. In front of the second multiplier a register holds the pair
whose value, square, half or cosine it contains; behind it a register holds the
*bag of terms* added so far, a term being `<<"half", lane, a>>` or `<<"prod",
lane, a, b>>`, the square of a's element times the cosine of b's. Floating-point
addition thus becomes bag addition (rounding is abstracted away), and any error
of alignment, loss or duplication stays visible. The seven tap chains of
`PE.v:163-719` have equal contents in their common part and are one chain with
seven taps. **Sums** has the sum over a sequence that counts the terms in a chain.
`EdgeDisabled` clears the registers written in the repository and leaves those
in the generated cores, as their `else if (clk_en == 1'b1)` does.

**Accelerator** composes the two on one clock and one reset. The program gives
different operands each time, so that a term tells which pair it comes from.
**VectorSum** is its abstract specification: a sum that takes one pair at a
time, a result that is the whole sum when it is returned, and a reset.

**SumVector** is `sumVector_custom` over the abstract sum; a read behind the
vector finds `Outside`. **VectorProgram** runs the same loop on the whole
accelerator, with the loop's condition and elements taken from `SumVector`; the
program calls the function again and again, and the reset comes at any edge.

**FloatFix** has the conversions as operators on sign, exponent and mantissa;
**Cordic** follows one element through conversion, 21 stages and conversion, on
the integers of the hardware, and compares with a cosine series.

**FixedLatency** has the instructions of fixed length. A behaviour has one of
the two components: the subtractor and the multiplier behind the multiplexer of
`CUSTOM_TOP.v`, of 14 and 5 registers and 7 declared cycles, or the cosine, of
21 registers and 22 cycles. Every core takes every call's operands at each edge
with `clk_en`; without it the vendor's cores hold and the cosine's registers
clear. A register holds the number of the call whose operands it has. The
processor reads at the edge before the last declared cycle ends, the reading
less favourable to the claim. `TakesDueResult` says which call's result an
instruction takes: its own from the multiplier and the cosine, and that of two
calls before from the subtractor (`Lag`). As the program of
`software/custom_fp_mult/hello_world.c:67-69` alternates the two cores, each
element there gets the difference of the element before it, and the first gets 0.

### The drivers

**UartCore** is the device and the host: two FIFOs, enables, thresholds,
the activity flag. A byte is its position in the stream. **JtagUart** is the
interrupt-driven driver; the program is interruptible between any two accesses
to shared memory (`WriteLook` reads `tx_out`, `WriteCopy` fills the ring,
`WritePublish` moves `tx_in`, `WriteKick` enables the interrupt, `WriteSpin`
and `WriteCheck` wait; likewise for `read`), except where the code disables
interrupts. The handler's steps interleave with the host only. `Timeout` is the
alarm that counts the host's silence. **ByteChannel** is the abstract
specification of either direction: first in, first out, with the room of a
ring and a FIFO. For the transmit path (`ImplementsTx`) the writer is the caller
of `write()` and the reader the host, for the receive path (`ImplementsRx`) the
writer is the host and the reader the caller of `read()`. **JtagUartPolled** is
the driver `hello_world_bsp` builds.

**Alarms** has the links, times and roll-over flags of the alarm list and the
walk of a tick step by step, with callbacks that start and stop alarms in the
middle of it. The histories `left` and `behind` count ticks without a wrap and
keep the order of registration. **Deadlines** is its abstract specification: a
number of ticks to go for each started alarm, and a tick that calls those with
none left, once each; no ring, no wrap, no flag. `ImplementsDeadlines` maps its
ticks to go to `left` and the callback that runs to where the walk stands.
**IrqDispatch** has the program's sections and registrations (five steps each),
the dispatch loop, and handlers as a stack of frames with the mask each has
saved. What it shows (`SectionsHold`, `MoreUrgentOnly`) is what `Alarms`,
`JtagUart` and `Heap` assume when they take a section or a handler for one step
or for steps of its own only.

**WallClock** counts ticks once `alt_sysclk_init()` has set the rate; before that
`settimeofday()` refuses. `exact` remembers whether the clock was last set before
the 32-bit product of `settimeofday()` passed its word. **BusySleep** counts the
turns of the loops. The asm of a big loop decrements an operand that it declares
as an input: whether the compiler loads it again for the next loop is undefined,
and `reloads` has either outcome. The builds of the repository are not optimised
(`-O0`), and there it does.

**FdTable**, **Heap**, **CacheFlush**, **WallClock**, **BusySleep** and
**MulDiv** follow the source function by function. `FdTable` takes a call as one
step: the pool's semaphore is empty in these single-threaded builds.
**DeviceLocks** is its abstract specification: a lock per device with one holder,
and no searches and no mark. As the code grants a lock without a look at the
highest descriptor, what `DeviceLocks` asks of a grant is that at most one other
descriptor has the device open.

**Units** puts the eight small units, which share no state, side by side: a
behaviour chooses one of them and stays with it. One run checks them all.
**MCUnits** gives the instance that TLC checks.

In the modules an operator marked `mutant` is a plausible bug in the definition
next to it; `PROJECT.json` pairs each with the property that finds it.

## 3. What the runs check

| Run | Module / cfg | Question | States |
|---|---|---|---|
| `controller` | MCCustomInstruction / CustomInstruction | does the handshake stay in step, is every pair sampled once, does every instruction end | 68,000 |
| `accelerator` | MCAccelerator / Accelerator | is the result the sum of all pairs since the reset; refinement of `VectorSum` | 44,000 |
| `vector_program` | MCVectorProgram / VectorProgram | does a call of the function return its vector's sum, on top of the earlier calls' | 155,000 |
| `cordic` | MCCordic / Cordic | are the conversions exact, does every stage fit and converge, is the cosine accurate | 159,000 |
| `uart_tx` | JtagUart / UartTx | the transmit direction: no byte lost or doubled, refinement of `ByteChannel`, calls end, bytes arrive | 292,000 |
| `uart_rx` | JtagUart / UartRx | the receive direction, with writes over the same enable bits: order, refinement of `ByteChannel`, no waiting call without its interrupt | 734,000 |
| `alarms` | Alarms / Alarms | each alarm in its tick over the wrap, list whole under callbacks, refinement of `Deadlines`, a tick ends | 257,000 |
| `fd_table` | FdTable / FdTable | locks: one holder, kept until given up, refinement of `DeviceLocks` | 34,000 |
| `irq_dispatch` | IrqDispatch / IrqDispatch | sections hold, masks unwind, the dispatch loop always finds an interrupt, the most urgent one is answered | 297,000 |
| `units` | MCUnits / Units | heap, driver loop, division and multiplication, delay, caches, clock, polled UART, fixed-latency instructions | 207,000 |
| `second_run` | MCAccelerator / SecondRunSum | violated: a second sum includes the first | |
| `long_range` | MCCordic / LongRange | violated: from element 330 on the cosine is wrong | |

The two violated properties state what the program's own loop and its list of
test cases say: `float y = 0;` at the start of each sum, and test case 5 with
elements up to 10200. `PROJECT.json` quotes the lines.

### Bounds

- Accelerator: latencies and delays have the values of the source (74; window 2
  to 5, reset value 3; 6, 8, 15, 21, 27 registers). The drain time has no slack:
  a mutant one shorter is found. `MaxIssues` 6 (`controller`) and 8
  (`accelerator`) allow two full runs between resets, which is what the frozen
  counters and the kept accumulator need. `MaxIdle` = 2 free bus cycles per run
  in `accelerator` (unbounded in `controller`): every phase occurs with and
  without a gap, and a longer gap only shifts more zeroes in.
- `vector_program`: vectors of 8 and 9 elements, four and five instructions,
  with the three calls before the last that the start-up window takes; 9 is odd as
  the length the program is built with. `MaxIssues` 10, so that a second call on
  either length follows the first.
- `cordic`: all elements of test cases 1 and 2 and every 51st of test case 3.
  `Tolerance` = 12 units of 2^-21 is the error the design has, about 6e-6. The
  slack in `Converges` is one unit of truncation per table entry.
- Types and ranges are parts of the inductive invariants of the proved modules.
  That of the controller has a theorem of its own (`TypeCorrect`).
- `uart_tx`: rings of three slots (two bytes) and FIFOs of two, five bytes: both
  buffers fill, both wrap, and a byte is left to wait. `uart_rx`: three bytes from
  the host, one written, so that both directions turn `irq_enable`. In it
  `AF_LEVEL` is 0: the core interrupts when the FIFO is full or the host pauses.
  `INT_MAX` 4 and `DEFAULT_TIMEOUT` 2 keep
  their order; `MaxCount` 2 is a call that fits the ring, which a partly filled ring splits.
- `alarms`: three alarms, a counter of 6 values that goes round for ever, delays
  to 4, the longest the code handles.
- `fd_table`: `MAX_FD` 7, the three streams and four more, two devices. Only the UART's
  close() can fail, and it cannot be locked since the streams share it: a failing
  close never holds a lock here.
- `irq_dispatch`: three interrupts, so that three handlers nest.
- `units`: heap of 13 bytes and requests to 5 (aligned and not, fitting and not);
  vectors of 3 to 30 elements; words of 5 bits in `MulDiv`, all pairs of them,
  so that both signs and every carry occur; big loops of 31 turns in
  `BusySleep`, up to six of them with every rest, none included;
  a cache of two lines of four bytes and five lines of memory (conflicts, starts
  inside a line); a clock of 32 values and a second of four
  ticks of 3, so that the product passes the word at tick 11 and the clock is set
  before and after; four bytes each
  way in the polled driver; six calls in `FixedLatency`, more than a core holds.

### Fairness

- Controller and accelerator: `WF` of the clock, which is free-running. Nothing
  obliges the processor to issue another instruction, and no reset need come.
- `JtagUart`: the processor goes on (`CallStep`, `IrqStep`), the timer ticks
  (`Timeout`), an open host polls and takes bytes. Nothing obliges the program to
  make a call, or the host to open, to stay or to send.
- `JtagUartPolled`: `CallStep` and the host's taking, while it is there.
- `Alarms`: the steps of a tick, callbacks' return included: a callback that
  never returns stops any system.
- `IrqDispatch`: `WF` of the handlers' and of the registrations' steps; `SF` of
  taking an interrupt, which hardware does as soon as PIE allows it, between two
  instructions; `SF` of leaving a section, since registrations in it may delay it.

Deadlock is checked but for three runs: in `uart_tx` and `uart_rx` a program that
waits for a host that has left, with no timeout set, stops for good, as it
should; in `units` a clock ends at its last tick, and a polled write() without a host.

### What the bounds and constants leave out

In each of these cases the code does something other than its comments say. Where
the first column names a constant the passing runs exclude the case by it; the
theorems state the same condition as an assumption where they need it. Change the
constant in the .cfg to see it. The other cases are in the runs: "stated" where a
property says what the code does there, "allowed" where no property forbids it.

| Constant | What happens | Where |
|---|---|---|
| `MinBefore` = 0 in `CustomInstruction.cfg` | a run that begins with N = 1 has its pair sampled twice: IDLE passes it and PROCESS again | `CUSTOM_INSTRUCTION.v:74-77`, `:100-104` |
| `MinBefore` < 3 in `Accelerator.cfg` | a run of fewer than three calls before the last enters FINISH with `tick` high, and the next run's first products are blanked | `CUSTOM_INSTRUCTION.v:83`, `:102` |
| - (`RESET_INIT` = 3) | the window of `tick` is not cycles 4 to 7, as `README.md:20` says: the counter starts at 3, so `tick` is high in cycles 2 and 3 of the first run and 4 to 6 of later ones | `CUSTOM_INSTRUCTION.v:66` |
| - (stated in `SumsTheVector`, `CallSumsVector`) | for an odd length the last call reads `x[M]` and adds its term too; test case 3 has 261121 elements | `hello_world.c:41`, `:80` |
| - (stated in `TakesDueResult`) | 7 cycles are declared, the subtractor has 14 registers: a call returns the result of the call before last | `MOD_CUSTOM_TOP_hw.tcl:59`, `MOD_FP_SUB.v:36` |
| - (allowed in `JtagUart`) | `write()` gives up with -EIO, "Host not connected", after one silent tick, while TIOCGCONNECTED says connected up to the timeout | `altera_avalon_jtag_uart_write.c:187`, `:214`, `..._ioctl.c:70-77` |
| - (allowed in `JtagUart`) | the handler masks the receive interrupt with room in the ring, when a byte comes between its two reads | `altera_avalon_jtag_uart_init.c:157-158` |
| `MaxDelay` = W - 1 in `Alarms.cfg` | the alarm's time equals the current tick, the flag stays clear, and it is called a round early | `alt_alarm_start.c:84-89` |
| `StopsNext` = TRUE | a callback that stops the next alarm leaves the walk at an unlinked one, which is called or breaks the list | `alt_tick.c:102` |
| - (allowed in `FdTable`) | a lock is granted although the highest descriptor has the device open | `alt_fd_lock.c:43-44`, `:61` |
| `InWindow` = TRUE in `IrqDispatch.cfg` | enabling or disabling an interrupt writes `alt_irq_active` to `ienable` whatever `alt_priority_mask` holds off, and less urgent handlers interrupt more urgent ones | `alt_legacy_irq.h:76`, `:94`, `:104` |
| - (stated in `GetIsWall`) | settimeofday() multiplies in 32 bits where gettimeofday() does in 64: of a clock set from tick 4,294,968 on, the time read differs from the time set by up to a second | `alt_settod.c:84`, `alt_gettod.c:93` |
| - (stated in `SleepsAsAsked`) | a rest of zero goes round the loop 2^32 times, and so does each big loop behind the first in a build that does not reload its operand | `alt_busy_sleep.c:36-38`, `:94`, `:107` |
| unaligned starts in `DiscardsItsRegion` (`CacheFlush`) | one line behind the region can lose its writes | `alt_dcache_flush_no_writeback.c:42`, `:65` |
| - (`Refuse` in `Heap`) | sbrk() does check its bound, against its comment | `alt_sbrk.c:46-47`, `:88` |

## 4. What is proved

Each theorem is about the specification of its module, for every value of the
constants that its hypothesis allows. A hypothesis is a named formula on the
constants. Those on the accelerator are evaluated by TLC on the repository's
numbers (`NumbersAssumption` in `MCAccelerator`, `VectorAssumption` in
`MCVectorProgram`).

### The accelerator

`CustomInstruction_proofs`, for every `CYCLE_DELAY`, window, reset value, operand
set and number of instructions, assuming `MinBefore >= 1`: `TypeCorrect`
(`TypeOK`), `PhasesHold` (`InStep`), `DoneIsFresh` (`NoStaleDone`),
`SampledExactlyOnce` (`ExactlyOnce`), `RunKeepsClock` (`EnabledDuringRun`, which no
run lists: `InStep` implies it). None of the last three is inductive: whether
`done` is fresh depends on the parity of
toggles since the run began, on where the last pair is, and on the FINISH
counter. The inductive invariant `IndInv` is `TypeOK` and `InStep`, which says
that controller, bus and histories are together in one of six phases, each with
its own relation between `taken` and `sent`. There is one lemma per phase for
what an edge does there, one for the reset and one for the initial state.
`LastIsLate` adds how many edges with a clock a run has had when its last
instruction is issued, on which the start-up window depends. `InstructionTakes`
says how many edges an instruction takes, no more and no fewer: two if it opens
a run, `CYCLE_DELAY + 2` if it closes one, one otherwise. It is the bound that
makes `InstructionEnds` true of a clock that runs.

`Accelerator_proofs`: every step of the accelerator is a step of the controller
or leaves it unchanged, so the results hold of the composition
(`PipelineSamplesOnce`, `PipelineStaysEnabled`, `ReturnsAfterLastPair`). Then, for
pipelines of every length:

| Theorem | Property | Hypotheses |
|---|---|---|
| `ResultIsWholeSum` | `ResultIsTotal` | `Latencies`, `EnoughBefore` |
| `PipelineConservesTerms` | `TermsConserved` | the same |
| `AcceleratorRefinesVectorSum` | `ImplementsVectorSum` | the same |
| `CallsSumTheirVectors` | `CallSumsVector` | `Latencies`, `VectorLengths` |

`Latencies` says what the numbers of the pipeline have to do with each other: a
square waits as long as its cosine; the accumulator's loop has one register more
than the tree has taps; the start-up window closes before a pair leaves the
first multiplier; and CYCLE_DELAY outlasts both paths to the tree.
`EnoughBefore` says that a run has enough instructions before its last to outlast
the window. `VectorLengths` says the same of a vector: three elements or
more, and enough calls before the last. It leaves no length of the test cases
out; the theorem says of an odd one that the word behind the vector is added.

`PipeInv` is the inductive invariant. All is about *counts*: how often a term is
in the registers of a chain (`Load`, a `SumTo`), plus how often it will be formed
from what is still on its way to a multiplier or an adder. Three parts meet:
typing with the lengths of all chains (`PeType`); `Conserved`, that for every term
these counts add up to how often it is owed for `taken`; and the position of the
zeroes, that after n edges of FINISH the first n registers of every path are
empty. The last part turns conservation into the result: when the counter has
run out, nothing but the tree holds a term. Each kind of chain has a lemma on
what an edge with and without a clock does to its count. The refinement and the
sum of a call follow from the same invariant; `DriverInv` relates the loop's index
and calls to `sent`.

### The drivers

`JtagUart_proofs`, for rings and FIFOs of any length, any thresholds and timeouts:

- `NeverOverflows` (`NoOverflow`) and `TransmitConserves` (`TxConserved`) follow
  from `TxInv`: typing with what a call knows in the middle of itself (`Base`),
  the FIFO with the space the handler has read and not used (`FifoInv`), and the
  ring with the copied and not yet published bytes (`RingInv`). The properties
  alone say nothing of a copy before its `tx_in`, nor of the space in the
  handler's hand, and so are not inductive.
- `BothStayArmed` (`InterruptsArmed`): `TxArmed` and `RxArmed` extend the conjuncts
  on the rings, which speak of an idle handler, to the handler's steps; `SpinInv`
  does so for `SpinnersWake`, that the *core's* own enable is on while a call
  waits for an index that has not moved. No wake-up is lost because the handler
  takes an enable away only after it has moved that index.
- `ReceiveConserves` (`RxConserved`) from `RxInv`, its mirror image: how many bytes
  have left the ring (`read()` copies before it moves `rx_out`), what the slots
  between the indices hold, the byte in the handler's hand, for which the handler
  has made sure of a slot, and where the FIFO goes on. Both theorems end in
  `FollowsConcat`: parts of the stream that meet make a part of the stream.
- `TransmitIsChannel` (`ImplementsTx`): under `TxInv` a step publishes bytes within
  the channel's room, hands the host the next one, or stutters.
- `ReceiveIsChannel` (`ImplementsRx`): under `RxInv` a step takes a byte from the
  host within the channel's room (`WaitingFits`: the byte in the handler's hand
  has a slot that is counted), copies the next bytes to the caller, or stutters.
- `PolledKeepsOrder`: the safety half of `PolledDelivers`, from `PolledInv`.

`Alarms_proofs`: `AlarmsOnTime` states `RingOK` and `CalledInItsTick` for every
width of the counter and set of alarms, under `Careful` (`MaxDelay <= W - 2`, no
callback stops the next alarm). The invariant relates an alarm's time, its flag
and the ticks it has left in each round (`OnTime`), before and behind the point
the walk has reached, and says where the walk is in the ring (`WalkOK`).
`RingStaysWhole` states `RingOK` without `Careful`: when a callback stops the
very next alarm the walk goes astray, but what it does to the links there keeps
the ring. `AlarmsAreDeadlines` (`ImplementsDeadlines`), under `Careful`, maps every
step of the walk to one of `Deadlines`: a visit either calls an alarm that is due
or passes one that is not, and the tick ends with none due. `WalksShorten` is the
variant behind `TickEnds`: the alarms still to visit never become more, since a
callback puts new ones at the head of the list, where the walk has been, and
every visit takes one off.

`FdTable_proofs`: `LocksExclude` (`OneHolder`, with `MaxCovers` and `StreamsStay`),
`OpensExclude` (`NoOpenWhileHeld`, which the refinement implies), `LocksAreKept`
(`LockStays`) and `TableIsLocks` (`ImplementsLocks`) for every size of the table.
As a lock is granted without a look at the highest descriptor,
exclusion needs `SharersAbove`: another user of a locked device can only be above
the holder, and is never granted a lock itself.

`IrqDispatch_proofs`, for every number of interrupts:

- Whatever handlers do to the enables, `BaseInv` holds, which relates PIE, the
  open sections and the steps of a registration to the stack of frames. With it
  `SectionsAreClosed` (`SectionsHold`). `TableInv` adds what a registration has
  written at each of its steps, and that an interrupt once pending at the entry
  stays so up to the first look: `HandlersAreRegistered` (`CalledAsRegistered`),
  `FirstPassIsSafe` (`FirstScanFinds`).
- Under `~InWindow` (no handler changes the enables while it lets others in; see
  section 3 for what happens otherwise) `StackInv` says what mask each frame has
  saved and `MaskInv` what the masks are for the topmost one:
  `NestingIsOrdered` (`MoreUrgentOnly`), `EnablesComeBack` (`AllEnabledAfter`) and
  `MostUrgentFirst`: while the most urgent interrupt waits, no other handler is
  dispatched.

### The small units and the cosine path

`Units_proofs`. `UnitsDeliver` states the seven safety properties of the units of
the module the run checks, by the lemma that a behaviour of it is one of each of
these units alone (`UnitsKeepApart`); of the polled driver `PolledKeepsOrder`
speaks.

| Theorem | Property | For every |
|---|---|---|
| `HeapBlocksApart` | `BlocksApart` | heap and request |
| `VectorsSummed` | `SumsTheVector` | set of lengths from 3 on, even and odd |
| `EmulationExact` | `EmulationMatches` | width of a word |
| `DelaySleepsAsAsked` | `SleepsAsAsked` | length of loop, time and build (`SleepNumbers`) |
| `ClockReadsWall` | `GetIsWall` | tick of whole microseconds and word, whenever the clock is set (`ClockNumbers`) |
| `RegionsAreFlushed` | `RegionFlushed` | line size, cache and region (`CacheNumbers`) |
| `FixedTakesDue` | `TakesDueResult` | component, depth of its cores and declared cycles; a core that clears in the gaps is shorter than the cycles, as the cosine is (`FixedNumbers`) |
| `ElementsConverted` | `ConversionsExact` | element of 24 bits below 512, up to 14 fractional bits (`Convertible`) |
| `StagesTurnTheAngle` | `StagesSound` | such an element up to 256 (`InRange`) |

`EmulationExact`: after each turn of the division the dividend is quotient times
divisor plus remainder, shifted, plus the bits not yet taken, which share r3 with
the quotient; after each turn of the multiplication the two products are those
of the bits that have left the two ends of the multiplier (`MulDivInv`). The signs
come on top. `CacheInv` says which lines of the region the walk has left behind;
a line in the middle of an instruction region longer than the cache has lost its
set to another that was taken. `StagesInv` bounds both coordinates and the angle
in front of each stage by tables, `Most` and `Left`, whose rows follow from each
other; `Left` is the rest of the sum that `Converges` speaks of. With it the
elements of all of test cases 1 to 3 are covered, of which the run takes every
51st of the third; `SmallStepsInRange` in `MCCordic` checks the range.

### How the provers are used

What is proved about numbers that loops compute rests on `Induction`
(`Sums_proofs`), induction over a *set* of naturals: the library's own induction
takes a predicate as a parameter, which no backend instantiates. It follows from
`WFMin` and `NatLessThanWellFounded`. From it come the recursion of `SumTo` (its
defining function exists and is unique), and that powers of two double
(`Doubles`), by counting the subsets of a set, since the library has no fact
about exponents. Nonlinear facts are proved by expanding one product at a time.

Only model-checked:

- everything under fairness (`InstructionEnds`, `WriteEnds`, `ReadEnds`,
  `EveryByteSent`, `TickEnds`, `UrgentAnswered`, the second half of
  `PolledDelivers`): the provers do not do liveness. What each of them rests on
  beside fairness is proved: a bound (`InstructionTakes`), a variant
  (`WalksShorten`), that nothing overtakes (`MostUrgentFirst`), that whoever waits
  can be woken (`BothStayArmed`), the order of bytes (`PolledKeepsOrder`);
- `CosineAccurate`: that a table of 21 rounded angles gives the cosine to 6e-6
  is a statement on real numbers, checked element by element.

## 5. What is not modelled

- Floating-point arithmetic inside the generated cores: rounding, and the
  undetermined outputs after start-up which the repository's README reports and
  `tick` is meant to hide. Registers start at zero, as their declarations say.
- Words with the sign bit set: the vectors are nonnegative. The latch inferred
  in `Inside_COS.v:38` is read only where it is assigned.
- The processor withdrawing an instruction before `done`: the port's protocol
  does not allow it.
- `sbrk()` with a negative request and its stack checks, which no build switches on.
- The HAL's boot code, formatted output, stubs and the drivers of devices the
  system does not have (DMA, flash, filesystems): straight-line code, or never
  reached.
- The vendor's interconnect, SDRAM controller, timer, PLL and processor, and the
  synthesis data: generated, most of the repository's lines. `db/` and
  `first_nios2_system_11/` hold copies of modelled files.
- The board support package exists in seven copies that differ in their
  settings. `CORDIC_bsp` is the one modelled; `hello_world_bsp` differs in the
  polled UART driver, which `JtagUartPolled` models. The model maps the
  definitions to one copy, and so to a small share of the repository's lines.

## 6. What is left

- A bound for the error of the cosine that does not go through the elements one
  by one: it needs the cosine as a function on the reals, or its series with a
  remainder, which is induction over the number of terms.
- A host that comes back: in `UartCore` it opens once and leaves once.
