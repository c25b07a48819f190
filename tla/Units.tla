--------------------------------- MODULE Units ---------------------------------
(***************************************************************************)
(* The small units of the system, which share no state: a behaviour of     *)
(* this module is a behaviour of one of them, while the variables of the   *)
(* others stay as they are.                                                *)
(***************************************************************************)
EXTENDS Heap, SumVector

CONSTANTS
    BITS,                                       \* the emulated instructions
    INT_MAX, PER_US, SleepTimes,                \* the busy delay
    LINE_SIZE, SETS, LINES, None,               \* the cache routines
    WORD, ALT_US, RATE, MaxSec,                 \* the wall clock
    FIFO_LEN, AE_LEVEL, AF_LEVEL, MaxTx, MaxRx, MaxCount,    \* the polled UART
    Component, Cycles, Stages, Wiped, MaxCalls  \* the fixed-length instructions

VARIABLES
    unit,
    mulDivPc, op, rA, rB, r3, r6, r9, r10, r12, r13, r14, r17,
    sleepPc, asked, us, big_done, big_loops, reloads, turns,
    flushPc, kind, cache, dirty, lost, routine, from, len, stop, line,
    running, nticks, reset_sec, reset_usec, errno, wall, exact,
    callPc, wfifo, rfifo, ien_AE, ien_AF, pause_irq, ac, woverflow, host, seen,
    sent, left, moved, nonblock, result, put, got,
    comp, chain, clk_en, N, data, edges

MulDiv == INSTANCE MulDiv WITH pc <- mulDivPc

Sleep == INSTANCE BusySleep WITH pc <- sleepPc, i <- big_done, Times <- SleepTimes

Cache == INSTANCE CacheFlush WITH
             pc <- flushPc, op <- routine, start <- from, end <- stop, i <- line

Clock == INSTANCE WallClock WITH W <- WORD

Polled == INSTANCE JtagUartPolled WITH pc <- callPc

Fixed == INSTANCE FixedLatency

mulDivVars == <<mulDivPc, op, rA, rB, r3, r6, r9, r10, r12, r13, r14, r17>>
sleepVars  == <<sleepPc, asked, us, big_done, big_loops, reloads, turns>>
cacheVars  == <<flushPc, kind, cache, dirty, lost, routine, from, len, stop, line>>
clockVars  == <<running, nticks, reset_sec, reset_usec, errno, wall, exact>>
polledVars == <<callPc, wfifo, rfifo, ien_AE, ien_AF, pause_irq, ac, woverflow,
                host, seen, sent, left, moved, nonblock, result, put, got>>
fixedVars  == <<comp, chain, clk_en, N, data, edges>>

unitsVars == <<unit, heapVars, driverVars, mulDivVars, sleepVars, cacheVars,
               clockVars, polledVars, fixedVars>>

UnitNames == {"heap", "driver", "muldiv", "sleep", "cache", "clock", "polled", "fixed"}

\* The units that do not run have one initial state.
UnitsInit ==
    /\ unit \in UnitNames
    /\ HeapInit /\ MulDiv!Init /\ Sleep!Init /\ Clock!Init /\ Fixed!Init
    /\ Init /\ Cache!Init /\ Polled!Init
    /\ unit # "driver" => \A m \in Lengths : M <= m
    /\ unit # "sleep"  => reloads
    /\ unit # "cache"  => kind = "data"
    /\ unit # "polled" => host = "absent"
    /\ unit # "fixed"  => comp = {N}

Only(u) == /\ unit = u /\ UNCHANGED unit
           /\ u # "heap"   => UNCHANGED heapVars
           /\ u # "driver" => UNCHANGED driverVars
           /\ u # "muldiv" => UNCHANGED mulDivVars
           /\ u # "sleep"  => UNCHANGED sleepVars
           /\ u # "cache"  => UNCHANGED cacheVars
           /\ u # "clock"  => UNCHANGED clockVars
           /\ u # "polled" => UNCHANGED polledVars
           /\ u # "fixed"  => UNCHANGED fixedVars

UnitsNext == \/ Only("heap") /\ HeapNext
             \/ Only("driver") /\ Next
             \/ Only("muldiv") /\ MulDiv!Next
             \/ Only("sleep") /\ Sleep!Next
             \/ Only("cache") /\ Cache!Next
             \/ Only("clock") /\ Clock!Next
             \/ Only("polled") /\ Polled!Next
             \/ Only("fixed") /\ Fixed!Next

UnitsSpec == /\ UnitsInit /\ [][UnitsNext]_unitsVars
             /\ WF_unitsVars(Only("polled") /\ Polled!CallStep)
             /\ WF_unitsVars(Only("polled") /\ Polled!Takes)

-----------------------------------------------------------------------------

\* The emulation returns what the instruction is defined to return, and every
\* turn of its loops leaves the product or the quotient of the bits it has seen:
\* no carry and no top bit is lost on the way.
EmulationMatches ==
    MulDiv!PartialQuotient /\ MulDiv!PartialProduct /\ MulDiv!EmulationMatches

\* A busy delay never spins shorter than it was asked to, and longer only for the
\* loops that start at zero.
SleepsAsAsked == Sleep!SleepsAsAsked

\* A cache routine leaves no line of its region in the cache, and
\* alt_dcache_flush_no_writeback() throws away no writes beside it.
RegionFlushed == Cache!RegionFlushed /\ Cache!DiscardsItsRegion

\* gettimeofday() reads the time that was set and the time since, within a second
\* if it was set after the product of settimeofday() had passed the word.
GetIsWall == Clock!GetIsWall

\* The polled driver loses and reorders nothing; its write() ends if the host
\* stays, its read() once it has a byte.
PolledDelivers == []Polled!PolledInOrder /\ Polled!PolledCallEnds

\* A fixed-length instruction takes the result of the call that its core's depth
\* and its component's cycles make due.
TakesDueResult == Fixed!TakesDueResult
=============================================================================
