---------------------------------- MODULE Heap ----------------------------------
(***************************************************************************)
(* sbrk() of the HAL: the end of the heap moves up with each call.  The    *)
(* program calls it through malloc(), and an interrupt handler may call it *)
(* (its comment names the profiler) whenever interrupts are enabled.       *)
(***************************************************************************)
EXTENDS Integers, FiniteSets

CONSTANTS
    START, LIMIT,  \* __alt_heap_start and __alt_heap_limit
    MaxIncr        \* bound: the largest request

ASSUME HeapAssumption == START \in Nat /\ LIMIT \in Nat /\ START <= LIMIT /\ MaxIncr \in Nat

VARIABLES
    heap_end,
    pie,           \* whether interrupts are enabled
    at, incr,      \* of the program and of the handler: what each asks for
    start,         \* prev_heap_end of each
    blocks         \* history: the requests that were granted, as <<from, to>>

heapVars == <<heap_end, pie, at, incr, start, blocks>>

Callers == {"program", "handler"}

HeapInit ==
    /\ heap_end = START /\ pie = TRUE
    /\ at = [c \in Callers |-> "idle"] /\ incr = [c \in Callers |-> 0]
    /\ start = [c \in Callers |-> START]
    /\ blocks = {}

\* The handler interrupts the program and runs to its end.
CanRun(c) == c = "program" => at["handler"] = "idle"

Goes(c, p) == CanRun(c) /\ at' = [at EXCEPT ![c] = p]

LeavesOn(c) == pie                                                  \* mutant
Masked(c)   == FALSE

Call(c, n) == /\ at[c] = "idle" /\ (c = "handler" => pie)
              /\ Goes(c, "align")
              /\ incr' = [incr EXCEPT ![c] = n]
              /\ pie' = Masked(c)
              /\ UNCHANGED <<heap_end, start, blocks>>

\* The next multiple of a word's four bytes.
Aligned(a) == ((a + 3) \div 4) * 4

Align(c) == /\ at[c] = "align" /\ Goes(c, "check")
            /\ heap_end' = Aligned(heap_end)
            /\ UNCHANGED <<pie, incr, start, blocks>>

Exceeds(n) == heap_end + n > LIMIT

Refuse(c) == /\ at[c] = "check" /\ Exceeds(incr[c]) /\ Goes(c, "idle")
             /\ pie' = TRUE
             /\ UNCHANGED <<heap_end, incr, start, blocks>>

TakeStart(c) == /\ at[c] = "check" /\ ~Exceeds(incr[c]) /\ Goes(c, "extend")
                /\ start' = [start EXCEPT ![c] = heap_end]
                /\ UNCHANGED <<heap_end, pie, incr, blocks>>

Extend(c) == /\ at[c] = "extend" /\ Goes(c, "return")
             /\ heap_end' = heap_end + incr[c]
             /\ UNCHANGED <<pie, incr, start, blocks>>

Return(c) == /\ at[c] = "return" /\ Goes(c, "idle")
             /\ pie' = TRUE
             /\ blocks' = blocks \cup {<<start[c], start[c] + incr[c]>>}
             /\ UNCHANGED <<heap_end, incr, start>>

HeapNext == \E c \in Callers : \/ \E n \in 1..MaxIncr : Call(c, n)
                               \/ Align(c) \/ Refuse(c) \/ TakeStart(c)
                               \/ Extend(c) \/ Return(c)

HeapSpec == HeapInit /\ [][HeapNext]_heapVars

-----------------------------------------------------------------------------

\* What sbrk() gives to program and handler are aligned pieces of the heap, no
\* two of which overlap, whenever the one interrupts the other.
BlocksApart ==
    /\ \A b \in blocks : b[1] % 4 = 0 /\ START <= b[1] /\ b[2] <= LIMIT
    /\ \A b, d \in blocks : b # d => b[2] <= d[1] \/ d[2] <= b[1]
=============================================================================
