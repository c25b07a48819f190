------------------------------- MODULE BusySleep -------------------------------
(***************************************************************************)
(* alt_busy_sleep(), behind usleep(): a delay of calibrated loops, split   *)
(* into loops of INT_MAX turns for long times.  The asm of a big loop      *)
(* counts down a register it declares as an input only, so a compiler may  *)
(* take it to hold INT_MAX still when the next one starts.                 *)
(***************************************************************************)
EXTENDS Integers

CONSTANTS
    INT_MAX,     \* the largest int
    PER_US,      \* turns in a microsecond: ALT_CPU_FREQ/(cycles_per_loop*1000000)
    Times        \* the microseconds the program may ask for

VARIABLES
    asked,       \* history: the argument of the call
    us, i, big_loops,
    pc,
    reloads,     \* the build loads INT_MAX again for each big loop, as -O0 does
    turns        \* history: the turns of all loops of the call

vars == <<asked, us, i, big_loops, pc, reloads, turns>>

W       == 2 * (INT_MAX + 1)
PerLoop == INT_MAX \div PER_US

Init == /\ asked = 0 /\ us = 0 /\ i = 0 /\ big_loops = 0
        /\ pc = "main" /\ turns = 0
        /\ reloads \in BOOLEAN

Call(t) == /\ pc = "main"
           /\ asked' = t /\ us' = t /\ i' = 0 /\ turns' = 0
           /\ big_loops' = t \div PerLoop
           /\ pc' = "big"
           /\ UNCHANGED reloads

SameUs == us                                                        \* mutant
LessUs == us - PerLoop

\* addi -1, then bne (after big loops) or bgt: a loop has at least one turn,
\* and bne goes round the whole word if it starts at zero.
UntilZero(n)     == IF n = 0 THEN W ELSE n
WhilePositive(n) == IF n = 0 THEN 1 ELSE n

\* A big loop leaves zero in its register.
Counter == IF reloads \/ i = 0 THEN INT_MAX ELSE 0

BigLoop == /\ pc = "big" /\ i < big_loops
           /\ turns' = turns + UntilZero(Counter)
           /\ us' = LessUs
           /\ i' = i + 1
           /\ UNCHANGED <<asked, big_loops, pc, reloads>>

LastLoop == /\ pc = "big" /\ i = big_loops
            /\ LET n == (us * PER_US) % W IN
               turns' = turns + IF big_loops # 0 THEN UntilZero(n) ELSE WhilePositive(n)
            /\ pc' = "main"
            /\ UNCHANGED <<asked, us, i, big_loops, reloads>>

Next == (\E t \in Times : Call(t)) \/ BigLoop \/ LastLoop

Spec == Init /\ [][Next]_vars

-----------------------------------------------------------------------------

\* The loops that start at zero: behind the first, the big ones that nothing
\* reloads, and the last one of a time that is a whole number of big loops.
Rounds == (IF reloads \/ big_loops = 0 THEN 0 ELSE big_loops - 1)
             + (IF big_loops # 0 /\ asked % PerLoop = 0 THEN 1 ELSE 0)

\* A call never spins shorter than it was asked to, for every time and build, and
\* longer by no more than the rounding of each big loop, one turn, and the whole
\* word for each loop that starts at zero.
SleepsAsAsked ==
    pc = "main" /\ turns > 0 =>
       turns \in asked * PER_US .. (asked + big_loops) * PER_US + 1 + Rounds * W
=============================================================================
