----------------------------- MODULE VectorProgram -----------------------------
(***************************************************************************)
(* sumVector_custom of software/CORDIC/hello_world.c on the accelerator    *)
(* itself: the driver of SumVector decides which pair the processor puts   *)
(* on the bus and with which N, and gets what the pipeline's output shows  *)
(* when the controller raises done.  The program may call the function     *)
(* again, with another length, and the reset may come at any edge.         *)
(***************************************************************************)
EXTENDS Accelerator

CONSTANTS Lengths, Outside      \* as in SumVector

VARIABLES M, j, y               \* the parameter and the locals of the function

progVars == <<accVars, M, j, y>>

Driver == INSTANCE SumVector WITH pc <- "loop", sum <- EmptyBag

\* The pair of elements j and j + 1.
NextPair == <<Driver!x(j), Driver!x(j + 1)>>

\* The instruction at the head of the loop, or the one behind it.  The program
\* calls the function at the earliest after the last call has returned.
Calls ==
    /\ M' \in IF start' /\ run' = 0 THEN Lengths ELSE {M}
    /\ j' = IF run' = 0 THEN 0 ELSE IF clk_en /\ done THEN j + 2 ELSE j
    /\ start' => N' = (IF Driver!More THEN 0 ELSE 1)' /\ data' = NextPair'

\* Every instruction assigns its result to y.
Assigns == y' = IF clk_en /\ done THEN out ELSE y

ProgEdge == ClockEdge /\ Calls /\ Assigns

ProgReset == Reset /\ M' \in Lengths /\ j' = 0 /\ y' = EmptyBag

ProgInit == AccInit /\ M \in Lengths /\ j = 0 /\ y = EmptyBag

ProgNext == ProgEdge \/ ProgReset

ProgSpec == ProgInit /\ [][ProgNext]_progVars /\ WF_progVars(ProgEdge)

-----------------------------------------------------------------------------

\* A vector has enough elements for the start-up window to be over before its
\* last pair; a vector of one or two pairs is not.
VectorLengths == \A m \in Lengths : m \in Nat /\ m >= 3 /\ m >= INIT_BOUND2 + 2

\* The vector as the pairs of its elements, each element in one of them.  The
\* last pair of an odd one has the word behind the vector beside its element.
Vector == [k \in 1..((M + 1) \div 2) |-> <<Driver!x(2 * k - 2), Driver!x(2 * k - 1)>>]

\* What a call of the function returns is what earlier calls have left in the
\* accumulator and the terms of every element of its vector, each once; and, as
\* the length the program is built with is odd, the terms of one word behind it.
CallSumsVector ==
    [][Returning /\ sent' # <<>> =>
         y' = Total(SubSeq(sent, 1, opened) \o Vector)]_progVars
=============================================================================
