------------------------------- MODULE SumVector -------------------------------
(***************************************************************************)
(* The driver of the accelerator, sumVector_custom in                      *)
(* software/CORDIC/hello_world.c: it walks a vector of M elements two at a *)
(* time, gives each pair to the accelerator and marks the last one with    *)
(* N = 1.  The accelerator is the sum of VectorSum; an element is its      *)
(* index, and the word behind the vector is Outside.                       *)
(***************************************************************************)
EXTENDS Naturals, Bags, FiniteSets

CONSTANTS
    Lengths,     \* the vector lengths M the program is built for
    Outside      \* what a read behind the vector finds

\* A vector of one pair would open a run with N = 1: CustomInstruction shows
\* what comes of that.
ASSUME LengthsAssumption == Lengths \subseteq Nat \ 0..2 /\ Outside \notin Nat

VARIABLES
    M, j, y,     \* as in the source
    pc,          \* "loop", "last" or "returned"
    sum          \* the accelerator's accumulator

driverVars == <<M, j, y, pc, sum>>

\* x[i]: reading behind the vector is undefined behaviour, here some value
\* that is no element.
x(i) == IF i < M THEN i ELSE Outside

Terms(pair) == SetToBag({pair[1]}) (+) SetToBag({pair[2]})

Accelerate(pair) == sum' = sum (+) Terms(pair)

Init == /\ M \in Lengths
        /\ j = 0
        /\ y = EmptyBag
        /\ pc = "loop"
        /\ sum = EmptyBag

\* j < M - 2: M and j are ints, so the bound is negative for M < 2.
MoreToLength == j < M                                               \* mutant
SkipsLast    == j + 3 < M                                           \* mutant
More         == j + 2 < M

Loop == /\ pc = "loop"
        /\ More
        /\ Accelerate(<<x(j), x(j + 1)>>)
        /\ j' = j + 2
        /\ y' \in {y, sum'}      \* a partial result nobody uses
        /\ UNCHANGED <<M, pc>>

LoopEnd == /\ pc = "loop"
           /\ ~More
           /\ pc' = "last"
           /\ UNCHANGED <<M, j, y, sum>>

LastCall == /\ pc = "last"
            /\ Accelerate(<<x(j), x(j + 1)>>)
            /\ y' = sum'
            /\ pc' = "returned"
            /\ UNCHANGED <<M, j>>

Returned == pc = "returned" /\ UNCHANGED driverVars

Next == Loop \/ LoopEnd \/ LastCall \/ Returned

Spec == Init /\ [][Next]_driverVars /\ WF_driverVars(Next)

-----------------------------------------------------------------------------

\* The word behind the vector that is summed, if the length is odd.
Stray == IF M % 2 = 1 THEN {Outside} ELSE {}

\* The function sums the M elements, each of them once.  For an odd length, such
\* as the one the program is built with, it sums the one word behind the vector
\* as well, with the last call; an even vector it never leaves.
SumsTheVector == /\ pc = "returned" => y = SetToBag(0..(M - 1) \cup Stray)
                 /\ BagIn(Outside, sum) => M % 2 = 1 /\ pc = "returned"
=============================================================================
