------------------------------- MODULE VectorSum -------------------------------
(***************************************************************************)
(* What the accelerator promises, with no pipeline: a sum that grows by    *)
(* the terms of one operand pair at a time, a result that is the whole sum *)
(* at the moment it is returned, and a reset that empties both.  The sum   *)
(* survives the return of a result: only a reset clears the accumulator.   *)
(***************************************************************************)
EXTENDS Bags

CONSTANTS Pair,         \* the operand pairs
          Terms(_)      \* the bag of terms a pair adds to the sum

VARIABLES sum, returned

SumInit == sum = EmptyBag /\ returned = EmptyBag

\* One instruction's operand pair joins the sum.
Take == \E e \in Pair : sum' = sum (+) Terms(e) /\ UNCHANGED returned

\* The last instruction of a run returns everything taken so far.
Return == returned' = sum /\ UNCHANGED sum

Clear == sum' = EmptyBag /\ returned' = EmptyBag

SumNext == Take \/ Return \/ Clear

SumSpec == SumInit /\ [][SumNext]_<<sum, returned>>
=============================================================================
