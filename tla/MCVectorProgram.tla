--------------------------- MODULE MCVectorProgram ---------------------------
(* The program of the repository on vectors of MCLengths elements; the pair  *)
(* behind them is there for a loop that would run past the end.             *)
EXTENDS VectorProgram

\* What the proofs assume of the numbers and of the lengths.
ASSUME VectorAssumption == Latencies /\ VectorLengths

MCLengths == {8, 9}
MCOperand == {<<i, i + 1>> : i \in {0, 2, 4, 6}}
                 \cup {<<8, Outside>>, <<Outside, Outside>>}
=============================================================================
