----------------------------- MODULE MCAccelerator -----------------------------
(* The accelerator with the parameters and latencies of the repository.     *)
EXTENDS Accelerator

MCOperand == 1..MaxIssues

\* The repository's numbers are among those the proofs are about.
ASSUME NumbersAssumption == Latencies /\ EnoughBefore
=============================================================================
