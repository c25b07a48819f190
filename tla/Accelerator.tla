------------------------------ MODULE Accelerator ------------------------------
(***************************************************************************)
(* The whole custom instruction: the controller of ip/CUSTOM_INSTRUCTION.v *)
(* and the processing element it instantiates, on one clock and one reset. *)
(***************************************************************************)
EXTENDS CustomInstruction, ProcessingElement

CONSTANT MaxIdle        \* bound: free bus cycles inside one run

VARIABLES opened,       \* history: Len(sent) when the current run began
          idle,         \* free bus cycles so far in the current run
          returned      \* the value the last completed run returned

accVars == <<ciVars, peVars, opened, idle, returned>>

\* A program that gives the pipeline a different operand pair each time, so that
\* a term tells which one it comes from; VectorProgram has the one of the
\* repository.
DistinctOperands == start' => data' = Len(sent') + 1

\* Free cycles inside a run are bounded until the program has ended.
CountIdle ==
    LET free == run' > 0 /\ ~clk_en' /\ Len(sent') < MaxIssues
    IN  /\ free => idle < MaxIdle
        /\ idle' = IF run' = 0 THEN 0 ELSE IF free THEN idle + 1 ELSE idle

\* The cycle in which the processor reads the result of the last instruction.
Returning == clk_en /\ done /\ N = 1

\* One edge for both; the run that follows a completed N = 1 is a new one.
ClockEdge == /\ Clock
             /\ PeEdge(clk_en_use, x_in, tick)
             /\ CountIdle
             /\ opened' = IF run' = 0 THEN Len(sent') ELSE opened
             /\ returned' = IF Returning THEN out ELSE returned

Edge == ClockEdge /\ DistinctOperands

Reset == /\ Aclr
         /\ PeAclr
         /\ opened' = 0
         /\ idle' = 0
         /\ returned' = EmptyBag

AccInit == /\ Init
           /\ PeInit
           /\ opened = 0
           /\ idle = 0
           /\ returned = EmptyBag

AccNext == Edge \/ Reset

AccSpec == AccInit /\ [][AccNext]_accVars /\ WF_accVars(Edge)

-----------------------------------------------------------------------------
(* What the numbers of the controller have to do with each other and with   *)
(* those of the pipeline.                                                   *)

\* A square waits exactly as long as its cosine; the accumulator has as many
\* registers as the tree has inputs; tick is over before the first pair comes
\* to the end of the first multiplier; and FINISH outlasts the two paths to
\* the adder of a lane, the adders, the accumulator and the tree.
Latencies ==
    /\ CORDIC_STAGES = MULT_STAGES + PIP_STAGES
    /\ ADD_STAGES = TREE_TAPS + 1
    /\ INIT_BOUND2 < MULT_STAGES
    /\ HALF_STAGES + 6 * ADD_STAGES <= CYCLE_DELAY + 1
    /\ 2 * MULT_STAGES + PIP_STAGES + 6 * ADD_STAGES <= CYCLE_DELAY + 1

\* The start-up window is over before a program ends a run: an instruction
\* takes two edges at least.
EnoughBefore == MinBefore >= 1 /\ 2 * MinBefore >= INIT_BOUND2

-----------------------------------------------------------------------------

\* The value read by the last instruction is the sum of every operand pair
\* given to the accelerator since the reset, each pair's terms exactly once
\* and each square multiplied by the cosine of its own value.
ResultIsTotal == Returning => out = Total(Append(sent, data))

\* No term is lost, doubled or paired with another value's cosine anywhere in
\* the pipeline: through gaps, the freeze between two runs and resets, it
\* holds the terms of the pairs it has sampled.
TermsConserved == PipelineHolds(taken)

\* The value read by the last instruction is the sum of its own run.
ResultIsRunSum ==
    Returning => out = Total(Append(SubSeq(sent, opened + 1, Len(sent)), data))

-----------------------------------------------------------------------------
(* The accelerator implements VectorSum: the sum is that of the operand     *)
(* pairs the pipeline has sampled.                                          *)

PairTerms(e) == Total(<<e>>)

Abstract == INSTANCE VectorSum WITH Pair <- Operand, Terms <- PairTerms,
                                    sum <- Total(taken), returned <- returned

\* What a run returns is the sum of everything the pipeline has sampled, not
\* one pair more or less: the result never changes otherwise.
ImplementsVectorSum == Abstract!SumSpec
=============================================================================
