------------------------------ MODULE FixedLatency ------------------------------
(***************************************************************************)
(* The custom instructions with a fixed length.  CUSTOM_TOP.v is a         *)
(* subtractor and a multiplier behind a multiplexer that N controls;       *)
(* MOD_CORDIC_hw.tcl offers ip/CORDIC_Top.v alone.  There is no done: the  *)
(* processor counts cycles, as many as the component description declares, *)
(* and takes what is at the output then.  The next instruction may follow  *)
(* at once, and every core of the component sees every operand.            *)
(***************************************************************************)
EXTENDS Naturals, SequencesExt

CONSTANTS
    Component,     \* the components, each the set of its cores
    Cycles,        \* the cycles each component declares
    Stages,        \* registers of each core
    Wiped,         \* the cores whose registers clear when clk_en is low
    MaxCalls       \* bound: instructions between two resets

VARIABLES
    comp,          \* the component in the processor
    chain,         \* the registers of each of its cores, nearest its input first
    clk_en, N,     \* the bus; N is the core the instruction selects
    data,          \* the bus operands: the number of the call, so all differ
    edges          \* edges since the first cycle of the instruction

fixedVars == <<comp, chain, clk_en, N, data, edges>>

NoData == 0

Cleared(c) == [i \in 1..Stages[c] |-> NoData]

result == Last(chain[N])

Init == /\ comp \in Component
        /\ chain = [c \in comp |-> Cleared(c)]
        /\ clk_en = FALSE
        /\ N \in comp
        /\ data = NoData
        /\ edges = 0

Shifted(c) == <<data>> \o Front(chain[c])

\* The cores at an edge.
CoreEdgeUngated == chain' = [c \in comp |-> Shifted(c)]             \* mutant
CoreEdge        == chain' = [c \in comp |-> IF clk_en THEN Shifted(c)
                                            ELSE IF c \in Wiped THEN Cleared(c)
                                            ELSE chain[c]]

Reading == clk_en /\ edges = Cycles[comp] - 1

\* data counts the calls; it stays on the bus when no instruction is there.
CpuIssue == /\ ~clk_en \/ Reading
            /\ data < MaxCalls
            /\ clk_en' = TRUE
            /\ N' \in comp
            /\ data' = data + 1
            /\ edges' = 0

CpuCount == /\ clk_en
            /\ ~Reading
            /\ edges' = edges + 1
            /\ UNCHANGED <<clk_en, N, data>>

CpuPause == /\ ~clk_en \/ Reading
            /\ clk_en' = FALSE
            /\ edges' = 0
            /\ UNCHANGED <<N, data>>

Edge == CoreEdge /\ (CpuIssue \/ CpuCount \/ CpuPause) /\ UNCHANGED comp

Aclr == /\ chain' = [c \in comp |-> Cleared(c)]
        /\ clk_en' = FALSE
        /\ data' = NoData
        /\ edges' = 0
        /\ UNCHANGED <<comp, N>>

Next == Edge \/ Aclr

Spec == Init /\ [][Next]_fixedVars

-----------------------------------------------------------------------------

\* How many calls a core's result is behind the call that takes it: none if the
\* core has fewer registers than its component has cycles.
Lag(c) == Stages[c] \div Cycles[comp]

\* An instruction takes the result of one call, the same number of calls back
\* however the calls of the cores are mixed and spaced: its own from the
\* multiplier and from the cosine, which the gaps wipe, and that of the call
\* before last from the subtractor of 14 registers in a component of 7 cycles.
\* The calls that have no such call before them take the zero of the reset.
TakesDueResult ==
    Reading => result = IF data > Lag(N) THEN data - Lag(N) ELSE NoData
=============================================================================
