--------------------------- MODULE ProcessingElement ---------------------------
(***************************************************************************)
(* The processing element (ip/PE.v) and its two dot-product lanes          *)
(* (ip/DOT_PRODUCT.v): a pipeline that turns a stream of operand pairs     *)
(* into the sum of 0.5 v + v * v * cos((v - 128) / 128) over all values v. *)
(*                                                                         *)
(* Every register chain is a sequence whose first element is the register  *)
(* nearest its input.  The chains in front of MULT2 carry the operand pair *)
(* whose value, square, half or cosine they hold.  From MULT2 on a         *)
(* register holds a sum, and a sum is the bag of the terms added so far:   *)
(* rounding is abstracted away, the identity of every term is not.  A      *)
(* square times a cosine is the term <<"prod", lane, a, b>>, so a square   *)
(* that meets the cosine of another value shows as a # b.                  *)
(*                                                                         *)
(* Registers written in the repository's Verilog clear when clk_en is low; *)
(* those inside the floating-point cores hold.  aclr clears them all.      *)
(***************************************************************************)
EXTENDS Operands, Sums, SequencesExt

CONSTANTS
    MULT_STAGES,    \* registers of MOD_FP_MULT
    ADD_STAGES,     \* registers of MOD_FP_ADD
    PIP_STAGES,     \* mult_pip_1 .. mult_pip_15
    CORDIC_STAGES,  \* the CORDIC_BASIC instances of CORDIC_Top
    HALF_STAGES     \* from mid_1 to zero_point5_16

ASSUME StagesAssumption ==
    {MULT_STAGES, ADD_STAGES, PIP_STAGES, CORDIC_STAGES, HALF_STAGES}
        \subseteq Nat \ {0}

VARIABLES
    half, mult1, pip, cos,     \* one chain per lane, of operands
    mult2, add,                \* one chain per lane, of sums
    sumdots, acc, tree_in,     \* chains of sums
    level1, level2, level3     \* the adders of the tree, chains of sums

peVars == <<half, mult1, pip, cos, mult2, add, sumdots, acc, tree_in,
            level1, level2, level3>>

Lane      == {"x", "y"}
TREE_TAPS == 7

Empty(n, v) == [i \in 1..n |-> v]

Shift(chain, v)        == <<v>> \o Front(chain)

\* What enters a sum for an operand pair: nothing for zero.
Half(l, a)    == IF a = Zero THEN EmptyBag ELSE SetToBag({<<"half", l, a>>})
Prod(l, a, b) == IF a = Zero THEN EmptyBag ELSE SetToBag({<<"prod", l, a, b>>})

PeInit ==
    /\ half  = [l \in Lane |-> Empty(HALF_STAGES, Zero)]
    /\ mult1 = [l \in Lane |-> Empty(MULT_STAGES, Zero)]
    /\ pip   = [l \in Lane |-> Empty(PIP_STAGES, Zero)]
    /\ cos   = [l \in Lane |-> Empty(CORDIC_STAGES, Zero)]
    /\ mult2 = [l \in Lane |-> Empty(MULT_STAGES, EmptyBag)]
    /\ add   = [l \in Lane |-> Empty(ADD_STAGES, EmptyBag)]
    /\ sumdots = Empty(ADD_STAGES, EmptyBag)
    /\ acc     = Empty(ADD_STAGES, EmptyBag)
    /\ tree_in = Empty(TREE_TAPS, EmptyBag)
    /\ level1  = [k \in 1..4 |-> Empty(ADD_STAGES, EmptyBag)]
    /\ level2  = [k \in 1..2 |-> Empty(ADD_STAGES, EmptyBag)]
    /\ level3  = Empty(ADD_STAGES, EmptyBag)

-----------------------------------------------------------------------------
(* An edge with clk_en high.                                               *)

\* tick replaces the output of both multipliers by 0.
MultOut(tk, l)  == IF tk THEN Zero ELSE Last(mult1[l])
Mult2Out(tk, l) == IF tk THEN EmptyBag ELSE Last(mult2[l])

HalfPath(x) == half' = [l \in Lane |-> Shift(half[l], x)]

CosinePath(x) == cos' = [l \in Lane |-> Shift(cos[l], x)]

SquarePath(x, tk) ==
    /\ mult1' = [l \in Lane |-> Shift(mult1[l], x)]
    /\ pip'   = [l \in Lane |-> Shift(pip[l], MultOut(tk, l))]

\* mult_pip_15 has waited as long as the cosine of the same value.
SquareOutEarly(l) == pip[l][PIP_STAGES - 1]                         \* mutant
SquareOut(l)      == Last(pip[l])

ProductPath(tk) ==
    /\ mult2' = [l \in Lane |->
                   Shift(mult2[l], Prod(l, SquareOut(l), Last(cos[l])))]
    /\ add'   = [l \in Lane |->
                   Shift(add[l], Half(l, Last(half[l])) (+) Mult2Out(tk, l))]

\* The accumulator adds to its own output, so its ADD_STAGES registers hold
\* as many partial sums, and each element joins one of them.
Accumulate ==
    /\ sumdots' = Shift(sumdots, Last(add["x"]) (+) Last(add["y"]))
    /\ acc'     = Shift(acc, Last(acc) (+) Last(sumdots))

\* Tree_in_k is the accumulator's output k edges ago.  The seven chains of
\* PE.v run side by side with equal contents: one chain with a tap at each k.
Taps == tree_in' = Shift(tree_in, Last(acc))

TreeLevel1 ==
    LET Tree == [k \in 1..8 |-> IF k = 8 THEN Last(acc) ELSE tree_in[8 - k]]
    IN  level1' = [k \in 1..4 |->
                     Shift(level1[k], Tree[2 * k - 1] (+) Tree[2 * k])]

TreeLevel2 ==
    level2' = [k \in 1..2 |->
                 Shift(level2[k], Last(level1[2 * k - 1]) (+) Last(level1[2 * k]))]

TreeLevel3 == level3' = Shift(level3, Last(level2[1]) (+) Last(level2[2]))

EdgeEnabled(x, tk) ==
    /\ HalfPath(x)
    /\ CosinePath(x)
    /\ SquarePath(x, tk)
    /\ ProductPath(tk)
    /\ Accumulate
    /\ Taps
    /\ TreeLevel1
    /\ TreeLevel2
    /\ TreeLevel3

-----------------------------------------------------------------------------

\* An edge with clk_en low: plain registers clear, the cores hold.
EdgeDisabled ==
    /\ half' = [l \in Lane |-> Empty(HALF_STAGES, Zero)]
    /\ pip'  = [l \in Lane |-> Empty(PIP_STAGES, Zero)]
    /\ cos'  = [l \in Lane |-> Empty(CORDIC_STAGES, Zero)]
    /\ tree_in' = Empty(TREE_TAPS, EmptyBag)
    /\ UNCHANGED <<mult1, mult2, add, sumdots, acc, level1, level2, level3>>

PeEdge(en, x, tk) == IF en THEN EdgeEnabled(x, tk) ELSE EdgeDisabled

PeAclr ==
    /\ half'  = [l \in Lane |-> Empty(HALF_STAGES, Zero)]
    /\ mult1' = [l \in Lane |-> Empty(MULT_STAGES, Zero)]
    /\ pip'   = [l \in Lane |-> Empty(PIP_STAGES, Zero)]
    /\ cos'   = [l \in Lane |-> Empty(CORDIC_STAGES, Zero)]
    /\ mult2' = [l \in Lane |-> Empty(MULT_STAGES, EmptyBag)]
    /\ add'   = [l \in Lane |-> Empty(ADD_STAGES, EmptyBag)]
    /\ sumdots' = Empty(ADD_STAGES, EmptyBag)
    /\ acc'     = Empty(ADD_STAGES, EmptyBag)
    /\ tree_in' = Empty(TREE_TAPS, EmptyBag)
    /\ level1'  = [k \in 1..4 |-> Empty(ADD_STAGES, EmptyBag)]
    /\ level2'  = [k \in 1..2 |-> Empty(ADD_STAGES, EmptyBag)]
    /\ level3'  = Empty(ADD_STAGES, EmptyBag)

\* The output port of PE.v.
out == Last(level3)

-----------------------------------------------------------------------------

\* The terms the operand pairs of a set should add to the sum, and the sum a
\* sequence of pairs stands for.
TermsOf(S) == UNION {{<<"half", l, a>>, <<"prod", l, a, a>>} :
                       l \in Lane, a \in S \ {Zero}}

Occurs(a, chain) == Cardinality({i \in DOMAIN chain : chain[i] = a})

Total(s) == [t \in TermsOf(Range(s)) |-> Occurs(t[3], s)]

\* How many copies of a term the registers of a chain of sums hold.
Load(t, chain) ==
    SumTo([i \in DOMAIN chain |-> CopiesOf(t, chain[i])], Len(chain))

\* The registers that hold the terms already formed, each of them once: the
\* tree behind the accumulator only holds copies.
Formed(t) == Load(t, mult2["x"]) + Load(t, mult2["y"])
             + Load(t, add["x"]) + Load(t, add["y"])
             + Load(t, sumdots) + Load(t, acc)

Held == Range(mult2["x"]) \cup Range(mult2["y"]) \cup Range(add["x"])
          \cup Range(add["y"]) \cup Range(sumdots) \cup Range(acc)

\* How often a term is in the pipeline, formed or still to be formed.
Copies(t) ==
    LET l == t[2]
        a == t[3]
    IN  (IF t[1] = "half" THEN Occurs(a, half[l])
                          ELSE Occurs(a, mult1[l]) + Occurs(a, pip[l]))
        + Formed(t)

\* What the pipeline holds is exactly the terms of a sequence of pairs.
PipelineHolds(s) ==
    /\ \A b \in Held : DOMAIN b \subseteq TermsOf(Range(s))
    /\ \A t \in TermsOf(Range(s)) : Copies(t) = Occurs(t[3], s)

=============================================================================
