-------------------------- MODULE Accelerator_proofs --------------------------
(***************************************************************************)
(* The accelerator, for every length of the pipeline and every set of      *)
(* operands.  The processing element does not disturb the controller, so   *)
(* what is proved of the controller holds of the whole; the pipeline       *)
(* keeps every term it has sampled, and the result read by the last        *)
(* instruction of a run is the sum of all of them; the accelerator is the  *)
(* sum of VectorSum; and the program gets the sum of its vector.           *)
(***************************************************************************)
EXTENDS VectorProgram, CustomInstruction_proofs, Sums_proofs

(* An edge or a reset of the accelerator is one of its controller.         *)
LEMMA ControllerSteps == [AccNext]_accVars => [Next]_ciVars
<1>1. Edge => Next
  BY DEF Edge, ClockEdge, Next
<1>2. Reset => Next
  BY DEF Reset, Next
<1>3. UNCHANGED accVars => UNCHANGED ciVars
  BY DEF accVars
<1>4. QED
  BY <1>1, <1>2, <1>3 DEF AccNext

(* The controller's inductive invariant holds in the accelerator.          *)
LEMMA AcceleratorInv == MinBefore >= 1 => (AccSpec => []IndInv)
<1> SUFFICES ASSUME MinBefore >= 1 PROVE AccSpec => []IndInv
  OBVIOUS
<1>1. AccInit => IndInv
  BY InitTypes, InitInStep DEF AccInit, IndInv
<1>2. IndInv /\ [AccNext]_accVars => IndInv'
  BY ControllerSteps, IssuedLate, ClockInv, AclrTypes, AclrInStep, StutterInv
     DEF Next, Clock, IndInv
<1>3. QED
  BY <1>1, <1>2, PTL DEF AccSpec

(* The composed pipeline samples every operand pair exactly once and in    *)
(* program order, between two instructions: the sequence that the sum of   *)
(* ResultIsTotal ranges over is the one the pipeline has really seen.      *)
THEOREM PipelineSamplesOnce == MinBefore >= 1 => (AccSpec => []ExactlyOnce)
<1>1. IndInv => ExactlyOnce
  BY Zenon DEF IndInv, InStep, Closed, Opening, Opened, Ready, Passing,
     Draining, ExactlyOnce
<1>2. QED
  BY <1>1, AcceleratorInv, PTL

(* In the cycle in which the last instruction reads the result, its own    *)
(* pair has been sampled too, and nothing after it.                        *)
THEOREM ReturnsAfterLastPair ==
    MinBefore >= 1 => (AccSpec => [](Returning => taken = Append(sent, data)))
<1>1. IndInv => (Returning => taken = Append(sent, data))
  <2> SUFFICES ASSUME IndInv, Returning PROVE taken = Append(sent, data)
    OBVIOUS
  <2>1. Draining /\ COUNT = CYCLE_DELAY + 1
    BY DEF IndInv, InStep, Closed, Opening, Opened, Ready, Passing, Draining,
       Returning
  <2>2. COUNT > 0
    BY <2>1, DelayAssumption
  <2>3. QED
    BY <2>1, <2>2 DEF Draining
<1>2. QED
  BY <1>1, AcceleratorInv, PTL

(* The processing element is enabled from the first to the last pair of a  *)
(* run: none of its registers clears while another holds.                  *)
THEOREM PipelineStaysEnabled == MinBefore >= 1 => (AccSpec => []EnabledDuringRun)
<1>1. IndInv => EnabledDuringRun
  BY DEF IndInv, InStep, Closed, Opening, Opened, Ready, Passing, Draining,
     EnabledDuringRun
<1>2. QED
  BY <1>1, AcceleratorInv, PTL

-----------------------------------------------------------------------------
(* The pipeline, register by register.                                     *)

\* A chain of n registers, each of which holds a sum.
SumChain(c, n) == IsChain(c, n) /\ \A i \in 1..n : IsABag(c[i])

\* Every chain has its length, and every sum is a bag of terms.
PeType ==
    /\ \A l \in Lane : /\ IsChain(half[l], HALF_STAGES)
                       /\ IsChain(mult1[l], MULT_STAGES)
                       /\ IsChain(pip[l], PIP_STAGES)
                       /\ IsChain(cos[l], CORDIC_STAGES)
                       /\ SumChain(mult2[l], MULT_STAGES)
                       /\ SumChain(add[l], ADD_STAGES)
    /\ SumChain(sumdots, ADD_STAGES)
    /\ SumChain(acc, ADD_STAGES)
    /\ SumChain(tree_in, TREE_TAPS)
    /\ \A k \in 1..4 : SumChain(level1[k], ADD_STAGES)
    /\ \A k \in 1..2 : SumChain(level2[k], ADD_STAGES)
    /\ SumChain(level3, ADD_STAGES)

\* The chain d is the chain c one edge later, with v in its first register.
Moved(c, d, v, n) ==
    IsChain(d, n) /\ \A i \in 1..n : d[i] = IF i = 1 THEN v ELSE c[i - 1]

\* EdgeEnabled(), with every last register by its number.
PeMoves(x, tk) ==
    /\ \A l \in Lane :
         /\ Moved(half[l], half'[l], x, HALF_STAGES)
         /\ Moved(cos[l], cos'[l], x, CORDIC_STAGES)
         /\ Moved(mult1[l], mult1'[l], x, MULT_STAGES)
         /\ Moved(pip[l], pip'[l],
                  IF tk THEN Zero ELSE mult1[l][MULT_STAGES], PIP_STAGES)
         /\ Moved(mult2[l], mult2'[l],
                  Prod(l, pip[l][PIP_STAGES], cos[l][CORDIC_STAGES]), MULT_STAGES)
         /\ Moved(add[l], add'[l],
                  Half(l, half[l][HALF_STAGES])
                    (+) (IF tk THEN EmptyBag ELSE mult2[l][MULT_STAGES]),
                  ADD_STAGES)
    /\ Moved(sumdots, sumdots',
             add["x"][ADD_STAGES] (+) add["y"][ADD_STAGES], ADD_STAGES)
    /\ Moved(acc, acc', acc[ADD_STAGES] (+) sumdots[ADD_STAGES], ADD_STAGES)
    /\ Moved(tree_in, tree_in', acc[ADD_STAGES], TREE_TAPS)
    /\ Moved(level1[1], level1'[1], tree_in[7] (+) tree_in[6], ADD_STAGES)
    /\ Moved(level1[2], level1'[2], tree_in[5] (+) tree_in[4], ADD_STAGES)
    /\ Moved(level1[3], level1'[3], tree_in[3] (+) tree_in[2], ADD_STAGES)
    /\ Moved(level1[4], level1'[4], tree_in[1] (+) acc[ADD_STAGES], ADD_STAGES)
    /\ Moved(level2[1], level2'[1],
             level1[1][ADD_STAGES] (+) level1[2][ADD_STAGES], ADD_STAGES)
    /\ Moved(level2[2], level2'[2],
             level1[3][ADD_STAGES] (+) level1[4][ADD_STAGES], ADD_STAGES)
    /\ Moved(level3, level3',
             level2[1][ADD_STAGES] (+) level2[2][ADD_STAGES], ADD_STAGES)

(* Putting a value in front of a chain and dropping its last register      *)
(* moves every register one place on.                                      *)
LEMMA ShiftMoves ==
    ASSUME NEW n \in Nat \ {0}, NEW c, IsChain(c, n), NEW v
    PROVE  Moved(c, Shift(c, v), v, n) /\ Last(c) = c[n]
<1> DEFINE S == {c[i] : i \in 1..n} \cup {v}
           d == <<v>> \o Front(c)
<1>1. Len(c) = n
  BY ChainEnd
<1>2. c \in Seq(S)
  <2>1. c \in [1..n -> S]
    BY DEF IsChain
  <2> HIDE DEF S
  <2>2. QED
    BY <2>1
<1>3. /\ Front(c) \in Seq(S)
      /\ Len(Front(c)) = n - 1
      /\ \A i \in 1 .. n - 1 : Front(c)[i] = c[i]
  <2> HIDE DEF S
  <2>1. QED
    BY <1>1, <1>2 DEF Front
<1>4. <<v>> \in Seq(S) /\ Len(<<v>>) = 1 /\ <<v>>[1] = v
  <2>1. v \in S
    OBVIOUS
  <2> HIDE DEF S
  <2>2. QED
    BY <2>1
<1>5. /\ d \in Seq(S)
      /\ Len(d) = n
      /\ \A i \in 1..n : d[i] = IF i = 1 THEN v ELSE c[i - 1]
  <2> HIDE DEF S
  <2>1. QED
    BY <1>3, <1>4
<1>6. IsChain(d, n)
  <2> HIDE DEF S, d
  <2>1. QED
    BY <1>5 DEF IsChain
<1>7. Shift(c, v) = d /\ Last(c) = c[n]
  BY ChainEnd DEF Shift
<1> HIDE DEF d
<1>8. QED
  BY <1>5, <1>6, <1>7 DEF Moved

(* Every chain has at least one register.                                  *)
LEMMA StageNumbers ==
    /\ MULT_STAGES \in Nat \ {0} /\ ADD_STAGES \in Nat \ {0}
    /\ PIP_STAGES \in Nat \ {0} /\ CORDIC_STAGES \in Nat \ {0}
    /\ HALF_STAGES \in Nat \ {0} /\ TREE_TAPS \in Nat \ {0}
BY StagesAssumption DEF TREE_TAPS

(* An edge with clk_en high moves every chain.                             *)
LEMMA EdgeMoves ==
    ASSUME PeType, NEW x, NEW tk, EdgeEnabled(x, tk)
    PROVE  PeMoves(x, tk)
<1> USE StageNumbers DEF PeType, SumChain
<1>1. ASSUME NEW l \in Lane
      PROVE  /\ Moved(half[l], half'[l], x, HALF_STAGES)
             /\ Moved(cos[l], cos'[l], x, CORDIC_STAGES)
             /\ Moved(mult1[l], mult1'[l], x, MULT_STAGES)
             /\ Moved(pip[l], pip'[l],
                      IF tk THEN Zero ELSE mult1[l][MULT_STAGES], PIP_STAGES)
             /\ Moved(mult2[l], mult2'[l],
                      Prod(l, pip[l][PIP_STAGES], cos[l][CORDIC_STAGES]),
                      MULT_STAGES)
             /\ Moved(add[l], add'[l],
                      Half(l, half[l][HALF_STAGES])
                        (+) (IF tk THEN EmptyBag ELSE mult2[l][MULT_STAGES]),
                      ADD_STAGES)
  <2>1. /\ half'[l] = Shift(half[l], x)
        /\ cos'[l] = Shift(cos[l], x)
        /\ mult1'[l] = Shift(mult1[l], x)
        /\ pip'[l] = Shift(pip[l], MultOut(tk, l))
        /\ mult2'[l] = Shift(mult2[l], Prod(l, SquareOut(l), Last(cos[l])))
        /\ add'[l] = Shift(add[l], Half(l, Last(half[l])) (+) Mult2Out(tk, l))
    BY DEF EdgeEnabled, HalfPath, CosinePath, SquarePath, ProductPath
  <2>2. /\ Last(half[l]) = half[l][HALF_STAGES]
        /\ Last(cos[l]) = cos[l][CORDIC_STAGES]
        /\ Last(mult1[l]) = mult1[l][MULT_STAGES]
        /\ Last(pip[l]) = pip[l][PIP_STAGES]
        /\ Last(mult2[l]) = mult2[l][MULT_STAGES]
    BY ChainEnd
  <2>3. /\ MultOut(tk, l) = IF tk THEN Zero ELSE mult1[l][MULT_STAGES]
        /\ Mult2Out(tk, l) = IF tk THEN EmptyBag ELSE mult2[l][MULT_STAGES]
        /\ SquareOut(l) = pip[l][PIP_STAGES]
    BY <2>2 DEF MultOut, Mult2Out, SquareOut
  <2>4. QED
    BY <2>1, <2>2, <2>3, ShiftMoves
<1>2. /\ Last(add["x"]) = add["x"][ADD_STAGES]
      /\ Last(add["y"]) = add["y"][ADD_STAGES]
      /\ Last(sumdots) = sumdots[ADD_STAGES]
      /\ Last(acc) = acc[ADD_STAGES]
      /\ \A k \in 1..4 : Last(level1[k]) = level1[k][ADD_STAGES]
      /\ \A k \in 1..2 : Last(level2[k]) = level2[k][ADD_STAGES]
  BY ChainEnd DEF Lane
<1>3. /\ Moved(sumdots, sumdots',
               add["x"][ADD_STAGES] (+) add["y"][ADD_STAGES], ADD_STAGES)
      /\ Moved(acc, acc', acc[ADD_STAGES] (+) sumdots[ADD_STAGES], ADD_STAGES)
      /\ Moved(tree_in, tree_in', acc[ADD_STAGES], TREE_TAPS)
  BY <1>2, ShiftMoves DEF EdgeEnabled, Accumulate, Taps
<1>4. /\ Moved(level1[1], level1'[1], tree_in[7] (+) tree_in[6], ADD_STAGES)
      /\ Moved(level1[2], level1'[2], tree_in[5] (+) tree_in[4], ADD_STAGES)
      /\ Moved(level1[3], level1'[3], tree_in[3] (+) tree_in[2], ADD_STAGES)
      /\ Moved(level1[4], level1'[4], tree_in[1] (+) acc[ADD_STAGES], ADD_STAGES)
  <2>1. /\ level1'[1] = Shift(level1[1], tree_in[7] (+) tree_in[6])
        /\ level1'[2] = Shift(level1[2], tree_in[5] (+) tree_in[4])
        /\ level1'[3] = Shift(level1[3], tree_in[3] (+) tree_in[2])
        /\ level1'[4] = Shift(level1[4], tree_in[1] (+) acc[ADD_STAGES])
    BY <1>2 DEF EdgeEnabled, TreeLevel1
  <2>2. QED
    BY <2>1, ShiftMoves
<1>5. /\ Moved(level2[1], level2'[1],
               level1[1][ADD_STAGES] (+) level1[2][ADD_STAGES], ADD_STAGES)
      /\ Moved(level2[2], level2'[2],
               level1[3][ADD_STAGES] (+) level1[4][ADD_STAGES], ADD_STAGES)
  <2>1. /\ level2'[1] = Shift(level2[1], Last(level1[1]) (+) Last(level1[2]))
        /\ level2'[2] = Shift(level2[2], Last(level1[3]) (+) Last(level1[4]))
    BY DEF EdgeEnabled, TreeLevel2
  <2>2. QED
    BY <1>2, <2>1, ShiftMoves
<1>6. Moved(level3, level3',
            level2[1][ADD_STAGES] (+) level2[2][ADD_STAGES], ADD_STAGES)
  BY <1>2, ShiftMoves DEF EdgeEnabled, TreeLevel3
<1>7. QED
  BY <1>1, <1>3, <1>4, <1>5, <1>6 DEF PeMoves

(* What enters a sum is a bag.                                             *)
LEMMA TermsAreBags ==
    ASSUME NEW l, NEW a, NEW b
    PROVE  IsABag(Half(l, a)) /\ IsABag(Prod(l, a, b))
BY CountEmpty, CountSingle DEF Half, Prod

LEMMA MovedSums ==
    ASSUME NEW n, NEW c, SumChain(c, n), NEW d, NEW v, IsABag(v), n \in Nat,
           Moved(c, d, v, n)
    PROVE  SumChain(d, n)
BY DEF SumChain, Moved

(* An edge keeps the chains and their bags.                                *)
LEMMA MovesType ==
    ASSUME PeType, NEW x, NEW tk, PeMoves(x, tk)
    PROVE  PeType'
<1> USE StageNumbers
<1>1. ASSUME NEW l \in Lane
      PROVE  /\ IsChain(half[l], HALF_STAGES)'
             /\ IsChain(mult1[l], MULT_STAGES)'
             /\ IsChain(pip[l], PIP_STAGES)'
             /\ IsChain(cos[l], CORDIC_STAGES)'
             /\ SumChain(mult2[l], MULT_STAGES)'
             /\ SumChain(add[l], ADD_STAGES)'
  <2>1. /\ IsChain(half'[l], HALF_STAGES)
        /\ IsChain(mult1'[l], MULT_STAGES)
        /\ IsChain(pip'[l], PIP_STAGES)
        /\ IsChain(cos'[l], CORDIC_STAGES)
    BY DEF PeMoves, Moved
  <2>2. SumChain(mult2'[l], MULT_STAGES)
    BY TermsAreBags, MovedSums DEF PeMoves, PeType
  <2>3. SumChain(add'[l], ADD_STAGES)
    <3>1. IsABag(mult2[l][MULT_STAGES])
      BY DEF PeType, SumChain
    <3>2. IsABag(Half(l, half[l][HALF_STAGES])
                   (+) (IF tk THEN EmptyBag ELSE mult2[l][MULT_STAGES]))
      BY <3>1, TermsAreBags, CountEmpty, CountSum
    <3>3. QED
      BY <3>2, MovedSums DEF PeMoves, PeType
  <2>4. QED
    BY <2>1, <2>2, <2>3
<1>2. /\ IsABag(add["x"][ADD_STAGES] (+) add["y"][ADD_STAGES])
      /\ IsABag(acc[ADD_STAGES] (+) sumdots[ADD_STAGES])
      /\ IsABag(acc[ADD_STAGES])
  BY CountSum DEF PeType, SumChain, Lane
<1>3. /\ IsABag(tree_in[7] (+) tree_in[6])
      /\ IsABag(tree_in[5] (+) tree_in[4])
      /\ IsABag(tree_in[3] (+) tree_in[2])
      /\ IsABag(tree_in[1] (+) acc[ADD_STAGES])
  BY <1>2, CountSum DEF PeType, SumChain, TREE_TAPS
<1>4. /\ IsABag(level1[1][ADD_STAGES] (+) level1[2][ADD_STAGES])
      /\ IsABag(level1[3][ADD_STAGES] (+) level1[4][ADD_STAGES])
      /\ IsABag(level2[1][ADD_STAGES] (+) level2[2][ADD_STAGES])
  BY CountSum DEF PeType, SumChain
<1>5. /\ SumChain(sumdots', ADD_STAGES)
      /\ SumChain(acc', ADD_STAGES)
      /\ SumChain(tree_in', TREE_TAPS)
      /\ SumChain(level3', ADD_STAGES)
  BY <1>2, <1>4, MovedSums DEF PeMoves, PeType
<1>6. \A k \in 1..4 : SumChain(level1'[k], ADD_STAGES)
  <2>1. /\ SumChain(level1'[1], ADD_STAGES) /\ SumChain(level1'[2], ADD_STAGES)
        /\ SumChain(level1'[3], ADD_STAGES) /\ SumChain(level1'[4], ADD_STAGES)
    BY <1>3, MovedSums DEF PeMoves, PeType
  <2>2. QED
    BY <2>1
<1>7. \A k \in 1..2 : SumChain(level2'[k], ADD_STAGES)
  <2>1. SumChain(level2'[1], ADD_STAGES) /\ SumChain(level2'[2], ADD_STAGES)
    BY <1>4, MovedSums DEF PeMoves, PeType
  <2>2. QED
    BY <2>1
<1>8. QED
  BY <1>1, <1>5, <1>6, <1>7 DEF PeType

-----------------------------------------------------------------------------
(* No term is lost.                                                        *)

\* The cosine pipeline holds the operands of the square path, side by side.
Aligned ==
    \A l \in Lane :
      /\ \A i \in 1..MULT_STAGES : cos[l][i] = mult1[l][i]
      /\ \A i \in 1..PIP_STAGES : cos[l][MULT_STAGES + i] = pip[l][i]

\* The copies of a term that a chain of operands of lane l will still form,
\* as halves or as squares times their cosines.
HalfSum(t, l, c, n) == SumTo([i \in 1..n |-> CopiesOf(t, Half(l, c[i]))], n)
ProdSum(t, l, c, n) == SumTo([i \in 1..n |-> CopiesOf(t, Prod(l, c[i], c[i]))], n)

InLane(t, l) == HalfSum(t, l, half[l], HALF_STAGES)
                + ProdSum(t, l, mult1[l], MULT_STAGES)
                + ProdSum(t, l, pip[l], PIP_STAGES)
                + Load(t, mult2[l]) + Load(t, add[l])

InPipeline(t) == InLane(t, "x") + InLane(t, "y") + Load(t, sumdots) + Load(t, acc)

\* The copies of a term that a pair stands for, and a sequence of pairs.
LaneWorth(t, l, a) == CopiesOf(t, Half(l, a)) + CopiesOf(t, Prod(l, a, a))
Worth(t, a)        == LaneWorth(t, "x", a) + LaneWorth(t, "y", a)
Owed(t, s)         == SumTo([i \in 1..Len(s) |-> Worth(t, s[i])], Len(s))

\* The pipeline holds what the pairs it has sampled stand for.
Conserved == \A t : InPipeline(t) = Owed(t, taken)

(* An edge keeps squares and cosines side by side, unless tick drops a     *)
(* square.                                                                 *)
LEMMA MovesAligned ==
    ASSUME Latencies, PeType, Aligned, NEW x, NEW tk, PeMoves(x, tk),
           tk => \A l \in Lane : mult1[l][MULT_STAGES] = Zero
    PROVE  Aligned'
<1> USE StageNumbers
<1> SUFFICES ASSUME NEW l \in Lane
             PROVE  /\ \A i \in 1..MULT_STAGES : cos'[l][i] = mult1'[l][i]
                    /\ \A i \in 1..PIP_STAGES :
                         cos'[l][MULT_STAGES + i] = pip'[l][i]
  BY DEF Aligned
<1>1. /\ \A i \in 1..CORDIC_STAGES : cos'[l][i] = IF i = 1 THEN x ELSE cos[l][i - 1]
      /\ \A i \in 1..MULT_STAGES : mult1'[l][i] = IF i = 1 THEN x ELSE mult1[l][i - 1]
      /\ \A i \in 1..PIP_STAGES : pip'[l][i] =
           IF i = 1 THEN (IF tk THEN Zero ELSE mult1[l][MULT_STAGES])
                    ELSE pip[l][i - 1]
  BY DEF PeMoves, Moved
<1>2. /\ \A i \in 1..MULT_STAGES : cos[l][i] = mult1[l][i]
      /\ \A i \in 1..PIP_STAGES : cos[l][MULT_STAGES + i] = pip[l][i]
  BY DEF Aligned
<1>3. \A i \in 1..PIP_STAGES : pip'[l][i] =
        IF i = 1 THEN mult1[l][MULT_STAGES] ELSE pip[l][i - 1]
  BY <1>1
<1>4. ASSUME NEW i \in 1..MULT_STAGES PROVE cos'[l][i] = mult1'[l][i]
  <2>1. i \in 1..CORDIC_STAGES /\ (i # 1 => i - 1 \in 1..MULT_STAGES)
    BY DEF Latencies
  <2>2. QED
    BY <1>1, <1>2, <2>1
<1>5. ASSUME NEW i \in 1..PIP_STAGES
      PROVE  cos'[l][MULT_STAGES + i] = pip'[l][i]
  <2>1. cos'[l][MULT_STAGES + i] = cos[l][MULT_STAGES + i - 1]
    BY <1>1 DEF Latencies
  <2>2. CASE i = 1
    BY <1>2, <1>3, <2>1, <2>2
  <2>3. CASE i # 1
    <3>1. i - 1 \in 1..PIP_STAGES /\ MULT_STAGES + i - 1 = MULT_STAGES + (i - 1)
      BY <2>3
    <3>2. QED
      BY <1>2, <1>3, <2>1, <2>3, <3>1
  <2>4. QED
    BY <2>2, <2>3
<1>6. QED
  BY <1>4, <1>5

(* The load of a chain of sums is a number, and an edge changes it by what *)
(* enters less what leaves.                                                *)
LEMMA LoadType ==
    ASSUME NEW n \in Nat \ {0}, NEW c, SumChain(c, n), NEW t
    PROVE  /\ Load(t, c) \in Nat
           /\ \A i \in 1..n : CopiesOf(t, c[i]) \in Nat
           /\ \A i \in 1..n : CopiesOf(t, c[i]) <= Load(t, c)
           /\ Load(t, c) = SumTo([i \in 1..n |-> CopiesOf(t, c[i])], n)
<1> DEFINE g == [i \in 1..n |-> CopiesOf(t, c[i])]
<1>1. \A i \in 1..n : CopiesOf(t, c[i]) \in Nat
  BY CountType DEF SumChain
<1>2. Load(t, c) = SumTo(g, n)
  BY ChainEnd DEF SumChain, Load
<1>3. \A i \in 1..n : g[i] \in Nat /\ g[i] = CopiesOf(t, c[i])
  BY <1>1
<1> HIDE DEF g
<1>4. SumTo(g, n) \in Nat
  BY <1>3, SumType
<1>5. \A i \in 1..n : g[i] <= SumTo(g, n)
  BY <1>3, SumAtLeast
<1>6. QED
  BY <1>1, <1>2, <1>3, <1>4, <1>5 DEF g

LEMMA LoadNat ==
    ASSUME NEW n \in Nat \ {0}, NEW c, SumChain(c, n), NEW t
    PROVE  Load(t, c) \in Nat /\ CopiesOf(t, c[n]) \in Nat
<1>1. n \in 1..n
  OBVIOUS
<1>2. QED
  BY <1>1, LoadType

LEMMA LoadMoves ==
    ASSUME NEW n \in Nat \ {0}, NEW c, SumChain(c, n), NEW d, NEW v, IsABag(v),
           Moved(c, d, v, n), NEW t
    PROVE  Load(t, d) + CopiesOf(t, c[n]) = CopiesOf(t, v) + Load(t, c)
<1> DEFINE g == [i \in 1..n |-> CopiesOf(t, c[i])]
           h == [i \in 1..n |-> CopiesOf(t, d[i])]
<1>1. SumChain(d, n)
  BY MovedSums
<1>2. Load(t, c) = SumTo(g, n) /\ Load(t, d) = SumTo(h, n)
  BY <1>1, LoadType
<1>3. CopiesOf(t, v) \in Nat
  BY CountType
<1>4. \A i \in 1..n : g[i] \in Nat /\ g[i] = CopiesOf(t, c[i])
  BY LoadType
<1>5. \A i \in 1..n : h[i] = IF i = 1 THEN CopiesOf(t, v) ELSE g[i - 1]
  BY DEF Moved
<1>6. g[n] = CopiesOf(t, c[n])
  OBVIOUS
<1> HIDE DEF g, h
<1>7. SumTo(h, n) + g[n] = CopiesOf(t, v) + SumTo(g, n)
  BY <1>3, <1>4, <1>5, SumShift
<1>8. QED
  BY <1>2, <1>6, <1>7

(* The numbers above are naturals.                                         *)
LEMMA WorthType ==
    ASSUME NEW t, NEW l, NEW a
    PROVE  /\ CopiesOf(t, Half(l, a)) \in Nat /\ CopiesOf(t, Prod(l, a, a)) \in Nat
           /\ LaneWorth(t, l, a) \in Nat /\ Worth(t, a) \in Nat
           /\ a = Zero => LaneWorth(t, l, a) = 0 /\ Worth(t, a) = 0
<1>1. \A k : CopiesOf(t, Half(k, a)) \in Nat /\ CopiesOf(t, Prod(k, a, a)) \in Nat
  BY TermsAreBags, CountType
<1>2. a = Zero => \A k : CopiesOf(t, Half(k, a)) = 0 /\ CopiesOf(t, Prod(k, a, a)) = 0
  BY CountEmpty DEF Half, Prod
<1>3. QED
  BY <1>1, <1>2 DEF LaneWorth, Worth

LEMMA FormTypes ==
    ASSUME NEW t, NEW l, NEW c, NEW n \in Nat
    PROVE  HalfSum(t, l, c, n) \in Nat /\ ProdSum(t, l, c, n) \in Nat
<1> DEFINE g == [i \in 1..n |-> CopiesOf(t, Half(l, c[i]))]
           h == [i \in 1..n |-> CopiesOf(t, Prod(l, c[i], c[i]))]
<1>1. \A i \in 1..n : g[i] \in Nat /\ h[i] \in Nat
  BY WorthType
<1> HIDE DEF g, h
<1>2. SumTo(g, n) \in Nat /\ SumTo(h, n) \in Nat
  BY <1>1, SumType
<1>3. QED
  BY <1>2 DEF g, h, HalfSum, ProdSum

(* An edge changes them by what enters less what leaves.                   *)
LEMMA FormMoves ==
    ASSUME NEW t, NEW l, NEW c, NEW d, NEW v, NEW n \in Nat \ {0},
           Moved(c, d, v, n)
    PROVE  /\ HalfSum(t, l, d, n) + CopiesOf(t, Half(l, c[n]))
                = CopiesOf(t, Half(l, v)) + HalfSum(t, l, c, n)
           /\ ProdSum(t, l, d, n) + CopiesOf(t, Prod(l, c[n], c[n]))
                = CopiesOf(t, Prod(l, v, v)) + ProdSum(t, l, c, n)
<1> DEFINE g  == [i \in 1..n |-> CopiesOf(t, Half(l, c[i]))]
           g2 == [i \in 1..n |-> CopiesOf(t, Half(l, d[i]))]
           h  == [i \in 1..n |-> CopiesOf(t, Prod(l, c[i], c[i]))]
           h2 == [i \in 1..n |-> CopiesOf(t, Prod(l, d[i], d[i]))]
<1>1. /\ \A i \in 1..n : g[i] \in Nat /\ h[i] \in Nat
      /\ CopiesOf(t, Half(l, v)) \in Nat /\ CopiesOf(t, Prod(l, v, v)) \in Nat
  BY WorthType
<1>2. \A i \in 1..n : d[i] = IF i = 1 THEN v ELSE c[i - 1]
  BY DEF Moved
<1>3. \A i \in 1..n : g2[i] = IF i = 1 THEN CopiesOf(t, Half(l, v)) ELSE g[i - 1]
  BY <1>2
<1>4. \A i \in 1..n : h2[i] = IF i = 1 THEN CopiesOf(t, Prod(l, v, v)) ELSE h[i - 1]
  BY <1>2
<1>5. g[n] = CopiesOf(t, Half(l, c[n])) /\ h[n] = CopiesOf(t, Prod(l, c[n], c[n]))
  OBVIOUS
<1> HIDE DEF g, g2, h, h2
<1>6. SumTo(g2, n) + g[n] = CopiesOf(t, Half(l, v)) + SumTo(g, n)
  BY <1>1, <1>3, SumShift
<1>7. SumTo(h2, n) + h[n] = CopiesOf(t, Prod(l, v, v)) + SumTo(h, n)
  BY <1>1, <1>4, SumShift
<1>8. QED
  BY <1>5, <1>6, <1>7 DEF g, g2, h, h2, HalfSum, ProdSum

(* Five balances of the form "new + out = in + old" add up.                *)
LEMMA FiveBalances ==
    ASSUME NEW h \in Nat, NEW h2 \in Nat, NEW s \in Nat, NEW s2 \in Nat,
           NEW d \in Nat, NEW d2 \in Nat, NEW m \in Nat, NEW m2 \in Nat,
           NEW a \in Nat, NEW a2 \in Nat, NEW hIn \in Nat, NEW sIn \in Nat,
           NEW hOut \in Nat, NEW sOut \in Nat, NEW dOut \in Nat,
           NEW mOut \in Nat, NEW aOut \in Nat,
           h2 + hOut = hIn + h, s2 + sOut = sIn + s, d2 + dOut = sOut + d,
           m2 + mOut = dOut + m, a2 + aOut = (hOut + mOut) + a
    PROVE  (h2 + s2 + d2 + m2 + a2) + aOut = (h + s + d + m + a) + (hIn + sIn)
OBVIOUS

(* What a lane holds changes by what its input forms, less what leaves its *)
(* adder.                                                                  *)
LEMMA LaneConserves ==
    ASSUME Latencies, PeType, Aligned, NEW x, NEW tk, PeMoves(x, tk), NEW t,
           NEW l \in Lane,
           tk => mult1[l][MULT_STAGES] = Zero /\ mult2[l][MULT_STAGES] = EmptyBag
    PROVE  /\ InLane(t, l) \in Nat
           /\ InLane(t, l)' \in Nat
           /\ CopiesOf(t, add[l][ADD_STAGES]) \in Nat
           /\ InLane(t, l)' + CopiesOf(t, add[l][ADD_STAGES])
                = InLane(t, l) + LaneWorth(t, l, x)
<1> USE StageNumbers
<1> DEFINE HalfEnd   == CopiesOf(t, Half(l, half[l][HALF_STAGES]))
           SquareEnd == CopiesOf(t, Prod(l, mult1[l][MULT_STAGES],
                                             mult1[l][MULT_STAGES]))
           DelayEnd  == CopiesOf(t, Prod(l, pip[l][PIP_STAGES], pip[l][PIP_STAGES]))
           MultEnd   == CopiesOf(t, mult2[l][MULT_STAGES])
           AddEnd    == CopiesOf(t, add[l][ADD_STAGES])
           HalfIn    == CopiesOf(t, Half(l, x))
           SquareIn  == CopiesOf(t, Prod(l, x, x))
<1>1. /\ HalfEnd \in Nat /\ SquareEnd \in Nat /\ DelayEnd \in Nat
      /\ HalfIn \in Nat /\ SquareIn \in Nat
  BY WorthType
<1>2. PeType'
  BY MovesType
<1>3. HalfSum(t, l, half'[l], HALF_STAGES) + HalfEnd
        = HalfIn + HalfSum(t, l, half[l], HALF_STAGES)
  BY FormMoves DEF PeMoves
<1>4. ProdSum(t, l, mult1'[l], MULT_STAGES) + SquareEnd
        = SquareIn + ProdSum(t, l, mult1[l], MULT_STAGES)
  <2>1. Moved(mult1[l], mult1'[l], x, MULT_STAGES)
    BY DEF PeMoves
  <2>2. QED
    BY <2>1, FormMoves
<1>5. ProdSum(t, l, pip'[l], PIP_STAGES) + DelayEnd
        = SquareEnd + ProdSum(t, l, pip[l], PIP_STAGES)
  <2>1. Moved(pip[l], pip'[l], mult1[l][MULT_STAGES], PIP_STAGES)
    BY DEF PeMoves
  <2>2. QED
    BY <2>1, FormMoves
<1>6. Load(t, mult2'[l]) + MultEnd = DelayEnd + Load(t, mult2[l])
  <2>1. cos[l][CORDIC_STAGES] = pip[l][PIP_STAGES]
    BY DEF Aligned, Latencies
  <2>2. Moved(mult2[l], mult2'[l],
              Prod(l, pip[l][PIP_STAGES], pip[l][PIP_STAGES]), MULT_STAGES)
    BY <2>1 DEF PeMoves
  <2>3. IsABag(Prod(l, pip[l][PIP_STAGES], pip[l][PIP_STAGES]))
    BY TermsAreBags
  <2>4. QED
    BY <2>2, <2>3, LoadMoves DEF PeType
<1>7. Load(t, add'[l]) + AddEnd = (HalfEnd + MultEnd) + Load(t, add[l])
  <2> DEFINE v == Half(l, half[l][HALF_STAGES]) (+) mult2[l][MULT_STAGES]
  <2>1. IsABag(Half(l, half[l][HALF_STAGES])) /\ IsABag(mult2[l][MULT_STAGES])
    BY TermsAreBags DEF PeType, SumChain
  <2>2. IsABag(v) /\ CopiesOf(t, v) = HalfEnd + MultEnd
    BY <2>1, CountSum
  <2>3. Moved(add[l], add'[l], v, ADD_STAGES)
    BY DEF PeMoves
  <2> HIDE DEF v
  <2>4. Load(t, add'[l]) + AddEnd = CopiesOf(t, v) + Load(t, add[l])
    BY <2>2, <2>3, LoadMoves DEF PeType
  <2>5. QED
    BY <2>2, <2>4
<1>8. /\ Load(t, mult2[l]) \in Nat /\ Load(t, mult2'[l]) \in Nat
      /\ Load(t, add[l]) \in Nat /\ Load(t, add'[l]) \in Nat
      /\ MultEnd \in Nat /\ AddEnd \in Nat
  <2>1. /\ SumChain(mult2[l], MULT_STAGES) /\ SumChain(mult2'[l], MULT_STAGES)
        /\ SumChain(add[l], ADD_STAGES) /\ SumChain(add'[l], ADD_STAGES)
    BY <1>2 DEF PeType
  <2>2. QED
    BY <2>1, LoadNat
<1>9. \A n \in Nat : \A c : HalfSum(t, l, c, n) \in Nat /\ ProdSum(t, l, c, n) \in Nat
  BY FormTypes
<1>10. LaneWorth(t, l, x) = HalfIn + SquareIn
  BY DEF LaneWorth
<1>11. /\ InLane(t, l) = HalfSum(t, l, half[l], HALF_STAGES)
                         + ProdSum(t, l, mult1[l], MULT_STAGES)
                         + ProdSum(t, l, pip[l], PIP_STAGES)
                         + Load(t, mult2[l]) + Load(t, add[l])
       /\ InLane(t, l)' = HalfSum(t, l, half'[l], HALF_STAGES)
                          + ProdSum(t, l, mult1'[l], MULT_STAGES)
                          + ProdSum(t, l, pip'[l], PIP_STAGES)
                          + Load(t, mult2'[l]) + Load(t, add'[l])
  BY DEF InLane
<1> HIDE DEF HalfEnd, SquareEnd, DelayEnd, MultEnd, AddEnd, HalfIn, SquareIn
<1>12. /\ HalfSum(t, l, half[l], HALF_STAGES) \in Nat
       /\ ProdSum(t, l, mult1[l], MULT_STAGES) \in Nat
       /\ ProdSum(t, l, pip[l], PIP_STAGES) \in Nat
       /\ HalfSum(t, l, half'[l], HALF_STAGES) \in Nat
       /\ ProdSum(t, l, mult1'[l], MULT_STAGES) \in Nat
       /\ ProdSum(t, l, pip'[l], PIP_STAGES) \in Nat
  BY <1>9
<1>13. /\ InLane(t, l) \in Nat /\ InLane(t, l)' \in Nat
       /\ InLane(t, l)' + AddEnd = InLane(t, l) + LaneWorth(t, l, x)
  <2>1. InLane(t, l) \in Nat /\ InLane(t, l)' \in Nat
    BY <1>8, <1>11, <1>12
  <2>2. InLane(t, l)' + AddEnd = InLane(t, l) + LaneWorth(t, l, x)
    <3>1. (HalfSum(t, l, half'[l], HALF_STAGES)
                 + ProdSum(t, l, mult1'[l], MULT_STAGES)
                 + ProdSum(t, l, pip'[l], PIP_STAGES)
                 + Load(t, mult2'[l]) + Load(t, add'[l])) + AddEnd
          = (HalfSum(t, l, half[l], HALF_STAGES)
                 + ProdSum(t, l, mult1[l], MULT_STAGES)
                 + ProdSum(t, l, pip[l], PIP_STAGES)
                 + Load(t, mult2[l]) + Load(t, add[l])) + (HalfIn + SquareIn)
      BY ONLY <1>1, <1>3, <1>4, <1>5, <1>6, <1>7, <1>8, <1>12, FiveBalances
    <3>2. QED
      BY <1>10, <1>11, <3>1
  <2>3. QED
    BY <2>1, <2>2
<1>14. QED
  BY <1>8, <1>13 DEF AddEnd

(* The same for the two lanes, the sum of the lanes and the accumulator.   *)
LEMMA FourBalances ==
    ASSUME NEW x \in Nat, NEW x2 \in Nat, NEW z \in Nat, NEW z2 \in Nat,
           NEW s \in Nat, NEW s2 \in Nat, NEW a \in Nat, NEW a2 \in Nat,
           NEW xIn \in Nat, NEW zIn \in Nat, NEW xOut \in Nat, NEW zOut \in Nat,
           NEW sOut \in Nat, NEW aOut \in Nat,
           x2 + xOut = x + xIn, z2 + zOut = z + zIn,
           s2 + sOut = (xOut + zOut) + s, a2 + aOut = (aOut + sOut) + a
    PROVE  x2 + z2 + s2 + a2 = (x + z + s + a) + (xIn + zIn)
OBVIOUS

(* What the pipeline holds changes by what its input forms.                *)
LEMMA PipelineConserves ==
    ASSUME Latencies, PeType, Aligned, NEW x, NEW tk, PeMoves(x, tk), NEW t,
           tk => \A l \in Lane : /\ mult1[l][MULT_STAGES] = Zero
                                 /\ mult2[l][MULT_STAGES] = EmptyBag
    PROVE  InPipeline(t)' = InPipeline(t) + Worth(t, x)
<1> USE StageNumbers
<1> DEFINE xEnd == CopiesOf(t, add["x"][ADD_STAGES])
           yEnd == CopiesOf(t, add["y"][ADD_STAGES])
           sEnd == CopiesOf(t, sumdots[ADD_STAGES])
           aEnd == CopiesOf(t, acc[ADD_STAGES])
<1>1. \A l \in Lane :
        /\ InLane(t, l) \in Nat
        /\ InLane(t, l)' \in Nat
        /\ CopiesOf(t, add[l][ADD_STAGES]) \in Nat
        /\ InLane(t, l)' + CopiesOf(t, add[l][ADD_STAGES])
             = InLane(t, l) + LaneWorth(t, l, x)
  BY LaneConserves
<1>2. Load(t, sumdots') + sEnd = (xEnd + yEnd) + Load(t, sumdots)
  <2> DEFINE v == add["x"][ADD_STAGES] (+) add["y"][ADD_STAGES]
  <2>1. IsABag(v) /\ CopiesOf(t, v) = xEnd + yEnd
    BY CountSum DEF PeType, SumChain, Lane
  <2>2. Moved(sumdots, sumdots', v, ADD_STAGES)
    BY DEF PeMoves
  <2> HIDE DEF v
  <2>3. Load(t, sumdots') + sEnd = CopiesOf(t, v) + Load(t, sumdots)
    BY <2>1, <2>2, LoadMoves DEF PeType
  <2>4. QED
    BY <2>1, <2>3
<1>3. Load(t, acc') + aEnd = (aEnd + sEnd) + Load(t, acc)
  <2> DEFINE v == acc[ADD_STAGES] (+) sumdots[ADD_STAGES]
  <2>1. IsABag(v) /\ CopiesOf(t, v) = aEnd + sEnd
    BY CountSum DEF PeType, SumChain
  <2>2. Moved(acc, acc', v, ADD_STAGES)
    BY DEF PeMoves
  <2> HIDE DEF v
  <2>3. Load(t, acc') + aEnd = CopiesOf(t, v) + Load(t, acc)
    BY <2>1, <2>2, LoadMoves DEF PeType
  <2>4. QED
    BY <2>1, <2>3
<1>4. PeType'
  BY MovesType
<1>5. /\ Load(t, sumdots) \in Nat /\ Load(t, sumdots') \in Nat /\ sEnd \in Nat
      /\ Load(t, acc) \in Nat /\ Load(t, acc') \in Nat /\ aEnd \in Nat
  <2>1. /\ SumChain(sumdots, ADD_STAGES) /\ SumChain(sumdots', ADD_STAGES)
        /\ SumChain(acc, ADD_STAGES) /\ SumChain(acc', ADD_STAGES)
    BY <1>4 DEF PeType
  <2>2. QED
    BY <2>1, LoadNat
<1>6. LaneWorth(t, "x", x) \in Nat /\ LaneWorth(t, "y", x) \in Nat
  BY WorthType
<1>7. /\ InLane(t, "x") \in Nat /\ InLane(t, "x")' \in Nat /\ xEnd \in Nat
      /\ InLane(t, "y") \in Nat /\ InLane(t, "y")' \in Nat /\ yEnd \in Nat
      /\ InLane(t, "x")' + xEnd = InLane(t, "x") + LaneWorth(t, "x", x)
      /\ InLane(t, "y")' + yEnd = InLane(t, "y") + LaneWorth(t, "y", x)
  BY <1>1 DEF Lane
<1>8. /\ InPipeline(t) = InLane(t, "x") + InLane(t, "y")
                         + Load(t, sumdots) + Load(t, acc)
      /\ InPipeline(t)' = InLane(t, "x")' + InLane(t, "y")'
                          + Load(t, sumdots') + Load(t, acc')
      /\ Worth(t, x) = LaneWorth(t, "x", x) + LaneWorth(t, "y", x)
  BY DEF InPipeline, Worth
<1> HIDE DEF xEnd, yEnd, sEnd, aEnd
<1>9. InLane(t, "x")' + InLane(t, "y")' + Load(t, sumdots') + Load(t, acc')
        = (InLane(t, "x") + InLane(t, "y") + Load(t, sumdots) + Load(t, acc))
          + (LaneWorth(t, "x", x) + LaneWorth(t, "y", x))
  BY ONLY <1>2, <1>3, <1>5, <1>6, <1>7, FourBalances
<1>10. QED
  BY <1>8, <1>9

-----------------------------------------------------------------------------
(* How far the last pair of a run has gone.                                *)

\* The registers in front of the adder of a lane, on the longer of its paths.
D == IF HALF_STAGES >= 2 * MULT_STAGES + PIP_STAGES
     THEN HALF_STAGES ELSE 2 * MULT_STAGES + PIP_STAGES

\* c edges after the last pair, the registers it has left behind are empty.
Clean(c) ==
    /\ \A l \in Lane :
         /\ \A i \in 1..HALF_STAGES : i < c => half[l][i] = Zero
         /\ \A i \in 1..MULT_STAGES : i < c => mult1[l][i] = Zero
         /\ \A i \in 1..PIP_STAGES : MULT_STAGES + i < c => pip[l][i] = Zero
         /\ \A i \in 1..MULT_STAGES :
              MULT_STAGES + PIP_STAGES + i < c => mult2[l][i] = EmptyBag
         /\ \A i \in 1..ADD_STAGES : D + i < c => add[l][i] = EmptyBag
    /\ \A i \in 1..ADD_STAGES : D + ADD_STAGES + i < c => sumdots[i] = EmptyBag

\* Nothing enters the accumulator any more: its partial sums only rotate, and
\* the taps of the tree hold copies of them.
Rotated(c) ==
    \A i \in 1..TREE_TAPS : D + 2 * ADD_STAGES + i < c => tree_in[i] = acc[i]

\* The s-th stage of the tree's adders holds, all adders together, every
\* partial sum of the accumulator once.
StageLoad(t, s) ==
    IF s <= ADD_STAGES
    THEN CopiesOf(t, level1[1][s]) + CopiesOf(t, level1[2][s])
         + (CopiesOf(t, level1[3][s]) + CopiesOf(t, level1[4][s]))
    ELSE IF s <= 2 * ADD_STAGES
    THEN CopiesOf(t, level2[1][s - ADD_STAGES])
         + CopiesOf(t, level2[2][s - ADD_STAGES])
    ELSE CopiesOf(t, level3[s - 2 * ADD_STAGES])

Summed(c) ==
    \A s \in 1 .. 3 * ADD_STAGES : s + D + 3 * ADD_STAGES <= c =>
      \A t : StageLoad(t, s) = Load(t, acc)

\* The first k pairs of a run have not passed the first k registers of the
\* first multiplier; behind it there is nothing.
Shallow(k) ==
    \A l \in Lane :
      /\ \A i \in 1..MULT_STAGES : i > k => mult1[l][i] = Zero
      /\ \A i \in 1..PIP_STAGES : pip[l][i] = Zero
      /\ \A i \in 1..MULT_STAGES : mult2[l][i] = EmptyBag

LEMMA Depth ==
    D \in Nat /\ HALF_STAGES <= D /\ 2 * MULT_STAGES + PIP_STAGES <= D
BY StageNumbers DEF D

(* Halves and products of nothing are nothing.                             *)
LEMMA NoTerms == ASSUME NEW l, NEW b PROVE /\ Half(l, Zero) = EmptyBag
                                           /\ Prod(l, Zero, b) = EmptyBag
                                           /\ EmptyBag (+) EmptyBag = EmptyBag
BY CountEmpty, EmptyAdds DEF Half, Prod

(* With no pair at the input the empty registers spread by one.            *)
LEMMA MovesClean ==
    ASSUME PeType, NEW c \in Nat, Clean(c), PeMoves(Zero, FALSE)
    PROVE  Clean(c + 1)'
<1> USE StageNumbers, Depth
<1>1. ASSUME NEW l \in Lane
      PROVE  /\ \A i \in 1..HALF_STAGES : i < c + 1 => half'[l][i] = Zero
             /\ \A i \in 1..MULT_STAGES : i < c + 1 => mult1'[l][i] = Zero
  <2>1. /\ \A i \in 1..HALF_STAGES : half'[l][i] = IF i = 1 THEN Zero ELSE half[l][i - 1]
        /\ \A i \in 1..MULT_STAGES : mult1'[l][i] = IF i = 1 THEN Zero ELSE mult1[l][i - 1]
    BY DEF PeMoves, Moved
  <2>2. /\ \A i \in 1..HALF_STAGES : i < c => half[l][i] = Zero
        /\ \A i \in 1..MULT_STAGES : i < c => mult1[l][i] = Zero
    BY DEF Clean
  <2>3. QED
    BY <2>1, <2>2
<1>2. ASSUME NEW l \in Lane, NEW i \in 1..PIP_STAGES, MULT_STAGES + i < c + 1
      PROVE  pip'[l][i] = Zero
  <2>1. pip'[l][i] = IF i = 1 THEN mult1[l][MULT_STAGES] ELSE pip[l][i - 1]
    BY DEF PeMoves, Moved
  <2>2. CASE i = 1
    BY <1>2, <2>1, <2>2 DEF Clean
  <2>3. CASE i # 1
    <3>1. i - 1 \in 1..PIP_STAGES /\ MULT_STAGES + (i - 1) < c
      BY <1>2, <2>3
    <3>2. QED
      BY <2>1, <2>3, <3>1 DEF Clean
  <2>4. QED
    BY <2>2, <2>3
<1>3. ASSUME NEW l \in Lane, NEW i \in 1..MULT_STAGES,
             MULT_STAGES + PIP_STAGES + i < c + 1
      PROVE  mult2'[l][i] = EmptyBag
  <2>1. mult2'[l][i] = IF i = 1
                       THEN Prod(l, pip[l][PIP_STAGES], cos[l][CORDIC_STAGES])
                       ELSE mult2[l][i - 1]
    BY DEF PeMoves, Moved
  <2>2. CASE i = 1
    <3>1. pip[l][PIP_STAGES] = Zero
      BY <1>3, <2>2 DEF Clean
    <3>2. QED
      BY <2>1, <2>2, <3>1, NoTerms
  <2>3. CASE i # 1
    <3>1. i - 1 \in 1..MULT_STAGES /\ MULT_STAGES + PIP_STAGES + (i - 1) < c
      BY <1>3, <2>3
    <3>2. QED
      BY <2>1, <2>3, <3>1 DEF Clean
  <2>4. QED
    BY <2>2, <2>3
<1>4. ASSUME NEW l \in Lane, NEW i \in 1..ADD_STAGES, D + i < c + 1
      PROVE  add'[l][i] = EmptyBag
  <2>1. add'[l][i] = IF i = 1
                     THEN Half(l, half[l][HALF_STAGES]) (+) mult2[l][MULT_STAGES]
                     ELSE add[l][i - 1]
    BY DEF PeMoves, Moved
  <2>2. CASE i = 1
    <3>1. half[l][HALF_STAGES] = Zero /\ mult2[l][MULT_STAGES] = EmptyBag
      <4>1. HALF_STAGES < c /\ MULT_STAGES + PIP_STAGES + MULT_STAGES < c
        BY <1>4, <2>2
      <4>2. QED
        BY <4>1 DEF Clean
    <3>2. QED
      BY <2>1, <2>2, <3>1, NoTerms
  <2>3. CASE i # 1
    <3>1. i - 1 \in 1..ADD_STAGES /\ D + (i - 1) < c
      BY <1>4, <2>3
    <3>2. QED
      BY <2>1, <2>3, <3>1 DEF Clean
  <2>4. QED
    BY <2>2, <2>3
<1>5. ASSUME NEW i \in 1..ADD_STAGES, D + ADD_STAGES + i < c + 1
      PROVE  sumdots'[i] = EmptyBag
  <2>1. sumdots'[i] = IF i = 1 THEN add["x"][ADD_STAGES] (+) add["y"][ADD_STAGES]
                               ELSE sumdots[i - 1]
    BY DEF PeMoves, Moved
  <2>2. CASE i = 1
    <3>1. add["x"][ADD_STAGES] = EmptyBag /\ add["y"][ADD_STAGES] = EmptyBag
      BY <1>5, <2>2 DEF Clean, Lane
    <3>2. QED
      BY <2>1, <2>2, <3>1, NoTerms
  <2>3. CASE i # 1
    <3>1. i - 1 \in 1..ADD_STAGES /\ D + ADD_STAGES + (i - 1) < c
      BY <1>5, <2>3
    <3>2. QED
      BY <2>1, <2>3, <3>1 DEF Clean
  <2>4. QED
    BY <2>2, <2>3
<1>6. QED
  BY <1>1, <1>2, <1>3, <1>4, <1>5 DEF Clean

(* Less is clean after fewer edges.                                        *)
LEMMA CleanEarlier ==
    ASSUME NEW c \in Nat, NEW d \in Nat, d <= c, Clean(c)
    PROVE  Clean(d)
BY StageNumbers, Depth DEF Clean

(* Once no sum enters the accumulator, it rotates.                         *)
LEMMA MovesRotates ==
    ASSUME PeType, Latencies, NEW c \in Nat, Clean(c), PeMoves(Zero, FALSE),
           D + 2 * ADD_STAGES < c
    PROVE  /\ Moved(acc, acc', acc[ADD_STAGES], ADD_STAGES)
           /\ \A t : Load(t, acc') = Load(t, acc)
<1> USE StageNumbers, Depth
<1>1. sumdots[ADD_STAGES] = EmptyBag
  BY DEF Clean
<1>2. IsABag(acc[ADD_STAGES])
  BY DEF PeType, SumChain
<1>3. Moved(acc, acc', acc[ADD_STAGES], ADD_STAGES)
  <2>1. acc[ADD_STAGES] (+) sumdots[ADD_STAGES] = acc[ADD_STAGES]
    BY <1>1, <1>2, EmptyAdds
  <2>2. QED
    BY <2>1 DEF PeMoves
<1>4. ASSUME NEW t PROVE Load(t, acc') = Load(t, acc)
  <2>1. SumChain(acc, ADD_STAGES) /\ SumChain(acc', ADD_STAGES)
    BY MovesType DEF PeType
  <2>2. /\ Load(t, acc) \in Nat /\ Load(t, acc') \in Nat
        /\ CopiesOf(t, acc[ADD_STAGES]) \in Nat
    BY <2>1, LoadNat
  <2>3. Load(t, acc') + CopiesOf(t, acc[ADD_STAGES])
          = CopiesOf(t, acc[ADD_STAGES]) + Load(t, acc)
    BY <1>2, <1>3, <2>1, LoadMoves
  <2>4. QED
    BY <2>2, <2>3
<1>5. QED
  BY <1>3, <1>4

LEMMA MovesRotated ==
    ASSUME PeType, Latencies, NEW c \in Nat, Clean(c), Rotated(c),
           PeMoves(Zero, FALSE)
    PROVE  Rotated(c + 1)'
<1> USE StageNumbers, Depth
<1> SUFFICES ASSUME NEW i \in 1..TREE_TAPS, D + 2 * ADD_STAGES + i < c + 1
             PROVE  tree_in'[i] = acc'[i]
  BY DEF Rotated
<1>1. Moved(acc, acc', acc[ADD_STAGES], ADD_STAGES)
  <2>1. D + 2 * ADD_STAGES < c
    OBVIOUS
  <2>2. QED
    BY <2>1, MovesRotates
<1>2. tree_in'[i] = IF i = 1 THEN acc[ADD_STAGES] ELSE tree_in[i - 1]
  BY DEF PeMoves, Moved
<1>3. i \in 1..ADD_STAGES
  BY DEF Latencies, TREE_TAPS
<1>4. acc'[i] = IF i = 1 THEN acc[ADD_STAGES] ELSE acc[i - 1]
  BY <1>1, <1>3 DEF Moved
<1>5. i # 1 => tree_in[i - 1] = acc[i - 1]
  <2> SUFFICES ASSUME i # 1 PROVE tree_in[i - 1] = acc[i - 1]
    OBVIOUS
  <2>1. i - 1 \in 1..TREE_TAPS /\ D + 2 * ADD_STAGES + (i - 1) < c
    OBVIOUS
  <2>2. QED
    BY <2>1 DEF Rotated
<1>6. QED
  BY <1>2, <1>4, <1>5

(* The accumulator has as many registers as the tree has inputs: its load  *)
(* is the sum over them.                                                   *)
LEMMA LoadEight ==
    ASSUME NEW c, SumChain(c, 8), NEW t
    PROVE  Load(t, c) = ((CopiesOf(t, c[7]) + CopiesOf(t, c[6]))
                         + (CopiesOf(t, c[5]) + CopiesOf(t, c[4])))
                        + ((CopiesOf(t, c[3]) + CopiesOf(t, c[2]))
                           + (CopiesOf(t, c[1]) + CopiesOf(t, c[8])))
<1> DEFINE g == [i \in 1..8 |-> CopiesOf(t, c[i])]
<1>0. PICK n \in Nat \ {0} : n = 8
  OBVIOUS
<1>1. /\ Load(t, c) = SumTo([i \in 1..n |-> CopiesOf(t, c[i])], n)
      /\ \A i \in 1..n : CopiesOf(t, c[i]) \in Nat
  <2>1. SumChain(c, n)
    BY <1>0
  <2>2. QED
    BY <2>1, LoadType
<1>2. /\ Load(t, c) = SumTo(g, 8)
      /\ \A i \in 1..8 : g[i] = CopiesOf(t, c[i]) /\ CopiesOf(t, c[i]) \in Nat
  BY <1>0, <1>1
<1> HIDE DEF g
<1>3. SumTo(g, 0) = 0 /\ \A m \in Nat : SumTo(g, m + 1) = SumTo(g, m) + g[m + 1]
  BY SumToDef
<1>4. /\ SumTo(g, 1) = SumTo(g, 0) + g[1] /\ SumTo(g, 2) = SumTo(g, 1) + g[2]
      /\ SumTo(g, 3) = SumTo(g, 2) + g[3] /\ SumTo(g, 4) = SumTo(g, 3) + g[4]
  <2>1. /\ SumTo(g, 0 + 1) = SumTo(g, 0) + g[0 + 1]
        /\ SumTo(g, 1 + 1) = SumTo(g, 1) + g[1 + 1]
        /\ SumTo(g, 2 + 1) = SumTo(g, 2) + g[2 + 1]
        /\ SumTo(g, 3 + 1) = SumTo(g, 3) + g[3 + 1]
    BY <1>3
  <2>2. QED
    BY <2>1
<1>5. /\ SumTo(g, 5) = SumTo(g, 4) + g[5] /\ SumTo(g, 6) = SumTo(g, 5) + g[6]
      /\ SumTo(g, 7) = SumTo(g, 6) + g[7] /\ SumTo(g, 8) = SumTo(g, 7) + g[8]
  <2>1. /\ SumTo(g, 4 + 1) = SumTo(g, 4) + g[4 + 1]
        /\ SumTo(g, 5 + 1) = SumTo(g, 5) + g[5 + 1]
        /\ SumTo(g, 6 + 1) = SumTo(g, 6) + g[6 + 1]
        /\ SumTo(g, 7 + 1) = SumTo(g, 7) + g[7 + 1]
    BY <1>3
  <2>2. QED
    BY <2>1
<1>6. /\ g[1] \in Nat /\ g[2] \in Nat /\ g[3] \in Nat /\ g[4] \in Nat
      /\ g[5] \in Nat /\ g[6] \in Nat /\ g[7] \in Nat /\ g[8] \in Nat
  BY <1>2
<1>7. SumTo(g, 8) = ((g[7] + g[6]) + (g[5] + g[4])) + ((g[3] + g[2]) + (g[1] + g[8]))
  BY <1>3, <1>4, <1>5, <1>6
<1>8. QED
  BY <1>2, <1>7

(* Each edge takes the sum one stage further down the tree.                *)
LEMMA MovesSummed ==
    ASSUME PeType, Latencies, NEW c \in Nat, Clean(c), Rotated(c), Summed(c),
           PeMoves(Zero, FALSE)
    PROVE  Summed(c + 1)'
<1> USE StageNumbers, Depth
<1> SUFFICES ASSUME NEW s \in 1 .. 3 * ADD_STAGES,
                    s + D + 3 * ADD_STAGES <= c + 1, NEW t
             PROVE  StageLoad(t, s)' = Load(t, acc)
  <2>1. D + 2 * ADD_STAGES < c => \A t : Load(t, acc') = Load(t, acc)
    BY MovesRotates
  <2>2. \A s \in 1 .. 3 * ADD_STAGES :
          s + D + 3 * ADD_STAGES <= c + 1 => D + 2 * ADD_STAGES < c
    OBVIOUS
  <2>3. QED
    BY <2>1, <2>2 DEF Summed
<1>1. ADD_STAGES = 8 /\ TREE_TAPS = 7
  BY DEF Latencies, TREE_TAPS
<1>2. /\ \A k \in 1..4 : SumChain(level1[k], 8)
      /\ \A k \in 1..2 : SumChain(level2[k], 8)
      /\ SumChain(acc, 8) /\ SumChain(tree_in, 7)
  BY <1>1 DEF PeType
<1>3. s # 1 => StageLoad(t, s - 1) = Load(t, acc)
  <2> SUFFICES ASSUME s # 1 PROVE StageLoad(t, s - 1) = Load(t, acc)
    OBVIOUS
  <2>1. s - 1 \in 1 .. 3 * ADD_STAGES /\ (s - 1) + D + 3 * ADD_STAGES <= c
    OBVIOUS
  <2>2. QED
    BY <2>1 DEF Summed
<1>4. CASE s = 1
  <2>1. /\ level1'[1][1] = tree_in[7] (+) tree_in[6]
        /\ level1'[2][1] = tree_in[5] (+) tree_in[4]
        /\ level1'[3][1] = tree_in[3] (+) tree_in[2]
        /\ level1'[4][1] = tree_in[1] (+) acc[8]
    BY <1>1 DEF PeMoves, Moved
  <2>2. \A i \in 1..7 : tree_in[i] = acc[i]
    BY <1>1, <1>4 DEF Rotated
  <2>3. \A i \in 1..8 : IsABag(acc[i])
    BY <1>2 DEF SumChain
  <2>4. /\ CopiesOf(t, level1'[1][1]) = CopiesOf(t, acc[7]) + CopiesOf(t, acc[6])
        /\ CopiesOf(t, level1'[2][1]) = CopiesOf(t, acc[5]) + CopiesOf(t, acc[4])
        /\ CopiesOf(t, level1'[3][1]) = CopiesOf(t, acc[3]) + CopiesOf(t, acc[2])
        /\ CopiesOf(t, level1'[4][1]) = CopiesOf(t, acc[1]) + CopiesOf(t, acc[8])
    BY <2>1, <2>2, <2>3, CountSum
  <2>5. StageLoad(t, s)' = (CopiesOf(t, level1'[1][1]) + CopiesOf(t, level1'[2][1]))
                           + (CopiesOf(t, level1'[3][1]) + CopiesOf(t, level1'[4][1]))
    BY <1>4, <1>1 DEF StageLoad
  <2>6. Load(t, acc) = ((CopiesOf(t, acc[7]) + CopiesOf(t, acc[6]))
                        + (CopiesOf(t, acc[5]) + CopiesOf(t, acc[4])))
                       + ((CopiesOf(t, acc[3]) + CopiesOf(t, acc[2]))
                          + (CopiesOf(t, acc[1]) + CopiesOf(t, acc[8])))
    BY <1>2, LoadEight
  <2>7. QED
    BY <2>4, <2>5, <2>6
<1>5. CASE s \in 2..8
  <2>1. \A k \in 1..4 : level1'[k][s] = level1[k][s - 1]
    <3>1. /\ level1'[1][s] = level1[1][s - 1] /\ level1'[2][s] = level1[2][s - 1]
          /\ level1'[3][s] = level1[3][s - 1] /\ level1'[4][s] = level1[4][s - 1]
      BY <1>1, <1>5 DEF PeMoves, Moved
    <3>2. QED
      BY <3>1
  <2>2. QED
    BY <1>1, <1>3, <1>5, <2>1 DEF StageLoad
<1>6. CASE s = 9
  <2>1. /\ level2'[1][1] = level1[1][8] (+) level1[2][8]
        /\ level2'[2][1] = level1[3][8] (+) level1[4][8]
    BY <1>1 DEF PeMoves, Moved
  <2>2. \A k \in 1..4 : IsABag(level1[k][8])
    BY <1>2 DEF SumChain
  <2>3. /\ CopiesOf(t, level2'[1][1])
             = CopiesOf(t, level1[1][8]) + CopiesOf(t, level1[2][8])
        /\ CopiesOf(t, level2'[2][1])
             = CopiesOf(t, level1[3][8]) + CopiesOf(t, level1[4][8])
    BY <2>1, <2>2, CountSum
  <2>4. /\ StageLoad(t, s)' = CopiesOf(t, level2'[1][1]) + CopiesOf(t, level2'[2][1])
        /\ StageLoad(t, s - 1)
             = CopiesOf(t, level1[1][8]) + CopiesOf(t, level1[2][8])
               + (CopiesOf(t, level1[3][8]) + CopiesOf(t, level1[4][8]))
    BY <1>1, <1>6 DEF StageLoad
  <2>5. QED
    BY <1>3, <1>6, <2>3, <2>4
<1>7. CASE s \in 10..16
  <2>1. s - 8 \in 2..8
    BY <1>7
  <2>2. /\ level2'[1][s - 8] = level2[1][s - 8 - 1]
        /\ level2'[2][s - 8] = level2[2][s - 8 - 1]
    BY <1>1, <2>1 DEF PeMoves, Moved
  <2>3. s - 8 - 1 = s - 1 - 8
    OBVIOUS
  <2>4. QED
    BY <1>1, <1>3, <1>7, <2>2, <2>3 DEF StageLoad
<1>8. CASE s = 17
  <2>1. level3'[1] = level2[1][8] (+) level2[2][8]
    BY <1>1 DEF PeMoves, Moved
  <2>2. IsABag(level2[1][8]) /\ IsABag(level2[2][8])
    BY <1>2 DEF SumChain
  <2>3. CopiesOf(t, level3'[1])
          = CopiesOf(t, level2[1][8]) + CopiesOf(t, level2[2][8])
    BY <2>1, <2>2, CountSum
  <2>4. /\ StageLoad(t, s)' = CopiesOf(t, level3'[1])
        /\ StageLoad(t, s - 1)
             = CopiesOf(t, level2[1][8]) + CopiesOf(t, level2[2][8])
    BY <1>1, <1>8 DEF StageLoad
  <2>5. QED
    BY <1>3, <1>8, <2>3, <2>4
<1>9. CASE s \in 18..24
  <2>1. s - 16 \in 2..8
    BY <1>9
  <2>2. level3'[s - 16] = level3[s - 16 - 1]
    BY <1>1, <2>1 DEF PeMoves, Moved
  <2>3. s - 16 - 1 = s - 1 - 16
    OBVIOUS
  <2>4. QED
    BY <1>1, <1>3, <1>9, <2>2, <2>3 DEF StageLoad
<1>10. QED
  <2>1. s \in 1..24
    BY <1>1
  <2>2. QED
    BY <2>1, <1>4, <1>5, <1>6, <1>7, <1>8, <1>9

(* While tick is high or yet to come, no square is past the multiplier.    *)
LEMMA MovesShallow ==
    ASSUME PeType, Aligned, NEW k \in Nat, k < MULT_STAGES, Shallow(k),
           NEW x, NEW tk, PeMoves(x, tk)
    PROVE  Shallow(k + 1)'
<1> USE StageNumbers
<1> SUFFICES ASSUME NEW l \in Lane
             PROVE  /\ \A i \in 1..MULT_STAGES : i > k + 1 => mult1'[l][i] = Zero
                    /\ \A i \in 1..PIP_STAGES : pip'[l][i] = Zero
                    /\ \A i \in 1..MULT_STAGES : mult2'[l][i] = EmptyBag
  BY DEF Shallow
<1>1. /\ \A i \in 1..MULT_STAGES : i > k => mult1[l][i] = Zero
      /\ \A i \in 1..PIP_STAGES : pip[l][i] = Zero
      /\ \A i \in 1..MULT_STAGES : mult2[l][i] = EmptyBag
  BY DEF Shallow
<1>2. ASSUME NEW i \in 1..MULT_STAGES, i > k + 1 PROVE mult1'[l][i] = Zero
  <2>1. mult1'[l][i] = mult1[l][i - 1]
    BY <1>2 DEF PeMoves, Moved
  <2>2. QED
    BY <1>1, <1>2, <2>1
<1>3. ASSUME NEW i \in 1..PIP_STAGES PROVE pip'[l][i] = Zero
  <2>1. pip'[l][i] = IF i = 1 THEN (IF tk THEN Zero ELSE mult1[l][MULT_STAGES])
                              ELSE pip[l][i - 1]
    BY DEF PeMoves, Moved
  <2>2. QED
    BY <1>1, <2>1
<1>4. ASSUME NEW i \in 1..MULT_STAGES PROVE mult2'[l][i] = EmptyBag
  <2>1. mult2'[l][i] = IF i = 1 THEN Prod(l, pip[l][PIP_STAGES], cos[l][CORDIC_STAGES])
                                ELSE mult2[l][i - 1]
    BY DEF PeMoves, Moved
  <2>2. pip[l][PIP_STAGES] = Zero
    BY <1>1
  <2>3. QED
    BY <1>1, <2>1, <2>2, NoTerms
<1>5. QED
  BY <1>2, <1>3, <1>4

-----------------------------------------------------------------------------
(* Edges with clk_en low, and resets.                                      *)

\* No run is open: everything up to the accumulator is empty.
Settled == Clean(D + 2 * ADD_STAGES + 1)

(* What a settled pipeline holds.                                          *)
LEMMA SettledIsEmpty ==
    ASSUME Settled
    PROVE  /\ \A l \in Lane :
                /\ \A i \in 1..HALF_STAGES : half[l][i] = Zero
                /\ \A i \in 1..MULT_STAGES : mult1[l][i] = Zero
                /\ \A i \in 1..PIP_STAGES : pip[l][i] = Zero
                /\ \A i \in 1..MULT_STAGES : mult2[l][i] = EmptyBag
                /\ \A i \in 1..ADD_STAGES : add[l][i] = EmptyBag
           /\ \A i \in 1..ADD_STAGES : sumdots[i] = EmptyBag
BY StageNumbers, Depth DEF Settled, Clean

LEMMA EmptyIsSettled ==
    ASSUME \A l \in Lane :
             /\ \A i \in 1..HALF_STAGES : half[l][i] = Zero
             /\ \A i \in 1..MULT_STAGES : mult1[l][i] = Zero
             /\ \A i \in 1..PIP_STAGES : pip[l][i] = Zero
             /\ \A i \in 1..MULT_STAGES : mult2[l][i] = EmptyBag
             /\ \A i \in 1..ADD_STAGES : add[l][i] = EmptyBag,
           \A i \in 1..ADD_STAGES : sumdots[i] = EmptyBag
    PROVE  Settled
BY DEF Settled, Clean

(* A chain that has cleared.                                               *)
LEMMA EmptyChain ==
    ASSUME NEW n \in Nat, NEW v
    PROVE  IsChain(Empty(n, v), n) /\ \A i \in 1..n : Empty(n, v)[i] = v
BY DEF IsChain, Empty

(* A disabled edge between two runs clears only what is empty already.     *)
LEMMA DisabledEdge ==
    ASSUME Latencies, PeType, Aligned, Settled, EdgeDisabled
    PROVE  /\ PeType'
           /\ Aligned'
           /\ Settled'
           /\ \A t : InPipeline(t)' = InPipeline(t)
           /\ \A k : Shallow(k)'
<1> USE StageNumbers
<1>1. /\ mult1' = mult1 /\ mult2' = mult2 /\ add' = add /\ sumdots' = sumdots
      /\ acc' = acc /\ level1' = level1 /\ level2' = level2 /\ level3' = level3
  BY DEF EdgeDisabled
<1>2. ASSUME NEW l \in Lane
      PROVE  half'[l] = half[l] /\ pip'[l] = pip[l] /\ cos'[l] = cos[l]
  <2>1. /\ half'[l] = [i \in 1..HALF_STAGES |-> Zero]
        /\ pip'[l] = [i \in 1..PIP_STAGES |-> Zero]
        /\ cos'[l] = [i \in 1..CORDIC_STAGES |-> Zero]
    BY DEF EdgeDisabled, Empty
  <2>2. /\ \A i \in 1..HALF_STAGES : half[l][i] = Zero
        /\ \A i \in 1..PIP_STAGES : pip[l][i] = Zero
        /\ \A i \in 1..MULT_STAGES : mult1[l][i] = Zero
    BY SettledIsEmpty
  <2>3. \A i \in 1..CORDIC_STAGES : cos[l][i] = Zero
    <3>1. ASSUME NEW i \in 1..CORDIC_STAGES PROVE cos[l][i] = Zero
      <4>1. CASE i <= MULT_STAGES
        BY <2>2, <4>1 DEF Aligned
      <4>2. CASE i > MULT_STAGES
        <5>1. PICK k \in 1..PIP_STAGES : i = MULT_STAGES + k
          <6>1. i - MULT_STAGES \in 1..PIP_STAGES
            BY <4>2 DEF Latencies
          <6>2. QED
            BY <6>1
        <5>2. cos[l][MULT_STAGES + k] = pip[l][k]
          BY DEF Aligned
        <5>3. QED
          BY <2>2, <5>1, <5>2
      <4>3. QED
        BY <4>1, <4>2
    <3>2. QED
      BY <3>1
  <2>4. /\ IsChain(half[l], HALF_STAGES) /\ IsChain(pip[l], PIP_STAGES)
        /\ IsChain(cos[l], CORDIC_STAGES)
    BY DEF PeType
  <2>5. /\ half[l] = [i \in 1..HALF_STAGES |-> Zero]
        /\ pip[l] = [i \in 1..PIP_STAGES |-> Zero]
        /\ cos[l] = [i \in 1..CORDIC_STAGES |-> Zero]
    BY <2>2, <2>3, <2>4 DEF IsChain
  <2>6. QED
    BY <2>1, <2>5
<1>3. SumChain(tree_in', TREE_TAPS)
  BY EmptyChain, CountEmpty DEF EdgeDisabled, SumChain
<1>4. PeType'
  BY <1>1, <1>2, <1>3 DEF PeType
<1>5. Aligned'
  BY <1>1, <1>2 DEF Aligned
<1>6. Settled'
  BY <1>1, <1>2 DEF Settled, Clean
<1>7. \A t : InPipeline(t)' = InPipeline(t)
  BY <1>1, <1>2 DEF InPipeline, InLane, Lane
<1>8. \A k : Shallow(k)'
  BY <1>1, <1>2, SettledIsEmpty DEF Shallow
<1>9. QED
  BY <1>4, <1>5, <1>6, <1>7, <1>8

(* Registers that hold nothing count for nothing.                          *)
LEMMA NothingCounts ==
    ASSUME NEW n \in Nat \ {0}, NEW c, NEW t, NEW l
    PROVE  /\ (\A i \in 1..n : c[i] = Zero)
                => HalfSum(t, l, c, n) = 0 /\ ProdSum(t, l, c, n) = 0
           /\ SumChain(c, n) /\ (\A i \in 1..n : c[i] = EmptyBag) => Load(t, c) = 0
<1>1. ASSUME \A i \in 1..n : c[i] = Zero
      PROVE  HalfSum(t, l, c, n) = 0 /\ ProdSum(t, l, c, n) = 0
  <2> DEFINE g == [i \in 1..n |-> CopiesOf(t, Half(l, c[i]))]
             h == [i \in 1..n |-> CopiesOf(t, Prod(l, c[i], c[i]))]
  <2>1. \A i \in 1..n : g[i] = 0 /\ h[i] = 0
    BY <1>1, CountEmpty, NoTerms
  <2> HIDE DEF g, h
  <2>2. SumTo(g, n) = 0 /\ SumTo(h, n) = 0
    BY <2>1, SumZero
  <2>3. QED
    BY <2>2 DEF g, h, HalfSum, ProdSum
<1>2. ASSUME SumChain(c, n), \A i \in 1..n : c[i] = EmptyBag
      PROVE  Load(t, c) = 0
  <2> DEFINE g == [i \in 1..n |-> CopiesOf(t, c[i])]
  <2>1. \A i \in 1..n : g[i] = 0
    BY <1>2, CountEmpty
  <2>2. Load(t, c) = SumTo(g, n)
    BY <1>2, LoadType
  <2> HIDE DEF g
  <2>3. QED
    BY <2>1, <2>2, SumZero
<1>3. QED
  BY <1>1, <1>2

(* The empty pipeline.                                                     *)
LEMMA EmptyPipeline ==
    ASSUME Latencies, PeInit
    PROVE  PeType /\ Aligned /\ Settled /\ \A t : InPipeline(t) = 0
<1> USE StageNumbers
<1>1. ASSUME NEW l \in Lane
      PROVE  /\ IsChain(half[l], HALF_STAGES) /\ IsChain(mult1[l], MULT_STAGES)
             /\ IsChain(pip[l], PIP_STAGES) /\ IsChain(cos[l], CORDIC_STAGES)
             /\ SumChain(mult2[l], MULT_STAGES) /\ SumChain(add[l], ADD_STAGES)
  <2>1. /\ half[l] = Empty(HALF_STAGES, Zero) /\ mult1[l] = Empty(MULT_STAGES, Zero)
        /\ pip[l] = Empty(PIP_STAGES, Zero) /\ cos[l] = Empty(CORDIC_STAGES, Zero)
        /\ mult2[l] = Empty(MULT_STAGES, EmptyBag)
        /\ add[l] = Empty(ADD_STAGES, EmptyBag)
    BY DEF PeInit
  <2>2. QED
    BY <2>1, EmptyChain, CountEmpty DEF SumChain
<1>2. /\ SumChain(sumdots, ADD_STAGES) /\ SumChain(acc, ADD_STAGES)
      /\ SumChain(tree_in, TREE_TAPS) /\ SumChain(level3, ADD_STAGES)
  BY EmptyChain, CountEmpty DEF PeInit, SumChain
<1>3. \A k \in 1..4 : SumChain(level1[k], ADD_STAGES)
  BY EmptyChain, CountEmpty DEF PeInit, SumChain
<1>4. \A k \in 1..2 : SumChain(level2[k], ADD_STAGES)
  BY EmptyChain, CountEmpty DEF PeInit, SumChain
<1>5. PeType
  BY <1>1, <1>2, <1>3, <1>4 DEF PeType
<1>6. /\ \A l \in Lane :
           /\ \A i \in 1..HALF_STAGES : half[l][i] = Zero
           /\ \A i \in 1..MULT_STAGES : mult1[l][i] = Zero
           /\ \A i \in 1..PIP_STAGES : pip[l][i] = Zero
           /\ \A i \in 1..MULT_STAGES : mult2[l][i] = EmptyBag
           /\ \A i \in 1..ADD_STAGES : add[l][i] = EmptyBag
      /\ \A i \in 1..ADD_STAGES : sumdots[i] = EmptyBag
      /\ \A i \in 1..ADD_STAGES : acc[i] = EmptyBag
  BY EmptyChain DEF PeInit
<1>7. Settled
  BY <1>6, EmptyIsSettled
<1>8. Aligned
  <2>1. CORDIC_STAGES = MULT_STAGES + PIP_STAGES
    BY DEF Latencies
  <2>2. \A l \in Lane : \A i \in 1..CORDIC_STAGES : cos[l][i] = Zero
    BY EmptyChain DEF PeInit
  <2>3. \A i \in 1..MULT_STAGES : i \in 1..CORDIC_STAGES
    BY <2>1
  <2>4. \A i \in 1..PIP_STAGES : MULT_STAGES + i \in 1..CORDIC_STAGES
    BY <2>1
  <2>5. QED
    BY <1>6, <2>2, <2>3, <2>4 DEF Aligned
<1>9. ASSUME NEW t PROVE InPipeline(t) = 0
  <2>1. ASSUME NEW l \in Lane PROVE InLane(t, l) = 0
    <3>1. /\ HalfSum(t, l, half[l], HALF_STAGES) = 0
          /\ ProdSum(t, l, mult1[l], MULT_STAGES) = 0
          /\ ProdSum(t, l, pip[l], PIP_STAGES) = 0
      BY <1>6, NothingCounts
    <3>2. Load(t, mult2[l]) = 0 /\ Load(t, add[l]) = 0
      BY <1>1, <1>6, NothingCounts
    <3>3. QED
      BY <3>1, <3>2 DEF InLane
  <2>2. Load(t, sumdots) = 0 /\ Load(t, acc) = 0
    BY <1>2, <1>6, NothingCounts
  <2>3. QED
    BY <2>1, <2>2 DEF InPipeline, Lane
<1>10. QED
  BY <1>5, <1>7, <1>8, <1>9

-----------------------------------------------------------------------------
(* The invariant of the pipeline, and each branch of the controller.        *)

\* The instruction on the bus is not the last of its run before the start-up
\* window is over.
Late == clk_en /\ N = 1 => run >= 1 /\ 2 * run >= INIT_BOUND2

\* Within the window the counter has seen two edges of every instruction.
Paced == \/ COUNT_INIT >= INIT_BOUND2
         \/ COUNT_INIT >= 2 * run + (IF done THEN 1 ELSE 0)

\* Where the pairs of a run are, seen from the controller.
Placed ==
    /\ state = "IDLE" => Settled
    /\ state = "PROCESS" => Paced
    /\ state = "PROCESS" /\ (tick \/ COUNT_INIT < INIT_BOUND2)
         => Shallow(COUNT_INIT)
    /\ state = "FINISH"
         => ~tick /\ Clean(COUNT) /\ Rotated(COUNT) /\ Summed(COUNT)

PipeInv == PeType /\ Aligned /\ Conserved /\ Placed

(* tick never drops a square or a product.                                 *)
LEMMA TickDropsNothing ==
    ASSUME Latencies, IndInv, PipeInv, clk_en_use, tick
    PROVE  \A l \in Lane : /\ mult1[l][MULT_STAGES] = Zero
                           /\ mult2[l][MULT_STAGES] = EmptyBag
<1> USE StageNumbers
<1>1. state = "PROCESS"
  BY DEF IndInv, InStep, TypeOK, StateSet, PipeInv, Placed
<1>2. Shallow(COUNT_INIT)
  BY <1>1 DEF PipeInv, Placed
<1>3. COUNT_INIT < MULT_STAGES
  BY BoundAssumption DEF IndInv, TypeOK, Latencies
<1>4. QED
  BY <1>2, <1>3 DEF Shallow

(* What a longer sequence of pairs stands for.                             *)
LEMMA OwedAppend ==
    ASSUME NEW s, s \in Seq(Operand), NEW a, a \in Operand, NEW t
    PROVE  Owed(t, Append(s, a)) = Owed(t, s) + Worth(t, a)
<1> DEFINE n  == Len(s)
           s2 == Append(s, a)
           g  == [i \in 1..n |-> Worth(t, s[i])]
           h  == [i \in 1..Len(s2) |-> Worth(t, s2[i])]
<1>1. n \in Nat /\ Len(s2) = n + 1 /\ s2[n + 1] = a
      /\ \A i \in 1..n : s2[i] = s[i]
  OBVIOUS
<1>2. Owed(t, s) = SumTo(g, n) /\ Owed(t, s2) = SumTo(h, n + 1)
  BY <1>1 DEF Owed
<1>3. /\ \A i \in 1..n : h[i] = g[i]
      /\ h[n + 1] = Worth(t, a)
  BY <1>1
<1> HIDE DEF n, g, h, s2
<1>4. SumTo(h, n) = SumTo(g, n)
  BY <1>1, <1>3, SumEqual
<1>5. SumTo(h, n + 1) = SumTo(h, n) + h[n + 1]
  BY <1>1, SumToDef
<1>6. QED
  BY <1>2, <1>3, <1>4, <1>5 DEF s2

(* What the pipeline samples is what it owes.                              *)
LEMMA SampledIsOwed ==
    ASSUME IndInv, Observe, clk_en_use, NEW t
    PROVE  Owed(t, taken') = Owed(t, taken) + Worth(t, x_in)
<1>0. taken \in Seq(Operand) /\ x_in \in Value
  BY DEF IndInv, TypeOK
<1>1. CASE x_in = Zero
  <2>1. taken' = taken
    BY <1>1, ObserveNothing
  <2>2. Worth(t, x_in) = 0
    BY <1>1, WorthType
  <2>3. Owed(t, taken) \in Nat
    <3> DEFINE g == [i \in 1..Len(taken) |-> Worth(t, taken[i])]
    <3>1. Len(taken) \in Nat /\ \A i \in 1..Len(taken) : g[i] \in Nat
      BY <1>0, WorthType
    <3> HIDE DEF g
    <3>2. SumTo(g, Len(taken)) \in Nat
      BY <3>1, SumType
    <3>3. QED
      BY <3>2 DEF g, Owed
  <2>4. QED
    BY <2>1, <2>2, <2>3
<1>2. CASE x_in \in Operand
  <2>1. taken' = Append(taken, x_in)
    BY <1>2, ObserveOperand
  <2>2. QED
    BY <1>0, <1>2, <2>1, OwedAppend
<1>3. QED
  BY <1>0, <1>1, <1>2 DEF Value

(* Every enabled edge keeps the chains, their alignment and the terms.     *)
LEMMA EnabledEdge ==
    ASSUME Latencies, IndInv, PipeInv, ClockEdge, clk_en_use
    PROVE  PeMoves(x_in, tick) /\ PeType' /\ Aligned' /\ Conserved'
<1>1. PeMoves(x_in, tick)
  BY EdgeMoves DEF PipeInv, ClockEdge, PeEdge
<1>2. tick => \A l \in Lane : /\ mult1[l][MULT_STAGES] = Zero
                              /\ mult2[l][MULT_STAGES] = EmptyBag
  BY TickDropsNothing
<1>3. PeType'
  BY <1>1, MovesType DEF PipeInv
<1>4. Aligned'
  BY <1>1, <1>2, MovesAligned DEF PipeInv
<1>5. ASSUME NEW t PROVE InPipeline(t)' = Owed(t, taken')
  <2>1. InPipeline(t)' = InPipeline(t) + Worth(t, x_in)
    BY <1>1, <1>2, PipelineConserves DEF PipeInv
  <2>2. Owed(t, taken') = Owed(t, taken) + Worth(t, x_in)
    BY SampledIsOwed DEF ClockEdge, Clock
  <2>3. InPipeline(t) = Owed(t, taken)
    BY DEF PipeInv, Conserved
  <2>4. QED
    BY <2>1, <2>2, <2>3
<1>6. Conserved'
  BY <1>5 DEF Conserved
<1>7. QED
  BY <1>1, <1>3, <1>4, <1>6

(* A disabled edge, at which a first instruction may open the run.         *)
LEMMA IdlePipe ==
    ASSUME Latencies, IndInv, PipeInv, ClockEdge, ~clk_en_use
    PROVE  PipeInv'
<1>1. state = "IDLE" /\ Settled /\ Closed
  BY DEF IndInv, InStep, PipeInv, Placed, Opening, Opened, Ready, Passing,
     Draining
<1>2. /\ PeType' /\ Aligned' /\ Settled'
      /\ \A t : InPipeline(t)' = InPipeline(t)
      /\ \A k : Shallow(k)'
  BY <1>1, DisabledEdge DEF PipeInv, ClockEdge, PeEdge
<1>3. Conserved'
  <2>1. taken' = taken
    BY ObserveNothing DEF ClockEdge, Clock
  <2>2. QED
    BY <1>2, <2>1 DEF PipeInv, Conserved
<1>4. Hold \/ IdleAccept
  BY <1>1 DEF ClockEdge, Clock, Controller, ProcessWait, ProcessElement,
     ProcessLast, FinishCount, FinishDone, FinishLeave
<1>5. CASE Hold
  <2>1. state' = "IDLE"
    BY <1>1, <1>5 DEF Hold, regs
  <2>2. QED
    BY <1>2, <1>3, <2>1 DEF PipeInv, Placed
<1>6. CASE IdleAccept
  <2>1. state' = "PROCESS" /\ ~done' /\ COUNT_INIT' = COUNT_INIT
    BY <1>6 DEF IdleAccept
  <2>2. CpuWait
    BY <1>1, <1>6, Zenon DEF Closed, ClockEdge, Clock, Processor, CpuGap,
       CpuComplete, IdleAccept
  <2>3. run' = 0
    BY <1>1, <2>2 DEF CpuWait, Closed
  <2>4. Paced'
    BY <2>1, <2>3 DEF Paced, IndInv, TypeOK
  <2>5. Shallow(COUNT_INIT)'
    BY <1>2, <2>1 DEF Shallow
  <2>6. QED
    BY <1>2, <1>3, <2>1, <2>4, <2>5 DEF PipeInv, Placed
<1>7. QED
  BY <1>4, <1>5, <1>6

USE DEF NextDone, NextOperand, NextInit, InWindow, DrainTime

(* In PROCESS, instruction or not, the start-up counter runs and the        *)
(* squares follow the first pairs by as many registers.                    *)
LEMMA ProcessPipe ==
    ASSUME Latencies, IndInv, PipeInv, ClockEdge, ProcessWait \/ ProcessElement
    PROVE  PipeInv'
<1>1. /\ state = "PROCESS" /\ state' = "PROCESS" /\ clk_en_use
      /\ tick' = InWindow /\ COUNT_INIT' = NextInit
  BY DEF ProcessWait, ProcessElement, CountInit, IndInv, InStep
<1>2. PeMoves(x_in, tick) /\ PeType' /\ Aligned' /\ Conserved'
  BY <1>1, EnabledEdge
<1>3. COUNT_INIT \in 0..INIT_BOUND2 /\ run \in Nat
  BY DEF IndInv, TypeOK
<1>4. COUNT_INIT < INIT_BOUND2 => COUNT_INIT' = COUNT_INIT + 1
  BY <1>1
<1>5. COUNT_INIT >= INIT_BOUND2 => COUNT_INIT' = COUNT_INIT
  BY <1>1, <1>3, BoundAssumption
<1>6. Paced'
  <2>1. Paced
    BY <1>1 DEF PipeInv, Placed
  <2>2. CASE COUNT_INIT >= INIT_BOUND2
    BY <1>5, <2>2 DEF Paced
  <2>3. CASE COUNT_INIT < INIT_BOUND2
    <3>1. COUNT_INIT >= 2 * run + (IF done THEN 1 ELSE 0)
      BY <1>3, <2>1, <2>3, BoundAssumption DEF Paced
    <3>2. \/ run' = run /\ (done' => (~done /\ clk_en) \/ done)
          \/ run' = run + 1 /\ done /\ ~done'
      <4>1. CASE ~clk_en
        <5>1. CpuGap /\ ProcessWait
          BY <4>1 DEF ClockEdge, Clock, Processor, CpuWait, CpuComplete,
             ProcessElement
        <5>2. QED
          BY <5>1 DEF CpuGap, program, ProcessWait
      <4>2. CASE clk_en /\ ~done
        <5>1. CpuWait
          BY <4>2 DEF ClockEdge, Clock, Processor, CpuGap, CpuComplete
        <5>2. QED
          BY <4>2, <5>1 DEF CpuWait
      <4>3. CASE clk_en /\ done
        <5>1. CpuComplete /\ ProcessElement
          BY <4>3 DEF ClockEdge, Clock, Processor, CpuGap, CpuWait, ProcessWait
        <5>2. QED
          BY <4>3, <5>1 DEF CpuComplete, ProcessElement
      <4>4. QED
        BY <4>1, <4>2, <4>3
    <3>3. QED
      BY <1>3, <1>4, <2>3, <3>1, <3>2, BoundAssumption DEF Paced
  <2>4. QED
    BY <1>3, <2>2, <2>3, BoundAssumption
<1>7. ASSUME tick' \/ COUNT_INIT' < INIT_BOUND2 PROVE Shallow(COUNT_INIT)'
  <2>1. COUNT_INIT < INIT_BOUND2
    BY <1>1, <1>3, <1>5, <1>7, BoundAssumption
  <2>2. PICK k \in Nat : k = COUNT_INIT /\ k < MULT_STAGES
    BY <1>3, <2>1, BoundAssumption, StageNumbers DEF Latencies
  <2>3. Shallow(k)
    BY <1>1, <2>1, <2>2 DEF PipeInv, Placed
  <2>4. Shallow(k + 1)'
    BY <1>2, <2>2, <2>3, MovesShallow DEF PipeInv
  <2>5. COUNT_INIT' = k + 1
    BY <1>4, <2>1, <2>2
  <2>6. QED
    BY <2>4, <2>5 DEF Shallow
<1>8. QED
  BY <1>1, <1>2, <1>6, <1>7 DEF PipeInv, Placed

(* The last instruction of a run finds the start-up window over.           *)
LEMMA LastPipe ==
    ASSUME Latencies, IndInv, PipeInv, Late, ClockEdge, ProcessLast
    PROVE  PipeInv'
<1>1. /\ state = "PROCESS" /\ state' = "FINISH" /\ clk_en_use /\ clk_en /\ N = 1
      /\ tick' = InWindow /\ COUNT' = COUNT
  BY DEF ProcessLast, CountInit, IndInv, InStep
<1>2. PeType' /\ Aligned' /\ Conserved'
  BY <1>1, EnabledEdge
<1>3. COUNT_INIT >= INIT_BOUND2
  BY <1>1, BoundAssumption DEF PipeInv, Placed, Paced, Late, IndInv, TypeOK
<1>4. ~tick'
  <2>1. ~InWindow
    BY <1>3, BoundAssumption DEF IndInv, TypeOK
  <2>2. QED
    BY <1>1, <2>1, Zenon
<1>5. COUNT' = 0
  BY <1>1 DEF IndInv, InStep
<1>6. Clean(COUNT)' /\ Rotated(COUNT)' /\ Summed(COUNT)'
  BY <1>5, StageNumbers, Depth DEF Clean, Rotated, Summed
<1>7. QED
  BY <1>1, <1>2, <1>4, <1>6 DEF PipeInv, Placed

(* In FINISH the emptiness, the rotation and the sum move on by one        *)
(* register at every edge, and at the end the run leaves only the          *)
(* accumulator and the tree behind.                                        *)
LEMMA FinishPipe ==
    ASSUME Latencies, IndInv, PipeInv, ClockEdge,
           FinishCount \/ FinishDone \/ FinishLeave
    PROVE  PipeInv'
<1> USE StageNumbers, Depth
<1>1. state = "FINISH" /\ clk_en_use /\ clk_en /\ Draining /\ COUNT \in Nat
  BY DelayAssumption DEF FinishCount, FinishDone, FinishLeave, IndInv, InStep,
     Closed, Opening, Opened, Ready, Passing, TypeOK
<1>2. PeMoves(x_in, tick) /\ PeType' /\ Aligned' /\ Conserved'
  BY <1>1, EnabledEdge
<1>3. /\ ~tick /\ Clean(COUNT) /\ Rotated(COUNT) /\ Summed(COUNT)
      /\ PeType
  BY <1>1 DEF PipeInv, Placed
<1>4. PICK c \in Nat : c = COUNT
  BY <1>1
<1>5. COUNT > 0 => PeMoves(Zero, FALSE)
  BY <1>1, <1>2, <1>3 DEF Draining, PeMoves
<1>6. CASE FinishCount \/ FinishDone
  <2>1. state' = "FINISH" /\ ~tick' /\ COUNT' = c + 1
    BY <1>3, <1>4, <1>6 DEF FinishCount, FinishDone
  <2>2. Clean(c + 1)' /\ Rotated(c + 1)' /\ Summed(c + 1)'
    <3>1. CASE c = 0
      <4>1. D >= 1
        OBVIOUS
      <4>2. Clean(c + 1)'
        BY <3>1, <4>1 DEF Clean
      <4>3. Rotated(c + 1)'
        BY <3>1, <4>1 DEF Rotated
      <4>4. Summed(c + 1)'
        BY <3>1, <4>1 DEF Summed
      <4>5. QED
        BY <4>2, <4>3, <4>4
    <3>2. CASE c # 0
      <4>1. Clean(c) /\ Rotated(c) /\ Summed(c) /\ PeMoves(Zero, FALSE)
        <5>1. COUNT > 0
          BY <1>4, <3>2
        <5>2. PeMoves(Zero, FALSE)
          BY <1>5, <5>1
        <5>3. Clean(c) /\ Rotated(c) /\ Summed(c)
          BY <1>3, <1>4, Zenon
        <5>4. QED
          BY <5>2, <5>3
      <4>2. QED
        BY <1>3, <4>1, MovesClean, MovesRotated, MovesSummed
    <3>3. QED
      BY <3>1, <3>2
  <2>3. Clean(COUNT)' /\ Rotated(COUNT)' /\ Summed(COUNT)'
    BY <2>1, <2>2 DEF Clean, Rotated, Summed
  <2>4. QED
    BY <1>2, <2>1, <2>3 DEF PipeInv, Placed
<1>7. CASE FinishLeave
  <2>1. state' = "IDLE" /\ COUNT = CYCLE_DELAY + 1
    BY <1>7, DelayAssumption DEF FinishLeave, IndInv, TypeOK
  <2>2. COUNT > 0 /\ D + 2 * ADD_STAGES \in Nat /\ D + 2 * ADD_STAGES <= c
    BY <1>4, <2>1, DelayAssumption DEF D, Latencies
  <2>3. Clean(D + 2 * ADD_STAGES)
    BY <1>3, <1>4, <2>2, CleanEarlier
  <2>4. Settled'
    BY <1>3, <1>5, <2>2, <2>3, MovesClean DEF Settled
  <2>5. QED
    BY <1>2, <2>1, <2>4 DEF PipeInv, Placed
<1>8. QED
  BY <1>6, <1>7

(* An edge keeps the invariant of the pipeline.                            *)
LEMMA EdgePipe == Latencies /\ IndInv /\ PipeInv /\ Late /\ ClockEdge => PipeInv'
<1> SUFFICES ASSUME Latencies, IndInv, PipeInv, Late, ClockEdge PROVE PipeInv'
  OBVIOUS
<1>1. CASE ~clk_en_use
  BY <1>1, IdlePipe
<1>2. CASE clk_en_use
  <2>1. \/ ProcessWait \/ ProcessElement \/ ProcessLast
        \/ FinishCount \/ FinishDone \/ FinishLeave
    <3>1. state # "IDLE"
      BY <1>2 DEF IndInv, InStep
    <3>2. ~Hold
      BY <3>1 DEF Hold, IndInv, InStep, Closed, Opening, Opened, Ready,
         Passing, Draining
    <3>3. QED
      BY <3>1, <3>2 DEF ClockEdge, Clock, Controller, IdleAccept
  <2>2. QED
    BY <2>1, ProcessPipe, LastPipe, FinishPipe
<1>3. QED
  BY <1>1, <1>2

(* The empty pipeline satisfies it, at power-up and after a reset.         *)
LEMMA EmptyPipe == Latencies /\ PeInit /\ taken = <<>> /\ state = "IDLE" => PipeInv
<1> SUFFICES ASSUME Latencies, PeInit, taken = <<>>, state = "IDLE" PROVE PipeInv
  OBVIOUS
<1>1. PeType /\ Aligned /\ Settled /\ \A t : InPipeline(t) = 0
  BY EmptyPipeline
<1>2. \A t : Owed(t, taken) = 0
  <2>1. Len(taken) = 0
    OBVIOUS
  <2>2. QED
    BY <2>1, SumToDef DEF Owed
<1>3. QED
  BY <1>1, <1>2 DEF PipeInv, Conserved, Placed

LEMMA ResetPipe == Latencies /\ Reset => PipeInv'
<1>1. (Latencies /\ PeInit /\ taken = <<>> /\ state = "IDLE" => PipeInv)'
  BY EmptyPipe, PTL
<1>2. Latencies' <=> Latencies
  BY DEF Latencies
<1>3. Reset => PeInit' /\ taken' = <<>> /\ state' = "IDLE"
  BY DEF Reset, PeAclr, PeInit, Aclr, ResetController
<1>4. QED
  BY <1>1, <1>2, <1>3

LEMMA StutterPipe == PipeInv /\ UNCHANGED accVars => PipeInv'
BY DEF accVars, ciVars, peVars, PipeInv, PeType, Aligned, Conserved, InPipeline,
   InLane, Placed, Settled, Paced, Shallow, Clean, Rotated, Summed, StageLoad

(* The program of AccSpec keeps to Late.                                   *)
LEMMA LateStep ==
    EnoughBefore /\ IndInv /\ Late /\ [AccNext]_accVars => Late'
<1> SUFFICES ASSUME EnoughBefore, IndInv, Late, [AccNext]_accVars,
                    clk_en', N' = 1
             PROVE  run' >= 1 /\ 2 * run' >= INIT_BOUND2
  BY DEF Late
<1>1. CASE CpuWait
  BY <1>1 DEF CpuWait, Late
<1>2. CASE (BusIdle \/ Issue) /\ Processor
  <2>1. Issue
    BY <1>2 DEF BusIdle
  <2>2. run' \in Nat
    BY <1>2, BusStep DEF IndInv
  <2>3. run' >= MinBefore
    BY <2>1 DEF Issue
  <2>4. QED
    <3>1. PICK r \in Nat : r = run'
      BY <2>2
    <3>2. r >= MinBefore
      BY <2>3, <3>1
    <3>3. r >= 1 /\ 2 * r >= INIT_BOUND2
      BY <3>2, ProgramAssumption, BoundAssumption DEF EnoughBefore
    <3>4. QED
      BY <3>1, <3>3
<1>3. CASE UNCHANGED accVars
  BY <1>3 DEF accVars, ciVars, Late
<1>4. ~Reset
  BY DEF Reset, Aclr, BusIdle
<1>5. QED
  BY <1>1, <1>2, <1>3, <1>4 DEF AccNext, Edge, ClockEdge, Clock, Processor,
     CpuGap, CpuComplete

-----------------------------------------------------------------------------
(* Terms and sums of pairs.                                                *)

(* Which terms a pair forms: its halves and its own products.              *)
LEMMA HalfTerm ==
    ASSUME NEW l, NEW a, a # Zero, NEW t, t = <<"half", l, a>>, NEW k, NEW b
    PROVE  /\ CopiesOf(t, Half(k, b)) = IF k = l /\ b = a THEN 1 ELSE 0
           /\ \A c : CopiesOf(t, Prod(k, b, c)) = 0
<1>1. CopiesOf(t, Half(k, b)) = IF k = l /\ b = a THEN 1 ELSE 0
  <2>1. CASE b = Zero
    BY <2>1, CountEmpty DEF Half
  <2>2. CASE b # Zero
    <3>1. CopiesOf(t, Half(k, b)) = IF t = <<"half", k, b>> THEN 1 ELSE 0
      BY <2>2, CountSingle DEF Half
    <3>2. t = <<"half", k, b>> <=> k = l /\ b = a
      OBVIOUS
    <3>3. QED
      BY <3>1, <3>2
  <2>3. QED
    BY <2>1, <2>2
<1>2. ASSUME NEW c PROVE CopiesOf(t, Prod(k, b, c)) = 0
  <2>1. CASE b = Zero
    BY <2>1, CountEmpty DEF Prod
  <2>2. CASE b # Zero
    <3>1. CopiesOf(t, Prod(k, b, c)) = IF t = <<"prod", k, b, c>> THEN 1 ELSE 0
      BY <2>2, CountSingle DEF Prod
    <3>2. t # <<"prod", k, b, c>>
      <4>1. t[1] = "half" /\ <<"prod", k, b, c>>[1] = "prod"
        OBVIOUS
      <4>2. QED
        BY <4>1
    <3>3. QED
      BY <3>1, <3>2
  <2>3. QED
    BY <2>1, <2>2
<1>3. QED
  BY <1>1, <1>2

LEMMA ProdTerm ==
    ASSUME NEW l, NEW a, a # Zero, NEW t, t = <<"prod", l, a, a>>, NEW k, NEW b
    PROVE  /\ CopiesOf(t, Prod(k, b, b)) = IF k = l /\ b = a THEN 1 ELSE 0
           /\ CopiesOf(t, Half(k, b)) = 0
<1>1. CopiesOf(t, Prod(k, b, b)) = IF k = l /\ b = a THEN 1 ELSE 0
  <2>1. CASE b = Zero
    BY <2>1, CountEmpty DEF Prod
  <2>2. CASE b # Zero
    <3>1. CopiesOf(t, Prod(k, b, b)) = IF t = <<"prod", k, b, b>> THEN 1 ELSE 0
      BY <2>2, CountSingle DEF Prod
    <3>2. t = <<"prod", k, b, b>> <=> k = l /\ b = a
      OBVIOUS
    <3>3. QED
      BY <3>1, <3>2
  <2>3. QED
    BY <2>1, <2>2
<1>2. CopiesOf(t, Half(k, b)) = 0
  <2>1. CASE b = Zero
    BY <2>1, CountEmpty DEF Half
  <2>2. CASE b # Zero
    <3>1. CopiesOf(t, Half(k, b)) = IF t = <<"half", k, b>> THEN 1 ELSE 0
      BY <2>2, CountSingle DEF Half
    <3>2. t # <<"half", k, b>>
      <4>1. t[1] = "prod" /\ <<"half", k, b>>[1] = "half"
        OBVIOUS
      <4>2. QED
        BY <4>1
    <3>3. QED
      BY <3>1, <3>2
  <2>3. QED
    BY <2>1, <2>2
<1>3. QED
  BY <1>1, <1>2

(* A term counts once for each occurrence of the operand it comes from.    *)
LEMMA TermWorth ==
    ASSUME NEW l \in Lane, NEW a, a # Zero, NEW t,
           t = <<"half", l, a>> \/ t = <<"prod", l, a, a>>, NEW b
    PROVE  Worth(t, b) = IF b = a THEN 1 ELSE 0
<1>1. CASE t = <<"half", l, a>>
  BY <1>1, HalfTerm DEF Worth, LaneWorth, Lane
<1>2. CASE t = <<"prod", l, a, a>>
  BY <1>2, ProdTerm DEF Worth, LaneWorth, Lane
<1>3. QED
  BY <1>1, <1>2

(* A pair has only the terms that TermsOf() gives it.                      *)
LEMMA WorthHasTerm ==
    ASSUME NEW t, NEW b, Worth(t, b) # 0
    PROVE  /\ b # Zero
           /\ \E l \in Lane : t = <<"half", l, b>> \/ t = <<"prod", l, b, b>>
<1>1. b # Zero
  BY WorthType
<1>2. PICK l \in Lane : CopiesOf(t, Half(l, b)) # 0 \/ CopiesOf(t, Prod(l, b, b)) # 0
  BY WorthType DEF Worth, LaneWorth, Lane
<1>3. t = <<"half", l, b>> \/ t = <<"prod", l, b, b>>
  BY <1>1, <1>2, CountSingle DEF Half, Prod
<1>4. QED
  BY <1>1, <1>3

(* The terms of a sequence of pairs are those some pair of it is worth.    *)
LEMMA TermsOfSequence ==
    ASSUME NEW s, s \in Seq(Operand), NEW t
    PROVE  /\ t \in TermsOf(Range(s)) <=> \E i \in 1..Len(s) : Worth(t, s[i]) # 0
           /\ t \in TermsOf(Range(s)) =>
                \E l \in Lane, i \in 1..Len(s) :
                  /\ s[i] # Zero /\ t[3] = s[i]
                  /\ \/ t = <<"half", l, s[i]>> /\ t[1] = "half" /\ t[2] = l
                     \/ t = <<"prod", l, s[i], s[i]>> /\ t[1] = "prod" /\ t[2] = l
<1>1. Range(s) = {s[i] : i \in 1..Len(s)}
  BY DEF Range
<1>2. ASSUME t \in TermsOf(Range(s))
      PROVE  \E l \in Lane, i \in 1..Len(s) :
               /\ s[i] # Zero /\ t[3] = s[i]
               /\ \/ t = <<"half", l, s[i]>> /\ t[1] = "half" /\ t[2] = l
                  \/ t = <<"prod", l, s[i], s[i]>> /\ t[1] = "prod" /\ t[2] = l
  <2>1. PICK l \in Lane, a \in Range(s) \ {Zero} :
          t \in {<<"half", l, a>>, <<"prod", l, a, a>>}
    BY <1>2 DEF TermsOf
  <2>2. PICK i \in 1..Len(s) : a = s[i]
    BY <1>1, <2>1
  <2>3. /\ t = <<"half", l, a>> => t[1] = "half" /\ t[2] = l /\ t[3] = a
        /\ t = <<"prod", l, a, a>> => t[1] = "prod" /\ t[2] = l /\ t[3] = a
    OBVIOUS
  <2>4. QED
    BY <2>1, <2>2, <2>3
<1>3. ASSUME t \in TermsOf(Range(s))
      PROVE  \E i \in 1..Len(s) : Worth(t, s[i]) # 0
  <2>1. PICK l \in Lane, i \in 1..Len(s) :
          /\ s[i] # Zero
          /\ t = <<"half", l, s[i]>> \/ t = <<"prod", l, s[i], s[i]>>
    BY <1>2, <1>3
  <2>2. Worth(t, s[i]) = 1
    BY <2>1, TermWorth
  <2>3. QED
    BY <2>2
<1>4. ASSUME NEW i \in 1..Len(s), Worth(t, s[i]) # 0
      PROVE  t \in TermsOf(Range(s))
  <2>1. s[i] \in Range(s) \ {Zero}
    BY <1>1, <1>4, WorthHasTerm
  <2>2. PICK l \in Lane : t = <<"half", l, s[i]>> \/ t = <<"prod", l, s[i], s[i]>>
    BY <1>4, WorthHasTerm
  <2> DEFINE E(k, a) == {<<"half", k, a>>, <<"prod", k, a, a>>}
  <2>3. t \in E(l, s[i])
    BY <2>2
  <2>4. TermsOf(Range(s)) = UNION {E(k, a) : k \in Lane, a \in Range(s) \ {Zero}}
    BY DEF TermsOf
  <2> HIDE DEF E
  <2>5. E(l, s[i]) \in {E(k, a) : k \in Lane, a \in Range(s) \ {Zero}}
    BY <2>1
  <2>6. QED
    BY <2>3, <2>4, <2>5
<1>5. QED
  BY <1>2, <1>3, <1>4

(* Total() counts each term as often as the pairs are worth it.            *)
LEMMA TotalIsOwed ==
    ASSUME NEW s, s \in Seq(Operand)
    PROVE  IsABag(Total(s)) /\ \A t : CopiesOf(t, Total(s)) = Owed(t, s)
<1>1. Len(s) \in Nat /\ DOMAIN s = 1..Len(s)
  OBVIOUS
<1>2. ASSUME NEW t, t \in TermsOf(Range(s))
      PROVE  Occurs(t[3], s) = Owed(t, s) /\ Owed(t, s) \in Nat \ {0}
  <2>1. PICK l \in Lane, k \in 1..Len(s) :
          /\ s[k] # Zero /\ t[3] = s[k]
          /\ t = <<"half", l, s[k]>> \/ t = <<"prod", l, s[k], s[k]>>
    BY <1>2, TermsOfSequence
  <2>0. PICK a : a = t[3]
    OBVIOUS
  <2> DEFINE g == Marks(s, a, Len(s))
             h == [i \in 1..Len(s) |-> Worth(t, s[i])]
  <2>2. Occurs(t[3], s) = SumTo(g, Len(s))
    <3>1. Occurs(a, s) = Cardinality(Places(s, a, Len(s)))
      BY <1>1 DEF Occurs, Places
    <3>2. Cardinality(Places(s, a, Len(s))) = SumTo(g, Len(s))
      BY <1>1, OccurrencesSum
    <3>3. QED
      BY <2>0, <3>1, <3>2
  <2>3. \A i \in 1..Len(s) : Worth(t, s[i]) = IF s[i] = s[k] THEN 1 ELSE 0
    BY <2>1, TermWorth
  <2>4. \A i \in 1..Len(s) : g[i] = h[i] /\ g[i] \in Nat
    BY <2>0, <2>1, <2>3 DEF Marks
  <2>5. g[k] = 1
    BY <2>0, <2>1 DEF Marks
  <2>6. Owed(t, s) = SumTo(h, Len(s))
    BY DEF Owed
  <2> HIDE DEF g, h
  <2>7. SumTo(g, Len(s)) = SumTo(h, Len(s)) /\ SumTo(g, Len(s)) \in Nat
    BY <1>1, <2>4, SumEqual, SumType
  <2>8. 1 <= SumTo(g, Len(s))
    <3>1. g[k] <= SumTo(g, Len(s))
      BY <1>1, <2>4, SumAtLeast
    <3>2. QED
      BY <2>5, <3>1
  <2>9. QED
    BY <2>2, <2>6, <2>7, <2>8
<1>3. ASSUME NEW t, t \notin TermsOf(Range(s)) PROVE Owed(t, s) = 0
  <2> DEFINE h == [i \in 1..Len(s) |-> Worth(t, s[i])]
  <2>1. \A i \in 1..Len(s) : Worth(t, s[i]) = 0
    BY <1>3, TermsOfSequence
  <2>4. \A i \in 1..Len(s) : h[i] = 0
    BY <2>1
  <2>2. Owed(t, s) = SumTo(h, Len(s))
    BY DEF Owed
  <2> HIDE DEF h
  <2>3. QED
    BY <1>1, <2>4, <2>2, SumZero
<1>4. DOMAIN Total(s) = TermsOf(Range(s))
      /\ \A t \in TermsOf(Range(s)) : Total(s)[t] = Occurs(t[3], s)
  BY DEF Total
<1>5. IsABag(Total(s))
  <2>1. Total(s) = [t \in TermsOf(Range(s)) |-> Occurs(t[3], s)]
    BY DEF Total
  <2>2. \A t \in TermsOf(Range(s)) : Occurs(t[3], s) \in {n \in Nat : n > 0}
    BY <1>2
  <2> HIDE DEF Total
  <2>3. QED
    BY <1>4, <2>1, <2>2 DEF IsABag
<1>6. ASSUME NEW t PROVE CopiesOf(t, Total(s)) = Owed(t, s)
  BY <1>2, <1>3, <1>4 DEF CopiesOf
<1>7. QED
  BY <1>5, <1>6

-----------------------------------------------------------------------------
(* The properties of the accelerator.                                      *)

(* The invariant of the pipeline holds in the accelerator.                 *)
LEMMA PipeInvHolds ==
    Latencies /\ EnoughBefore => (AccSpec => [](IndInv /\ Late /\ PipeInv))
<1> SUFFICES ASSUME Latencies, EnoughBefore
             PROVE  AccSpec => [](IndInv /\ Late /\ PipeInv)
  OBVIOUS
<1>1. AccInit => IndInv /\ Late /\ PipeInv
  <2>1. AccInit => IndInv
    BY InitTypes, InitInStep DEF AccInit, IndInv
  <2>2. AccInit => Late
    BY DEF AccInit, Init, Late
  <2>3. AccInit => PipeInv
    BY EmptyPipe DEF AccInit, Init
  <2>4. QED
    BY <2>1, <2>2, <2>3
<1>2. IndInv /\ Late /\ PipeInv /\ [AccNext]_accVars => (IndInv /\ Late /\ PipeInv)'
  <2> SUFFICES ASSUME IndInv, Late, PipeInv, [AccNext]_accVars
               PROVE  IndInv' /\ Late' /\ PipeInv'
    OBVIOUS
  <2>1. IndInv'
    BY ControllerSteps, IssuedLate, ClockInv, AclrTypes, AclrInStep, StutterInv
       DEF Next, Clock, IndInv, EnoughBefore
  <2>2. Late'
    BY LateStep
  <2>3. PipeInv'
    BY EdgePipe, ResetPipe, StutterPipe DEF AccNext, Edge
  <2>4. QED
    BY <2>1, <2>2, <2>3
<1>3. QED
  BY <1>1, <1>2, PTL DEF AccSpec

(* When the result is read, the pipeline is empty up to the accumulator    *)
(* and the last adder of the tree holds the sum of its partial sums.       *)
LEMMA ReadState ==
    ASSUME Latencies, IndInv, PipeInv, Returning
    PROVE  /\ taken = Append(sent, data) /\ x_in = Zero
           /\ \A t : CopiesOf(t, out) = Owed(t, taken)
           /\ IsABag(out)
<1> USE StageNumbers, Depth
<1>1. Draining /\ COUNT = CYCLE_DELAY + 1 /\ COUNT > 0
  BY DelayAssumption DEF Returning, IndInv, InStep, Closed, Opening, Opened,
     Ready, Passing, Draining
<1>2. PICK c \in Nat : c = COUNT
  BY <1>1, DelayAssumption
<1>3. PeType /\ Conserved /\ Clean(c) /\ Summed(c)
  BY <1>1, <1>2, Zenon DEF PipeInv, Placed, Draining
<1>4. D + 6 * ADD_STAGES <= c
  BY <1>1, <1>2, DelayAssumption DEF D, Latencies
<1>5. out = level3[ADD_STAGES] /\ IsABag(out)
  BY <1>3, ChainEnd DEF out, PeType, SumChain
<1>6. ASSUME NEW t PROVE CopiesOf(t, out) = Load(t, acc)
  <2>1. StageLoad(t, 3 * ADD_STAGES) = Load(t, acc)
    <3>1. 3 * ADD_STAGES \in 1 .. 3 * ADD_STAGES
          /\ 3 * ADD_STAGES + D + 3 * ADD_STAGES <= c
      BY <1>4
    <3>2. QED
      BY <1>3, <3>1 DEF Summed
  <2>2. StageLoad(t, 3 * ADD_STAGES) = CopiesOf(t, level3[ADD_STAGES])
    <3>1. ~(3 * ADD_STAGES <= ADD_STAGES) /\ ~(3 * ADD_STAGES <= 2 * ADD_STAGES)
          /\ 3 * ADD_STAGES - 2 * ADD_STAGES = ADD_STAGES
      OBVIOUS
    <3>2. QED
      BY <3>1 DEF StageLoad
  <2>3. QED
    BY <1>5, <2>1, <2>2
<1>7. ASSUME NEW t PROVE InPipeline(t) = Load(t, acc)
  <2>1. D + 2 * ADD_STAGES + 1 \in Nat /\ D + 2 * ADD_STAGES + 1 <= c
    BY <1>4
  <2>2. Settled
    BY <1>3, <2>1, CleanEarlier DEF Settled
  <2>3. ASSUME NEW l \in Lane PROVE InLane(t, l) = 0
    <3>1. /\ \A i \in 1..HALF_STAGES : half[l][i] = Zero
          /\ \A i \in 1..MULT_STAGES : mult1[l][i] = Zero
          /\ \A i \in 1..PIP_STAGES : pip[l][i] = Zero
          /\ \A i \in 1..MULT_STAGES : mult2[l][i] = EmptyBag
          /\ \A i \in 1..ADD_STAGES : add[l][i] = EmptyBag
      BY <2>2, SettledIsEmpty
    <3>2. /\ HalfSum(t, l, half[l], HALF_STAGES) = 0
          /\ ProdSum(t, l, mult1[l], MULT_STAGES) = 0
          /\ ProdSum(t, l, pip[l], PIP_STAGES) = 0
      BY <3>1, NothingCounts
    <3>3. Load(t, mult2[l]) = 0 /\ Load(t, add[l]) = 0
      BY <1>3, <3>1, NothingCounts DEF PeType
    <3>4. QED
      BY <3>2, <3>3 DEF InLane
  <2>4. Load(t, sumdots) = 0
    <3>1. \A i \in 1..ADD_STAGES : sumdots[i] = EmptyBag
      BY <2>2, SettledIsEmpty
    <3>2. QED
      BY <1>3, <3>1, NothingCounts DEF PeType
  <2>5. Load(t, acc) \in Nat
    BY <1>3, LoadNat DEF PeType
  <2>6. QED
    BY <2>3, <2>4, <2>5 DEF InPipeline, Lane
<1>8. \A t : CopiesOf(t, out) = Owed(t, taken)
  BY <1>3, <1>6, <1>7 DEF Conserved
<1>9. QED
  BY <1>1, <1>5, <1>8 DEF Draining

(* The value read by the last instruction is the sum of every operand pair *)
(* given to the accelerator since the reset, each pair's terms exactly     *)
(* once: for every length of the pipeline whose two paths meet and drain   *)
(* within CYCLE_DELAY, and every program.                                  *)
THEOREM ResultIsWholeSum ==
    Latencies /\ EnoughBefore => (AccSpec => []ResultIsTotal)
<1> SUFFICES ASSUME Latencies, EnoughBefore PROVE AccSpec => []ResultIsTotal
  OBVIOUS
<1>1. IndInv /\ Late /\ PipeInv => ResultIsTotal
  <2> SUFFICES ASSUME IndInv, PipeInv, Returning
               PROVE  out = Total(Append(sent, data))
    BY DEF ResultIsTotal
  <2>1. /\ taken = Append(sent, data) /\ IsABag(out)
        /\ \A t : CopiesOf(t, out) = Owed(t, taken)
    BY ReadState
  <2>2. /\ IsABag(Total(taken))
        /\ \A t : CopiesOf(t, Total(taken)) = Owed(t, taken)
    BY TotalIsOwed DEF IndInv, TypeOK
  <2>3. QED
    BY <2>1, <2>2, SameCounts
<1>2. QED
  BY <1>1, PipeInvHolds, PTL

(* Before a term is formed, its copies are the occurrences of its pair in  *)
(* the chains of operands of its own lane.                                 *)
LEMMA CountsFromValues ==
    ASSUME NEW n \in Nat \ {0}, NEW c, IsChain(c, n), NEW a, NEW g,
           \A i \in 1..n : g[i] = IF c[i] = a THEN 1 ELSE 0
    PROVE  SumTo(g, n) = Occurs(a, c)
<1>1. Occurs(a, c) = Cardinality(Places(c, a, n))
  BY ChainEnd DEF Occurs, Places
<1>2. Cardinality(Places(c, a, n)) = SumTo(Marks(c, a, n), n)
  BY OccurrencesSum
<1>3. \A i \in 1..n : g[i] = Marks(c, a, n)[i]
  BY DEF Marks
<1>4. SumTo(g, n) = SumTo(Marks(c, a, n), n)
  BY <1>3, SumEqual
<1>5. QED
  BY <1>1, <1>2, <1>4

LEMMA OccursType ==
    ASSUME NEW n \in Nat \ {0}, NEW c, IsChain(c, n), NEW a
    PROVE  Occurs(a, c) \in Nat
<1>1. \A i \in 1..n : Marks(c, a, n)[i] \in Nat
                       /\ Marks(c, a, n)[i] = IF c[i] = a THEN 1 ELSE 0
  BY DEF Marks
<1>2. SumTo(Marks(c, a, n), n) = Occurs(a, c)
  BY <1>1, CountsFromValues
<1>3. SumTo(Marks(c, a, n), n) \in Nat
  BY <1>1, SumType
<1>4. QED
  BY <1>2, <1>3

LEMMA HalvesInChain ==
    ASSUME NEW n \in Nat \ {0}, NEW c, IsChain(c, n), NEW l, NEW a, a # Zero,
           NEW t, t = <<"half", l, a>>, NEW k
    PROVE  /\ HalfSum(t, k, c, n) = IF k = l THEN Occurs(a, c) ELSE 0
           /\ ProdSum(t, k, c, n) = 0
<1> DEFINE g == [i \in 1..n |-> CopiesOf(t, Half(k, c[i]))]
           h == [i \in 1..n |-> CopiesOf(t, Prod(k, c[i], c[i]))]
<1>0. ASSUME NEW b
      PROVE  /\ CopiesOf(t, Half(k, b)) = IF k = l /\ b = a THEN 1 ELSE 0
             /\ CopiesOf(t, Prod(k, b, b)) = 0
  <2>1. \A c2 : CopiesOf(t, Prod(k, b, c2)) = 0
    BY HalfTerm
  <2>2. QED
    BY <2>1, HalfTerm
<1>1. /\ \A i \in 1..n : g[i] = IF k = l /\ c[i] = a THEN 1 ELSE 0
      /\ \A i \in 1..n : h[i] = 0
  BY <1>0
<1>2. HalfSum(t, k, c, n) = SumTo(g, n) /\ ProdSum(t, k, c, n) = SumTo(h, n)
  BY DEF HalfSum, ProdSum
<1> HIDE DEF g, h
<1>3. SumTo(h, n) = 0 /\ (k # l => SumTo(g, n) = 0)
  BY <1>1, SumZero
<1>4. k = l => SumTo(g, n) = Occurs(a, c)
  BY <1>1, CountsFromValues
<1>5. QED
  BY <1>2, <1>3, <1>4

LEMMA ProductsInChain ==
    ASSUME NEW n \in Nat \ {0}, NEW c, IsChain(c, n), NEW l, NEW a, a # Zero,
           NEW t, t = <<"prod", l, a, a>>, NEW k
    PROVE  /\ ProdSum(t, k, c, n) = IF k = l THEN Occurs(a, c) ELSE 0
           /\ HalfSum(t, k, c, n) = 0
<1> DEFINE g == [i \in 1..n |-> CopiesOf(t, Half(k, c[i]))]
           h == [i \in 1..n |-> CopiesOf(t, Prod(k, c[i], c[i]))]
<1>1. /\ \A i \in 1..n : h[i] = IF k = l /\ c[i] = a THEN 1 ELSE 0
      /\ \A i \in 1..n : g[i] = 0
  BY ProdTerm
<1>2. HalfSum(t, k, c, n) = SumTo(g, n) /\ ProdSum(t, k, c, n) = SumTo(h, n)
  BY DEF HalfSum, ProdSum
<1> HIDE DEF g, h
<1>3. SumTo(g, n) = 0 /\ (k # l => SumTo(h, n) = 0)
  BY <1>1, SumZero
<1>4. k = l => SumTo(h, n) = Occurs(a, c)
  BY <1>1, CountsFromValues
<1>5. QED
  BY <1>2, <1>3, <1>4

(* A term that a register of a chain holds is in its load.                 *)
LEMMA HeldIsLoad ==
    ASSUME NEW n \in Nat \ {0}, NEW c, SumChain(c, n), NEW b \in Range(c),
           NEW t, t \in DOMAIN b
    PROVE  Load(t, c) # 0
<1>1. PICK i \in 1..n : b = c[i]
  BY ChainEnd DEF SumChain, Range
<1>2. IsABag(b)
  BY <1>1 DEF SumChain
<1>3. CopiesOf(t, b) \in Nat /\ CopiesOf(t, b) # 0
  BY <1>2, CountType
<1>4. CopiesOf(t, c[i]) <= Load(t, c) /\ Load(t, c) \in Nat
  BY LoadType
<1>5. QED
  BY <1>1, <1>3, <1>4

(* The loads of the chains, and what is still to be formed, are numbers.   *)
LEMMA LoadsAreNumbers ==
    ASSUME PeType, NEW t
    PROVE  /\ Load(t, mult2["x"]) \in Nat /\ Load(t, add["x"]) \in Nat
           /\ Load(t, mult2["y"]) \in Nat /\ Load(t, add["y"]) \in Nat
           /\ Load(t, sumdots) \in Nat /\ Load(t, acc) \in Nat
           /\ HalfSum(t, "x", half["x"], HALF_STAGES) \in Nat
           /\ HalfSum(t, "y", half["y"], HALF_STAGES) \in Nat
           /\ ProdSum(t, "x", mult1["x"], MULT_STAGES) \in Nat
           /\ ProdSum(t, "y", mult1["y"], MULT_STAGES) \in Nat
           /\ ProdSum(t, "x", pip["x"], PIP_STAGES) \in Nat
           /\ ProdSum(t, "y", pip["y"], PIP_STAGES) \in Nat
BY StageNumbers, LoadNat, FormTypes DEF PeType, Lane

(* What is to be formed in the lanes, and what is formed already.          *)
LEMMA Regrouped ==
    ASSUME NEW hx \in Nat, NEW sx \in Nat, NEW px \in Nat,
           NEW mx \in Nat, NEW ax \in Nat,
           NEW hy \in Nat, NEW sy \in Nat, NEW py \in Nat,
           NEW my \in Nat, NEW ay \in Nat, NEW d \in Nat, NEW c \in Nat
    PROVE  (hx + sx + px + mx + ax) + (hy + sy + py + my + ay) + d + c
             = ((hx + sx + px) + (hy + sy + py)) + (mx + my + ax + ay + d + c)
OBVIOUS

LEMMA NotAllZero ==
    ASSUME NEW f \in Nat, NEW mx \in Nat, NEW my \in Nat, NEW ax \in Nat,
           NEW ay \in Nat, NEW d \in Nat, NEW c \in Nat,
           \/ mx # 0 \/ ax # 0 \/ my # 0 \/ ay # 0 \/ d # 0 \/ c # 0
    PROVE  f + (mx + my + ax + ay + d + c) # 0
OBVIOUS

\* The copies of a term that are still to be formed.
Unformed(t) ==
    (HalfSum(t, "x", half["x"], HALF_STAGES)
       + ProdSum(t, "x", mult1["x"], MULT_STAGES)
       + ProdSum(t, "x", pip["x"], PIP_STAGES))
    + (HalfSum(t, "y", half["y"], HALF_STAGES)
         + ProdSum(t, "y", mult1["y"], MULT_STAGES)
         + ProdSum(t, "y", pip["y"], PIP_STAGES))

LEMMA PipelineSplits ==
    ASSUME PeType, NEW t
    PROVE  Unformed(t) \in Nat /\ InPipeline(t) = Unformed(t) + Formed(t)
<1>1. (HalfSum(t, "x", half["x"], HALF_STAGES)
         + ProdSum(t, "x", mult1["x"], MULT_STAGES)
         + ProdSum(t, "x", pip["x"], PIP_STAGES)
         + Load(t, mult2["x"]) + Load(t, add["x"]))
      + (HalfSum(t, "y", half["y"], HALF_STAGES)
           + ProdSum(t, "y", mult1["y"], MULT_STAGES)
           + ProdSum(t, "y", pip["y"], PIP_STAGES)
           + Load(t, mult2["y"]) + Load(t, add["y"]))
      + Load(t, sumdots) + Load(t, acc)
      = Unformed(t) + Formed(t)
  BY ONLY PeType, LoadsAreNumbers, Regrouped DEF Unformed, Formed
<1>2. Unformed(t) \in Nat
  BY LoadsAreNumbers DEF Unformed
<1>3. QED
  BY <1>1, <1>2 DEF InPipeline, InLane

(* No term is lost, doubled or paired with another value's cosine anywhere *)
(* in the pipeline, through gaps, the freeze between two runs and resets:  *)
(* for every length of the pipeline and every program.                     *)
THEOREM PipelineConservesTerms ==
    Latencies /\ EnoughBefore => (AccSpec => []TermsConserved)
<1> SUFFICES ASSUME Latencies, EnoughBefore PROVE AccSpec => []TermsConserved
  OBVIOUS
<1>1. IndInv /\ Late /\ PipeInv => TermsConserved
  <2> SUFFICES ASSUME IndInv, PipeInv PROVE PipelineHolds(taken)
    BY DEF TermsConserved
  <2> USE StageNumbers
  <2>0. PeType /\ Conserved /\ taken \in Seq(Operand)
    BY DEF PipeInv, IndInv, TypeOK
  <2>1. ASSUME NEW b \in Held, NEW t \in DOMAIN b
        PROVE  t \in TermsOf(Range(taken))
    <3>1. \/ Load(t, mult2["x"]) # 0 \/ Load(t, add["x"]) # 0
          \/ Load(t, mult2["y"]) # 0 \/ Load(t, add["y"]) # 0
          \/ Load(t, sumdots) # 0 \/ Load(t, acc) # 0
      BY <2>0, <2>1, HeldIsLoad DEF Held, PeType, Lane
    <3>2. InPipeline(t) # 0
      <4>1. Unformed(t) \in Nat /\ InPipeline(t) = Unformed(t) + Formed(t)
        BY <2>0, PipelineSplits
      <4>2. /\ Load(t, mult2["x"]) \in Nat /\ Load(t, add["x"]) \in Nat
            /\ Load(t, mult2["y"]) \in Nat /\ Load(t, add["y"]) \in Nat
            /\ Load(t, sumdots) \in Nat /\ Load(t, acc) \in Nat
        BY <2>0, LoadsAreNumbers
      <4>3. Unformed(t) + Formed(t) # 0
        BY ONLY <3>1, <4>1, <4>2, NotAllZero DEF Formed
      <4>4. QED
        BY <4>1, <4>3
    <3>3. Owed(t, taken) # 0
      BY <2>0, <3>2 DEF Conserved
    <3>4. CopiesOf(t, Total(taken)) # 0
      BY <2>0, <3>3, TotalIsOwed
    <3>5. QED
      BY <3>4 DEF CopiesOf, Total
  <2>2. ASSUME NEW t \in TermsOf(Range(taken))
        PROVE  Copies(t) = Occurs(t[3], taken)
    <3>1. Occurs(t[3], taken) = InPipeline(t)
      <4>1. CopiesOf(t, Total(taken)) = Occurs(t[3], taken)
        BY DEF CopiesOf, Total
      <4>2. QED
        BY <2>0, <4>1, TotalIsOwed DEF Conserved
    <3>2. PICK l \in Lane, a \in Operand :
            /\ a # Zero /\ t[3] = a /\ t[2] = l
            /\ \/ t = <<"half", l, a>> /\ t[1] = "half"
               \/ t = <<"prod", l, a, a>> /\ t[1] = "prod"
      BY <2>0, TermsOfSequence
    <3>3. CASE t[1] = "half"
      <4>1. \A k \in Lane :
              /\ HalfSum(t, k, half[k], HALF_STAGES)
                   = IF k = l THEN Occurs(a, half[k]) ELSE 0
              /\ ProdSum(t, k, mult1[k], MULT_STAGES) = 0
              /\ ProdSum(t, k, pip[k], PIP_STAGES) = 0
        <5>1. t = <<"half", l, a>> /\ a # Zero
          BY <3>2, <3>3
        <5>2. \A k \in Lane : /\ IsChain(half[k], HALF_STAGES)
                              /\ IsChain(mult1[k], MULT_STAGES)
                              /\ IsChain(pip[k], PIP_STAGES)
          BY <2>0 DEF PeType
        <5>3. QED
          BY <5>1, <5>2, HalvesInChain
      <4>2. Copies(t) = Occurs(a, half[l]) + Formed(t)
        BY <3>2, <3>3 DEF Copies
      <4>3. Unformed(t) = Occurs(a, half[l])
        BY <2>0, <4>1, OccursType DEF PeType, Unformed, Lane
      <4>4. QED
        BY <2>0, <3>1, <3>2, <4>2, <4>3, PipelineSplits
    <3>4. CASE t[1] = "prod"
      <4>1. \A k \in Lane :
              /\ HalfSum(t, k, half[k], HALF_STAGES) = 0
              /\ ProdSum(t, k, mult1[k], MULT_STAGES)
                   = IF k = l THEN Occurs(a, mult1[k]) ELSE 0
              /\ ProdSum(t, k, pip[k], PIP_STAGES)
                   = IF k = l THEN Occurs(a, pip[k]) ELSE 0
        <5>1. t = <<"prod", l, a, a>> /\ a # Zero
          BY <3>2, <3>4
        <5>2. \A k \in Lane : /\ IsChain(half[k], HALF_STAGES)
                              /\ IsChain(mult1[k], MULT_STAGES)
                              /\ IsChain(pip[k], PIP_STAGES)
          BY <2>0 DEF PeType
        <5>3. QED
          BY <5>1, <5>2, ProductsInChain
      <4>2. Copies(t) = (Occurs(a, mult1[l]) + Occurs(a, pip[l])) + Formed(t)
        BY <3>2, <3>4 DEF Copies
      <4>3. Unformed(t) = Occurs(a, mult1[l]) + Occurs(a, pip[l])
        <5>1. Occurs(a, mult1[l]) \in Nat /\ Occurs(a, pip[l]) \in Nat
          BY <2>0, OccursType DEF PeType
        <5>2. CASE l = "x"
          BY <4>1, <5>1, <5>2 DEF Unformed, Lane
        <5>3. CASE l = "y"
          BY <4>1, <5>1, <5>3 DEF Unformed, Lane
        <5>4. QED
          BY <5>2, <5>3 DEF Lane
      <4>4. QED
        BY <2>0, <3>1, <3>2, <4>2, <4>3, PipelineSplits
    <3>5. QED
      BY <3>2, <3>3, <3>4
  <2>3. QED
    BY <2>1, <2>2 DEF PipelineHolds
<1>2. QED
  BY <1>1, PipeInvHolds, PTL

(* Total() of the empty sequence, and of one pair more.                    *)
LEMMA TotalEmpty == Total(<<>>) = EmptyBag
<1>1. IsABag(Total(<<>>)) /\ \A t : CopiesOf(t, Total(<<>>)) = Owed(t, <<>>)
  <2>1. <<>> \in Seq(Operand)
    OBVIOUS
  <2>2. QED
    BY <2>1, TotalIsOwed
<1>2. \A t : Owed(t, <<>>) = 0
  BY SumToDef DEF Owed
<1>3. \A t : CopiesOf(t, Total(<<>>)) = CopiesOf(t, EmptyBag)
  BY <1>1, <1>2, CountEmpty
<1>4. QED
  BY <1>1, <1>3, CountEmpty, SameCounts

LEMMA TotalAppend ==
    ASSUME NEW s, s \in Seq(Operand), NEW a, a \in Operand
    PROVE  Total(Append(s, a)) = Total(s) (+) PairTerms(a)
<1>1. Append(s, a) \in Seq(Operand) /\ <<a>> \in Seq(Operand)
  OBVIOUS
<1>2. /\ IsABag(Total(s)) /\ \A t : CopiesOf(t, Total(s)) = Owed(t, s)
      /\ IsABag(Total(Append(s, a)))
      /\ \A t : CopiesOf(t, Total(Append(s, a))) = Owed(t, Append(s, a))
      /\ IsABag(PairTerms(a)) /\ \A t : CopiesOf(t, PairTerms(a)) = Owed(t, <<a>>)
  BY <1>1, TotalIsOwed DEF PairTerms
<1>3. ASSUME NEW t PROVE Owed(t, Append(s, a)) = Owed(t, s) + Owed(t, <<a>>)
  <2>1. Owed(t, Append(s, a)) = Owed(t, s) + Worth(t, a)
    BY OwedAppend
  <2>2. Owed(t, <<a>>) = Worth(t, a)
    <3>1. <<>> \in Seq(Operand) /\ Append(<<>>, a) = <<a>>
      OBVIOUS
    <3>2. Owed(t, <<a>>) = Owed(t, <<>>) + Worth(t, a)
      BY <3>1, OwedAppend
    <3>3. Owed(t, <<>>) = 0
      BY SumToDef DEF Owed
    <3>4. QED
      BY <3>2, <3>3, WorthType
  <2>3. QED
    BY <2>1, <2>2
<1>4. /\ IsABag(Total(s) (+) PairTerms(a))
      /\ \A t : CopiesOf(t, Total(s) (+) PairTerms(a))
                  = CopiesOf(t, Total(s)) + CopiesOf(t, PairTerms(a))
  BY <1>2, CountSum
<1>5. QED
  BY <1>2, <1>3, <1>4, SameCounts

(* The bags of the abstract specification are those of the pipeline.       *)
LEMMA AbstractEmpty == Abstract!EmptyBag = EmptyBag
BY DEF EmptyBag, SetToBag, Abstract!EmptyBag, Abstract!SetToBag

LEMMA AbstractPlus == \A a, b : Abstract!(+)(a, b) = a (+) b
BY DEF (+), Abstract!(+)

(* What a run returns is the sum of everything the pipeline has sampled:   *)
(* the accelerator implements VectorSum, for every length of the pipeline  *)
(* and every program.                                                      *)
THEOREM AcceleratorRefinesVectorSum ==
    Latencies /\ EnoughBefore => (AccSpec => ImplementsVectorSum)
<1> SUFFICES ASSUME Latencies, EnoughBefore PROVE AccSpec => ImplementsVectorSum
  OBVIOUS
<1>1. AccInit => Abstract!SumInit
  BY TotalEmpty, AbstractEmpty DEF AccInit, Init, Abstract!SumInit
<1>2. IndInv /\ PipeInv /\ ClockEdge
        => Abstract!SumNext \/ UNCHANGED <<Total(taken), returned>>
  <2> SUFFICES ASSUME IndInv, PipeInv, ClockEdge
               PROVE  Abstract!SumNext \/ UNCHANGED <<Total(taken), returned>>
    OBVIOUS
  <2>0. taken \in Seq(Operand) /\ x_in \in Value
    BY DEF IndInv, TypeOK
  <2>1. CASE Returning
    <3>1. /\ taken = Append(sent, data) /\ x_in = Zero
          /\ \A t : CopiesOf(t, out) = Owed(t, taken)
          /\ IsABag(out)
      BY <2>1, ReadState
    <3>2. out = Total(taken)
      BY <2>0, <3>1, TotalIsOwed, SameCounts
    <3>3. taken' = taken
      BY <3>1, ObserveNothing DEF ClockEdge, Clock
    <3>4. returned' = out
      BY <2>1 DEF ClockEdge
    <3>5. Abstract!Return
      BY <3>2, <3>3, <3>4 DEF Abstract!Return
    <3>6. QED
      BY <3>5 DEF Abstract!SumNext
  <2>2. CASE ~Returning
    <3>1. returned' = returned
      BY <2>2 DEF ClockEdge
    <3>2. CASE clk_en_use /\ x_in \in Operand
      <4>1. taken' = Append(taken, x_in)
        BY <3>2, ObserveOperand DEF ClockEdge, Clock
      <4>2. Total(taken') = Total(taken) (+) PairTerms(x_in)
        BY <2>0, <3>2, <4>1, TotalAppend
      <4>3. Abstract!Take
        BY <3>1, <3>2, <4>2, AbstractPlus DEF Abstract!Take
      <4>4. QED
        BY <4>3 DEF Abstract!SumNext
    <3>3. CASE ~clk_en_use \/ x_in = Zero
      <4>1. taken' = taken
        BY <3>3, ObserveNothing DEF ClockEdge, Clock
      <4>2. QED
        BY <3>1, <4>1
    <3>4. QED
      BY <2>0, <3>2, <3>3 DEF Value
  <2>3. QED
    BY <2>1, <2>2
<1>3. Reset => Abstract!SumNext
  <2>1. Reset => Total(taken)' = EmptyBag /\ returned' = EmptyBag
    BY TotalEmpty DEF Reset, Aclr
  <2>2. QED
    BY <2>1, AbstractEmpty DEF Abstract!SumNext, Abstract!Clear
<1>4. UNCHANGED accVars => UNCHANGED <<Total(taken), returned>>
  BY DEF accVars, ciVars
<1>5. IndInv /\ Late /\ PipeInv /\ [AccNext]_accVars
        => [Abstract!SumNext]_<<Total(taken), returned>>
  BY <1>2, <1>3, <1>4 DEF AccNext, Edge
<1>6. QED
  BY <1>1, <1>5, PipeInvHolds, PTL DEF AccSpec, ImplementsVectorSum,
     Abstract!SumSpec

-----------------------------------------------------------------------------
(* The program of the repository on the accelerator.                        *)

\* The first pairs of a vector.
Pairs(n) == [k \in 1..n |-> <<Driver!x(2 * k - 2), Driver!x(2 * k - 1)>>]

\* Between two steps the function has sent the pairs in front of j, behind all
\* that earlier calls have sent, and an instruction on the bus has the pair at j.
DriverInv ==
    /\ M \in Lengths /\ j = 2 * run /\ j < M
    /\ opened \in Nat
    /\ Len(sent) = opened + run
    /\ \A k \in 1..run : sent[opened + k] = Pairs(run)[k]
    /\ clk_en => N = (IF j + 2 < M THEN 0 ELSE 1) /\ data = NextPair

(* The last pair of a vector comes late enough.                            *)
LEMMA DriverIsLate == VectorLengths /\ run \in Nat /\ DriverInv => Late
<1> SUFFICES ASSUME VectorLengths, run \in Nat, DriverInv, clk_en, N = 1
             PROVE  run >= 1 /\ 2 * run >= INIT_BOUND2
  BY DEF Late
<1>1. M \in Nat /\ M >= 3 /\ M >= INIT_BOUND2 + 2
  BY DEF VectorLengths, DriverInv
<1>2. ~(2 * run + 2 < M)
  BY DEF DriverInv
<1>3. QED
  BY <1>1, <1>2, BoundAssumption

(* A step of the program is a step of the accelerator without the bound on *)
(* operands: an edge of both circuits, or a reset.                         *)
LEMMA ProgramSteps ==
    ASSUME [ProgNext]_progVars
    PROVE  /\ [Next]_ciVars
           /\ ClockEdge \/ Reset \/ UNCHANGED accVars
<1>1. ClockEdge => Next
  BY DEF ClockEdge, Next
<1>2. Reset => Next
  BY DEF Reset, Next
<1>3. UNCHANGED accVars => UNCHANGED ciVars
  BY DEF accVars
<1>4. ClockEdge \/ Reset \/ UNCHANGED accVars
  BY DEF ProgNext, ProgEdge, ProgReset, progVars
<1>5. QED
  BY <1>1, <1>2, <1>3, <1>4

(* What the processor does at an edge moves j with the instructions.       *)
LEMMA DriverEdge ==
    ASSUME VectorLengths, IndInv, DriverInv, ProgEdge
    PROVE  DriverInv' /\ run' \in Nat
<1>1. Processor /\ run \in Nat /\ run' \in Nat /\ sent \in Seq(Operand)
  BY BusStep DEF ProgEdge, ClockEdge, Clock, IndInv, TypeOK
<1>2. opened' = IF run' = 0 THEN Len(sent') ELSE opened
  BY DEF ProgEdge, ClockEdge
<1>3. /\ M' \in IF start' /\ run' = 0 THEN Lengths ELSE {M}
      /\ j' = IF run' = 0 THEN 0 ELSE IF clk_en /\ done THEN j + 2 ELSE j
      /\ start' => N' = (IF j' + 2 < M' THEN 0 ELSE 1) /\ data' = NextPair'
  BY DEF ProgEdge, Calls, Driver!More
<1>4. M' \in Lengths /\ M \in Nat /\ M' \in Nat /\ M' >= 3
  BY <1>3 DEF VectorLengths, DriverInv
<1>5. ASSUME start' <=> clk_en'
      PROVE  clk_en' => N' = (IF j' + 2 < M' THEN 0 ELSE 1) /\ data' = NextPair'
  BY <1>3, <1>5
<1>6. CASE CpuWait
  <2>1. UNCHANGED <<clk_en, N, data, run, sent>> /\ ~start' /\ ~done
    BY <1>6 DEF CpuWait
  <2>2. run = 0 => j = 0 /\ opened = Len(sent)
    BY <1>1 DEF DriverInv
  <2>3. M' = M /\ j' = j /\ opened' = opened
    BY <1>2, <1>3, <2>1, <2>2
  <2>4. QED
    BY <1>1, <2>1, <2>3 DEF DriverInv, Pairs, NextPair, Driver!x
<1>7. CASE CpuGap
  <2>1. UNCHANGED <<run, sent>> /\ ~clk_en /\ (start' <=> clk_en')
    BY <1>7, FreeBus DEF CpuGap, program
  <2>2. run = 0 => j = 0 /\ opened = Len(sent)
    BY <1>1 DEF DriverInv
  <2>3. j' = j /\ opened' = opened /\ (run # 0 => M' = M)
    BY <1>2, <1>3, <2>1, <2>2
  <2>4. j' = 2 * run' /\ j' < M'
    BY <1>4, <2>1, <2>2, <2>3 DEF DriverInv
  <2>5. QED
    <3>1. ASSUME NEW k \in 1..run' PROVE sent'[opened' + k] = (Pairs(run)[k])'
      <4>1. k \in 1..run /\ M' = M /\ opened' = opened /\ sent' = sent
        BY <1>1, <2>1, <2>3
      <4>2. sent[opened + k] = Pairs(run)[k]
        BY <4>1 DEF DriverInv
      <4>3. (Pairs(run)[k])' = Pairs(run)[k]
        BY <2>1, <4>1 DEF Pairs, Driver!x
      <4>4. QED
        BY <4>1, <4>2, <4>3
    <3>2. QED
      BY <1>1, <1>4, <1>5, <2>1, <2>3, <2>4, <3>1 DEF DriverInv
<1>8. CASE CpuComplete
  <2>1. /\ sent' = Append(sent, data) /\ clk_en /\ done
        /\ run' = IF N = 1 THEN 0 ELSE run + 1
        /\ start' <=> clk_en'
    BY <1>8, FreeBus DEF CpuComplete
  <2>2. data = NextPair /\ N = (IF j + 2 < M THEN 0 ELSE 1) /\ data \in Operand
    BY <2>1 DEF DriverInv, IndInv, InStep
  <2>3. Len(sent') = Len(sent) + 1 /\ Len(sent) \in Nat
        /\ sent'[Len(sent) + 1] = data
        /\ \A k \in 1..Len(sent) : sent'[k] = sent[k]
    BY <1>1, <2>1, <2>2
  <2>4. CASE N = 1
    <3>1. run' = 0 /\ j' = 0 /\ opened' = Len(sent')
      BY <1>2, <1>3, <2>1, <2>4
    <3>2. j' = 2 * run' /\ j' < M'
      BY <1>4, <3>1
    <3>3. QED
      BY <1>4, <1>5, <2>1, <2>3, <3>1, <3>2 DEF DriverInv
  <2>5. CASE N # 1
    <3>1. /\ run' = run + 1 /\ j' = j + 2 /\ M' = M /\ opened' = opened
          /\ j + 2 < M
      BY <1>1, <1>2, <1>3, <2>1, <2>2, <2>5
    <3>2. j' = 2 * run' /\ j' < M' /\ opened' \in Nat
      BY <1>1, <3>1 DEF DriverInv
    <3>3. Len(sent') = opened' + run'
      BY <1>1, <2>3, <3>1 DEF DriverInv
    <3>4. ASSUME NEW k \in 1..run'
          PROVE  sent'[opened' + k] = (Pairs(run)[k])'
      <4>1. (Pairs(run)[k])' = <<Driver!x(2 * k - 2), Driver!x(2 * k - 1)>>
        BY <3>1 DEF Pairs, Driver!x
      <4>2. CASE k = run + 1
        <5>1. opened' + k = Len(sent) + 1
          BY <1>1, <3>1, <4>2 DEF DriverInv
        <5>2. j = 2 * k - 2 /\ j + 1 = 2 * k - 1
          BY <1>1, <4>2 DEF DriverInv
        <5>3. QED
          BY <2>2, <2>3, <4>1, <5>1, <5>2 DEF NextPair
      <4>3. CASE k # run + 1
        <5>1. k \in 1..run /\ opened + k \in 1..Len(sent)
          BY <1>1, <3>1, <4>3 DEF DriverInv
        <5>2. sent[opened + k] = Pairs(run)[k]
          BY <5>1 DEF DriverInv
        <5>3. Pairs(run)[k] = <<Driver!x(2 * k - 2), Driver!x(2 * k - 1)>>
          BY <5>1 DEF Pairs
        <5>4. QED
          BY <2>3, <3>1, <4>1, <5>1, <5>2, <5>3
      <4>4. QED
        BY <4>2, <4>3
    <3>5. QED
      BY <1>1, <1>4, <1>5, <2>1, <3>2, <3>3, <3>4 DEF DriverInv
  <2>6. QED
    BY <2>4, <2>5
<1>9. QED
  BY <1>1, <1>6, <1>7, <1>8 DEF Processor

LEMMA DriverStep ==
    ASSUME VectorLengths, IndInv, DriverInv, [ProgNext]_progVars
    PROVE  DriverInv' /\ run' \in Nat
<1>1. CASE ProgEdge
  BY <1>1, DriverEdge
<1>2. CASE ProgReset
  <2>1. /\ run' = 0 /\ sent' = <<>> /\ opened' = 0 /\ ~clk_en'
        /\ M' \in Lengths /\ j' = 0
    BY <1>2 DEF ProgReset, Reset, Aclr, BusIdle
  <2>2. M' \in Nat /\ M' >= 3
    BY <2>1 DEF VectorLengths
  <2>3. QED
    BY <2>1, <2>2 DEF DriverInv
<1>3. CASE UNCHANGED progVars
  BY <1>3 DEF progVars, accVars, ciVars, DriverInv, Pairs, NextPair, Driver!x,
              IndInv, TypeOK
<1>4. QED
  BY <1>1, <1>2, <1>3 DEF ProgNext

(* All invariants together, in every state of the program.                 *)
LEMMA ProgramInv ==
    Latencies /\ VectorLengths
      => (ProgSpec => [](IndInv /\ Late /\ PipeInv /\ DriverInv))
<1> SUFFICES ASSUME Latencies, VectorLengths
             PROVE  ProgSpec => [](IndInv /\ Late /\ PipeInv /\ DriverInv)
  OBVIOUS
<1>1. ASSUME ProgInit PROVE IndInv /\ Late /\ PipeInv /\ DriverInv
  <2>1. AccInit /\ Init
    BY <1>1 DEF ProgInit, AccInit
  <2>2. IndInv
    BY <2>1, InitTypes, InitInStep DEF IndInv
  <2>3. PipeInv
    BY <2>1, EmptyPipe DEF AccInit, Init
  <2>4. DriverInv
    <3>1. /\ run = 0 /\ sent = <<>> /\ opened = 0 /\ ~clk_en
          /\ M \in Lengths /\ j = 0
      BY <1>1, <2>1 DEF ProgInit, AccInit, Init
    <3>2. M \in Nat /\ M >= 3
      BY <3>1 DEF VectorLengths
    <3>3. QED
      BY <3>1, <3>2 DEF DriverInv
  <2>5. Late
    BY <2>1 DEF Init, Late
  <2>6. QED
    BY <2>2, <2>3, <2>4, <2>5
<1>2. ASSUME IndInv, Late, PipeInv, DriverInv, [ProgNext]_progVars
      PROVE  IndInv' /\ Late' /\ PipeInv' /\ DriverInv'
  <2>1. [Next]_ciVars /\ (ClockEdge \/ Reset \/ UNCHANGED accVars)
    BY <1>2, ProgramSteps
  <2>2. DriverInv' /\ run' \in Nat
    BY <1>2, DriverStep
  <2>3. Late'
    <3>1. (VectorLengths /\ run \in Nat /\ DriverInv => Late)'
      BY DriverIsLate, PTL
    <3>2. VectorLengths' <=> VectorLengths
      BY DEF VectorLengths
    <3>3. QED
      BY <2>2, <3>1, <3>2
  <2>4. LastIsLate'
    BY <2>3 DEF Late, LastIsLate
  <2>5. IndInv'
    BY <1>2, <2>1, <2>4, ClockInv, AclrTypes, AclrInStep, StutterInv
       DEF Next, IndInv
  <2>6. PipeInv'
    BY <1>2, <2>1, EdgePipe, ResetPipe, StutterPipe
  <2>7. QED
    BY <2>2, <2>3, <2>5, <2>6
<1>3. QED
  BY <1>1, <1>2, PTL DEF ProgSpec

(* A sequence whose elements are in S is one over S.                       *)
LEMMA SeqWithin ==
    ASSUME NEW T, NEW r \in Seq(T), NEW S, \A k \in 1..Len(r) : r[k] \in S
    PROVE  r \in Seq(S)
<1>1. Len(r) \in Nat /\ r = [k \in 1..Len(r) |-> r[k]]
  OBVIOUS
<1>2. r \in [1..Len(r) -> S]
  BY <1>1
<1>3. QED
  BY <1>1, <1>2

(* With the last pair a call has sent the pairs of its whole vector.       *)
LEMMA VectorSent ==
    ASSUME VectorLengths, IndInv, DriverInv, Returning
    PROVE  Append(sent, data) = SubSeq(sent, 1, opened) \o Vector
<1> DEFINE s == Append(sent, data)
           u == SubSeq(sent, 1, opened)
<1>1. /\ clk_en /\ N = 1 /\ run \in Nat /\ opened \in Nat /\ M \in Nat
      /\ sent \in Seq(Operand) /\ data \in Operand
      /\ j = 2 * run /\ data = NextPair /\ Len(sent) = opened + run
  BY DEF Returning, DriverInv, IndInv, TypeOK, InStep, VectorLengths
<1>2. (M + 1) \div 2 = run + 1
  <2>1. ~(2 * run + 2 < M) /\ 2 * run < M
    BY <1>1 DEF DriverInv
  <2>2. M + 1 = 2 * (run + 1) \/ M + 1 = 2 * (run + 1) + 1
    BY <1>1, <2>1
  <2>3. QED
    BY <1>1, <2>2
<1>3. /\ u \in Seq(Operand) /\ Len(u) = opened
      /\ \A k \in 1..opened : u[k] = sent[k]
  BY <1>1
<1> DEFINE E == Nat \cup {Outside}
<1>4. Vector \in Seq(E \X E) /\ Len(Vector) = run + 1
      /\ \A k \in 1..(run + 1) :
            Vector[k] = <<Driver!x(2 * k - 2), Driver!x(2 * k - 1)>>
  <2>1. \A k \in 1..(run + 1) : Driver!x(2 * k - 2) \in E /\ Driver!x(2 * k - 1) \in E
    BY <1>1 DEF Driver!x
  <2>2. Vector = [k \in 1..(run + 1) |-> <<Driver!x(2 * k - 2), Driver!x(2 * k - 1)>>]
    BY <1>2 DEF Vector
  <2> HIDE DEF E
  <2>3. Vector \in [1..(run + 1) -> E \X E]
    BY <2>1, <2>2
  <2>4. QED
    BY <1>1, <2>2, <2>3
<1>5. /\ s \in Seq(Operand) /\ Len(s) = opened + run + 1
      /\ s[opened + run + 1] = data
      /\ \A k \in 1..(opened + run) : s[k] = sent[k]
  BY <1>1
<1> DEFINE S == Operand \cup (E \X E)
           w == u \o Vector
<1> HIDE DEF s, u, E
<1>6. s \in Seq(S) /\ u \in Seq(S) /\ Vector \in Seq(S)
  <2>1. Operand \subseteq S /\ E \X E \subseteq S
    OBVIOUS
  <2> HIDE DEF S
  <2>2. \A k \in 1..Len(s) : s[k] \in S
    BY <1>5, <2>1
  <2>3. \A k \in 1..Len(u) : u[k] \in S
    BY <1>3, <2>1
  <2>4. \A k \in 1..Len(Vector) : Vector[k] \in S
    BY <1>4, <2>1
  <2>5. s \in Seq(S)
    BY <1>5, <2>2, SeqWithin
  <2>6. u \in Seq(S)
    BY <1>3, <2>3, SeqWithin
  <2>7. Vector \in Seq(S)
    BY <1>4, <2>4, SeqWithin
  <2>8. QED
    BY <2>5, <2>6, <2>7
<1> HIDE DEF S
<1>7. /\ w \in Seq(S) /\ Len(w) = opened + run + 1
      /\ \A k \in 1..opened : w[k] = u[k]
      /\ \A k \in 1..(run + 1) : w[opened + k] = Vector[k]
  <2>1. PICK v \in Seq(S), l \in Nat : v = Vector /\ l = run + 1 /\ Len(v) = l
    BY <1>1, <1>4, <1>6
  <2>2. /\ u \o v \in Seq(S) /\ Len(u \o v) = opened + l
        /\ \A k \in 1..opened : (u \o v)[k] = u[k]
        /\ \A k \in 1..l : (u \o v)[opened + k] = v[k]
    <3>1. \A a, b \in Seq(S) : /\ a \o b \in Seq(S) /\ Len(a \o b) = Len(a) + Len(b)
                               /\ \A k \in 1..Len(a) : (a \o b)[k] = a[k]
                               /\ \A k \in 1..Len(b) : (a \o b)[Len(a) + k] = b[k]
      OBVIOUS
    <3>2. QED
      BY <1>1, <1>3, <1>6, <2>1, <3>1
  <2>3. w = u \o v
    BY <2>1
  <2> HIDE DEF w
  <2>4. QED
    BY <1>1, <2>1, <2>2, <2>3
<1> HIDE DEF w
<1>8. ASSUME NEW k \in 1..(opened + run + 1) PROVE s[k] = w[k]
  <2>1. CASE k <= opened
    BY <1>1, <1>3, <1>5, <1>7, <2>1
  <2>2. CASE k > opened
    <3>1. PICK l \in 1..(run + 1) : k = opened + l
      <4>1. k - opened \in 1..(run + 1) /\ k = opened + (k - opened)
        BY <1>1, <2>2
      <4>2. QED
        BY <4>1
    <3>2. w[k] = <<Driver!x(2 * l - 2), Driver!x(2 * l - 1)>>
      BY <1>4, <1>7, <3>1
    <3>3. CASE l = run + 1
      <4>1. k = opened + run + 1 /\ j = 2 * l - 2 /\ j + 1 = 2 * l - 1
        BY <1>1, <3>1, <3>3
      <4>2. QED
        BY <1>1, <1>5, <3>2, <4>1 DEF NextPair
    <3>4. CASE l # run + 1
      <4>1. l \in 1..run /\ k \in 1..(opened + run)
        BY <1>1, <3>1, <3>4
      <4>2. sent[opened + l] = <<Driver!x(2 * l - 2), Driver!x(2 * l - 1)>>
        BY <4>1 DEF DriverInv, Pairs
      <4>3. QED
        BY <1>5, <3>1, <3>2, <4>1, <4>2
    <3>5. QED
      BY <3>3, <3>4
  <2>3. QED
    BY <1>1, <2>1, <2>2
<1>9. s = w
  BY <1>1, <1>5, <1>6, <1>7, <1>8
<1>10. QED
  BY <1>9 DEF s, u, w

(* What a call of sumVector_custom returns is what earlier calls have left *)
(* in the accumulator and the terms of every element of its vector, each   *)
(* once, and for an odd length the one word behind it: for every length    *)
(* that outlasts the start-up window, every spacing of the instructions    *)
(* and a reset at any edge.                                                *)
THEOREM CallsSumTheirVectors ==
    Latencies /\ VectorLengths => (ProgSpec => CallSumsVector)
<1> SUFFICES ASSUME Latencies, VectorLengths PROVE ProgSpec => CallSumsVector
  OBVIOUS
<1>1. ASSUME IndInv, PipeInv, DriverInv, [ProgNext]_progVars
      PROVE  [Returning /\ sent' # <<>> =>
                 y' = Total(SubSeq(sent, 1, opened) \o Vector)]_progVars
  <2> SUFFICES ASSUME ProgNext, Returning, sent' # <<>>
               PROVE  y' = Total(SubSeq(sent, 1, opened) \o Vector)
    BY <1>1
  <2>1. ProgEdge
    BY DEF ProgNext, ProgReset, Reset, Aclr
  <2>2. y' = out
    BY <2>1 DEF ProgEdge, Assigns, Returning
  <2>3. out = Total(Append(sent, data))
    <3>1. /\ taken = Append(sent, data) /\ IsABag(out)
          /\ \A t : CopiesOf(t, out) = Owed(t, taken)
      BY <1>1, ReadState
    <3>2. /\ IsABag(Total(taken))
          /\ \A t : CopiesOf(t, Total(taken)) = Owed(t, taken)
      BY <1>1, TotalIsOwed DEF IndInv, TypeOK
    <3>3. QED
      BY <3>1, <3>2, SameCounts
  <2>4. QED
    BY <1>1, <2>2, <2>3, VectorSent
<1>2. QED
  BY <1>1, ProgramInv, PTL DEF ProgSpec, CallSumsVector
=============================================================================
