----------------------- MODULE CustomInstruction_proofs -----------------------
(***************************************************************************)
(* Proofs about the controller and its port, for every delay, start-up     *)
(* window, set of operands and length of program, provided the program     *)
(* calls at least one instruction with N = 0 before the one with N = 1.    *)
(***************************************************************************)
EXTENDS CustomInstruction, TLAPS

\* The strengthening that is inductive: the types and the phases of a run.
IndInv == TypeOK /\ InStep

\* What the program has to keep to for that: an instruction with N = 1 comes
\* after one with N = 0.
LastIsLate == clk_en /\ N = 1 => run >= 1

\* The value operators of the controller are abbreviations: always expanded.
USE DEF NextDone, NextOperand, NextInit, InWindow, DrainTime

-----------------------------------------------------------------------------

(* The reset values of ip/CUSTOM_INSTRUCTION.v are typed.                  *)
LEMMA InitTypes == Init => TypeOK
<1> SUFFICES ASSUME Init PROVE TypeOK
  OBVIOUS
<1> USE DEF Init
<1>1. COUNT \in 0..(CYCLE_DELAY + 1)
  BY DelayAssumption
<1>2. COUNT_INIT \in 0..INIT_BOUND2
  BY BoundAssumption
<1>3. state \in StateSet /\ x_in \in Value /\ data \in Value
  BY DEF StateSet, Value
<1>4. N \in 0..1 /\ run \in Nat /\ sent \in Seq(Operand) /\ taken \in Seq(Operand)
  OBVIOUS
<1>5. /\ clk_en_use \in BOOLEAN /\ tick \in BOOLEAN /\ done \in BOOLEAN
      /\ clk_en \in BOOLEAN /\ start \in BOOLEAN
  BY Zenon
<1>6. QED
  BY <1>1, <1>2, <1>3, <1>4, <1>5, Zenon DEF TypeOK

(* Power-up leaves the run closed.                                         *)
LEMMA InitInStep == Init => InStep
<1> SUFFICES ASSUME Init PROVE InStep
  OBVIOUS
<1>1. Closed
  BY Zenon DEF Init, Closed
<1>2. QED
  BY <1>1 DEF Init, InStep

(* aclr at any moment leaves every register and signal typed.              *)
LEMMA AclrTypes == TypeOK /\ Aclr => TypeOK'
<1> SUFFICES ASSUME TypeOK, Aclr PROVE TypeOK'
  OBVIOUS
<1> USE DEF Aclr, ResetController, BusIdle
<1>1. COUNT' \in 0..(CYCLE_DELAY + 1)
  BY DelayAssumption
<1>2. COUNT_INIT' \in 0..INIT_BOUND2
  BY BoundAssumption
<1>3. state' \in StateSet /\ x_in' \in Value /\ data' \in Value
  BY DEF StateSet, Value
<1>4. /\ N' \in 0..1 /\ run' \in Nat
      /\ sent' \in Seq(Operand) /\ taken' \in Seq(Operand)
  OBVIOUS
<1>5. /\ clk_en_use' \in BOOLEAN /\ tick' \in BOOLEAN /\ done' \in BOOLEAN
      /\ clk_en' \in BOOLEAN /\ start' \in BOOLEAN
  BY Zenon DEF TypeOK
<1>6. QED
  BY <1>1, <1>2, <1>3, <1>4, <1>5, Zenon DEF TypeOK

(* aclr closes the run, whatever its phase.                                *)
LEMMA AclrInStep == Aclr => InStep'
<1> SUFFICES ASSUME Aclr PROVE InStep'
  OBVIOUS
<1>1. Closed'
  BY Zenon DEF Aclr, ResetController, BusIdle, Closed
<1>2. QED
  BY <1>1 DEF Aclr, ResetController, BusIdle, InStep

-----------------------------------------------------------------------------

(* When the bus is free at an edge, the processor leaves it idle or drives *)
(* the first cycle of an instruction.                                      *)
LEMMA FreeBus ==
  ASSUME BusIdle \/ Issue
  PROVE  /\ clk_en' \in BOOLEAN /\ start' \in BOOLEAN
         /\ start' <=> clk_en'
         /\ N' \in 0..1 /\ data' \in Value
         /\ clk_en' => data' \in Operand
<1>1. clk_en' \in BOOLEAN /\ start' \in BOOLEAN /\ (start' <=> clk_en')
  BY Zenon DEF BusIdle, Issue
<1>2. N' \in 0..1
  BY DEF BusIdle, Issue
<1>3. data' \in Value /\ (clk_en' => data' \in Operand)
  BY Zenon DEF BusIdle, Issue, Value
<1>4. QED
  BY <1>1, <1>2, <1>3

(* Whatever the processor does at an edge, its signals stay typed and the  *)
(* operands it drives are operands of the program.                         *)
LEMMA BusStep ==
  ASSUME TypeOK, InStep, Processor
  PROVE  /\ clk_en' \in BOOLEAN /\ start' \in BOOLEAN
         /\ N' \in 0..1 /\ data' \in Value /\ run' \in Nat
         /\ sent' \in Seq(Operand)
         /\ start' => clk_en'
         /\ clk_en' => data' \in Operand
<1>1. CASE CpuWait
  BY <1>1 DEF CpuWait, TypeOK, InStep
<1>2. CASE CpuGap
  <2>1. sent' \in Seq(Operand) /\ run' \in Nat
    BY <1>2 DEF CpuGap, program, TypeOK
  <2>2. QED
    BY <1>2, <2>1, FreeBus, Zenon DEF CpuGap
<1>3. CASE CpuComplete
  <2>1. data \in Operand
    BY <1>3 DEF CpuComplete, InStep
  <2>2. sent' \in Seq(Operand) /\ run' \in Nat
    BY <1>3, <2>1 DEF CpuComplete, TypeOK
  <2>3. QED
    BY <1>3, <2>2, FreeBus, Zenon DEF CpuComplete
<1>4. QED
  BY <1>1, <1>2, <1>3, Zenon DEF Processor

(* The last instruction of a run is issued only after MinBefore others, and *)
(* stays on the bus while the number of others does.                       *)
LEMMA IssuedLate ==
  ASSUME TypeOK, InStep, Processor, MinBefore >= 1
  PROVE  LastIsLate'
<1> SUFFICES ASSUME clk_en', N' = 1 PROVE run' >= 1
  BY DEF LastIsLate
<1>1. CASE CpuWait
  <2>1. clk_en /\ N = 1 /\ run' = run
    BY <1>1 DEF CpuWait
  <2>2. QED
    BY <2>1 DEF InStep, Closed, Opening, Opened, Ready, Passing, Draining
<1>2. CASE BusIdle \/ Issue
  <2>1. Issue
    BY <1>2 DEF BusIdle
  <2>2. run' >= MinBefore /\ run' \in Nat
    BY <2>1, BusStep DEF Issue
  <2>3. QED
    BY <2>2, ProgramAssumption
<1>3. QED
  BY <1>1, <1>2 DEF Processor, CpuGap, CpuComplete

-----------------------------------------------------------------------------

(* Every branch of the controller keeps its registers typed.               *)
LEMMA ControllerTypes ==
  ASSUME TypeOK, Controller
  PROVE  /\ state' \in StateSet /\ x_in' \in Value
         /\ clk_en_use' \in BOOLEAN /\ tick' \in BOOLEAN /\ done' \in BOOLEAN
         /\ COUNT' \in 0..(CYCLE_DELAY + 1)
         /\ COUNT_INIT' \in 0..INIT_BOUND2
<1> USE DEF Hold, regs, IdleAccept, ProcessWait, ProcessElement, ProcessLast,
            FinishCount, FinishDone, FinishLeave
<1>1. state' \in StateSet /\ x_in' \in Value
  BY DEF Controller, TypeOK, StateSet, Value
<1>2. clk_en_use' \in BOOLEAN /\ tick' \in BOOLEAN /\ done' \in BOOLEAN
  BY Zenon DEF Controller, CountInit, TypeOK
<1>3. COUNT' \in 0..(CYCLE_DELAY + 1)
  BY DelayAssumption DEF Controller, TypeOK
<1>4. COUNT_INIT' \in 0..INIT_BOUND2
  BY BoundAssumption DEF Controller, CountInit, TypeOK
<1>5. QED
  BY <1>1, <1>2, <1>3, <1>4

(* What the pipeline samples is an operand of the program or nothing.      *)
LEMMA ObserveTypes ==
  ASSUME TypeOK, Observe
  PROVE  taken' \in Seq(Operand)
<1>1. Sampled \in Value
  BY DEF Sampled, TypeOK, Value
<1>2. CASE Sampled # Zero
  BY <1>1, <1>2 DEF Observe, TypeOK, Value
<1>3. CASE Sampled = Zero
  BY <1>3 DEF Observe, TypeOK
<1>4. QED
  BY <1>2, <1>3

(* An edge with nothing in x_in, or with the pipeline disabled, samples    *)
(* nothing; an edge with a pair in x_in samples that pair.                 *)
LEMMA ObserveNothing ==
  ASSUME Observe, x_in = Zero \/ ~clk_en_use
  PROVE  taken' = taken
BY DEF Observe, Sampled

LEMMA ObserveOperand ==
  ASSUME Observe, x_in \in Operand, clk_en_use
  PROVE  taken' = Append(taken, x_in)
BY OperandAssumption DEF Observe, Sampled

-----------------------------------------------------------------------------
(* One lemma per phase: where an edge leads from it.                       *)

(* A closed run stays closed until an instruction opens it.                *)
LEMMA ClosedStep ==
  ASSUME TypeOK, InStep, Closed, Clock, LastIsLate'
  PROVE  Closed' \/ Opening'
<1>1. taken' = taken
  BY ObserveNothing, Zenon DEF Closed, Clock
<1>2. CASE ~clk_en
  <2>1. Hold
    BY <1>2 DEF Closed, Clock, Controller, IdleAccept, ProcessWait,
       ProcessElement, ProcessLast, FinishCount, FinishDone, FinishLeave
  <2>2. CpuGap
    BY <1>2, Zenon DEF Clock, Processor, CpuWait, CpuComplete
  <2>3. clk_en' => N' = 0
    <3>1. run' = 0
      BY <2>2 DEF CpuGap, program, Closed
    <3>2. N' \in 0..1
      BY <2>2, FreeBus DEF CpuGap
    <3>3. QED
      BY <3>1, <3>2 DEF LastIsLate
  <2>4. clk_en' => start'
    BY <2>2, FreeBus, Zenon DEF CpuGap
  <2>5. QED
    BY <1>1, <2>1, <2>2, <2>3, <2>4, Zenon
       DEF Hold, regs, CpuGap, program, Closed
<1>3. CASE clk_en
  <2>1. IdleAccept
    BY <1>3 DEF Closed, Clock, Controller, Hold, ProcessWait,
       ProcessElement, ProcessLast, FinishCount, FinishDone, FinishLeave
  <2>2. CpuWait
    BY <1>3, Zenon DEF Closed, Clock, Processor, CpuGap, CpuComplete
  <2>3. Opening'
    BY <1>1, <1>3, <2>1, <2>2, Zenon DEF IdleAccept, CpuWait, Closed, Opening
  <2>4. QED
    BY <2>3
<1>4. QED
  BY <1>2, <1>3

(* In PROCESS an instruction with N = 0 takes the ProcessElement branch.   *)
LEMMA ProcessElementOnly ==
  ASSUME Controller, state = "PROCESS", clk_en, N = 0
  PROVE  ProcessElement
BY DEF Controller, Hold, IdleAccept, ProcessWait, ProcessLast, FinishCount,
       FinishDone, FinishLeave

(* The pair of the opening instruction is sampled once, at the next edge.  *)
LEMMA OpeningStep ==
  ASSUME TypeOK, InStep, Opening, Clock
  PROVE  Opened'
<1>1. ProcessElement
  BY ProcessElementOnly DEF Opening, Clock
<1>2. CpuWait
  BY Zenon DEF Opening, Clock, Processor, CpuGap, CpuComplete
<1>3. taken' = Append(sent, data)
  BY ObserveOperand DEF Opening, Clock, InStep
<1>4. QED
  BY <1>1, <1>2, <1>3, Zenon DEF ProcessElement, CpuWait, Opening, Opened

(* The opening instruction completes with its pair already in the pipeline.*)
LEMMA OpenedStep ==
  ASSUME TypeOK, InStep, Opened, Clock
  PROVE  Ready'
<1>1. ProcessElement
  BY ProcessElementOnly DEF Opened, Clock
<1>2. CpuComplete
  BY Zenon DEF Opened, Clock, Processor, CpuGap, CpuWait
<1>3. taken' = taken
  BY ObserveNothing, Zenon DEF Opened, Clock
<1>4. run' >= 1
  BY <1>2 DEF CpuComplete, Opened
<1>5. clk_en' => start'
  BY <1>2, FreeBus, Zenon DEF CpuComplete
<1>6. QED
  BY <1>1, <1>2, <1>3, <1>4, <1>5, Zenon
     DEF ProcessElement, CpuComplete, Opened, Ready

(* From Ready the run waits, passes an element or starts to drain.         *)
LEMMA ReadyStep ==
  ASSUME TypeOK, InStep, Ready, Clock
  PROVE  Ready' \/ Passing' \/ Draining'
<1>1. taken' = taken
  BY ObserveNothing, Zenon DEF Ready, Clock
<1>2. CASE ~clk_en
  <2>1. ProcessWait
    BY <1>2 DEF Ready, Clock, Controller, Hold, IdleAccept,
       ProcessElement, ProcessLast, FinishCount, FinishDone, FinishLeave
  <2>2. CpuGap
    BY <1>2, Zenon DEF Clock, Processor, CpuWait, CpuComplete
  <2>3. clk_en' => start'
    BY <2>2, FreeBus, Zenon DEF CpuGap
  <2>4. Ready'
    BY <1>1, <2>1, <2>2, <2>3, Zenon
       DEF ProcessWait, CpuGap, program, Ready
  <2>5. QED
    BY <2>4
<1>3. CASE clk_en
  <2>1. CpuWait
    BY <1>3, Zenon DEF Ready, Clock, Processor, CpuGap, CpuComplete
  <2>2. start
    BY <1>3 DEF Ready
  <2>3. CASE N = 0
    <3>1. ProcessElement
      BY <1>3, <2>3, ProcessElementOnly DEF Ready, Clock
    <3>2. Passing'
      BY <1>1, <1>3, <2>1, <2>2, <2>3, <3>1, Zenon
         DEF ProcessElement, CpuWait, Ready, Passing
    <3>3. QED
      BY <3>2
  <2>4. CASE N = 1
    <3>1. ProcessLast
      BY <1>3, <2>4 DEF Ready, Clock, Controller, Hold, IdleAccept,
         ProcessWait, ProcessElement, FinishCount, FinishDone, FinishLeave
    <3>2. COUNT' = 0
      BY <3>1 DEF ProcessLast, Ready, InStep
    <3>3. ~done' /\ COUNT' # CYCLE_DELAY + 1
      <4>1. ~done'
        BY <3>1, Zenon DEF ProcessLast, Ready
      <4>2. QED
        BY <3>2, <4>1, DelayAssumption
    <3>4. Draining'
      BY <1>1, <1>3, <2>1, <2>2, <2>4, <3>1, <3>2, <3>3, Zenon
         DEF ProcessLast, CpuWait, Ready, Draining
    <3>5. QED
      BY <3>4
  <2>5. N = 0 \/ N = 1
    BY DEF TypeOK
  <2>6. QED
    BY <2>3, <2>4, <2>5
<1>4. QED
  BY <1>2, <1>3

(* A passing instruction completes at the edge that samples its pair.      *)
LEMMA PassingStep ==
  ASSUME TypeOK, InStep, Passing, Clock
  PROVE  Ready'
<1>1. ProcessElement
  BY ProcessElementOnly DEF Passing, Clock
<1>2. CpuComplete
  BY Zenon DEF Passing, Clock, Processor, CpuGap, CpuWait
<1>3. taken' = Append(taken, data)
  BY ObserveOperand DEF Passing, Clock, InStep
<1>4. run' >= 1
  BY <1>2 DEF CpuComplete, Passing, TypeOK
<1>5. clk_en' => start'
  BY <1>2, FreeBus, Zenon DEF CpuComplete
<1>6. QED
  BY <1>1, <1>2, <1>3, <1>4, <1>5, Zenon
     DEF ProcessElement, CpuComplete, Passing, Ready

(* The drain counts to CYCLE_DELAY + 1 and then closes the run, its last   *)
(* pair sampled at the first edge.                                         *)
LEMMA DrainingStep ==
  ASSUME TypeOK, InStep, Draining, Clock, LastIsLate'
  PROVE  Draining' \/ Closed'
<1>1. FinishCount \/ FinishDone \/ FinishLeave
  BY DEF Draining, Clock, Controller, Hold, IdleAccept, ProcessWait,
     ProcessElement, ProcessLast
<1>2. taken' = Append(sent, data)
  <2>1. CASE COUNT = 0
    <3>1. taken' = Append(taken, data) /\ taken = sent
      BY <2>1, ObserveOperand DEF Draining, Clock, InStep
    <3>2. QED
      BY <3>1
  <2>2. CASE COUNT > 0
    <3>1. taken' = taken /\ taken = Append(sent, data)
      BY <2>2, ObserveNothing DEF Draining, Clock
    <3>2. QED
      BY <3>1
  <2>3. QED
    BY <2>1, <2>2 DEF Draining
<1>3. COUNT \in Nat
  BY DelayAssumption DEF TypeOK
<1>4. CASE FinishCount
  <2>1. ~done
    BY <1>4, DelayAssumption, <1>3 DEF FinishCount, Draining
  <2>2. CpuWait
    BY <2>1, Zenon DEF Draining, Clock, Processor, CpuGap, CpuComplete
  <2>3. COUNT' > 0 /\ COUNT' # CYCLE_DELAY + 1
    BY <1>3, <1>4, DelayAssumption DEF FinishCount
  <2>4. ~done'
    BY <1>4, Zenon DEF FinishCount
  <2>5. Draining'
    BY <1>2, <1>4, <2>2, <2>3, <2>4, Zenon DEF FinishCount, CpuWait, Draining
  <2>6. QED
    BY <2>5
<1>5. CASE FinishDone
  <2>1. ~done
    BY <1>5, DelayAssumption, <1>3 DEF FinishDone, Draining
  <2>2. CpuWait
    BY <2>1, Zenon DEF Draining, Clock, Processor, CpuGap, CpuComplete
  <2>3. COUNT' > 0 /\ COUNT' = CYCLE_DELAY + 1
    BY <1>3, <1>5, DelayAssumption DEF FinishDone
  <2>4. done'
    BY <1>5, Zenon DEF FinishDone
  <2>5. Draining'
    BY <1>2, <1>5, <2>2, <2>3, <2>4, Zenon DEF FinishDone, CpuWait, Draining
  <2>6. QED
    BY <2>5
<1>6. CASE FinishLeave
  <2>1. COUNT = CYCLE_DELAY + 1 /\ COUNT > 0
    BY <1>6, <1>3, DelayAssumption DEF FinishLeave, TypeOK
  <2>2. done
    BY <2>1, Zenon DEF Draining
  <2>3. CpuComplete
    BY <2>2, Zenon DEF Draining, Clock, Processor, CpuGap, CpuWait
  <2>4. x_in = Zero
    BY <2>1, DelayAssumption DEF Draining
  <2>5. run' = 0
    BY <2>3 DEF CpuComplete, Draining
  <2>6. clk_en' => N' = 0
    <3>1. N' \in 0..1
      BY <2>3, FreeBus DEF CpuComplete
    <3>2. QED
      BY <2>5, <3>1 DEF LastIsLate
  <2>7. clk_en' => start'
    BY <2>3, FreeBus, Zenon DEF CpuComplete
  <2>8. Closed'
    BY <1>2, <1>6, <2>3, <2>4, <2>5, <2>6, <2>7, Zenon
       DEF FinishLeave, CpuComplete, Draining, Closed
  <2>9. QED
    BY <2>8
<1>7. QED
  BY <1>1, <1>4, <1>5, <1>6

-----------------------------------------------------------------------------

(* Outside FINISH the drain counter is zero, and the pipeline is enabled   *)
(* exactly while the controller is not in IDLE.                            *)
LEMMA RegisterStep ==
  ASSUME TypeOK, InStep, Controller
  PROVE  /\ clk_en_use' <=> state' # "IDLE"
         /\ state' # "FINISH" => COUNT' = 0
<1> USE DEF Hold, regs, IdleAccept, ProcessWait, ProcessElement, ProcessLast,
            FinishCount, FinishDone, FinishLeave
<1>1. clk_en_use' <=> state' # "IDLE"
  BY DEF Controller, InStep, TypeOK
<1>2. state' # "FINISH" => COUNT' = 0
  BY DEF Controller, InStep
<1>3. QED
  BY <1>1, <1>2

(* An edge keeps the types and takes each phase to a phase, provided the   *)
(* program issues its last instruction after another one.                  *)
LEMMA ClockInv == LastIsLate' /\ IndInv /\ Clock => IndInv'
<1> SUFFICES ASSUME LastIsLate', IndInv, Clock
             PROVE  IndInv'
  OBVIOUS
<1> USE DEF IndInv
<1>1. TypeOK'
  BY BusStep, ControllerTypes, ObserveTypes, Zenon DEF Clock, TypeOK
<1>2. InStep'
  <2>1. \/ Closed' \/ Opening' \/ Opened'
        \/ Ready' \/ Passing' \/ Draining'
    BY ClosedStep, OpeningStep, OpenedStep, ReadyStep, PassingStep,
       DrainingStep, Zenon DEF InStep
  <2>2. QED
    BY <2>1, BusStep, RegisterStep, Zenon DEF Clock, InStep
<1>3. QED
  BY <1>1, <1>2

(* A step that changes nothing keeps the invariant.                        *)
LEMMA StutterInv == IndInv /\ UNCHANGED ciVars => IndInv'
<1> SUFFICES ASSUME TypeOK, InStep, UNCHANGED ciVars PROVE TypeOK' /\ InStep'
  BY DEF IndInv
<1> USE DEF ciVars
<1>1. TypeOK'
  BY DEF TypeOK, StateSet, Value
<1>2. InStep'
  <2>1. \/ Closed' \/ Opening' \/ Opened'
        \/ Ready' \/ Passing' \/ Draining'
    BY DEF InStep, Closed, Opening, Opened, Ready, Passing, Draining
  <2>2. QED
    BY <2>1 DEF InStep
<1>3. QED
  BY <1>1, <1>2

(* The invariant holds in every behaviour: the reset values establish it   *)
(* and clock edges and resets preserve it.                                 *)
THEOREM IndInvHolds == MinBefore >= 1 => (Spec => []IndInv)
<1> SUFFICES ASSUME MinBefore >= 1 PROVE Spec => []IndInv
  OBVIOUS
<1>1. Init => IndInv
  BY InitTypes, InitInStep DEF IndInv
<1>2. IndInv /\ [Next]_ciVars => IndInv'
  BY IssuedLate, ClockInv, AclrTypes, AclrInStep, StutterInv
     DEF Next, Clock, IndInv
<1>3. QED
  BY <1>1, <1>2, PTL DEF Spec

(* Every register, signal and history variable keeps its type.             *)
THEOREM TypeCorrect == MinBefore >= 1 => (Spec => []TypeOK)
<1>1. IndInv => TypeOK
  BY DEF IndInv
<1>2. QED
  BY <1>1, IndInvHolds, PTL

(* The controller and the processor are never out of step.                 *)
THEOREM PhasesHold == MinBefore >= 1 => (Spec => []InStep)
<1>1. IndInv => InStep
  BY DEF IndInv
<1>2. QED
  BY <1>1, IndInvHolds, PTL

(* No instruction starts with done high.                                   *)
THEOREM DoneIsFresh == MinBefore >= 1 => (Spec => []NoStaleDone)
<1>1. IndInv => NoStaleDone
  BY Zenon DEF IndInv, InStep, Closed, Opening, Opened, Ready, Passing,
     Draining, NoStaleDone
<1>2. QED
  BY <1>1, IndInvHolds, PTL

(* The pipeline samples every operand pair of the program exactly once and *)
(* in program order.                                                       *)
THEOREM SampledExactlyOnce == MinBefore >= 1 => (Spec => []ExactlyOnce)
<1>1. IndInv => ExactlyOnce
  BY Zenon DEF IndInv, InStep, Closed, Opening, Opened, Ready, Passing,
     Draining, ExactlyOnce
<1>2. QED
  BY <1>1, IndInvHolds, PTL

(* The pipeline is enabled as long as a run is open.                       *)
THEOREM RunKeepsClock == MinBefore >= 1 => (Spec => []EnabledDuringRun)
<1>1. IndInv => EnabledDuringRun
  BY DEF IndInv, InStep, Closed, Opening, Opened, Ready, Passing, Draining,
     EnabledDuringRun
<1>2. QED
  BY <1>1, IndInvHolds, PTL

-----------------------------------------------------------------------------
(* How long an instruction takes.                                          *)

\* Clock edges until the processor sees the done of the instruction on the bus:
\* the first of a run takes two, the others one, and the last as many as the
\* pipeline needs to drain, with two more to enter FINISH and to leave it.
EdgesLeft == IF done THEN 0
             ELSE IF state = "IDLE" THEN 2
             ELSE IF state = "FINISH" THEN CYCLE_DELAY + 1 - COUNT
             ELSE IF N = 1 THEN CYCLE_DELAY + 2 ELSE 1

\* Every edge brings done nearer by one, and the processor waits for it.
CountsDown ==
    [][Clock /\ clk_en /\ ~done =>
           clk_en' /\ EdgesLeft \in Nat \ {0} /\ EdgesLeft' = EdgesLeft - 1]_ciVars

(* An instruction ends after exactly the edges it has left: the safety half
   of InstructionEnds, with its bound.  An early done would end the program's
   custom instruction before the sum is there.                             *)
THEOREM InstructionTakes == MinBefore >= 1 => (Spec => CountsDown)
<1>1. ASSUME IndInv, Clock, clk_en, ~done
      PROVE  clk_en' /\ EdgesLeft \in Nat \ {0} /\ EdgesLeft' = EdgesLeft - 1
  <2>1. /\ CpuWait /\ clk_en' = clk_en /\ N' = N
        /\ COUNT \in Nat /\ COUNT <= CYCLE_DELAY + 1 /\ CYCLE_DELAY \in Nat
    <3>1. CpuWait
      BY <1>1, Zenon DEF Clock, Processor, CpuGap, CpuComplete
    <3>2. clk_en' = clk_en /\ N' = N
      BY <3>1 DEF CpuWait
    <3>3. COUNT \in Nat /\ COUNT <= CYCLE_DELAY + 1 /\ CYCLE_DELAY \in Nat
      BY <1>1, DelayAssumption DEF IndInv, TypeOK
    <3>4. QED
      BY <3>1, <3>2, <3>3
  <2>2. CASE Closed
    <3>1. IdleAccept
      BY <1>1, <2>2 DEF Clock, Controller, Hold, ProcessWait, ProcessElement,
         ProcessLast, FinishCount, FinishDone, FinishLeave, Closed
    <3>2. EdgesLeft = 2 /\ EdgesLeft' = 1
      BY <1>1, <2>1, <2>2, <3>1 DEF EdgesLeft, IdleAccept, Closed
    <3>3. QED
      BY <1>1, <2>1, <3>2
  <2>3. CASE (Opening \/ Ready) /\ N # 1
    <3>1. ProcessElement
      BY <1>1, <2>3 DEF Clock, Controller, Hold, IdleAccept, ProcessWait,
         ProcessLast, FinishCount, FinishDone, FinishLeave, Opening, Ready
    <3>2. done' /\ state = "PROCESS"
      BY <1>1, <3>1, Zenon DEF ProcessElement, NextDone
    <3>3. EdgesLeft = 1 /\ EdgesLeft' = 0
      BY <1>1, <2>3, <3>2 DEF EdgesLeft
    <3>4. QED
      BY <1>1, <2>1, <3>3
  <2>4. CASE (Opening \/ Ready) /\ N = 1
    <3>1. ProcessLast
      BY <1>1, <2>4 DEF Clock, Controller, Hold, IdleAccept, ProcessWait,
         ProcessElement, FinishCount, FinishDone, FinishLeave, Opening, Ready
    <3>2. COUNT = 0 /\ state = "PROCESS" /\ state' = "FINISH" /\ COUNT' = 0 /\ ~done'
      BY <1>1, <2>4, <3>1 DEF ProcessLast, IndInv, InStep, Opening, Ready
    <3>3. EdgesLeft = CYCLE_DELAY + 2 /\ EdgesLeft' = CYCLE_DELAY + 1
      BY <1>1, <2>1, <2>4, <3>2 DEF EdgesLeft
    <3>4. QED
      BY <1>1, <2>1, <3>3
  <2>5. CASE Draining
    <3>1. state = "FINISH" /\ COUNT # CYCLE_DELAY + 1 /\ COUNT <= CYCLE_DELAY
      BY <1>1, <2>1, <2>5 DEF Draining
    <3>2. FinishCount \/ FinishDone
      BY <1>1, <2>1, <3>1 DEF Clock, Controller, Hold, IdleAccept, ProcessWait,
         ProcessElement, ProcessLast, FinishLeave, DrainTime
    <3>3. /\ state' = "FINISH" /\ COUNT' = COUNT + 1
          /\ done' <=> COUNT = CYCLE_DELAY
      <4>1. CASE FinishCount
        <5>1. COUNT # CYCLE_DELAY
          BY <2>1, <4>1 DEF FinishCount, DrainTime
        <5>2. QED
          BY <3>1, <4>1, <5>1, Zenon DEF FinishCount
      <4>2. CASE FinishDone
        BY <3>1, <4>2, Zenon DEF FinishDone, DrainTime
      <4>3. QED
        BY <3>2, <4>1, <4>2
    <3>4. EdgesLeft = CYCLE_DELAY + 1 - COUNT /\ EdgesLeft' = CYCLE_DELAY - COUNT
      <4>1. EdgesLeft = CYCLE_DELAY + 1 - COUNT
        BY <1>1, <3>1 DEF EdgesLeft
      <4>2. CASE COUNT = CYCLE_DELAY
        <5>1. done'
          BY <3>3, <4>2, Zenon
        <5>2. EdgesLeft' = 0
          BY <5>1, Zenon DEF EdgesLeft
        <5>3. QED
          BY <2>1, <4>1, <4>2, <5>2
      <4>3. CASE COUNT # CYCLE_DELAY
        <5>1. ~done'
          BY <3>3, <4>3, Zenon
        <5>2. EdgesLeft' = CYCLE_DELAY + 1 - COUNT'
          BY <3>3, <5>1, Zenon DEF EdgesLeft
        <5>3. QED
          BY <2>1, <3>3, <4>1, <5>2
      <4>4. QED
        BY <4>1, <4>2, <4>3
    <3>5. QED
      BY <1>1, <2>1, <3>1, <3>4
  <2>6. QED
    BY <1>1, <2>2, <2>3, <2>4, <2>5 DEF IndInv, InStep, Opened, Passing
<1>2. IndInv /\ [Next]_ciVars
        => [Clock /\ clk_en /\ ~done =>
                clk_en' /\ EdgesLeft \in Nat \ {0}
                /\ EdgesLeft' = EdgesLeft - 1]_ciVars
  BY <1>1, Zenon
<1>3. QED
  BY <1>2, IndInvHolds, PTL DEF Spec, CountsDown
=============================================================================
