-------------------------- MODULE CustomInstruction --------------------------
(***************************************************************************)
(* The controller of the accelerator (ip/CUSTOM_INSTRUCTION.v) and the     *)
(* Nios II custom-instruction port that drives it.                         *)
(*                                                                         *)
(* A step is one rising edge of clk or an assertion of aclr.  At an edge   *)
(* every register of the controller takes its new value from the values    *)
(* before the edge, the processor looks at done and moves its bus signals, *)
(* and the processing element samples x_in if clk_en_use is high.  All     *)
(* three happen in one step, as they do in the hardware.                   *)
(*                                                                         *)
(* x_in and y_in are always written together, from dataa and datab, so one *)
(* variable x_in stands for the pair and one variable data for the two     *)
(* bus operands; Zero is the pair (0, 0), which adds nothing to the sum.   *)
(*                                                                         *)
(* The processor is external: an instruction holds clk_en, N and data from *)
(* its first cycle, the only one with start, to the cycle in which it      *)
(* finds done high.                                                        *)
(***************************************************************************)
EXTENDS Operands, Naturals, Sequences

CONSTANTS
    CYCLE_DELAY,   \* value of COUNT at which FINISH raises done
    INIT_BOUND1,   \* value of COUNT_INIT at which tick rises
    INIT_BOUND2,   \* value of COUNT_INIT at which tick falls for good
    RESET_INIT,    \* value aclr gives COUNT_INIT
    MinBefore,     \* calls with N = 0 a program makes before one with N = 1
    MaxIssues      \* bound: instructions completed between two resets

ASSUME DelayAssumption == CYCLE_DELAY \in Nat
ASSUME BoundAssumption == /\ INIT_BOUND1 \in Nat
                          /\ INIT_BOUND2 \in Nat
                          /\ RESET_INIT \in Nat
                          /\ INIT_BOUND1 <= INIT_BOUND2
                          /\ RESET_INIT <= INIT_BOUND2
ASSUME ProgramAssumption == MinBefore \in Nat /\ MaxIssues \in Nat

VARIABLES
    state,         \* registers of the controller
    clk_en_use,
    tick,
    done,
    COUNT,
    COUNT_INIT,
    x_in,
    clk_en,        \* the bus, driven by the processor
    start,
    N,
    data,
    run,           \* calls with N = 0 completed since the last N = 1
    sent,          \* history: operands of the completed instructions
    taken          \* history: operands the processing element sampled

regs    == <<state, clk_en_use, tick, done, COUNT, COUNT_INIT, x_in>>
bus     == <<clk_en, start, N, data>>
program == <<run, sent>>
ciVars  == <<state, clk_en_use, tick, done, COUNT, COUNT_INIT, x_in,
             clk_en, start, N, data, run, sent, taken>>

StateSet == {"IDLE", "PROCESS", "FINISH"}
Value  == Operand \cup {Zero}

-----------------------------------------------------------------------------
(* The controller: one action per branch of the case statement.            *)

\* Outside PROCESS nothing moves while the processor has no instruction.
Hold == /\ state # "PROCESS"
        /\ ~clk_en
        /\ UNCHANGED regs

\* The first instruction opens the run.  Neither start nor N is looked at.
IdleAccept == /\ state = "IDLE"
              /\ clk_en
              /\ state' = "PROCESS"
              /\ done' = FALSE
              /\ x_in' = data
              /\ clk_en_use' = TRUE
              /\ UNCHANGED <<tick, COUNT, COUNT_INIT>>

\* In PROCESS the start-up counter runs at every edge, instruction or not.
InWindowUnbounded == COUNT_INIT >= INIT_BOUND1                      \* mutant
InWindow          == COUNT_INIT >= INIT_BOUND1 /\ COUNT_INIT < INIT_BOUND2

NextInit == IF COUNT_INIT < INIT_BOUND2 THEN COUNT_INIT + 1 ELSE COUNT_INIT

CountInit == tick' = InWindow /\ COUNT_INIT' = NextInit

ProcessWaitGated == /\ state = "PROCESS"                            \* mutant
                    /\ ~clk_en
                    /\ clk_en_use' = FALSE
                    /\ CountInit
                    /\ UNCHANGED <<state, done, COUNT, x_in>>

ProcessWait == /\ state = "PROCESS"
               /\ ~clk_en
               /\ CountInit
               /\ UNCHANGED <<state, clk_en_use, done, COUNT, x_in>>

\* done falls in the cycle after the one that ended an instruction, and the
\* operand is replaced by zero, in which case it is not taken twice.
NextDoneHigh == TRUE                                                \* mutant
NextDoneHeld == done                                                \* mutant
NextDone     == ~done

NextOperandHeld == data                                             \* mutant
NextOperand     == IF start THEN data ELSE Zero

ProcessElement == /\ state = "PROCESS"
                  /\ clk_en
                  /\ N # 1
                  /\ CountInit
                  /\ done' = NextDone
                  /\ x_in' = NextOperand
                  /\ UNCHANGED <<state, clk_en_use, COUNT>>

ProcessLast == /\ state = "PROCESS"
               /\ clk_en
               /\ N = 1
               /\ CountInit
               /\ state' = "FINISH"
               /\ x_in' = data
               /\ UNCHANGED <<clk_en_use, done, COUNT>>

\* The edges from the last pair to the result at the end of the adder tree.
DrainTimeShort == CYCLE_DELAY - 1                                   \* mutant
DrainTime      == CYCLE_DELAY

FinishCount == /\ state = "FINISH"
               /\ clk_en
               /\ COUNT < DrainTime
               /\ COUNT' = COUNT + 1
               /\ done' = FALSE
               /\ x_in' = Zero
               /\ UNCHANGED <<state, clk_en_use, tick, COUNT_INIT>>

FinishDone == /\ state = "FINISH"
              /\ clk_en
              /\ COUNT = DrainTime
              /\ COUNT' = COUNT + 1
              /\ done' = TRUE
              /\ x_in' = Zero
              /\ UNCHANGED <<state, clk_en_use, tick, COUNT_INIT>>

FinishLeave == /\ state = "FINISH"
               /\ clk_en
               /\ COUNT > DrainTime
               /\ state' = "IDLE"
               /\ COUNT' = 0
               /\ COUNT_INIT' = 0
               /\ done' = FALSE
               /\ clk_en_use' = FALSE
               /\ UNCHANGED <<tick, x_in>>

Controller == \/ Hold
              \/ IdleAccept
              \/ ProcessWait
              \/ ProcessElement
              \/ ProcessLast
              \/ FinishCount
              \/ FinishDone
              \/ FinishLeave

\* aclr leaves tick as it was: the reset branch does not assign it.
ResetController == /\ state' = "IDLE"
                   /\ clk_en_use' = FALSE
                   /\ done' = FALSE
                   /\ COUNT' = 0
                   /\ COUNT_INIT' = RESET_INIT
                   /\ x_in' = Zero
                   /\ UNCHANGED tick

-----------------------------------------------------------------------------
(* The processor (external).                                               *)

BusIdle == /\ clk_en' = FALSE
           /\ start' = FALSE
           /\ N' = 0
           /\ data' = Zero

Issue == /\ Len(sent') < MaxIssues
         /\ clk_en' = TRUE
         /\ start' = TRUE
         /\ N' \in {n \in 0..1 : n = 1 => run' >= MinBefore}
         /\ data' \in Operand

CpuWait == /\ clk_en
           /\ ~done
           /\ start' = FALSE
           /\ UNCHANGED <<clk_en, N, data, run, sent>>

CpuGap == /\ ~clk_en
          /\ UNCHANGED program
          /\ BusIdle \/ Issue

\* The instruction ends in the cycle that shows done; the next one may
\* start in the cycle after it.
CpuComplete == /\ clk_en
               /\ done
               /\ sent' = Append(sent, data)
               /\ run' = IF N = 1 THEN 0 ELSE run + 1
               /\ BusIdle \/ Issue

Processor == CpuWait \/ CpuGap \/ CpuComplete

-----------------------------------------------------------------------------

\* What the processing element's input registers see at this edge.
Sampled == IF clk_en_use THEN x_in ELSE Zero

Observe == taken' = IF Sampled # Zero THEN Append(taken, Sampled) ELSE taken

Clock == Controller /\ Processor /\ Observe

\* The system reset clears the controller and restarts the program.
Aclr == /\ ResetController
        /\ BusIdle
        /\ run' = 0
        /\ sent' = <<>>
        /\ taken' = <<>>

Init == /\ state = "IDLE"
        /\ clk_en_use = FALSE
        /\ tick \in BOOLEAN
        /\ done = FALSE
        /\ COUNT = 0
        /\ COUNT_INIT = RESET_INIT
        /\ x_in = Zero
        /\ clk_en = FALSE
        /\ start = FALSE
        /\ N = 0
        /\ data = Zero
        /\ run = 0
        /\ sent = <<>>
        /\ taken = <<>>

Next == Clock \/ Aclr

\* The clock is free-running.
Spec == Init /\ [][Next]_ciVars /\ WF_ciVars(Clock)

-----------------------------------------------------------------------------
(* The phases of a run, as they appear between two edges.                  *)

\* No run is open; a new instruction is in its first cycle.
Closed == /\ state = "IDLE"
          /\ ~clk_en_use
          /\ ~done
          /\ x_in = Zero
          /\ run = 0
          /\ taken = sent
          /\ clk_en => start /\ N = 0

\* The first instruction has opened the run; its pair waits in x_in.
Opening == /\ state = "PROCESS"
           /\ clk_en /\ ~start /\ N = 0
           /\ ~done
           /\ x_in = data
           /\ run = 0
           /\ taken = sent

\* The first instruction has its done, one cycle after its pair was sampled.
Opened == /\ state = "PROCESS"
          /\ clk_en /\ ~start /\ N = 0
          /\ done
          /\ x_in = Zero
          /\ run = 0
          /\ taken = Append(sent, data)

\* The run is open and no instruction is past its first cycle.
Ready == /\ state = "PROCESS"
         /\ clk_en => start
         /\ ~done
         /\ x_in = Zero
         /\ run >= 1
         /\ taken = sent

\* A later instruction has its done in the cycle its pair is sampled.
Passing == /\ state = "PROCESS"
           /\ clk_en /\ ~start /\ N = 0
           /\ done
           /\ x_in = data
           /\ run >= 1
           /\ taken = sent

\* The last instruction waits for the pipeline to drain.
Draining == /\ state = "FINISH"
            /\ clk_en /\ ~start /\ N = 1
            /\ done <=> COUNT = CYCLE_DELAY + 1
            /\ run >= 1
            /\ \/ COUNT = 0 /\ x_in = data /\ taken = sent
               \/ COUNT > 0 /\ x_in = Zero /\ taken = Append(sent, data)

-----------------------------------------------------------------------------
(* Properties.                                                             *)

TypeOK == /\ state \in StateSet
          /\ clk_en_use \in BOOLEAN
          /\ tick \in BOOLEAN
          /\ done \in BOOLEAN
          /\ COUNT \in 0..(CYCLE_DELAY + 1)
          /\ COUNT_INIT \in 0..INIT_BOUND2
          /\ x_in \in Value
          /\ clk_en \in BOOLEAN
          /\ start \in BOOLEAN
          /\ N \in 0..1
          /\ data \in Value
          /\ run \in Nat
          /\ sent \in Seq(Operand)
          /\ taken \in Seq(Operand)

\* The signals, the registers and the operands sampled so far agree on where
\* the run stands: the controller and the processor, which share no state but
\* done, are never out of step.
InStep == /\ clk_en_use <=> state # "IDLE"
          /\ state # "FINISH" => COUNT = 0
          /\ start => clk_en
          /\ clk_en => data \in Operand
          /\ \/ Closed \/ Opening \/ Opened
             \/ Ready \/ Passing \/ Draining

\* An instruction never finds the done of an earlier one: done is low in the
\* first cycle of every instruction and whenever the bus is free.  A done left
\* high would end the next instruction before its operands were latched.
NoStaleDone == start \/ ~clk_en => ~done

\* Every operand pair is sampled by the pipeline exactly once and in program
\* order: whenever no instruction is past its first cycle, the pairs sampled
\* are the pairs of the completed instructions.  start, done and the zeroing
\* of x_in in the second cycle of an instruction make it so.
ExactlyOnce == start \/ ~clk_en => taken = sent

\* The pipeline clock enable is high for as long as a run is open, gaps
\* between instructions included: a cycle with it low would clear part of the
\* pipeline and freeze the rest.
EnabledDuringRun == run > 0 => clk_en_use

\* Every instruction ends: done comes, or a reset takes the instruction away.
InstructionEnds == start ~> (done \/ ~clk_en)
=============================================================================
