------------------------------- MODULE Operands -------------------------------
(* What the program feeds the accelerator.  An operand is the pair (dataa,  *)
(* datab) of one instruction: two elements of the vector.                   *)
CONSTANTS
    Operand,       \* the operand pairs of the program, none of them zero
    Zero           \* the pair (0, 0), which adds nothing to the sum

ASSUME OperandAssumption == Zero \notin Operand
=============================================================================
