------------------------- MODULE MCCustomInstruction -------------------------
(* CustomInstruction with the parameters of ip/CUSTOM_INSTRUCTION.v and two *)
(* operand pairs.                                                          *)
EXTENDS CustomInstruction

CONSTANTS e1, e2

MCOperand == {e1, e2}
=============================================================================
