\* The parameters of ip/CUSTOM_INSTRUCTION.v; at least one call with N = 0
\* comes before the call with N = 1.
CONSTANTS
    CYCLE_DELAY = 74
    INIT_BOUND1 = 2
    INIT_BOUND2 = 5
    RESET_INIT = 3
    e1 = e1
    e2 = e2
    Operand <- MCOperand
    Zero = zero
    MinBefore = 1
    MaxIssues = 6
SPECIFICATION Spec
INVARIANTS
    NoStaleDone
    ExactlyOnce
    InStep
PROPERTY
    InstructionEnds
