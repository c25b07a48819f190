CONSTANTS
    CYCLE_DELAY = 74
    INIT_BOUND1 = 2
    INIT_BOUND2 = 5
    RESET_INIT = 3
    MULT_STAGES = 6
    ADD_STAGES = 8
    PIP_STAGES = 15
    CORDIC_STAGES = 21
    HALF_STAGES = 27
    Operand <- MCOperand
    Zero = 0
    MinBefore = 3
    MaxIssues = 8
    MaxIdle = 2
SPECIFICATION AccSpec
INVARIANT
    ResultIsRunSum
