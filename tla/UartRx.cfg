CONSTANTS
    FIFO_LEN = 2
    AE_LEVEL = 1
    AF_LEVEL = 0
    BUF_LEN = 3
    DEFAULT_TIMEOUT = 2
    INT_MAX = 4
    MaxTx = 1
    MaxRx = 3
    MaxCount = 2
    Calls = {"write", "read"}
SPECIFICATION Spec
INVARIANTS
    RxConserved
    InterruptsArmed
PROPERTIES
    ImplementsRx
    ReadEnds
\* A program that waits for a host that has left stops for good.
CHECK_DEADLOCK FALSE
