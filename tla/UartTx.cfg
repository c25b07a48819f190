CONSTANTS
    FIFO_LEN = 2
    AE_LEVEL = 1
    AF_LEVEL = 1
    BUF_LEN = 3
    DEFAULT_TIMEOUT = 2
    INT_MAX = 4
    MaxTx = 5
    MaxRx = 0
    MaxCount = 2
    Calls = {"write", "close", "ioctl"}
SPECIFICATION Spec
INVARIANTS
    TxConserved
PROPERTIES
    ImplementsTx
    EveryByteSent
    WriteEnds
\* A program that waits for a host that has left stops for good.
CHECK_DEADLOCK FALSE
