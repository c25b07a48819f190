CONSTANTS
    START = 2
    LIMIT = 15
    MaxIncr = 5
    Lengths <- MCLengths
    Outside = outside
    BITS = 5
    INT_MAX = 31
    PER_US = 3
    SleepTimes <- MCTimes
    LINE_SIZE = 4
    SETS = 2
    LINES = 5
    None = none
    WORD = 32
    ALT_US = 12
    RATE = 4
    MaxSec = 3
    FIFO_LEN = 2
    AE_LEVEL = 1
    AF_LEVEL = 1
    MaxTx = 4
    MaxRx = 4
    MaxCount = 3
    Component <- MCComponents
    Cycles <- MCCycles
    Stages <- MCStages
    Wiped <- MCWiped
    MaxCalls = 6
SPECIFICATION UnitsSpec
INVARIANTS
    BlocksApart
    SumsTheVector
    EmulationMatches
    SleepsAsAsked
    GetIsWall
    TakesDueResult
PROPERTIES
    RegionFlushed
    PolledDelivers
\* The counter of the clock ends a behaviour, and so does a host that leaves.
CHECK_DEADLOCK FALSE
