CONSTANTS
    MAX_FD = 7
    Null = null
    Console = uart
    Devices = {null, uart}
    None = none
SPECIFICATION Spec
INVARIANTS
    OneHolder
PROPERTIES
    LockStays
    ImplementsLocks
