CONSTANTS
    W = 6
    ALARMS = {a1, a2, a3}
    Head = head
    Nil = nil
    MaxDelay = 4
    StopsNext = FALSE
SPECIFICATION Spec
INVARIANTS
    RingOK
    CalledInItsTick
PROPERTIES
    ImplementsDeadlines
    TickEnds
