CONSTANTS
    NIRQ = 3
    Handlers = {h1, h2}
    Null = null
    InWindow = FALSE
SPECIFICATION Spec
INVARIANTS
    CalledAsRegistered
    MoreUrgentOnly
    FirstScanFinds
    AllEnabledAfter
PROPERTIES
    SectionsHold
    UrgentAnswered
