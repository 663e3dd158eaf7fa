SPECIFICATION FairSpec
CONSTANTS
    Conns = {c1, c2}
    Limits = {0, 1, 2}
    MaxBytes = 1
INVARIANTS
    SemaphoreExact
    NoDoubleCount
PROPERTIES
    ShutdownEnds
CHECK_DEADLOCK FALSE
