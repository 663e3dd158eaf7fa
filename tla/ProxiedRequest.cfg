CONSTANT MaxItems = 2
SPECIFICATION RequestSpec
INVARIANTS
    NoOrphanSide
    Relayed
PROPERTIES
    RequestEnds
CHECK_DEADLOCK FALSE
