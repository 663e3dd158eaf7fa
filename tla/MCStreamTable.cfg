SPECIFICATION FairSpec
CONSTANTS
    Ids <- MCIds
    Slots <- MCSlots
    Slot <- MCSlot
    MaxCreated = 3
    MaxStreams = 2
    MaxViolations = 1
INVARIANTS
    OpenIsMapped
    CountIsExact
PROPERTIES
    CacheForgets
    AllClosedAtEnd
