SPECIFICATION FairSpec
CONSTANTS
    r1 = r1
    r2 = r2
    r3 = r3
    Requests <- MCRequests
    Size <- MCSize
    MaxPending = 3
INVARIANTS
    ByteAccounting
    SingleWriter
    AnsweredOnceTruthfully
    QueueHasWriter
PROPERTIES
    QueuedBeforeDrainIsAnswered
    ImplementsChannel
