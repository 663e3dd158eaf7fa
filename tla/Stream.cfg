SPECIFICATION FairSpec
CONSTANTS
    NumPackets = 3
    BufferLength = 2
    MaxEarly = 2
    MaxIngress = 2
    MaxReplies = 1
INVARIANTS
    DeliveredInOrder
    ReadyHasConn
    BufferPutOnce
    ClosesAccounted
    SocketReleased
PROPERTIES
    QueuedIsWritten
CHECK_DEADLOCK FALSE
