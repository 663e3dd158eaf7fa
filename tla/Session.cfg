CONSTANTS
    Terms = {t1, t2}
    TermIds = {1, 2}
    None = None
    MaxPackets = 5
SPECIFICATION SessionSpec
INVARIANTS
    NothingBeforeLogin
PROPERTIES
    HandshakeInTime
    ProcessesEnd
CHECK_DEADLOCK FALSE
