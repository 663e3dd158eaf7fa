CONSTANTS
    Inputs <- MCInputs
    BufSize = 14
    MaxPayload = 3
    MaxControl = 2
SPECIFICATION Spec
INVARIANTS
    Reassembled
    BuffersReturned
PROPERTIES
    InputHandled
CHECK_DEADLOCK FALSE
