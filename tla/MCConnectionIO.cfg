CONSTANTS
    Sizes = {2}
    MaxQueue = 2
    MaxSend = 2
    Layout <- MCLayout
    MaxItems = 3
    MaxBuf = 9
    Channels = {0}
    MaxReqs = 6
SPECIFICATION Spec
INVARIANTS
    NoStuckData
    ReplyMatchesRequest
    AlignedAnswered
    HandshakeInStep
PROPERTIES
    WireInOrder
CHECK_DEADLOCK FALSE
