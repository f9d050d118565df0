CONSTANTS
    Prefix = 2
    IvLen = 2
    MaxPayload = 6
    NalSize <- MCNalSize
    Extension <- MCExtension
    Tail = {t1, t2}
    MaxNals = 2
    MaxHandled = 3
SPECIFICATION Spec
INVARIANTS
    SelectiveEncryption
    SingleRoundTrip
CHECK_DEADLOCK FALSE
