CONSTANTS
    Prefix = 2
    IvLen = 2
    MaxPayload = 6
    NalSize <- MCNalSize
    Extension <- MCServerExtension
    Tail = {t1, t2}
    MaxNals = 1
    MaxHandled = 2
SPECIFICATION Spec
INVARIANTS
    OnlyIFramesDecrypted
CHECK_DEADLOCK FALSE
