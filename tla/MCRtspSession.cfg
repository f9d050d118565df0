CONSTANTS
    Fd = {3, 4}
    Suffix = {live}
    Transport = {"tcp", "multicast"}
    Auth = {FALSE}
    Multicast = {FALSE, TRUE}
    MaxConn = 2
    MaxSession = 1
    MaxPkt = 1
    MaxTrigger = 2
SPECIFICATION Spec
INVARIANTS
    RtpEventValid
CHECK_DEADLOCK FALSE
