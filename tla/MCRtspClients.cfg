CONSTANTS
    Fd = {3}
    Suffix = {live, file}
    Transport = {"udp"}
    Auth = {TRUE}
    Multicast = {FALSE}
    MaxConn = 2
    MaxSession = 2
    MaxPkt = 1
    MaxTrigger = 2
SPECIFICATION Spec
SYMMETRY SuffixSymmetry
INVARIANTS
    AuthFirst
    RtcpChannelValid
    Membership
CHECK_DEADLOCK FALSE
