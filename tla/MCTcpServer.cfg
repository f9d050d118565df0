CONSTANTS
    Fd = {f1, f2}
    MaxConn = 3
    MaxTrigger = 3
    None = None
SPECIFICATION FairSpec
INVARIANTS
    NoDanglingChannel
    DescriptorFree
    RemovesOnlyClosed
    ClosedIsRemoved
    StopLeavesNothing
PROPERTIES
    StopTerminates
