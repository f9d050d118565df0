CONSTANTS
    Producer = {p1, p2}
    Capacity = 2
    PipeSize = 1
    MaxAdds = 3
    None = None
SPECIFICATION FairSpec
INVARIANTS
    NoOverwrite
    NoLostWakeup
    SoleProducerLosesNothing
PROPERTIES
    ImplementsEventQueue
    EventsRun
    StopEndsLoop
CHECK_DEADLOCK FALSE
