CONSTANTS
    Delay = {0, 1, 2}
    MaxTimers = 2
    MaxTime = 4
SPECIFICATION FairSpec
INVARIANTS
    QueuesAgree
PROPERTIES
    RemovedStaysQuiet
    OncePerPass
    SleepIsShort
    QueuedTimersFire
CHECK_DEADLOCK FALSE
