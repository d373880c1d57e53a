SPECIFICATION FairSpec
CONSTANTS
    Targets = {t1, t2}
    Priorities = {1, 2}
    Delays = {0, 1}
    CoalesceDelay = 1
    RetryDelay = 2
    Batches = {b1, b2}
    MaxHandlers = 2
INVARIANTS
    TypeOK
    PendingHasTimer
    OneBatch
PROPERTIES
    KeepsPriority
    RetryTimerHolds
    WakeIsServed
CHECK_DEADLOCK FALSE
