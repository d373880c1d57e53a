SPECIFICATION Spec
CONSTANTS
    j1 = j1
    j2 = j2
    s1 = s1
    s2 = s2
    m1 = m1
    none = none
    Jobs = {j1, j2}
    Kind <- CronAndAt
    InitialJobs = {j1, j2}
    Services = {s1}
    NoService = none
    Manuals = {m1}
    MaxConcurrentRuns = 1
    MaxMissed = 1
    MaxAttempts = 1
    Outcomes = {"ok"}
    MaxSlot = 1
    MaxEdits = 1
    MaxTroubles = 1
CHECK_DEADLOCK FALSE
INVARIANTS
    TypeOK
    SingleRun
    DoneStaysDone
PROPERTIES
    RemovedStaysRemoved
    SlotsAreNotSkipped
