SPECIFICATION FairSpec
CONSTANTS
    j1 = j1
    j2 = j2
    s1 = s1
    s2 = s2
    m1 = m1
    none = none
    Jobs = {j1, j2}
    Kind <- CronAndAt
    InitialJobs = {j1, j2}
    Services = {s1, s2}
    NoService = none
    Manuals = {}
    MaxConcurrentRuns = 1
    MaxMissed = 1
    MaxAttempts = 1
    Outcomes = {"transient"}
    MaxSlot = 1
    MaxEdits = 0
    MaxTroubles = 0
CHECK_DEADLOCK FALSE
PROPERTY
    DueIsStarted
