SPECIFICATION GatewayFairSpec
CONSTANTS
    main = main
    cron = cron
    nested = nested
    session = session
    r1 = r1
    c1 = c1
    Main = main
    Cron = cron
    Nested = nested
    Lanes <- MC_Lanes
    Runs <- MC_Runs
    CronRuns = {c1}
    Session <- MC_Session
    Tasks <- MC_Tasks
    Configured = {main}
    Limits = {1}
    MaxGeneration = 2
    MaxRestarts = 2
    MaxStartFailures = 1
    SignalsInStart = FALSE
INVARIANTS
    LoopOK
    RefusesOnlyInRestart
    DrainedMeansQuiet
    OneRunPerSession
PROPERTIES
    RunsEnd
    RestartCompletes
CHECK_DEADLOCK FALSE
