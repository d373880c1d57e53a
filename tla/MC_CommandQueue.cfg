SPECIFICATION Spec
CONSTANTS
    main = main
    session = session
    Tasks = {t1, t2, t3}
    Lanes <- MC_Lanes
    Configured <- MC_Configured
    Limits <- MC_Limits
    MaxGeneration = 1
SYMMETRY Symmetry
INVARIANTS
    TypeOK
    NoLostWakeup
    SlotsMatchTasks
    DrainedMeansDone
PROPERTIES
    KeepsPromise
CHECK_DEADLOCK FALSE
