SPECIFICATION FairSpec
CONSTANTS
    main = main
    session = session
    Tasks = {t1, t2, t3}
    Lanes = {session}
    Configured = {}
    Limits <- MC_Limits
    MaxGeneration = 1
PROPERTIES
    QueuedIsServed
CHECK_DEADLOCK FALSE
