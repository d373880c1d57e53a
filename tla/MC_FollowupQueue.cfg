SPECIFICATION FairSpec
CONSTANTS
    m1 = m1
    m2 = m2
    m3 = m3
    here = here
    there = there
    Msgs <- MC_Msgs
    Routes <- MC_Routes
    Route <- MC_Route
    Cap = 2
    Modes = {"collect", "followup"}
    Policies = {"new", "old", "summarize"}
    PolicyChanges = FALSE
    MaxQueues = 2
    MaxFailures = 1
    MaxClears = 1
INVARIANTS
    TypeOK
    NoLossUndisturbed
    RunOnce
    InOrder
PROPERTIES
    DiscardedNeverStarts
    AcceptedIsHandled
CHECK_DEADLOCK FALSE
