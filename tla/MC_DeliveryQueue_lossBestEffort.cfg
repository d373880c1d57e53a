SPECIFICATION Spec
CONSTANTS
    m1 = m1
    m2 = m2
    r1 = r1
    r2 = r2
    None = None
    Recoveries <- MC_Recoveries
    Msgs <- MC_One
    Kind <- MC_Best
    NumParts = 2
    MaxRetries = 2
    MaxFaults = 2
    MaxBreaks = 0
INVARIANTS
    NeverLost
