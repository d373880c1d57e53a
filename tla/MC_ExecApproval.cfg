SPECIFICATION FairSpec
CONSTANTS
  Ids = {"a", "ab"}
  Requests = {r1, r2}
  Waits = {w1}
  Matches <- MCMatches
  MaxUses = 2
  None = None
INVARIANTS
  TypeOK
  UndecidedIsListed
  DecisionStands
  RunsAsDecided
PROPERTIES
  EveryWaitEnds
CHECK_DEADLOCK FALSE
