CONSTANTS
  j1 = j1 j2 = j2 s1 = s1
  Jobs = {j1, j2}
  IdOf <- SameSecond
  None = None
  Shared = Shared
  LastStage = 2
  MaxPolls = 2
  MaxFaults = 2
SPECIFICATION FairSpec
INVARIANTS CompletedHasResult NotFoundMeansMoved
PROPERTY JobsSettle
CHECK_DEADLOCK FALSE
