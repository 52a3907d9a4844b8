CONSTANTS
  e1 = e1 e2 = e2 e3 = e3 e4 = e4 u1 = u1 u2 = u2 u3 = u3
  Runs = {loop, manual}
  Events <- AllEvents
  Url <- UrlOf
  Impact <- ImpactOf
  Updates <- TwoUpdates
  Others = {u2}
  BatchSize = 2
  HighCap = 1
  MediumCap = 1
  MaxFaults = 1
SPECIFICATION FairSpec
INVARIANTS AnnouncedIsStored AnnouncedOnce CounterIsTruth CounterNeverShort
PROPERTY LastUpdateIsStored
