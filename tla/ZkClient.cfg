SPECIFICATION FairSpec
CONSTANTS
  Setters = {s1, s2}
  Watches = {v1, v2}
  Depth = 2
  Empty = Empty
  MaxFaults = 2
INVARIANTS
  RacingCreatorsSucceed
  AckedWriteWasMade
PROPERTIES
  EnsuringKeepsData
  WatchConverges
  SetDataTerminates
CHECK_DEADLOCK FALSE
