SPECIFICATION Spec
CONSTANTS
  Setters = {s1, s2}
  Watches = {v1}
  Depth = 2
  Empty = Empty
  MaxFaults = 0
INVARIANTS
  ReportedWriteWasMade
CHECK_DEADLOCK FALSE
