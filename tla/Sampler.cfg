SPECIFICATION Spec
CONSTANTS
  Collectors = {c1, c2}
  Flows = {0, 1}
  Full = 1
  Targets = {1}
  WindowSize = 2
  SufficientWindow = 1
  OutlierPoints = 1
  None = None
  MaxEvents = 3
SYMMETRY Symmetry
INVARIANTS
  ValidOnlyWhenFull
  OneLeaderUntilDeparture
PROPERTIES
  ZeroStays
CHECK_DEADLOCK FALSE
