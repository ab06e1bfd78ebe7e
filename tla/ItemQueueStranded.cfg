SPECIFICATION Spec
CONSTANTS
  Items = {i1, i2}
  NoItem = NoItem
  Workers = {w1}
  MaxSize = 1
  HasTimeout = FALSE
  FatalErrors = FALSE
INVARIANTS
  NothingLeftBehind
CHECK_DEADLOCK FALSE
