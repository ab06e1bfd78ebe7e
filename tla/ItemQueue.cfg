SPECIFICATION FairSpec
CONSTANTS
  Items = {i1, i2, i3}
  NoItem = NoItem
  Workers = {w1, w2}
  MaxSize = 2
  HasTimeout = TRUE
  FatalErrors = TRUE
INVARIANTS
  ItemsKept
  ConcurrencyLimited
PROPERTIES
  KeepsPromise
  KeepsPromiseFairly
CHECK_DEADLOCK FALSE
