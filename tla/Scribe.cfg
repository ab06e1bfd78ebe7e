SPECIFICATION ScribeSpec
CONSTANTS
  b1 = b1
  b2 = b2
  b3 = b3
  Batches <- TheBatches
  MaxAttempts = 2
  Items <- FirstTwice
  Content <- MixedContent
  Categories = {"zipkin"}
  NoItem = NoItem
  Workers = {w1}
  MaxSize = 1
  FullCap = 0
  HasTimeout = TRUE
  FatalErrors = TRUE
  Modes = {"direct", "queued", "blocking"}
INVARIANTS
  QueueKept
  AckedReachesStore
  RepeatsAreHonest
  StoreClosedLast
CHECK_DEADLOCK FALSE
