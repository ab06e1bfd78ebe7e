SPECIFICATION ScribeFairSpec
CONSTANTS
  b1 = b1
  b2 = b2
  b3 = b3
  Batches <- TheBatches
  MaxAttempts = 2
  Items <- Once
  Content <- MixedContent
  Categories = {"zipkin"}
  NoItem = NoItem
  Workers = {w1}
  MaxSize = 1
  FullCap = 0
  HasTimeout = FALSE
  FatalErrors = TRUE
  Modes = {"direct", "blocking"}
PROPERTIES
  EveryRequestAnswered
  ShutdownCompletes
CHECK_DEADLOCK FALSE
