SPECIFICATION KafkaFairSpec
CONSTANTS
  m1 = m1
  m2 = m2
  m3 = m3
  m4 = m4
  s1 = s1
  s2 = s2
  Items = {m1, m2, m3, m4}
  Streams = {s1, s2}
  Topic <- TwoStreams
  Decodable = {m1, m2, m3}
  NoItem = NoItem
  Workers = {w1}
  MaxSize = 1
  FullCap = 0
  HasTimeout = FALSE
  FatalErrors = FALSE
  Modes = {"direct", "queued", "blocking"}
INVARIANTS
  StreamsKept
  BlockingKeepsReading
  QuietStoreClose
PROPERTIES
  TopicConsumed
  ClosesOnceStreamsEnd
CHECK_DEADLOCK FALSE
