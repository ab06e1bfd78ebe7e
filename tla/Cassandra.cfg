SPECIFICATION Spec
CONSTANTS
  c1 = c1
  c2 = c2
  c3 = c3
  Calls = {c1, c2, c3}
  Batch <- TheBatches
  Lower <- LowerCase
  t1 = t1
  t2 = t2
  Threads = {t1, t2}
  Buckets = {0}
  NameTtl = 1
  MaxHour = 1
  MaxFailures = 1
  Never = Never
SYMMETRY ThreadSymmetry
INVARIANTS
  CassandraTypeOK
  AckedIsFound
  NamesListedUnlessLost
CHECK_DEADLOCK FALSE
