\* Write failures and crashes at any point.
SPECIFICATION LoopSpec
CONSTANTS
  l1 = l1
  l2 = l2
  l3 = l3
  t1 = t1
  t2 = t2
  Logs = {l1, l2, l3}
  Terms = {t1, t2}
  TokensOf <- MCTokensOf
  Streams = {1, 2}
  Stamps = {1, 2}
  MaxBatchSize = 4
  UniqueKeys = TRUE
  Faults = {"write", "crash"}
  NoLog = NoLog
  NoID = NoID
INVARIANTS
  Accounted
  IndexExact
  PostingsBacked
  NoDanglingIndex
PROPERTIES
  EventuallyStored
  StoredForever
CHECK_DEADLOCK FALSE
