\* Two lines may get the same stream and timestamp.
SPECIFICATION Spec
CONSTANTS
  l1 = l1
  l2 = l2
  l3 = l3
  t1 = t1
  Logs = {l1, l2, l3}
  Terms = {t1}
  TokensOf <- MCTokensOf
  Streams = {1, 2}
  Stamps = {1, 2}
  MaxBatchSize = 4
  UniqueKeys = FALSE
  Faults = {}
  NoLog = NoLog
  NoID = NoID
  Queries = {q1}
  Limits = {0, 1}
  DefaultLimit = 3
  NoRequest = NoRequest
INVARIANT AnswerMatches
CHECK_DEADLOCK FALSE
