\* Unique keys, write failures and crashes, one search at a time in flight.
SPECIFICATION Spec
CONSTANTS
  l1 = l1
  l2 = l2
  l3 = l3
  t1 = t1
  Logs = {l1, l2, l3}
  Terms = {t1}
  TokensOf <- MCAllMatch
  Streams = {1}
  Stamps = {1, 2, 3}
  MaxBatchSize = 4
  UniqueKeys = TRUE
  Faults = {"write", "crash"}
  NoLog = NoLog
  NoID = NoID
  Queries = {q1}
  Limits = {0, 1}
  DefaultLimit = 3
  NoRequest = NoRequest
INVARIANTS
  TypeOK
  AnswerDistinct
  AnswerComplete
  AnswerMatches
PROPERTIES
  ImplementsLogService
  SearchTerminates
CHECK_DEADLOCK FALSE
