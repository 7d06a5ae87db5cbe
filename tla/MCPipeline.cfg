\* The engine at work, three lines, buffers and workers interchangeable.
SPECIFICATION Spec
CONSTANTS
  l1 = l1
  l2 = l2
  l3 = l3
  f2 = f2
  f3 = f3
  t1 = t1
  p1 = p1
  Logs = {l1, l2, l3, f2, f3}
  Terms = {t1}
  TokensOf <- MCTokensOf
  Streams = {1}
  Stamps = {1, 2}
  MaxBatchSize = 4
  UniqueKeys = FALSE
  Faults = {}
  NoLog = NoLog
  NoID = NoID
  Buffers = {b1, b2, b3, b4}
  NoBuf = NoBuf
  Blank = Blank
  Datagrams = {l1}
  Posts = {p1}
  BodyOf <- MCBodyOf
  CutOf <- MCCutOf
  FacilityOf <- MCFacilityOf
  Workers = {w1, w2}
  ChanCap = 1
  RawCap = 1
  OutCap = 1
  SteadyClock = FALSE
  Signals = FALSE
SYMMETRY MCSymmetry
INVARIANTS
  BufferOwned
  OnePlace
  AnswerTellsPrefix
CHECK_DEADLOCK FALSE
