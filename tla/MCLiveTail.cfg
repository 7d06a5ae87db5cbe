\* Answers are never cut by the limit; records age out of the window.
SPECIFICATION Spec
CONSTANTS
  r1 = r1
  r2 = r2
  r3 = r3
  A = A
  B = B
  Records = {r1, r2, r3}
  Texts = {A, B}
  TextOf <- MCTextOf
  Lookback = 1
  Limit = 3
  MaxTime = 3
  NoTime = NoTime
INVARIANTS
  SingleFlight
  SentExactly
PROPERTIES
  ImplementsTailLoop
  QuietAfterStop
CHECK_DEADLOCK FALSE
