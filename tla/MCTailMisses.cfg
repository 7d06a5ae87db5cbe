\* Does every new record appear, also when an older one with its text has aged out?
SPECIFICATION Spec
CONSTANTS
  r1 = r1
  r2 = r2
  r3 = r3
  A = A
  B = B
  Records = {r1, r2, r3}
  Texts = {A, B}
  TextOf <- MCTextOf
  Lookback = 1
  Limit = 3
  MaxTime = 3
  NoTime = NoTime
INVARIANT NewRecordsAppear
CHECK_DEADLOCK FALSE
