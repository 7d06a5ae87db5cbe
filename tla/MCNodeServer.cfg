\* Three connections of any kind, a signal or two at any point.
SPECIFICATION Spec
CONSTANTS
  Conns = {c1, c2, c3}
  Requests <- MCRequests
  Absent = Absent
  NaN = NaN
  Now = 2
  Lookback = 1
  DefaultLimit = 1
  MaxLimit = 2
INVARIANT NoOrphanTail
PROPERTIES
  AskedProperly
  ShutdownHeldUpOnly
  TailsAreLoops
CHECK_DEADLOCK FALSE
