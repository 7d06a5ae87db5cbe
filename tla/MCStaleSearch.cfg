\* Is an empty view what the last search found?
SPECIFICATION Spec
CONSTANTS
  Queries = {A, B}
  Ranges = {r15}
  Sockets = {s1, s2}
  NoSocket = NoSocket
  LiveMaxLines = 2
  MaxSearches = 2
  MaxEffects = 1
  MaxLines = 1
INVARIANT NoLogsMeansNone
CHECK_DEADLOCK FALSE
