\* Does a click on the slider toggle the live tail?
SPECIFICATION Spec
CONSTANTS
  Queries = {A}
  Ranges = {r15}
  Sockets = {s1, s2}
  NoSocket = NoSocket
  LiveMaxLines = 2
  MaxSearches = 3
  MaxEffects = 2
  MaxLines = 1
PROPERTY SwitchToggles
CHECK_DEADLOCK FALSE
