\* Three searches beside a live tail that is switched on twice.
SPECIFICATION Spec
CONSTANTS
  Queries = {A, B}
  Ranges = {r15}
  Sockets = {s1, s2}
  NoSocket = NoSocket
  LiveMaxLines = 1
  MaxSearches = 3
  MaxEffects = 2
  MaxLines = 1
INVARIANTS
  TypeOK
  OneLifeline
  BufferFresh
PROPERTIES
  Reconnects
  SocketsClose
CHECK_DEADLOCK FALSE
