\* Two records on their way to the table, through a lost connection or a reload.
CONSTANTS
  MaxRecords = 2
  Queries = {"piped", "bare", ""}
  EmptyQuery = ""
  DefaultQuery = "bare"
  Finds <- MCFinds
  Keeps <- MCKeeps
  LiveMaxLines = 3
  MaxSearches = 2
  MaxActs = 2

SPECIFICATION Spec

INVARIANTS
  MarkedAreLive
  OncePerConnection
  LiveRowsKeepExpansion
PROPERTY AppearsOrWiped

CHECK_DEADLOCK FALSE
