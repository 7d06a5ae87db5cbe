\* Does a click expand the row clicked, and no other?
CONSTANTS
  MaxRecords = 2
  Queries = {"piped", "bare", ""}
  EmptyQuery = ""
  DefaultQuery = "bare"
  Finds <- MCFinds
  Keeps <- MCKeeps
  LiveMaxLines = 3
  MaxSearches = 2
  MaxActs = 2

SPECIFICATION Spec

INVARIANT ClickExpandsRow

CHECK_DEADLOCK FALSE
