\* Does a matching line appear while a search is out?
CONSTANTS
  MaxRecords = 2
  Queries = {"piped", "bare", ""}
  EmptyQuery = ""
  DefaultQuery = "bare"
  Finds <- MCFinds
  Keeps <- MCKeeps
  LiveMaxLines = 3
  MaxSearches = 2
  MaxActs = 2

SPECIFICATION Spec

PROPERTY Appears

CHECK_DEADLOCK FALSE
