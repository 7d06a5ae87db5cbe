\* Up to two lines on disk, then the scan of one term.
SPECIFICATION KeySpec
CONSTANTS
  Base = 4
  Width = 2
  Terms <- MCTerms
  Stamps <- MCStamps
  Facilities <- MCFacilities
  MaxLines = 2
INVARIANT ScanExact
CHECK_DEADLOCK FALSE
