SPECIFICATION Spec
CONSTANTS
  Paths <- MCPaths
  Shares <- PageShares
  GuestAsks <- MCAsks
  MaxRequests = 5
  MaxFiles = 4
  MaxTries = 2
  ResumableMin = 2
  Word = 16
INVARIANTS
  UploadIsWhole
CHECK_DEADLOCK FALSE
