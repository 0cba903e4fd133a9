SPECIFICATION Spec
CONSTANTS
  Paths <- MCPaths
  Shares <- MCShares
  GuestAsks <- MCAsks
  MaxRequests = 5
  MaxFiles = 4
  MaxTries = 2
  ResumableMin = 2
  Word = 16
INVARIANTS
  TypeOK
  ListedIsOpen
  GrantsAreReachable
  VisitorRulesAdd
  ReadsAreExact
  FreshUploadIsWhole
  AgentTellsTheTruth
PROPERTIES
  OnlyGrantedChanges
  ResumedDownloadIsOneFile
  EveryRequestEnds
CHECK_DEADLOCK FALSE
