SPECIFICATION FairSpec
CONSTANTS
  BackoffStart = 1
  BackoffMax = 6
  MaxFaults = 3
  MaxAttempts = 4
INVARIANTS
  TypeOK
  BackoffLaw
PROPERTIES
  HandleSpec
  StopEnds
  ComesBack
  OnlyBusyPortsMislead
CHECK_DEADLOCK FALSE
