SPECIFICATION FairSpec
CONSTANTS
  BackoffStart = 1
  BackoffMax = 6
  MaxFaults = 3
  MaxAttempts = 4
PROPERTIES
  LossIsNoticed
CHECK_DEADLOCK FALSE
