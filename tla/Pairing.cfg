SPECIFICATION FairSpec
CONSTANTS
  Clients = {c1, c2}
  Visitors = {v1, v2}
  NoClient = NoClient
  ChanCap = 1
  PairTimeout = 2
  SweepPeriod = 2
  MaxRestarts = 1
INVARIANTS
  TypeOK
  BoundedWait
  OwnDial
PROPERTIES
  HandoffSpec
  NobodyWaitsForever
