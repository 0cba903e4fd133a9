SPECIFICATION FairSpec
CONSTANTS
  MaxCalls = 3
  MaxHasty = 2
INVARIANTS
  TypeOK
  NoOrphanTunnel
  ShareShownAsItIs
PROPERTIES
  DisplayCatchesUp
CHECK_DEADLOCK FALSE
