SPECIFICATION FairSpec
CONSTANTS
  MaxCalls = 3
  MaxAddrs = 2
  MaxVisits = 1
INVARIANTS
  TypeOK
  NoOwnListenerInTheWay
  SlotServesEverywhere
PROPERTIES
  SlotSpec
  StopCutsOff
  FailedStartVanishes
CHECK_DEADLOCK FALSE
