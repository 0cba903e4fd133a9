SPECIFICATION MCSpec
CONSTANTS
  MaxMissed = 3
  MaxAhead = 2
  MyId = m
  OtherIds = {h}
  Segments = {m, h, x}
PROPERTIES
  HealthySessionLives
CHECK_DEADLOCK FALSE
