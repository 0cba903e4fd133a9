SPECIFICATION MCSpec
CONSTANTS
  MaxMissed = 3
  MaxAhead = 2
  MyId = m
  OtherIds = {h}
  Segments = {m, h, x}
INVARIANTS
  TypeOK
  SpeakersAgree
  NoticeIsKept

  
CHECK_DEADLOCK FALSE
