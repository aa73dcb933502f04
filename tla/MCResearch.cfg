SPECIFICATION Spec
CONSTANTS
  t1 = t1
  Task = {t1}
  Answers <- EveryAnswer
  Enabled <- AllConnectors
  MaxResearch = 2
  MaxClaims = 2
  Heard <- PlainReplies
  Steady <- NoStallInARead
  Waits = {1}
  DefaultWait = 2
INVARIANTS
  TypeOK
  EvidenceOnce
  ToldIsRecorded
  FallbackFits
  PaidOnce
PROPERTIES
  FallbackNeverStops
  DefaultsSurvive
CHECK_DEADLOCK FALSE
