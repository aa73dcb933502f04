SPECIFICATION FairSpec
CONSTANTS
  MaxTurns = 2
  JudgeEnabled = FALSE
  Token = {k1, k2}
  NoToken = NoToken
  NoRevision = NoRevision
  Worker = {w1}
  MaxCalls = 1
  MaxCrashes = 1
  Limits = {"duration_limit"}
  PromptCalls = TRUE
  Prose = Prose
  Refused = Refused
  Several = Several
  Batch = Batch
PROPERTIES
  OpenIsTakenUp
  EveryDiscoveryEnds
CHECK_DEADLOCK FALSE
