SPECIFICATION WorkersSpec
CONSTANTS
  MaxTurns = 2
  JudgeEnabled = FALSE
  Token = {k1, k2, k3}
  NoToken = NoToken
  NoRevision = NoRevision
  Worker = {w1, w2}
  MaxCalls = 1
  MaxCrashes = 1
  Limits = {"cost_limit"}
  PromptCalls = TRUE
  Prose = Prose
  Refused = Refused
  Several = Several
  Batch = Batch
SYMMETRY Symmetry

PROPERTY
  OwnerAlone
CHECK_DEADLOCK FALSE
