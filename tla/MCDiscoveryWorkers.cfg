SPECIFICATION WorkersSpec
CONSTANTS
  MaxTurns = 2
  JudgeEnabled = FALSE
  Token = {k1, k2}
  NoToken = NoToken
  NoRevision = NoRevision
  Worker = {w1, w2}
  MaxCalls = 2
  MaxCrashes = 1
  Limits = {}
  PromptCalls = TRUE
  Prose = Prose
  Refused = Refused
  Several = Several
  Batch = Batch
SYMMETRY Symmetry
INVARIANTS
  CursorNamesCalls
  SubmittedOnce
  NothingLeftBehind
  TurnIsAnswered
PROPERTIES
  AnswersStand
CHECK_DEADLOCK FALSE
