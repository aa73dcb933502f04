SPECIFICATION Spec
CONSTANTS
  MaxTurns = 4
  JudgeEnabled = TRUE
  Token = {k1, k2}
  NoToken = NoToken
  NoRevision = NoRevision
SYMMETRY TokenSymmetry
INVARIANTS
  TurnsInSequence
  OneTaskToDo
  ConvergedOnAgreement
  EndIsExplained
PROPERTIES
  EndIsFinal
  KeepsPromise
CHECK_DEADLOCK FALSE
