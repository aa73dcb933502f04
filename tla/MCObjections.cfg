SPECIFICATION Spec
CONSTANTS
  MaxTurns = 7
  JudgeEnabled = TRUE
  Business = {b1, b2}
  Id = {o1, o2}
  Nothing = Nothing
SYMMETRY Symmetry
INVARIANTS
  AgreedIsClear
  NothingMaterialLeft
  ReportIsTrue
CHECK_DEADLOCK FALSE
