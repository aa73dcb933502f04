SPECIFICATION Spec
CONSTANTS
  MaxTurns = 7
  JudgeEnabled = TRUE
  Business = {b1, b2, b3}
  Id = {o1}
  Nothing = Nothing
INVARIANT NoGoHasAWayOut
CHECK_DEADLOCK FALSE
