SPECIFICATION Spec
CONSTANTS
  paid = paid
  MaxAttempts = 2
  Request = {paid}
  Bound <- BoundOf
  Price = {1}
  MaxCost = 2
  MaxModel = 2
  MaxResearch = 1
  PromptLaunch = TRUE
  MaxOverruns = 1
INVARIANTS
  ChargesFit
  ChargesVisible
  WakeOnce
CHECK_DEADLOCK FALSE
