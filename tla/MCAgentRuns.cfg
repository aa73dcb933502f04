SPECIFICATION FairSpec
CONSTANTS
  r1 = r1
  r2 = r2
  InvestigationRun = {r1}
  IdeationRun = {r2}
  MaxDeliveries = 2
  MaxRedeliveries = 1
  MaxSteps <- Steps
  MaxCost <- Money
  StepCost = {1}
INVARIANTS
  OneAuthor
  OneResult
  BudgetHolds
  PromotedOnce
PROPERTIES
  DecisionStands
  RunEnds
CHECK_DEADLOCK FALSE
