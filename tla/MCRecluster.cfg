SPECIFICATION Spec
CONSTANTS
  NoCluster = NoCluster
  Item = {i1, i2, i3}
  Cluster = {c1, c2, c3}
  Worker = {w1, w2}
  MaxRuns = 1
INVARIANT TypeOK
PROPERTY FoundSurvives
CHECK_DEADLOCK FALSE
