SPECIFICATION FairSpec
CONSTANTS
  NoCluster = NoCluster
  Item = {i1, i2, i3}
  Cluster = {c1, c2}
  Worker = {w1, w2}
  Refiner = {r1}
  MaxOverlaps = 0
  MaxIncidents = 1
INVARIANTS
  OneProposalPerPair
PROPERTIES
  SizesHeal
CHECK_DEADLOCK FALSE
