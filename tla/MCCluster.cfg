SPECIFICATION FairCluster
CONSTANTS
  w1 = w1
  w2 = w2
  g1 = g1
  g2 = g2
  Worker = {w1, w2}
  Graph = {g1, g2}
  PerDevice = {g1}
  MainGpus = 1
  Gpus <- MCGpus
  MaxFault = 1
  NoGraph = NoGraph
CHECK_DEADLOCK FALSE
INVARIANT GraphsWhole
INVARIANT AbortsNeedAFault
PROPERTY CallsReturn
PROPERTY WorkersReleased
