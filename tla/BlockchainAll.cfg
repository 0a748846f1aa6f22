SPECIFICATION Spec
CONSTANTS
  g = g
  a1 = a1
  a2 = a2
  a3 = a3
  a4 = a4
  b1 = b1
  b2 = b2
  b3 = b3
  b4 = b4
  c2 = c2
  c3 = c3
  d3 = d3
  Genesis = g
  Block <- Blocks
  Path <- Paths
  Cumulative <- Weights
  Kind <- OthersBad
  Missing = {a2, c3}
  Pruned = {}
  Checkpoints <- OneCheckpoint
  Loaded = {}
  Faults = FALSE
  MayPop = TRUE
INVARIANT TypeOK
INVARIANT OnePlace
INVARIANT CheckpointsHold
PROPERTY FailedSwitchReverts
