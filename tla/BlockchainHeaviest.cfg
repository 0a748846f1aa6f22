SPECIFICATION Spec
CONSTANTS
  g = g
  a1 = a1
  a2 = a2
  a3 = a3
  a4 = a4
  b1 = b1
  b2 = b2
  b3 = b3
  b4 = b4
  c2 = c2
  c3 = c3
  d3 = d3
  Genesis = g
  Block <- Blocks
  Path <- Paths
  Cumulative <- Weights
  Kind <- OthersBad
  Missing = {a2, b1, c3, b4}
  Pruned = {}
  Checkpoints <- LastCheckpoint
  Loaded = {4}
  Faults = FALSE
  MayPop = FALSE
INVARIANT HeaviestKnown
PROPERTY NeverLighter
PROPERTY KeepsLedger
