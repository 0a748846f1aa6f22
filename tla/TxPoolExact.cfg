SPECIFICATION Spec
CONSTANTS
  ta = ta
  tb = tb
  tc = tc
  k1 = k1
  k2 = k2
  Tx = {ta, tb, tc}
  KeyImage = {k1, k2}
  Images <- ThreeImages
  Needs <- ThreeNeeds
  Weight <- ThreeWeights
  FeeRate <- ThreeRates
  Blocks <- ThreeBlocks
  Arrivals <- PublicMethods
  MaxWeight = 2
  SizeModulus = 16
  LiveTime = 0
  AltLiveTime = 1
  MineStem = FALSE
  Faults = FALSE
  MaxTime = 1
  MaxHeight = 2
INVARIANT MemoryExact
INVARIANT WeightExact
INVARIANT NoDoubleSpend
INVARIANT InitReturnsTrue
PROPERTY PruneEnforcesLimit
