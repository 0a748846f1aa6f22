SPECIFICATION Spec
CONSTANTS
  ta = ta
  tb = tb
  tc = tc
  k1 = k1
  k2 = k2
  Tx = {ta, tb, tc}
  KeyImage = {k1, k2}
  Images <- ThreeImages
  Needs <- ThreeNeeds
  Weight <- ThreeWeights
  FeeRate <- ThreeRates
  Blocks <- FaultyBlocks
  Arrivals <- PublicMethods
  MaxWeight = 2
  SizeModulus = 8
  LiveTime = 0
  AltLiveTime = 1
  MineStem = FALSE
  Faults = TRUE
  MaxTime = 0
  MaxHeight = 1
INVARIANT CacheFresh
INVARIANT TemplateValid
