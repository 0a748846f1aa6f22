SPECIFICATION Spec
CONSTANTS
  ta = ta
  tb = tb
  tc = tc
  k1 = k1
  k2 = k2
  Tx = {ta, tb}
  KeyImage = {k1, k2}
  Images <- TwoImages
  Needs <- TwoNeeds
  Weight <- TwoWeights
  FeeRate <- TwoRates
  Blocks <- TwoBlocks
  Arrivals = {"none", "local", "stem", "block"}
  MaxWeight = 2
  SizeModulus = 8
  LiveTime = 0
  AltLiveTime = 1
  MineStem = FALSE
  Faults = FALSE
  MaxTime = 1
  MaxHeight = 1
INVARIANT IndexSound
INVARIANT TypeOK
