SPECIFICATION Spec
CONSTANTS
  i1 = i1  i2 = i2  p1 = p1  c1 = c1  c2 = c2
  Intents <- OneIntent
  Pairs <- OnePair
  PairOf <- SamePair
  Qty = 2
  Refusals = {"cancelled", "rejected"}
  DiskMayFail = FALSE
  LatePlacement = FALSE
  MaxCrashes = 0
  Cycles <- TwoCycles
SYMMETRY CyclesAlike
INVARIANTS StatusTruth 
CHECK_DEADLOCK FALSE
