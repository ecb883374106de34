SPECIFICATION Spec
CONSTANTS
  i1 = i1  i2 = i2  p1 = p1  c1 = c1  c2 = c2
  Intents <- OneIntent
  Pairs <- OnePair
  PairOf <- SamePair
  Qty = 1
  Refusals = {"cancelled", "rejected"}
  DiskMayFail = TRUE
  LatePlacement = TRUE
  MaxCrashes = 1
  Cycles <- OneCycle
INVARIANTS AtMostOncePlacement RestartRemembers
PROPERTIES  ImplementsAudit
CHECK_DEADLOCK FALSE
