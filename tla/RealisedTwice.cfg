SPECIFICATION Spec
CONSTANTS
  b1 = b1  b2 = b2  s1 = s1
  Decisions <- Two
  SideOf <- SideTwo
  Qty = 2
  DiskMayFail = FALSE
  MaxRecords = 4
  MaxCrashes = 0
INVARIANTS RealisedOnce
CHECK_DEADLOCK FALSE
