SPECIFICATION Spec
CONSTANTS
  b1 = b1  b2 = b2  s1 = s1
  Decisions <- Two
  SideOf <- SideTwo
  Qty = 2
  DiskMayFail = TRUE
  MaxRecords = 5
  MaxCrashes = 2
INVARIANTS BookedOnce Conserved BookIsVenue
CHECK_DEADLOCK FALSE
