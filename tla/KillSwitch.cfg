SPECIFICATION Spec
CONSTANTS
  daemon = daemon  server = server
  Processes <- Both
  Arming <- Daemons
  Reasons <- Operators
  BootReason = "boot"
  Events <- AllEvents
  Unreadable <- Garbled
  Window = 2
  Kept = 3
  Oversize = 4
  Capacity = 5
  DiskMayFail = TRUE
  DiskMayTear = TRUE
  MaxPlaced = 1
  MaxCrashes = 1
INVARIANTS TypeOK HaltObeyed
PROPERTIES PlacedIsOnRecord
CHECK_DEADLOCK FALSE
