SPECIFICATION Spec
CONSTANTS
  daemon = daemon  server = server
  Processes <- Alone
  Arming <- Daemons
  Reasons <- Operators
  BootReason = "boot"
  Events <- AllEvents
  Unreadable <- Garbled
  Window = 2
  Kept = 3
  Oversize = 4
  Capacity = 5
  DiskMayFail = TRUE
  DiskMayTear = FALSE
  MaxPlaced = 1
  MaxCrashes = 1
INVARIANTS HaltOutlivesCrash
CHECK_DEADLOCK FALSE
