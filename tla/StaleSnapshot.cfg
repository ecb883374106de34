SPECIFICATION Spec
CONSTANTS
  a = a  b = b  g = g
  sol = sol  btc = btc  solBase = solBase  btcBase = btcBase
  ALT = ALT  BTC = BTC
  Runs <- Lanes
  Gateway <- None
  Symbols <- Instruments
  Loose <- None
  SymbolOf <- Apart
  BookName <- BaseNames
  Clusters <- BothClusters
  ClusterOf <- OfCluster
  Notional <- OneLot
  MaxPositions = 1
  MaxSymbol = 1
  MaxGross = 1
  MaxCluster = 1
  VenueAnswers = TRUE
  MaxAge = 0
  MaxCrashes = 0
INVARIANTS CapsHeld
CHECK_DEADLOCK FALSE
