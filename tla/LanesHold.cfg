SPECIFICATION Spec
CONSTANTS
  a = a  b = b  g = g
  sol = sol  btc = btc  solBase = solBase  btcBase = btcBase
  ALT = ALT  BTC = BTC
  Runs <- LanesAndGateway
  Gateway <- OneGateway
  Symbols <- Instruments
  Loose <- OneLoose
  SymbolOf <- Together
  BookName <- BaseNames
  Clusters <- BothClusters
  ClusterOf <- OfCluster
  Notional <- OneLot
  MaxPositions = 2
  MaxSymbol = 2
  MaxGross = 2
  MaxCluster = 1
  VenueAnswers = FALSE
  MaxAge = 2
  MaxCrashes = 1
INVARIANTS BreachOnlyBlind LiveNeverFreed
PROPERTIES GatewaySendsHeld
CHECK_DEADLOCK FALSE
