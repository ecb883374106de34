SPECIFICATION Spec
CONSTANTS
  Subjects = {"registry", "governor", "paper", "watch", "chart", "macro", "plan", "replay", "funnel"}
  Strategies = {"trend"}
  Regimes = {"calm", "wild"}
  Gates = {1}
  Scores = {0, 1}
  RegistryView = 3
  LogKeeps = 4
  LogLines = 5
  DiskFails = FALSE
  DiskTears = TRUE
  MaxVersion = 2
  MaxBoots = 2
  Limits <- GovernorLimits
  Equities = {80, 100, 101}
  Outcomes <- GovernorOutcomes
  Questions <- GovernorQuestions
  MaxStateAge = 1
  PersistAfter = 1
  PersistDelta = 2
  PersistParts = 20
  GovernorView = 3
  DayLength = 1
  LastInstant = 1
  MaxHappenings = 4
  MaxReboots = 1
  Pairs = {"btc"}
  PaperOrders <- PaperRequests
  Marks = {98, 100, 102}
  Slip = 1
  FeeRate = 1
  InitialBalance = 110000
  FallbackMark = 100
  Protections <- PaperProtections
  MaxOrders = 3
  MaxTouches = 2
  Sights <- WatchSights
  WatchDesks <- OperatorsDesks
  Deals = {"d1"}
  TradeWords = {"EXIT", "REJECTED"}
  StrategyCells = {"c1"}
  MaxTurns = 2
  MemoryCap = 3
  MemoryDrop = 2
  ResearchCooldown = 1
  Charts = {"BTCUSDT", "ETHUSDT"}
  Levels = {"l1", "l2"}
  Zones = {"z1", "z2"}
  ChartOf <- ZoneCharts
  ChartDesks <- DefaultDesk
  TrackedCap = 1
  TrackedDrop = 1
  MaxIngests = 2
  MaxLooks = 2
  Releases = {"cpi", "fomc"}
  ReleaseAt <- ReleaseTimes
  Approach = 3
  Imminent = 1
  Resolve = 1
  FileCalendar = {"cpi"}
  Feeds = {{"cpi", "fomc"}, {"fomc"}}
  News = {"n1"}
  MacroDesks <- DefaultDesk
  MacroEnd = 9
  Readings <- PlanReadings
  PlanLimits <- PlanRiskLimits
  PlanAccounts <- PlanAccountsTried
  Specs <- PlanSpecs
  Studies <- PlanStudies
  Tapes <- ReplayTapes
  HigherSpan = 2
  Candidates <- ReplayCandidates
  Replay <- ReplayConfig
  ReplayGate <- ReplayThresholds
  WarmUp = 2
  StepBars = 1
  MaxHold = 3
  History = 1
  OosPercent = 40
  FunnelReadings <- FunnelStates
  FunnelBars = 2
  DeadSeen = 2
  DeadRate = 60
INVARIANTS
  ServicesTypeOK  BadNewsTold LastWordStands  OrderFitsVenueAndAccount ReplayIsConservative FunnelExplains NoCellTakenBack
PROPERTIES
  MoreDamageNeverMoreRisk 
CHECK_DEADLOCK FALSE
