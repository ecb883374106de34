SPECIFICATION Spec
CONSTANTS
  Subjects = {"stream", "store", "account", "caches", "limiter", "reading", "desk", "intel", "venues"}
  Callers <- StreamCallers
  Watch <- StreamWatch
  MaxRetries = 1
  MaxSockets = 8
  MaxDrops = 2
  CandleCap = 2
  TapeCap = 2
  Seeded300 = 3
  MaxAsked = 1
  MaxLag = 1
  EndOfTime = 2
  Sizes = {0, 1}
  MaxAge = 0
  Lag = 2
  MaxCalls = 2
  LastMoment = 1
  Facts = {"spec", "study"}
  FreshFor <- CacheFreshFor
  UsableFor <- CacheUsableFor
  Shared = {"study"}
  Deniable = {"spec"}
  Patience = 1
  Together = 2
  Horizon = 3
  Clients = {"a", "b"}
  Weights = {0, 1, 2}
  Threshold = 3
  Window = 2
  Slack = 1
  EndOfDay = 6
  MaxCounted = 4
  Watches = {"w1", "w2"}
  WatchCooldown = 1
  Reacts = FALSE
  EndOfDesk = 2
  MaxTriggers = 3
  MaxRuns = 2
  MaxScans = 1
  Prices = {10, 11, 14}
  StaleQuote = 1
  MaxBasis = 2
  CallLimit = 2
  EndOfQuotes = 4
  Bars <- ChartBars
  PivotWidth = 1
  MaxBars = 5
  EnoughBars = 3
  Tempers <- ChartTempers
  Books <- ChartBooks
  BarEvents <- IntelBars
  MiCap = 3
  MiKeep = 3
  Straddle = 1
  MaxIntelScans = 5
INVARIANTS
  FeedsTypeOK OneFeed LadderIsNewest WritersConverge  GrantedInTurn AnnouncedOnce 
PROPERTIES
  SubscribedIsServed TriggersHandled NoRepaint
CHECK_DEADLOCK FALSE
