CONSTANTS
  LastMonth = 3
  LastRead = 2
  MaxTraces = 2
  MaxVersions = 2
  MaxMeanwhile = 2
  MaxMonths = 2
  NTraces = 2
  Agents = {a1, a2}
  Channels = {"web"}
  NoChannel = "none"
  ChannelOf <- MCChannelOf
  Sessions = {"s"}
  NoSession = "none"
  SessionOf <- MCSessionOf
  Corrected = {2}
  Horizon = 2
  ChainLimit = 1
  Unpriced = {2}
  Writers = {w1, w2}
  MaxCount = 2
  BillMonths = {1, 2}
  CurrentMonth = 3
  Prices = {k}
  Terms = {d1, d2}
  SameDate <- MCSameDate
  Reasons = {r1}
  Callers = {u1, u2}
  Calls = {c1, c2}
  Ttl = 1
  None = None
  MaxClock = 1
  MaxVersion = 2
  MaxPerMonth = 1
  Kids = {"k1"}
  SessionRequests <- MCRequests
  Handlers = {h1, h2}
  Tenant = "acme"
  McpAudience = "mcp"
  Apps <- MCApps
  OriginRules <- MCRules
  NoOrigin = NoOrigin
  NoClaim = NoClaim
  Malformed = Malformed
  NoKeys = NoKeys
  MaxNow = 1
  Usages = {1, 2, 3}
  UsageOf <- MCUsageOf
  Folds = {"live", "frozen"}
  Unit = 10
  PerCent = 10
  FullBp = 100
  NRows = 5
  StartOf <- MCStartOf
  WritesOf <- MCWritesOf
  BytesOf <- MCBytesOf
  Windows <- MCWindows
  NoModel = NoModel
  Quiet = 1
  Margin = 0
  PageSize = 2
  BreakerMin = 2
  Cap = 3
  MaxTime = 3
  MaxRuns = 2
SPECIFICATION ServingSpec
INVARIANTS
  TypeOK
  ListComplete
  
  CubeExact
  SummaryFresh
  RebuildLosesNoInsert
  ConfirmedAsPreviewed
  DoorHonest
  ClosedEqualsLive
  WindowHonest
CHECK_DEADLOCK FALSE
