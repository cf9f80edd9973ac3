SPECIFICATION RemoteSpec
CONSTANTS
  Tool <- AgentTools
  Handled <- HandledTools
  MaxIterations = 2
  MaxCost = 3
  MaxToolCalls = 1
  ResponseCost = {2}
  CostCap = 2
  MaxBatch = 2
  MaxListed = 1
  StreamCall = {"c1", "c2"}
  MaxLines = 4
  TextLength = {3, 9}
  MaxTalk = 4
  PromptLength = 4
  ToolTokens = 1
  Configs <- ContextConfigs
  Server = {s}
  Profile <- RateProfiles
  TimeStep = {5, 60}
  Horizon = 61
  ReportBound = 3
  ServerName <- ServerNames
  Lowering <- LowerNames
  Tld = {"io"}
  ServerDelay = {1}
  Backoff <- BackoffConfigs
  Word = {"captcha", "slow down"}
  MaxProfiles = 2
  HandTool = {"whois_lookup", "tool_a"}
  MaxSteps = 2
  p1 = p1
  p2 = p2
  Junk = junk
  Proxy = {p1, p2}
  Settings <- ProxySettings
  Caller = {t1, t2}
  Setter = {w1, w2}
  MaxCount = 1
INVARIANTS
  ToolCallsAnswered
  SpendsWithinLimits
  PiecesInPlace
  TrimKeepsBudget
  RateBounded
  DelaysGrow
  PanicNeedsMix
  EvenlyUsed
PROPERTIES
  RunEnds
  BackoffHolds
  HealthyIsFound
CHECK_DEADLOCK FALSE
