INIT Init
NEXT Next
CONSTANTS
    DecisionRequests <- MCDecisionRequests
    Snapshots <- MCSnapshots
    Bundles <- MCBundles
    ModelAnalyses <- MCModelAnalyses
    SearchResults <- MCSearchResults
    MaxReviews = 2
    Starters = {s1, s2}
    RetryAfters = {2, 20, 60}
    Endpoints <- MCEndpoints
    WebFields = {"mark_price", "funding_rate"}
    Loops = {l1, l2}
    LoopStaleAfter = 1
    FailureThreshold = 2
    AgentStaleAfter = 1
    ProbeTimeout = 1
    ShutdownBudget = 1
    MaxLedgerRuns = 2
    OldRuns = 1
    EvidenceLists = {"e1", "e2"}
    AnalysisContents = {"a1"}
    MaxUpdates = 2
    AllowedSymbols = {"BTC", "ETH"}
    MaxRiskPerTradePct = 2
    LegacyRunIds = {r1}
    LegacySchedulers = {c1}
    ExecutionModes = {"legacy", "controlled_shadow"}
    MarketSnapshots <- MCMarketSnapshots
    EventPoints <- MCEventPoints
    SwarmReports <- MCSwarmReports
    DecisionPayloads <- MCDecisionPayloads
    SuppliedPlanIds = {p1}
    p1 = p1
    RequestSymbol = "BTC"
    MaxDelay = 2
    SendFailureAlerts = TRUE
    MaxPushAttempts = 2
CHECK_DEADLOCK FALSE
INVARIANTS
    CommittedIsCleared
    ProgressRises
    SearchWithinBudget
    ReadyIsHonest
    LedgerTellsOutput
    AllowedOpeningGrounded
