CONSTANTS
    None = None
    MaxHalfLife = 10
    MaxDrift = 2
    BreakDrift = 4
    MaxTrend = 2
    BreakTrend = 4
    MinCross = 1
    ChopCross = 3
    UnitRoot = 5
    GroupNames <- MCGroupNames
    Setups <- MCShipped
    Logins <- MCLogins
    Assessments <- MCAssessments
    Offers <- MCNoOffers
    Measures <- MCMeasures
    Spreads <- MCSpreads
    ZScores <- MCZScores
    ZEntry = 8
    Workers = 2
    Threshold = 2
    MaxSingleWeight = 25
    MaxRisk = 10
    Vols <- MCVols
    Previous <- MCPrevious
    Quotes <- MCQuotes
    QuoteGrid <- MCQuoteGrid
    Accounts <- MCAccounts
    Conditions <- MCConditions
    GatePassed <- MCGatePassed
    ClearProb = 70
    UncertainProb = 50
    MaxSwitchesPerWeek = 3
    MinRegimeDays = 5
    CautiousScale = 70
    DefensiveScale = 50
    UncertainScale = 50
    HighVolTrendScale = 50
    ResilienceEnabled = TRUE
    DecisionEnabled = TRUE
    WinRate = 55
    RewardRisk = 15
    Trades <- MCTrades
    RiskPerTrade = 100
    MaxSinglePct = 10
    MaxTotalPct = 60
    MinConfidence = 2
    DefaultLots = 10
    FallbackLots = {}
    UseAtrStops = TRUE
    AtrMultiplier = 2
    VolMultiplier = 2
    StopLossPct = 10
    Instrument <- MCInstrument
    SlippageModel = "sqrt"
    FlatSlippage = 300
    SlippageK = 100
    SpreadWhenUnknown = TRUE
    ImpactY = 50
    DecayLoss = 28
    MinNetEdge = 0
    MaxAdv = 500
    SignalTimeframe = "D1"
    MaxAgeHours = 24
    BuildOnMiss = TRUE
    ApplyThreshold = FALSE
    GateFiles <- MCGateFiles
    FaultBound = 0
SPECIFICATION Spec
INVARIANT OnePositionPerSymbol
