CONSTANTS
    HighVolScale = 50
    EnterTrend = 55
    EnterErTrend = 45
    EnterVolMax = 70
    ExitTrend = 35
    ExitErTrend = 30
    HighVol = 70
    StressVol = 90
    EnterRange = 30
    EnterErRange = 35
    ExitRange = 45
    StressCorr = 85
    StressSpread = 70
    TrendLookback = 4
    ErLookback = 2
    VolWindow = 2
    VolHistory = 3
    MinVols = 2
    MinBars = 4
    TrendLevels <- MCTrendLevels
    Adx <- MCAdx
    Rsi <- MCRsi
    BbPosition <- MCBbPosition
    FeatureScore <- MCFeatureScore
    MacdFast = 2
    MacdSlow = 3
    MacdSignal = 2
    RsiPeriod = 2
    BbPeriod = 4
    BbStd = 2
    AtrPeriod = 2
    AdxPeriod = 2
    WarmUp = 1
    Conditioned = TRUE
    IsBenchmark = FALSE
    Cost = 1
    TrainRatio = 50
    ValRatio = 15
    TrainWindow = 3
    TestWindow = 3
    Step = 3
    MinRounds = 2
    CostNoise = 20
    Perturbation = 34
    MaxReturnChange = 100
    Decay = 50
    HiddenCost = 1
    GateBars = 5
    MinOosRatio = 0
    MinProbPositive = 50
    SharpeBound = 50
    Histories <- MCHistories
    BaseConfig <- MCBaseConfig
    Strategies <- MCStrategies
    Specs <- MCSpecs
    HardTrades = 1
    HardMdd = 6
    HardOos = 0
    HardLive <- MCHardLive
    HardP5 <- MCHardP5
    OverfitSharpe = 40
    OverfitWf = 0
    MinWf = 0
    Improvement = 0
    MinLive <- MCMinLive
    MaxMdd = 5
    Tolerance = 1
    MinTrades = 1
    TierBProb = 50
    TierBP5 <- MCTierBP5
    TierBPositive = 0
    TierBPasses = 10
    AdoptTierA = TRUE
    HardStopLimit = 2
    StopDelta = 0
    StopOnAllUnstable = FALSE
    SkipOnGateFail = {TRUE, FALSE}
    HistoryBars = 9
    Moves <- MCMoves
    MaxNewBars = 1
    FaultBound = 1
SPECIFICATION MatrixSpec
CHECK_DEADLOCK FALSE
INVARIANTS RoundsAreTested
