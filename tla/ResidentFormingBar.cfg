CONSTANTS
    loop = loop
    review = review
    gold = gold
    silver = silver
    Procs <- MCOneProc
    Kind <- MCOneKind
    Symbols <- MCSymbols
    TradeSymbols <- MCTradeSymbols
    Keys <- MCKeys
    Sessions = {gold, silver}
    RequireAdopted = TRUE
    PretradeOptimize = TRUE
    PipelineOnBar = TRUE
    Faults = {}
    FaultBound = 0
    MaxBar <- MCMaxBar
    MaxClock = 2
    MaxEvents = 5
    MaxLaunches = 1
SPECIFICATION Spec
PROPERTIES RunsOnClosedBars
CHECK_DEADLOCK FALSE
