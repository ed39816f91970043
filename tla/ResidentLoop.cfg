CONSTANTS
    loop = loop
    review = review
    gold = gold
    silver = silver
    Procs <- MCProcs
    Kind <- MCKind
    Symbols <- MCSymbols
    TradeSymbols <- MCTradeSymbols
    Keys <- MCKeys
    Sessions = {silver}
    RequireAdopted = TRUE
    PretradeOptimize = TRUE
    PipelineOnBar = TRUE
    Faults = {"connect", "sync", "resolve", "regime", "optimize", "raise", "write", "kill"}
    FaultBound = 1
    MaxBar <- MCMaxBar
    MaxClock = 4
    MaxEvents = 4
    MaxLaunches = 2
SPECIFICATION FairSpec
INVARIANTS  ReviewOncePerDay
PROPERTIES RunsOnlyAdopted BarsServed
CHECK_DEADLOCK FALSE
