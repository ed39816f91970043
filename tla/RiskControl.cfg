CONSTANTS
    gold = gold
    silver = silver
    loop = loop
    Agents = {loop}
    Symbols <- MCSymbols
    Sector <- MCSector
    Price <- MCPrice
    GuessPct = 4
    MarginPct = 100
    Equities = {80, 85, 95}
    Jobs <- MCJobs
    Requests = {2, 3}
    MaxSingle = 10
    MaxSymbol = 15
    MaxSector = 20
    MaxTotal = 18
    StopPct = 10
    CircuitPct = 15
    MaxHeld = 4
    Faults = {"account", "price", "save", "kill"}
    FaultBound = 1
SPECIFICATION FairSpec
PROPERTIES DrawdownBlocks CircuitHolds CapsHold EntriesResume
