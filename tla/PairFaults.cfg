CONSTANTS
    solo = solo
    first = first
    second = second
    widow = widow
    old = old
    Legs <- MCLegs
    SymbolOf <- MCSymbolOf
    Jobs <- MCJobs
    PriorOpen <- MCPriorOpen
    MaxRetries = 2
    Threshold = 2
    OrphanRetries = 1
    Modes = {TRUE, FALSE}
    Faults = {"lost", "partial", "placed", "log", "exit", "closefail", "raise", "kill"}
    FaultBound = 2
SPECIFICATION FairSpec
INVARIANTS GateHolds OrphanSettled ClosesOnlyOrphans PlansMatchBroker
PROPERTIES OrdersOnlyWhenAllowed KeepsPromise RunEnds
