CONSTANTS
    solo = solo
    first = first
    second = second
    widow = widow
    old = old
    Legs <- MCLegs
    SymbolOf <- MCSymbolOf
    Jobs <- MCJobs
    PriorOpen <- MCPriorOpen
    MaxRetries = 2
    Threshold = 2
    OrphanRetries = 2
    Modes = {FALSE}
    Faults = {"partial"}
    FaultBound = 1
SPECIFICATION Spec
INVARIANT BothOrNeither
