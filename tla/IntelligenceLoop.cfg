CONSTANTS
    None = None
    adx = adx
    rsi = rsi
    typo = typo
    text = text
    Odd = text
    narrow = narrow
    wide = wide
    resident = resident
    optimize = optimize
    Procs <- MCProcs
    Knobs <- MCKnobs
    Names <- MCNames
    MaxRetries = 3
    Environments <- MCEnvironments
    Dialogues <- MCDialogues
    Values <- MCValues
    Allowed <- MCAllowed
    Defaults <- MCDefaults
    Grid <- MCGrid
    Results <- MCResults
    MinWf = 0
    Improvement = 1
    MaxMdd = 2
    Tolerance = 1
    Trigger = 20
    AdoptTierA = FALSE
    NoApiSeed = TRUE
    SeedIfNoAdopt = TRUE
    Faults = {"read", "write", "backtest", "kill"}
    FaultBound = 1
    MaxRuns = 2
    MaxData = 1
SYMMETRY MCSymmetry
SPECIFICATION Spec
INVARIANTS AdoptedIsValidated MetricsOfParams
PROPERTIES KeepsAdopted EachGainCounts
CHECK_DEADLOCK FALSE
