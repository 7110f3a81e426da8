SPECIFICATION ASpec
CONSTANTS
    Cases = {c1}
    MaxId = 3
    Workers = {w1, w2}
    Clients = {r1}
    Ops = {"analyze", "cancel"}
    MaxErrors = 1
    MaxCrashes = 1
    None = None
    Registered = {"logs"}
    YaraRules = FALSE
    MaxRuns = 1
SYMMETRY ASymmetry
INVARIANTS
    ScannedMeansComplete
    CorrelatesSettledResults
    ReceiptsSettle
    WaitsAreAnswered
