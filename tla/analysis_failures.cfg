SPECIFICATION ASpec
CONSTANTS
    Cases = {c1}
    MaxId = 2
    Workers = {w1, w2}
    Clients = {r1}
    Ops = {"analyze", "cancel"}
    MaxErrors = 0
    MaxCrashes = 0
    None = None
    Registered = {"sql_dump"}
    YaraRules = FALSE
    MaxRuns = 2
SYMMETRY ASymmetry
INVARIANT FailuresNeverContribute
