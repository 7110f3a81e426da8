SPECIFICATION ProfileSpec
CONSTANTS
    Cases = {c1}
    MaxId = 1
    Workers = {w1, w2}
    Clients = {r1, r2}
    Ops = {"submit", "delete"}
    MaxErrors = 0
    MaxCrashes = 0
    None = None
SYMMETRY Symmetry
INVARIANT DeleteIsQuiet
