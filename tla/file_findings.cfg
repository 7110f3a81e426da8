SPECIFICATION ScansSpec
CONSTANTS
    Files = {f1, f2}
    Rules = {a}
    MaxRun = 3
    Gone = Gone
    one = one
    other = other
    Roots = {one, other}
    Paths <- MCPaths
    RootOf <- MCRootOf
    FirstSizes = {0, 1, 2}
    Filters <- MCFilters
    MaxScans = 2
    MaxRetries = 2
    MaxRules = 2
    MaxChanges = 1
SYMMETRY Symmetry
CHECK_DEADLOCK FALSE
INVARIANTS
    ReceiptCovers
    StatusFollowsHistory
    ReadsWithinApproval
    ReceiptsAgree
PROPERTY KeepsPromise
