SPECIFICATION Spec
CONSTANTS
    ip = ip
    cve = cve
    incident = incident
    here = here
    elsewhere = elsewhere
    n1 = n1
    n2 = n2
    Order <- MCOrder
    Shared <- MCShared
    BatchSize = 2
    Conns = {here, elsewhere}
    Collection <- MCCollection
    Graphs = {"g1"}
    Notes = {n1, n2}
    Callers = {"tab1"}
    MaxReceipts = 1
    MaxWorks = 2
    MaxChanges = 2
    MaxCalls = 0
    MaxEvents = 2
SYMMETRY MCSymmetry
CHECK_DEADLOCK FALSE
INVARIANTS
    CompletionIsVerified
