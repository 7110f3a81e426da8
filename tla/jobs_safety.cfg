SPECIFICATION ProfileSpec
CONSTANTS
    Cases = {c1, c2}
    MaxId = 1
    Workers = {w1, w2}
    Clients = {r1, r2}
    Ops = {"hunt", "apply", "list", "archive", "delete", "submit_after", "cancel"}
    MaxErrors = 1
    MaxCrashes = 1
    None = None
SYMMETRY Symmetry
INVARIANTS
    WorkIsRegistered
    CaseOperationIsExclusive
    ArchiveIsSettled
PROPERTIES
    InterruptsOnlyDeadJobs
    TerminalIsFinal
