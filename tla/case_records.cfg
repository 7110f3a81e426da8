SPECIFICATION RecordsSpec
CONSTANTS
    one = one
    other = other
    Cases = {"c", "d"}
    Slots = {"s", "t"}
    Refs = {"r", "q"}
    Decisions = {"shared", "plain"}
    Fenced = {"shared"}
    MaxOps = 3
    MaxCrashes = 1
    ip = ip
    cve = cve
    incident = incident
    here = here
    elsewhere = elsewhere
    n1 = n1
    n2 = n2
    Order <- MCOrder
    Shared <- MCShared
    BatchSize = 2
    Conns = {here, elsewhere}
    Collection <- MCCollection
    Graphs = {"g1"}
    Notes = {n1, n2}
    Callers = {"tab1"}
    MaxReceipts = 1
    MaxWorks = 2
    MaxChanges = 2
    MaxCalls = 1
    MaxEvents = 2
    Values = {"h", "p", "fi", "ip", "cve"}
    Kinds <- MCKinds
    Artifacts = {"a"}
    Place <- MCPlace
    Cves = {"a"}
    CveValue = "cve"
    MaxId = 5
    MaxRequests = 5
    Connections = {one, other}
    MaxDeaths = 1
    MaxHolds = 1
    MaxVerdicts = 2
    Launchers = {one, other}
    MaxEdits = 1
    MaxStarts = 3
    MaxKills = 1
    Requests = {one, other}
    Hosts = {"g", "h"}
    Files = {"m"}
    MaxAsked = 3
    MaxRestarts = 1
    CaseFolders = {"c", "d"}
    Editors = {one, other}
    Texts = {"x", "y"}
    Names = {"acme"}
    MaxIds = 2
    MaxEntered = 3
    MaxCuts = 1
SYMMETRY Symmetry
INVARIANTS
    WithdrawnStaysOut
    NothingOutlivesItsObject
    CurrentMeansCorrected
    UpgradesKeepDecisions
    DecisionsSurvive
    CaseIdsAreKept
    ABuildSurvives
    SettingsAreKept
    EditorsKeepEachOther
    CompleteIsVisible
    BlockedOnlyByAJob
PROPERTIES
    SendsAgainOnlyWhatFailed
CHECK_DEADLOCK FALSE
