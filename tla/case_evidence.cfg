SPECIFICATION EvidenceSpec
CONSTANTS
    one = one
    other = other
    client = client
    Files = {one, other}
    Clients = {client}
    Rules = {"r1"}
    Severe = {"r1"}
    RelPath <- MCRelPath
    Requests <- MCRequests
    Contents = {"A", "B"}
    Held <- MCHeld
    Selections <- MCSelections
    MaxChanges = 1
    MaxScans = 2
    MaxRequests = 2
    AccessLogs = {"f", "g"}
    FirstVersions <- FirstLogs
    LogVersions <- EditedLogs
    BfThreshold = 2
    BfWindow = 3
    Switchable = {"login_success"}
    MaxEdits = 1
    MaxIndexBuilds = 2
    HuntRules <- MCHuntRules
    Bundled <- MCBundled
    WithCve = {1}
    MaxPatterns = 2
    MaxVersion = 2
    MaxWeight = 3
    MaxTests = 2
    MaxApps = 1
    Sites = {one, other}
    Paths = {"p"}
    FileContents = {"x", "y"}
    First <- MCFirst
    Detects <- MCDetects
    Engines = {"webshell"}
    MaxSnaps = 2
    MaxTouches = 1
    MaxActs = 2
    Sources = {one, other}
    Texts <- MCTexts
    Formats = {"clamav", "access"}
    MaxLogEdits = 1
    MaxCalls = 2
    MaxStops = 1
    Installs = {1, 2}
    Exts = {1, 2}
    Dumps = {1, 2}
    MaxTurns = 4
    FileArtifacts = {"f"}
    ClientArtifacts = {"i"}
    LogContents <- MCLogContents
    EventCap = 2
    MaxBuilds = 3
    MaxMeanwhile = 2
SYMMETRY Symmetry
INVARIANTS
    FreshMeansAll
    AlertsRestateIndex
    BatchTellsTheTruth
    FreshTellsTheTruth
    NothingUnreadIsCertified
    DumpsAreReadOnce
    InheritanceMatchesIndex
    NothingLeftMeansDecided
    AbsenceIsHonest
    CleanMeansExamined
    SelectableIsSupported
PROPERTIES
    HandDecisionsStand
CHECK_DEADLOCK FALSE
