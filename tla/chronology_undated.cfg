SPECIFICATION ChSpec
CONSTANTS
    FileArtifacts = {"f", "g"}
    ClientArtifacts = {"c"}
    LogContents <- MCLogContents
    EventCap = 2
    MaxBuilds = 1
    MaxMeanwhile = 2
INVARIANTS UndatedIsUnrequested
CHECK_DEADLOCK FALSE
