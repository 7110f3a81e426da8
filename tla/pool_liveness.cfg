SPECIFICATION FairSpec
CONSTANTS
    Workers = {w1, w2}
    Clients = {r1}
    None = None
PROPERTIES
    EveryJobLeaves
    ShutdownEnds
