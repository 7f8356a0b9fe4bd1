CONSTANTS
    h1 = h1
    h2 = h2
    Hosts = {h1, h2}
    Gens = {1, 2}
    None = None
    Threshold = 2
    MaxConcurrent = 1
    HasBroadcaster = FALSE
    MaxOps = 3
SPECIFICATION FairSpec
PROPERTIES ImplementsOutageLog NobodyStarves
CHECK_DEADLOCK FALSE
