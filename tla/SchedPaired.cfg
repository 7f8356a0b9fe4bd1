CONSTANTS
    h1 = h1
    Hosts = {h1}
    Gens = {1, 2}
    None = None
    Threshold = 3
    MaxConcurrent = 1
    HasBroadcaster = TRUE
    MaxOps = 3
SPECIFICATION Spec
INVARIANT NoUnpairedEvents
CHECK_DEADLOCK FALSE
