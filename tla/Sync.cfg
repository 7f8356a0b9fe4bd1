CONSTANTS
    h1 = h1
    r1 = r1
    r2 = r2
    g1 = g1
    g2 = g2
    Hosts = {h1}
    Groups = {g1, g2}
    Requests = {r1, r2}
    MaxChanges = 3
    MaxFaults = 1
SPECIFICATION FairSpec
INVARIANTS NoHostChangeMissed
PROPERTIES CatchesUp
CHECK_DEADLOCK FALSE
