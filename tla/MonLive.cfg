CONSTANTS
    h1 = h1
    h2 = h2
    r1 = r1
    r2 = r2
    Hosts = {h1, h2}
    Requests = {r1, r2}
    Limit = 1
    MaxEdits = 1
    MaxOps = 2
    MaxNotes = 1
    MaxFaults = 1
SPECIFICATION FairSpec
PROPERTIES RequestsReturn LimitedRunsEnd
CHECK_DEADLOCK FALSE
