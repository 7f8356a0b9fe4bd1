CONSTANTS
    h1 = h1
    h2 = h2
    r1 = r1
    r2 = r2
    Hosts = {h1}
    Requests = {r1, r2}
    Limit = 1
    MaxEdits = 2
    MaxOps = 2
    MaxNotes = 2
    MaxFaults = 0
SPECIFICATION Spec
INVARIANT DisabledHostsExcluded
CHECK_DEADLOCK FALSE
