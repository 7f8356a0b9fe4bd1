CONSTANTS
    h1 = h1
    h2 = h2
    r1 = r1
    r2 = r2
    Hosts = {h1, h2}
    Requests = {r1, r2}
    Limit = 1
    MaxEdits = 2
    MaxOps = 3
    MaxNotes = 2
    MaxFaults = 1
SPECIFICATION Spec
SYMMETRY MCSymmetry
INVARIANTS TypeOK NoLoopBehindItsBack NothingOutlivesItsRun RunConverges
PROPERTIES ImplementsRun
CHECK_DEADLOCK FALSE
