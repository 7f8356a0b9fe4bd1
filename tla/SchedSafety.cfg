CONSTANTS
    h1 = h1
    h2 = h2
    Hosts = {h1, h2}
    Gens = {1, 2}
    None = None
    Threshold = 2
    MaxConcurrent = 1
    HasBroadcaster = TRUE
    MaxOps = 3
SPECIFICATION Spec
SYMMETRY MCSymmetry
INVARIANTS TypeOK LoopsMatchTasks SlotsConserved OutageLogExact
PROPERTIES LoopsAreAsAsked
CHECK_DEADLOCK FALSE
