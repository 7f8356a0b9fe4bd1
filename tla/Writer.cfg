CONSTANTS
    h1 = h1
    h2 = h2
    Hosts = {h1, h2}
    MaxRows = 3
    MaxCrashes = 1
SPECIFICATION FairSpec
INVARIANTS TypeOK RowsInPlace
PROPERTIES LossesJustified ImplementsRowLog WriterGetsDone
CHECK_DEADLOCK FALSE
