SPECIFICATION PageSpec
CONSTANTS
    Names = {1, 2, 3, 4}
    Columns = 12
    LastRow = 1
    PackCounts = {0, 1, 2, 4}
    RHosts = {r1, r2}
    RGroups = {a, b}
    Nowhere = Nowhere
    RSettings <- TwoRecords
    Widths = {4, 5, 8}
    Rest = 2
    Grown = 3
    DHosts = {d1, d2}
    NoHost = NoHost
    SGroups = {s1, s2}
    NoGroup = NoGroup
    MaxLists = 2
    MaxRanges = 2
    EHosts = {e1, e2}
    NewHost = NewHost
    MaxSends = 2
    IHosts = {i1, i2}
    Low = 1
    High = 2
    Typed = {0, 1, 2, 3}
    MaxBatches = 2
    MaxLag = 2
    Interfaces = {auto, eth, wifi}
    AutoInterface = auto
    NoLabel = NoLabel
    MaxChoices = 2
    MaxVersions = 4
    MaxFetches = 2
SYMMETRY Symmetric
CHECK_DEADLOCK FALSE
INVARIANTS PageTypeOK WellPacked PageShowsStore MotionIsTruthful PlacedOrDue
    DialogsActOnTheirOwn QuietMeansCurrent
PROPERTY DeliberateTurns
