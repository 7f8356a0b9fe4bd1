CONSTANTS
    g1 = g1
    g2 = g2
    c1 = c1
    r1 = r1
    r2 = r2
    None = None
    Groups = {g1, g2}
    Cidrs = {c1}
    Requests = {r1, r2}
    HostCap = 1
    MaxId = 3
SPECIFICATION Spec
SYMMETRY MCSymmetry
INVARIANTS TypeOK RefsIntact IdsNotReused CapBounded
PROPERTIES GroupsChangeAsAsked
CHECK_DEADLOCK FALSE
