CONSTANTS
    Threshold = 2
    Window = 2
    MaxChanges = 3
    MaxFlight = 2
SPECIFICATION Spec
INVARIANTS TypeOK PanelHearsAll ResultFrozen OfflineMeansOutage
PROPERTIES ImplementsHostStatus
CHECK_DEADLOCK FALSE
