SPECIFICATION BridgeSpec
CONSTANTS
    b1 = b1
    b2 = b2
    Bridges = {b1, b2}
    MaxSlots = 2
    MaxSeq = 3
    MaxEvictions = 2
    MaxImportance = 0
    HardBudgets = {224, 256}
    Targets = {128, 192}
SYMMETRY MCSymmetry
INVARIANTS
    BoundPageRestorable
    ControlPlaneExact
CHECK_DEADLOCK FALSE
