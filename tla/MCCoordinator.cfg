SPECIFICATION CoordSpec
CONSTANTS
    Resources = {r1, r2}
    NoNode = NoNode
    MaxU = 5
    MaxNodes = 4
    NodeLimits = {3, 5}
    Reservations = {0, 2}
    Amounts = {2}
SYMMETRY Symmetry
INVARIANT OwnedExactly
PROPERTY SiblingsKeepReservation
CHECK_DEADLOCK FALSE
