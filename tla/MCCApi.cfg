SPECIFICATION Spec
CONSTANTS
    Addresses = {a1, a2, a3}
    Slots = {0}
    MaxCaches = 2
    Calls <- MCCalls
    MaxModels = 1
    Budget = 7
    Tiles <- MCTiles
    Counts = {0, 1, 2, 4}
    MAX_TILES = 3
    MaxFaults = 2
INVARIANT ActsOnItsOwnObject
 
SYMMETRY AddressSymmetry
