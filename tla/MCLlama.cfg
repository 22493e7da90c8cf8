SPECIFICATION Spec
CONSTANTS
    Addresses = {1, 2, 3}
    Slots = {0, 1, 2, 3}
    MaxCaches = 2
    Workers = {1, 2}
    Capacity = 2
    LayerCounts = {1, 2}
    Configs <- MCConfigs
    MaxContexts = 2
INVARIANTS ResidentWithinBudget 
PROPERTIES RestoreExact DecodeReturns
CHECK_DEADLOCK FALSE
