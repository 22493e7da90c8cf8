SPECIFICATION Spec
CONSTANTS
    MaxSlots = 3
    MaxSeq = 3
    MaxImportance = 2
    MaxErrors = 0
    TileInputs <- MCTiles
    Budgets = {80, 180}
    Policies = {"LowestImpactFirst", "OldestFirst"}
    Evictions <- MCEvictions
    Durabilities = {}
    PriorLogs = {}
INVARIANTS
    BytesExact
    EnforceMeetsBudget
PROPERTIES
    Harshness
    
CHECK_DEADLOCK FALSE
