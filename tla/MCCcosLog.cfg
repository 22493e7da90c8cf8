SPECIFICATION Spec
CONSTANTS
    MaxSlots = 2
    MaxSeq = 3
    MaxImportance = 0
    MaxErrors = 2
    TileInputs <- LogTiles
    Budgets = {80}
    Policies = {"LowestImpactFirst"}
    Evictions <- CausalOnly
    Durabilities = {"BestEffort", "RequireDurable"}
    PriorLogs <- MCPriorLogs
INVARIANTS
    EnforceFailsOnlyBlocked
    
CHECK_DEADLOCK FALSE
