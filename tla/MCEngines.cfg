SPECIFICATION EnginesSpec
CONSTANTS
    Capacity = 11
    Align = 3
    Sizes = {0, 1, 2, 3, 4}
    MaxCookie = 5
    MaxContexts = 2
    MaxObjects = 3
    Lengths = {1, 2}
    Offsets = {0, 1, 7}
    USIZE_MAX = 7
    PipeTiles = {"a", "b", "bad"}
    InvalidTiles = {"bad"}
    Queries = {"q", "r"}
    PipeCapacity = {3}
    MaxBatch = 2
    MaxScores = 3
    FlagSets <- MCFlagSets
    Inputs <- MCInputs
    NaN = NaN
    Cosines = {10, 60, 90}
    Thresholds <- MCThresholds
    MaxAnalyses = 5
    TierLists <- MCTierLists
    EdgeLists <- MCEdgeLists
    NameLists <- MCNameLists
    Descriptors <- MCDescriptors
    RankLayers = 2
    RankHeads = 2
    TokenStride = 1
    MaxHeads = 1
    Threads = 2
    BatchSizes = {1, 2}
    MaxPositions = 2
    MaxClears = 2
    MaxRejected = 1
    ShortWrites <- MCShortWrites
    PriorDatasets = {FALSE}
    ProjRows = 1
    N_LAYERS = 2
    TOP_K = 1
    MAX_TOPK = 3
    Frozen <- MCFrozen
    ParsedBits <- MCParsedBits
    Team <- MCTeam
    Setups <- MCSetups
    RankCommands <- MCRankCommands
    Contracts <- MCContracts
    EvalCommands <- MCEvalCommands
    Epsilon = 50
    Breaks = {0, 8}
    HashMayFail = FALSE
INVARIANTS
    FindsSpace   KernelsExact
    VerdictFromHistory WholeOrReported DatasetFaithful  ReportOfOneAttempt
CHECK_DEADLOCK FALSE
