SPECIFICATION ContextSpec
CONSTANTS
    Unit <- MCUnit
    High <- MCHigh
    Low <- MCLow
    CooldownSteps = 3
    MinIntervalSteps = 2
    ForecastHorizon = 4
    HardLimits = {20, 320}
    SoftTargets = {0, 15, 320}
    Loads <- MCLoads
    StartSteps = {1}
    Gaps = {1, 3}
    MaxSteps = 5
    Observations <- MCObservations
    Limits = {5}
    U64_MAX = 20000
    MaxTiles = 3
    ContextBudget = 320
    MaxContextSteps = 4
    MaxViolations = 1
PROPERTIES   OverBudgetRecovers
CHECK_DEADLOCK FALSE
