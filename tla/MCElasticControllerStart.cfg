SPECIFICATION Spec
CONSTANTS
    Unit <- MCUnit
    High <- MCHigh
    Low <- MCLow
    CooldownSteps = 3
    MinIntervalSteps = 2
    ForecastHorizon = 4
    HardLimits = {20}
    SoftTargets = {0, 15}
    Loads <- MCLoads
    StartSteps = {0}
    Gaps = {1, 3}
    MaxSteps = 5
CHECK_DEADLOCK FALSE
PROPERTY MinIntervalKept
