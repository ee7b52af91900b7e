CONSTANTS
    Workers = {w1, w2}
    MaxSamples = 2
    MaxAttempts = 2
    HasTimeout = FALSE
    MaxStart = 0
    LowWater = 1
    HighWater = 2
    TargetTotal = 0
    MayConverge = FALSE
    MayFail = TRUE
    MayLoseRows = TRUE
    MayMisroute = FALSE
    MayLeave = FALSE
    AutoRestart = FALSE
    PromptWorkers = TRUE
    MaxCrashes = 0
SYMMETRY Symmetry
SPECIFICATION RunSpec
INVARIANTS
    NoSampleForgotten
CHECK_DEADLOCK FALSE
