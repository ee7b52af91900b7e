CONSTANTS
    Workers = {w1, w2}
    MaxSamples = 2
    MaxAttempts = 2
    HasTimeout = TRUE
    MaxStart = 0
    LowWater = 0
    HighWater = 1
    TargetTotal = 0
    MayConverge = FALSE
    MayFail = TRUE
    MayLoseRows = FALSE
    MayMisroute = FALSE
    MayLeave = FALSE
    AutoRestart = TRUE
    PromptWorkers = FALSE
    MaxCrashes = 1
SPECIFICATION PollingSpec
PROPERTIES
    StopEndsRun
    RunEnds
CHECK_DEADLOCK FALSE
