CONSTANTS
    Workers = {w1, w2}
    MaxSamples = 2
    MaxAttempts = 2
    HasTimeout = TRUE
    MaxStart = 1
    LowWater = 1
    HighWater = 2
    TargetTotal = 4
    MayConverge = TRUE
    MayFail = TRUE
    MayLoseRows = FALSE
    MayMisroute = TRUE
    MayLeave = TRUE
    AutoRestart = FALSE
    PromptWorkers = FALSE
    MaxCrashes = 1
SYMMETRY Symmetry
SPECIFICATION RunSpec
INVARIANTS
    RunTypeOK
    NoSampleForgotten
    EndIsQuiet
PROPERTIES
    ImplementsQueue
    IssuesNothingAfterStop
    SeenSuccessesStay
    SeenSamplesStay
CHECK_DEADLOCK FALSE
