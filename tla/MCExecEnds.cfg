CONSTANTS
    Workers = {w1, w2}
    MaxSamples = 2
    MaxAttempts = 2
    MaxInFlight = 2
    MayFail = FALSE
    MayLoseRecords = FALSE
    MaxFaults = 1
SPECIFICATION FairSpec
PROPERTIES
    RunEnds
CHECK_DEADLOCK FALSE
