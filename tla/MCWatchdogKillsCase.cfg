CONSTANTS
    Workers = {1}
    RestartStale = TRUE
    RestartMissing = TRUE
    RestartGpu = TRUE
    MaxRestarts = 1
    GpuMaxRestarts = 2
    GpuMaxFailures = 2
    Cases = 1
    MayLoseInspection = TRUE
    MaxFaults = 3
SPECIFICATION Spec
PROPERTIES
    ReportedCasesSpared
CHECK_DEADLOCK FALSE
