CONSTANTS
    Workers = {w1, w2}
    MaxSamples = 3
    MaxAttempts = 2
    MaxInFlight = 2
    MayFail = FALSE
    MayLoseRecords = TRUE
    MaxFaults = 1
SYMMETRY Symmetry
SPECIFICATION Spec
INVARIANTS
    TypeOK
    EveryRecordKept
    NothingStartsAfterStop
    WaitsOnce
    NothingSkipped
PROPERTIES
    ImplementsCaseExecutor
CHECK_DEADLOCK FALSE
