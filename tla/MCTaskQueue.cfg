CONSTANTS
    MaxSamples = 3
    MaxAttempts = 3
    HasTimeout = TRUE
    MaxStart = 1
SPECIFICATION Spec
INVARIANTS
    TypeOK
    Accounting
    OneCopy
    RetriesFirst
    GivenUpAfterLastAttempt
