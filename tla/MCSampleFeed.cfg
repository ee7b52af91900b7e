CONSTANTS
    MaxSamples = 3
    MaxAttempts = 2
    MaxRows = 4
SPECIFICATION Spec
INVARIANTS
    PassIsPrefix
    ArrivalOrderIrrelevant
CHECK_DEADLOCK FALSE
