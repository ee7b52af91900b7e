CONSTANTS
    Settings = {p1}
    Roots = {r1, r2}
    Planned = 1
    MaxAttempts = 2
    Resubmissions = 1
    MayLose = TRUE
    MaxSessions = 3
SYMMETRY Symmetry
SPECIFICATION Spec
INVARIANTS
    RoundsTypeOK
    OneIdentity
    AttemptsUsedUp
PROPERTIES
    CompleteIsPure
CHECK_DEADLOCK FALSE
