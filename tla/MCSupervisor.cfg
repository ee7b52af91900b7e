CONSTANTS
    Requests = {r1, r2, r3}
    Startup = {s1}
SYMMETRY Symmetry
SPECIFICATION Spec
INVARIANTS
    SupervisorTypeOK
    ChildrenStopped
    AnsweredWithinReach
CHECK_DEADLOCK FALSE
