CONSTANTS
    BaseSamples = 1
    MaxSamples = 5
    MaxAttempts = 1
    MaxRows = 1
    MaxLost = 2
SPECIFICATION Spec
INVARIANTS
    DkwTypeOK
    StagesInOrder
PROPERTIES
    DecisionKept
    NoneOvertaken
    NumbersIncrease
    Decides
CHECK_DEADLOCK FALSE
