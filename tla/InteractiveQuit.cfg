SPECIFICATION Spec
CONSTANTS
    EventCapacity = 3
    MaxBatch = 2
    MaxKeys = 2
    MaxSteps = 3
    MaxRecoveries = 0
    MidTurnCompaction = FALSE
    SummarizerFails = FALSE
PROPERTY
    QuitEndsProcess
CHECK_DEADLOCK FALSE
