SPECIFICATION Spec
CONSTANTS
    EventCapacity = 3
    MaxBatch = 2
    MaxKeys = 1
    MaxSteps = 1
    MaxRecoveries = 0
    MidTurnCompaction = TRUE
    SummarizerFails = FALSE
INVARIANT
    ActiveRunShown
CHECK_DEADLOCK FALSE
