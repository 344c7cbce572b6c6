SPECIFICATION Spec
CONSTANTS
    EventCapacity = 2
    MaxBatch = 2
    MaxKeys = 3
    MaxSteps = 2
    MaxRecoveries = 1
    MidTurnCompaction = TRUE
    SummarizerFails = TRUE
INVARIANTS
    KeysFollowRun
PROPERTIES
    NobodyStuck
CHECK_DEADLOCK FALSE
