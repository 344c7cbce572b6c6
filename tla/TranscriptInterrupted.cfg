SPECIFICATION TranscriptSpec
CONSTANTS
    MaxCalls = 2
    MaxDeltas = 2
    MaxBlocks = 5
INVARIANT
    AnswersFinalized
CHECK_DEADLOCK FALSE
