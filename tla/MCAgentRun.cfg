SPECIFICATION MCSpec
CONSTANTS
    ToolExecutionModes = {"Sequential", "Parallel"}
    Injections = {"steering", "follow_up", "policy"}
    MaxToolCalls = 2
    MaxTurns = 2
    MaxRuns = 2
    max_per_turn = 1
    MaxCalls = 2
    MaxDeltas = 1
    MaxBlocks = 4
    PaneWidths = {1, 2}
    PaneHeights = {1}
    Contexts <- MCContexts
    Loaded <- MCLoaded
    MaxPaneBlocks = 2
    MaxWords = 1
    LineMax = 2
INVARIANTS
    RunSound RequestsPaired TranscriptSound ViewSound
PROPERTIES
    EventProtocol CancelEndsRun
CHECK_DEADLOCK FALSE
