SPECIFICATION Spec
CONSTANTS
      c1 = c1
    c2 = c2
    c3 = c3
    Calls = {c1, c2}
    Requests <- MCRequests
    Texts <- MCTexts
    MayFail = TRUE
    MaxEditCount = 2
    MaxOldText = 4
    MaxNewText = 3
    MaxArgument = 9
    MaxInputFile = 6
    MaxOutputFile = 8
    Files <- MCFiles
    Limits = {0, 2}
    ContextWindow = 40
    BaseBudget = 10
    MinToolOutputBudget = 3
    MaxReadLines = 3
    MaxLineBuffer = 6
    Trees <- MCTrees
    Requested <- MCRequested
    ByteLimit = 6
    LineCap = 3
    Commands <- MCCommands
    PolicyEnabled = TRUE
    DenyCommands = {"rm"}
    DenyPatterns <- MCDenyPatterns
    ValidPatterns <- MCAllPatternsValid
    Budget = 1
    MaxLines = 2
    ChunkCap = 1
    UpdateCap = 1
    MaxWrites = 2
    Timeouts = {TRUE}
    w1 = w1
    w2 = w2
    WebCalls = {w1, w2}
    WebRequests <- MCWebRequests
    Pages = {"article", "serp", "router"}
    OriginOf <- MCOriginOf
    HostOf <- MCHostOf
    Refused = {"router"}
    Rules <- MCRules
    Unasked = Unasked
    PageSizes = {2, 3, 4}
    ChunkSizes = {1, 2}
    ConfiguredCap = 3
    ContextShare = 2
    LeastCap = 1
    MaxRedirects = 1
    Burst = 1
INVARIANTS
    ReadSound SearchSound WebSound
PROPERTIES
    EditsExact BashSound CallsAnswered
CHECK_DEADLOCK FALSE
