SPECIFICATION Spec
CONSTANTS
    Fragments <- TestFragments
    MaxFragments = 4
    Indexes = {0, 1}
    ArgumentParts = 2
    MaxChunks = 3
    MaxStreams = 2
    OpenAiModels <- TestModels
    Contexts = {1024, 3000, 4096, 32768}
    Ceilings = {1, 1024, 1500, 4096, 64000}
    Requested = {0, 1, 512, 4096}
    MaxMessages = 4
    Processes = {q1, q2}
    Providers = {p1, p2}
    Rotating = {p1}
    KeyringNative = TRUE
    MaxTokens = 2
    MaxFaults = 1
    MaxOperations = 3
    s1 = s1
    s2 = s2
    agents = agents
    claude = claude
    None = None
    Stopped = Stopped
    Unparsable = Unparsable
    Builtin <- MCBuiltin
    LocalModels <- MCLocalModels
    LoginModel <- MCLoginModel
    Discoverable <- MCDiscoverable
    FileContents <- MCFileContents
    ProjectContents <- MCProjectContents
    DefaultModel <- MCDefaultModel
    Flags <- MCFlags
    ThinkingChoices = {"high"}
    Requests <- MCRequests
    Windows = {25}
    MinContext = 2
    Placeholder = 11
    Sessions = {s1, s2}
    MaxStarts = 2
    MaxCommands = 2
    MaxEdits = 1
    Paths <- MCPaths
    Sizes = {1, 3}
    MaxFile = 2
    MaxTotal = 3
    MaxChanges = 3
SYMMETRY Symmetric
INVARIANTS
    SplitterSound AnswersWhole RequestsSound ReplaySound PromptSound
PROPERTIES
    CredentialsSound SelectionSound
CHECK_DEADLOCK FALSE
