SPECIFICATION FrontEndsSpec
CONSTANTS
    Sessions = {s1}
    MaxPrompts = 1
    max_retries = 3
    max_per_turn = 2
    compaction_enabled = TRUE
    exit_after_run = TRUE
    TasksMayPanic = TRUE
    InternalErrors = TRUE
    UiErrors = {"ContextOverflow", "Transport", "ModelOutputMalformed", "Auth"}
    Config <- DefaultConfig
    Errors = {"Transport", "InvalidStreamJson", "HttpTransient", "HttpOther", "RateLimited", "ModelOutputMalformed", "Auth"}
    RetryAfters = {0, 500, 2000, 60000}
    Chars <- MCChars
    Commands <- MCCommandList
    PopupRows = 2
    MaxText = 3
    Finished <- MCFinished
    MaxHistory = 2
    Widths = {4, 5}
    MaxDraft = 4
    Lists <- MCLists
    Queries = {"", "a", "b", "c"}
    Hit <- MCHit
    Providers = {1, 2}
    ApiProviders = {1}
    ModelIds = {"m2"}
    Builtin <- MCBuiltin
    MaxJobs = 1
    Presets = {"openai"}
    Servers = {"ollama"}
    CustomNames = {}
    Keys = {"k1"}
    Advertised = {"m1"}
    Fallback = "m0"
    MaxConfigured = 2
    MaxWorkers = 1
    Logins = {l1, l2}
    DeviceInterval = 5
    DeviceExpires = 20
    SlowDownIntervals = {10}
    MaxLroPollAttempts = 2
    MaxRefreshes = 1
    Configured <- MCConfigured
    Listings <- MCListings
    Nothing = Nothing
    Failed = Failed
    Closed = Closed
    Cap = 10
    Guess = 11
    MaxAddress = 2
    MaxTasks = 2
    MaxHostLines = 2
    MaxRpcEvents = 2
    EventRoom = 1
INVARIANTS
    HostsServed BackoffSound ComposerSound SetupSound
PROPERTIES
    PickerSound ProvidersSound LoginSound DiscoverySound EveryWaitEnds
CHECK_DEADLOCK FALSE
