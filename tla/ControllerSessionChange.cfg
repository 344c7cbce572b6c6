SPECIFICATION Spec
CONSTANTS
    Sessions = {s1, s2}
    MaxPrompts = 2
    max_retries = 1
    max_per_turn = 1
    compaction_enabled = TRUE
    exit_after_run = FALSE
    TasksMayPanic = FALSE
    InternalErrors = FALSE
    UiErrors = {"Transport"}
INVARIANT
    EveryPromptAnswered
CHECK_DEADLOCK FALSE
