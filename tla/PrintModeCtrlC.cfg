SPECIFICATION PrintSpec
CONSTANTS
    Sessions = {s1}
    MaxPrompts = 1
    max_retries = 3
    max_per_turn = 2
    compaction_enabled = TRUE
    exit_after_run = TRUE
    TasksMayPanic = TRUE
    InternalErrors = TRUE
    UiErrors = {"ContextOverflow", "Transport", "ModelOutputMalformed", "Auth"}
PROPERTY
    PrintModeExits
CHECK_DEADLOCK FALSE
