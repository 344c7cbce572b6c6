SPECIFICATION Spec
CONSTANTS
    Sessions = {s1, s2}
    MaxPrompts = 3
    max_retries = 2
    max_per_turn = 2
    compaction_enabled = TRUE
    exit_after_run = FALSE
    TasksMayPanic = TRUE
    InternalErrors = TRUE
    UiErrors = {"ContextOverflow", "Transport", "RateLimited", "Auth"}
INVARIANTS
    TypeOK TurnBookkeeping EveryTurnAccounted AnsweredOnce
PROPERTIES
    FollowUpsInOrder LoopEnds
CHECK_DEADLOCK FALSE
