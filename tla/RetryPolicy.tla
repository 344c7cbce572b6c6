---------------------------- MODULE RetryPolicy ----------------------------
(***************************************************************************)
(* The pure decisions of anie-cli/src/retry_policy.rs: what the controller *)
(* does with the ProviderError that ended a run, and how long it backs off *)
(* before it tries again.  A ProviderError is its variant; Http is split   *)
(* by whether `decide` lists its status among the transient ones.  Delays  *)
(* are whole milliseconds (the code's f64 product, truncated to u64).      *)
(***************************************************************************)
EXTENDS Integers

CONSTANT max_retries   \* RetryConfig.max_retries

ASSUME MaxRetriesAssumption == max_retries \in Nat

MAX_RATE_LIMIT_RETRIES == 1
MAX_MODEL_OUTPUT_MALFORMED_RETRIES == 2
RATE_LIMIT_FALLBACK_DELAY_MS == 15000
RATE_LIMIT_MIN_DELAY_MS == 2000

Least(a, b) == IF a <= b THEN a ELSE b
Greatest(a, b) == IF a >= b THEN a ELSE b

\* Errors that a second attempt with the same request may not meet again.
TransientErrors ==
    {"RateLimited", "Transport", "InvalidStreamJson", "MalformedStreamEvent",
     "ModelOutputMalformed", "HttpTransient"}

\* Errors `decide` never retries.
TerminalErrors ==
    {"Auth", "RequestBuild", "ToolCallMalformed", "NativeReasoningUnsupported",
     "UnsupportedStreamFeature", "ReplayFidelity", "FeatureUnsupported",
     "EmptyAssistantResponse", "ResponseTruncated", "ModelLoadResources"}

ProviderErrors ==
    TransientErrors \cup TerminalErrors \cup {"ContextOverflow", "HttpOther"}

\* Variant of RetryCap with a bug: an attempt too many.
BugRetryCapPlusOne(error) ==
    CASE error = "RateLimited" -> 1 + Least(MAX_RATE_LIMIT_RETRIES, max_retries)
      [] OTHER -> 1 + max_retries

\* Variant of RetryCap with a bug: no tighter caps.
BugOneRetryCap(error) == max_retries

\* How many transient retries a turn may use when it fails with `error`.
RetryCap(error) ==
    CASE error = "RateLimited" -> Least(MAX_RATE_LIMIT_RETRIES, max_retries)
      [] error = "ModelOutputMalformed" ->
             Least(MAX_MODEL_OUTPUT_MALFORMED_RETRIES, max_retries)
      [] OTHER -> max_retries

Retry(n) == [kind |-> "Retry", attempt |-> n]
Compact == [kind |-> "Compact"]
GiveUp(reason) == [kind |-> "GiveUp", reason |-> reason]

\* RetryPolicy::decide, after `attempt` transient retries.
Decide(error, attempt, already_compacted, compaction_budget_remaining) ==
    CASE error = "ContextOverflow" ->
             IF already_compacted THEN GiveUp("AlreadyCompacted")
             ELSE IF compaction_budget_remaining = 0
                  THEN GiveUp("CompactionBudgetExhausted")
                  ELSE Compact
      [] error \in TransientErrors ->
             IF attempt < RetryCap(error) THEN Retry(attempt + 1)
                                          ELSE GiveUp("AttemptsExhausted")
      [] error = "HttpOther" ->
             GiveUp(IF attempt >= max_retries THEN "AttemptsExhausted"
                                              ELSE "Terminal")
      [] OTHER -> GiveUp("Terminal")

-----------------------------------------------------------------------------
(***************************************************************************)
(* retry_delay_ms.  `config` is a record with the fields of RetryConfig,   *)
(* `retry_after` the provider's hint in a set of at most one element.      *)
(***************************************************************************)

\* initial_delay_ms * backoff_multiplier ^ exponent, by repeated product.
Exponential(config, exponent) ==
    LET delay[n \in 0..exponent] ==
            IF n = 0 THEN config.initial_delay_ms
                     ELSE delay[n - 1] * config.backoff_multiplier
    IN  delay[exponent]

\* Only a rate-limit error carries a hint (ProviderError::retry_after_ms).
BaseDelay(config, error, retry_after, attempt) ==
    IF error = "RateLimited"
    THEN LET hint == IF retry_after = {} THEN RATE_LIMIT_FALLBACK_DELAY_MS
                     ELSE CHOOSE ms \in retry_after : TRUE
         IN  Greatest(hint, RATE_LIMIT_MIN_DELAY_MS)
    ELSE Exponential(config, Greatest(attempt - 1, 0))

\* The shortest and the longest delay the random jitter may produce.
RetryDelay(config, error, retry_after, attempt) ==
    LET clamped == Least(BaseDelay(config, error, retry_after, attempt),
                         config.max_delay_ms)
        jitter == IF config.jitter THEN clamped \div 4 ELSE 0
    IN  [shortest |-> clamped - jitter, longest |-> clamped + jitter]
=============================================================================
