---------------------------- MODULE RetryBackoff ----------------------------
(***************************************************************************)
(* The waiting of one turn whose every attempt fails: RetryPolicy's        *)
(* decisions and delays in the order the controller takes them, each with  *)
(* the error the provider happens to return and the jitter the code draws. *)
(***************************************************************************)
EXTENDS RetryPolicy, Sequences

CONSTANTS
    Config,         \* the rest of RetryConfig, as a record
    Errors,         \* errors the attempts end with
    RetryAfters     \* hints a RateLimited error may carry

\* RetryConfig::default doubles the delay; the controller's tests keep it the same and
\* draw no jitter.  Nothing else builds a RetryConfig.
ASSUME BackoffAssumption ==
    /\ Config.initial_delay_ms \in Nat /\ Config.max_delay_ms \in Nat
    /\ Config.backoff_multiplier \in Nat /\ Config.jitter \in BOOLEAN
    /\ Config.backoff_multiplier >= 2 \/ (Config.backoff_multiplier = 1 /\ ~Config.jitter)
    /\ Errors \subseteq ProviderErrors /\ RetryAfters \subseteq Nat

VARIABLES
    attempt,    \* transient retries so far
    waits,      \* history: the failures that were retried and their delays
    given_up

backoffVars == <<attempt, waits, given_up>>

BackoffInit == attempt = 0 /\ waits = <<>> /\ given_up = FALSE

\* The hint, if any, that comes with an error.
Hints(error) ==
    IF error = "RateLimited" THEN {{}} \cup {{ms} : ms \in RetryAfters} ELSE {{}}

\* An attempt fails with `error`; the draw of the jitter is one of its extremes.
AttemptFails(error) ==
    LET decision == Decide(error, attempt, TRUE, 0)
    IN  /\ ~given_up
        /\ \/ /\ decision.kind = "Retry"
              /\ attempt' = decision.attempt
              /\ \E hint \in Hints(error) :
                    LET delay == RetryDelay(Config, error, hint, decision.attempt)
                    IN  \E ms \in {delay.shortest, delay.longest} :
                           waits' = Append(waits, [error |-> error, ms |-> ms])
              /\ UNCHANGED given_up
           \/ /\ decision.kind = "GiveUp"
              /\ given_up' = TRUE
              /\ UNCHANGED <<attempt, waits>>

BackoffNext == \E error \in Errors : AttemptFails(error)
BackoffSpec == BackoffInit /\ [][BackoffNext]_backoffVars

-----------------------------------------------------------------------------
\* However the errors mix, a turn waits at most max_retries times, each time at
\* most the ceiling and its jitter.
WaitingBounded ==
    /\ Len(waits) <= max_retries
    /\ \A i \in DOMAIN waits :
          waits[i].ms <= Config.max_delay_ms + Config.max_delay_ms \div 4

\* A rate limit is retried only as the first failure of the turn, and malformed
\* output only among the first two: their caps count every earlier retry.
TighterCapsCountEveryRetry ==
    \A i \in DOMAIN waits :
        /\ waits[i].error = "RateLimited" => i <= MAX_RATE_LIMIT_RETRIES
        /\ waits[i].error = "ModelOutputMalformed" =>
              i <= MAX_MODEL_OUTPUT_MALFORMED_RETRIES

\* Below the ceiling, a later retry of an error without a hint waits at least as
\* long as an earlier one, whatever the jitter drew: the bands of two doublings
\* do not overlap.
BackoffGrows ==
    \A i, j \in DOMAIN waits :
        (i < j /\ {waits[i].error, waits[j].error} \cap {"RateLimited"} = {}
           /\ Exponential(Config, j - 1) <= Config.max_delay_ms)
        => waits[i].ms <= waits[j].ms

\* Waiting for a provider is bounded, and backs off.
BackoffSound == WaitingBounded /\ TighterCapsCountEveryRetry /\ BackoffGrows
=============================================================================
