-------------------------- MODULE FrontEndProofs --------------------------
(***************************************************************************)
(* What the parts around the controller promise, for every number of       *)
(* logins, discoveries, providers, answers and retries: waiting backs off, *)
(* a login stores its own grant, the model picker offers what is known,    *)
(* onboarding configures one default with keys that work, and the terminal *)
(* reads its keys by what the run is at.                                   *)
(***************************************************************************)
EXTENDS RetryBackoff, OAuthLogin, Discovery, Onboarding, Interactive,
        SequenceTheorems, WellFoundedInduction, FiniteSetTheorems, TLAPS

-----------------------------------------------------------------------------
(***************************************************************************)
(* RetryPolicy: waits back off and stay bounded, whatever the jitter draws. *)
(***************************************************************************)
\* Numbers have a least one.
LEMMA LeastMember ==
    ASSUME NEW T, T \subseteq Nat, T # {}
    PROVE  \E x \in T : \A y \in T : x <= y
<1>1. \E x \in T : \A y \in T : ~(<<y, x>> \in OpToRel(<, Nat))
    BY WFMin, NatLessThanWellFounded
<1>2. PICK x \in T : \A y \in T : ~(<<y, x>> \in OpToRel(<, Nat))
    BY <1>1
<1>3. ASSUME NEW y \in T PROVE x <= y
    <2>1. x \in Nat /\ y \in Nat
        OBVIOUS
    <2>2. ~(y < x)
        BY <1>2, <2>1 DEF OpToRel
    <2> QED BY <2>1, <2>2
<1> QED BY <1>3

\* Induction over the numbers, with a set for the formula.
LEMMA Induction ==
    ASSUME NEW S, 0 \in S, \A n \in Nat : n \in S => n + 1 \in S
    PROVE  Nat \subseteq S
<1> SUFFICES ASSUME Nat \ S # {} PROVE FALSE
    OBVIOUS
<1>1. PICK n \in Nat \ S : \A y \in Nat \ S : n <= y
    BY LeastMember
<1>2. n # 0 /\ n - 1 \in Nat
    BY <1>1
<1>3. n - 1 \in S
    BY <1>1, <1>2
<1>4. (n - 1) + 1 \in S
    BY <1>2, <1>3
<1> QED BY <1>1, <1>4

\* The delays up to an exponent, as Exponential computes them.
IsDelay(f, e) ==
    f = [n \in 0..e |-> IF n = 0 THEN Config.initial_delay_ms ELSE f[n - 1] * Config.backoff_multiplier]

\* The first delay, and each from the one before.
LEMMA DelayAt ==
    ASSUME NEW e \in Nat, NEW f, IsDelay(f, e)
    PROVE  /\ f[0] = Config.initial_delay_ms
           /\ \A n \in 0..e : n # 0 => f[n] = f[n - 1] * Config.backoff_multiplier
BY DEF IsDelay

\* The table of delays exists for every exponent.
LEMMA DelayExists == \A e \in Nat : \E f : IsDelay(f, e)
<1> DEFINE S == {e \in Nat : \E f : IsDelay(f, e)}
<1>1. 0 \in S
    <2>1. IsDelay([n \in 0..0 |-> Config.initial_delay_ms], 0)
        BY DEF IsDelay
    <2> QED BY <2>1
<1>2. ASSUME NEW e \in Nat, e \in S PROVE e + 1 \in S
    <2>1. PICK f : IsDelay(f, e)
        BY <1>2
    <2> DEFINE g == [n \in 0..e + 1 |-> IF n = e + 1 THEN f[e] * Config.backoff_multiplier ELSE f[n]]
    <2>2. ASSUME NEW n \in 0..e + 1
          PROVE  g[n] = IF n = 0 THEN Config.initial_delay_ms ELSE g[n - 1] * Config.backoff_multiplier
        <3>1. CASE n = 0
            BY <2>1, <3>1, DelayAt
        <3>2. CASE n = e + 1
            BY <3>2
        <3>3. CASE n \in 0..e /\ n # 0
            <4>1. g[n] = f[n] /\ g[n - 1] = f[n - 1]
                BY <3>3
            <4>2. f[n] = f[n - 1] * Config.backoff_multiplier
                BY <2>1, <3>3, DelayAt
            <4> QED BY <3>3, <4>1, <4>2
        <3> QED BY <3>1, <3>2, <3>3
    <2>3. g = [n \in 0..e + 1 |-> g[n]]
        OBVIOUS
    <2> HIDE DEF g
    <2>4. IsDelay(g, e + 1)
        BY <2>2, <2>3 DEF IsDelay
    <2> QED BY <2>4
<1> HIDE DEF S
<1>3. Nat \subseteq S
    BY <1>1, <1>2, Induction
<1> QED BY <1>3 DEF S

\* A longer table begins with the shorter one.
LEMMA DelayUnique ==
    ASSUME NEW e \in Nat, NEW f, IsDelay(f, e), NEW g, IsDelay(g, e + 1)
    PROVE  f[e] = g[e]
<1> DEFINE S == {n \in Nat : n <= e => f[n] = g[n]}
<1>1. 0 \in S
    BY DelayAt
<1>2. ASSUME NEW n \in Nat, n \in S PROVE n + 1 \in S
    <2> SUFFICES ASSUME n + 1 <= e PROVE f[n + 1] = g[n + 1]
        OBVIOUS
    <2>1. f[n] = g[n] /\ n + 1 \in 0..e /\ n + 1 \in 0..e + 1 /\ n + 1 # 0 /\ (n + 1) - 1 = n
        BY <1>2
    <2>2. f[n + 1] = f[(n + 1) - 1] * Config.backoff_multiplier
        BY <2>1, DelayAt
    <2>3. g[n + 1] = g[(n + 1) - 1] * Config.backoff_multiplier
        BY <2>1, DelayAt
    <2> QED BY <2>1, <2>2, <2>3
<1> HIDE DEF S
<1>3. Nat \subseteq S
    BY <1>1, <1>2, Induction
<1> QED BY <1>3 DEF S

\* Exponential reads such a table.
LEMMA DelayOf ==
    ASSUME NEW e \in Nat
    PROVE  \E f : IsDelay(f, e) /\ Exponential(Config, e) = f[e]
BY DelayExists DEF Exponential, IsDelay

\* initial_delay_ms * backoff_multiplier ^ exponent.
LEMMA DelayGrows ==
    /\ Exponential(Config, 0) = Config.initial_delay_ms
    /\ \A e \in Nat : Exponential(Config, e + 1) = Exponential(Config, e) * Config.backoff_multiplier
<1>1. Exponential(Config, 0) = Config.initial_delay_ms
    BY DelayOf, DelayAt
<1>2. ASSUME NEW e \in Nat
      PROVE  Exponential(Config, e + 1) = Exponential(Config, e) * Config.backoff_multiplier
    <2>1. PICK f : IsDelay(f, e) /\ Exponential(Config, e) = f[e]
        BY DelayOf
    <2>2. PICK g : IsDelay(g, e + 1) /\ Exponential(Config, e + 1) = g[e + 1]
        BY DelayOf
    <2>3. g[e + 1] = g[(e + 1) - 1] * Config.backoff_multiplier
        BY <2>2, DelayAt
    <2>4. f[e] = g[e]
        BY <2>1, <2>2, DelayUnique
    <2> QED BY <2>1, <2>2, <2>3, <2>4
<1> QED BY <1>1, <1>2

\* With a multiplier of two or more a delay at least doubles.
LEMMA Doubled ==
    ASSUME NEW x \in Nat, NEW m \in Nat
    PROVE  /\ x * m \in Nat /\ (m >= 2 => x * m >= 2 * x) /\ (m >= 1 => x * m >= x)
           /\ (m = 1 => x * m = x)
OBVIOUS

\* Delays are numbers.
LEMMA DelayNat == \A e \in Nat : Exponential(Config, e) \in Nat
<1> DEFINE S == {e \in Nat : Exponential(Config, e) \in Nat}
<1>1. 0 \in S
    BY DelayGrows, BackoffAssumption
<1>2. ASSUME NEW e \in Nat, e \in S PROVE e + 1 \in S
    <2>1. PICK x \in Nat : x = Exponential(Config, e)
        BY <1>2
    <2>2. x * Config.backoff_multiplier \in Nat
        BY Doubled, BackoffAssumption
    <2> QED BY <2>1, <2>2, DelayGrows
<1> HIDE DEF S
<1>3. Nat \subseteq S
    BY <1>1, <1>2, Induction
<1> QED BY <1>3 DEF S

\* Every later delay is at least the next one.
LEMMA DelayLater ==
    ASSUME NEW e \in Nat
    PROVE  \A d \in Nat : Exponential(Config, e + 1 + d) >= Exponential(Config, e + 1)
<1> DEFINE S == {d \in Nat : Exponential(Config, e + 1 + d) >= Exponential(Config, e + 1)}
<1>1. 0 \in S
    BY DelayNat
<1>2. ASSUME NEW d \in Nat, d \in S PROVE d + 1 \in S
    <2>1. PICK x \in Nat : x = Exponential(Config, e + 1 + d)
        BY DelayNat
    <2>2. PICK y \in Nat : y = Exponential(Config, e + 1)
        BY DelayNat
    <2>3. Exponential(Config, (e + 1 + d) + 1) = x * Config.backoff_multiplier
        BY <2>1, DelayGrows
    <2>4. x * Config.backoff_multiplier >= x /\ x * Config.backoff_multiplier \in Nat
        BY Doubled, BackoffAssumption
    <2>5. x >= y
        BY <1>2, <2>1, <2>2
    <2>6. (e + 1 + d) + 1 = e + 1 + (d + 1)
        OBVIOUS
    <2>7. x * Config.backoff_multiplier >= y
        BY <2>4, <2>5
    <2> QED BY <2>2, <2>3, <2>6, <2>7
<1> HIDE DEF S
<1>3. Nat \subseteq S
    BY <1>1, <1>2, Induction
<1> QED BY <1>3 DEF S

\* A wait drawn around a delay below the ceiling, which is the schedule's unless the provider
\* may have given a hint.
Jitter(c) == IF Config.jitter THEN c \div 4 ELSE 0
Drawn(ms, c) == ms \in {c - Jitter(c), c + Jitter(c)}
InBand(w, i) ==
    \E c \in Nat : /\ c <= Config.max_delay_ms /\ Drawn(w.ms, c)
                   /\ w.error # "RateLimited" =>
                          c = Least(Exponential(Config, i - 1), Config.max_delay_ms)
BackoffInv ==
    /\ attempt \in Nat
    /\ waits \in Seq([error : ProviderErrors, ms : Int])
    /\ Len(waits) = attempt
    /\ \A i \in 1..attempt : i <= RetryCap(waits[i].error) /\ InBand(waits[i], i)

\* decide retries what is transient, as long as the error's own cap allows.
LEMMA RetryDecided ==
    ASSUME NEW error \in ProviderErrors, NEW n \in Nat, Decide(error, n, TRUE, 0).kind = "Retry"
    PROVE  n < RetryCap(error) /\ Decide(error, n, TRUE, 0).attempt = n + 1
<1>1. CASE error \in TransientErrors
    <2>1. error # "ContextOverflow"
        BY <1>1 DEF TransientErrors
    <2> QED BY <1>1, <2>1 DEF Decide, Retry, GiveUp
<1>2. CASE error \notin TransientErrors
    BY <1>2 DEF Decide, GiveUp
<1> QED BY <1>1, <1>2

\* No base is above the cap.
LEMMA CapsBounded ==
    ASSUME NEW error
    PROVE  /\ RetryCap(error) \in Nat /\ RetryCap(error) <= max_retries
           /\ error = "RateLimited" => RetryCap(error) <= MAX_RATE_LIMIT_RETRIES
           /\ error = "ModelOutputMalformed" => RetryCap(error) <= MAX_MODEL_OUTPUT_MALFORMED_RETRIES
BY MaxRetriesAssumption
DEF RetryCap, Least, MAX_RATE_LIMIT_RETRIES, MAX_MODEL_OUTPUT_MALFORMED_RETRIES

\* The base of a retry: the delays until the cap, then the cap.
LEMMA BaseKnown ==
    ASSUME NEW error, NEW hint \in Hints(error), NEW n \in Nat
    PROVE  /\ BaseDelay(Config, error, hint, n + 1) \in Nat
           /\ error # "RateLimited" => BaseDelay(Config, error, hint, n + 1) = Exponential(Config, n)
<1>1. Greatest((n + 1) - 1, 0) = n
    BY DEF Greatest
<1>2. CASE error # "RateLimited"
    <2>1. BaseDelay(Config, error, hint, n + 1) = Exponential(Config, n)
        BY <1>1, <1>2 DEF BaseDelay
    <2> QED BY <2>1, DelayNat
<1>3. CASE error = "RateLimited"
    <2> DEFINE given == IF hint = {} THEN RATE_LIMIT_FALLBACK_DELAY_MS ELSE CHOOSE ms \in hint : TRUE
    <2>1. hint = {} \/ \E ms \in RetryAfters : hint = {ms}
        BY <1>3 DEF Hints
    <2>2. given \in Nat
        BY <2>1, BackoffAssumption DEF RATE_LIMIT_FALLBACK_DELAY_MS
    <2>3. BaseDelay(Config, error, hint, n + 1) = Greatest(given, RATE_LIMIT_MIN_DELAY_MS)
        BY <1>3 DEF BaseDelay
    <2> HIDE DEF given
    <2> QED BY <1>3, <2>2, <2>3 DEF Greatest, RATE_LIMIT_MIN_DELAY_MS
<1> QED BY <1>2, <1>3

\* A draw of the jitter stays within a quarter of its base.
LEMMA DrawnInBand ==
    ASSUME NEW error \in ProviderErrors, NEW hint \in Hints(error), NEW n \in Nat, NEW ms,
           ms \in {RetryDelay(Config, error, hint, n + 1).shortest,
                   RetryDelay(Config, error, hint, n + 1).longest}
    PROVE  ms \in Int /\ InBand([error |-> error, ms |-> ms], n + 1)
<1>1. PICK base \in Nat : base = BaseDelay(Config, error, hint, n + 1)
    BY BaseKnown
<1>2. PICK c \in Nat : c = Least(base, Config.max_delay_ms) /\ c <= Config.max_delay_ms
    BY BackoffAssumption DEF Least
<1>3. ms \in {c - Jitter(c), c + Jitter(c)}
    BY <1>1, <1>2 DEF RetryDelay, Jitter
<1>4. Jitter(c) \in Nat
    BY DEF Jitter
<1>5. ms \in Int
    BY <1>3, <1>4
<1>6. error # "RateLimited" => c = Least(Exponential(Config, (n + 1) - 1), Config.max_delay_ms)
    <2>1. (n + 1) - 1 = n
        OBVIOUS
    <2> QED BY <1>1, <1>2, <2>1, BaseKnown
<1> QED BY <1>2, <1>3, <1>5, <1>6 DEF InBand, Drawn

\* No retry yet.
LEMMA BackoffStart == BackoffInit => BackoffInv
BY DEF BackoffInit, BackoffInv

\* Every answer of a provider keeps the invariant.
LEMMA BackoffStep == BackoffInv /\ [BackoffNext]_backoffVars => BackoffInv'
<1> SUFFICES ASSUME BackoffInv, [BackoffNext]_backoffVars PROVE BackoffInv'
    OBVIOUS
<1>1. CASE UNCHANGED <<attempt, waits>>
    BY <1>1 DEF BackoffInv
<1>2. ASSUME NEW error \in Errors, AttemptFails(error), Decide(error, attempt, TRUE, 0).kind = "Retry"
      PROVE  BackoffInv'
    <2>1. PICK n \in Nat, s \in Seq([error : ProviderErrors, ms : Int]) :
              /\ n = attempt /\ s = waits /\ Len(s) = n
              /\ \A i \in 1..n : i <= RetryCap(s[i].error) /\ InBand(s[i], i)
        BY DEF BackoffInv
    <2>2. error \in ProviderErrors
        BY BackoffAssumption
    <2>3. n < RetryCap(error) /\ Decide(error, n, TRUE, 0).attempt = n + 1
        BY <1>2, <2>1, <2>2, RetryDecided
    <2>4. PICK hint \in Hints(error) :
              /\ attempt' = n + 1
              /\ \E ms \in {RetryDelay(Config, error, hint, n + 1).shortest,
                            RetryDelay(Config, error, hint, n + 1).longest} :
                     waits' = Append(s, [error |-> error, ms |-> ms])
        BY <1>2, <2>1, <2>3 DEF AttemptFails, GiveUp
    <2>a. PICK ms \in {RetryDelay(Config, error, hint, n + 1).shortest,
                       RetryDelay(Config, error, hint, n + 1).longest} :
              waits' = Append(s, [error |-> error, ms |-> ms])
        BY <2>4
    <2>5. PICK w \in [error : ProviderErrors, ms : Int] :
              w = [error |-> error, ms |-> ms] /\ InBand(w, n + 1) /\ w.error = error
        <3> DEFINE r == [error |-> error, ms |-> ms]
        <3>1. ms \in Int /\ InBand(r, n + 1)
            BY <2>2, DrawnInBand
        <3>2. r \in [error : ProviderErrors, ms : Int] /\ r.error = error
            BY <2>2, <3>1
        <3>3. r = [error |-> error, ms |-> ms]
            OBVIOUS
        <3> HIDE DEF r
        <3> QED BY <3>1, <3>2, <3>3
    <2>6. waits' = Append(s, w)
        BY <2>a, <2>5
    <2>7. /\ waits' \in Seq([error : ProviderErrors, ms : Int]) /\ Len(waits') = n + 1
          /\ \A i \in 1..n : waits'[i] = s[i]
          /\ waits'[n + 1] = w
        BY <2>1, <2>6
    <2>8. ASSUME NEW i \in 1..n + 1
          PROVE  i <= RetryCap(waits'[i].error) /\ InBand(waits'[i], i)
        <3>1. CASE i \in 1..n
            BY <2>1, <2>7, <3>1
        <3>2. CASE i = n + 1
            <4>1. n + 1 <= RetryCap(error)
                BY <2>3, CapsBounded
            <4> QED BY <2>5, <2>7, <3>2, <4>1
        <3> QED BY <3>1, <3>2
    <2>9. \A i \in 1..attempt' : i <= RetryCap(waits'[i].error) /\ InBand(waits'[i], i)
        BY <2>4, <2>8
    <2>10. attempt' \in Nat /\ Len(waits') = attempt'
        BY <2>4, <2>7
    <2> HIDE DEF InBand
    <2>11. \A i \in 1..attempt' : (i <= RetryCap(waits[i].error) /\ InBand(waits[i], i))'
        BY <2>9, Zenon DEF InBand, RetryCap, Drawn, Jitter
    <2> QED BY <2>7, <2>10, <2>11 DEF BackoffInv
<1> QED BY <1>1, <1>2 DEF BackoffNext, AttemptFails, backoffVars

\* Two waits of the schedule, the later one below the ceiling.
LEMMA BandsApart ==
    ASSUME NEW i \in Nat, NEW j \in Nat, i < j, NEW a, NEW b,
           Exponential(Config, j) <= Config.max_delay_ms,
           Drawn(a, Least(Exponential(Config, i), Config.max_delay_ms)),
           Drawn(b, Least(Exponential(Config, j), Config.max_delay_ms))
    PROVE  a <= b
<1>1. PICK x \in Nat, y \in Nat, next \in Nat, m \in Nat, top \in Nat :
          /\ x = Exponential(Config, i) /\ y = Exponential(Config, j)
          /\ next = Exponential(Config, i + 1)
          /\ m = Config.backoff_multiplier /\ top = Config.max_delay_ms
    <2>1. /\ Exponential(Config, i) \in Nat /\ Exponential(Config, j) \in Nat
          /\ Exponential(Config, i + 1) \in Nat
        BY DelayNat
    <2> QED BY <2>1, BackoffAssumption
<1>2. next = x * m
    BY <1>1, DelayGrows
<1>3. next <= y
    <2>1. j - (i + 1) \in Nat /\ i + 1 + (j - (i + 1)) = j
        OBVIOUS
    <2> QED BY <1>1, <2>1, DelayLater
<1>4. m >= 2 \/ (m = 1 /\ ~Config.jitter)
    BY <1>1, BackoffAssumption
<1>5. /\ m >= 2 => 2 * x <= y
      /\ x <= y
    BY <1>2, <1>3, <1>4, Doubled
<1>6. Drawn(a, x) /\ Drawn(b, y)
    <2>1. Least(x, top) = x /\ Least(y, top) = y
        BY <1>1, <1>5 DEF Least
    <2> QED BY <1>1, <2>1
<1>7. CASE Config.jitter
    <2>1. 2 * x <= y
        BY <1>4, <1>5, <1>7
    <2>2. a \in {x - (x \div 4), x + (x \div 4)} /\ b \in {y - (y \div 4), y + (y \div 4)}
        BY <1>6, <1>7 DEF Drawn, Jitter
    <2>3. PICK p \in Nat, q \in Nat : p = x \div 4 /\ q = y \div 4 /\ 4 * p <= x /\ 4 * q <= y
        OBVIOUS
    <2>4. a <= x + p /\ b >= y - q /\ a \in Int /\ b \in Int
        BY <2>2, <2>3
    <2> QED BY <2>1, <2>3, <2>4
<1>8. CASE ~Config.jitter
    BY <1>5, <1>6, <1>8 DEF Drawn, Jitter
<1> QED BY <1>7, <1>8

\* What the invariant says of the waits.
LEMMA BackoffInvSound == BackoffInv => BackoffSound
<1> SUFFICES ASSUME BackoffInv PROVE BackoffSound
    OBVIOUS
<1>1. /\ attempt \in Nat /\ DOMAIN waits = 1..attempt /\ Len(waits) = attempt
      /\ \A i \in 1..attempt : i <= RetryCap(waits[i].error) /\ InBand(waits[i], i)
    BY DEF BackoffInv
<1>2. WaitingBounded
    <2>1. attempt <= max_retries
        <3>1. CASE attempt = 0
            BY <3>1, MaxRetriesAssumption
        <3>2. CASE attempt # 0
            BY <1>1, <3>2, CapsBounded, MaxRetriesAssumption
        <3> QED BY <3>1, <3>2
    <2>2. ASSUME NEW i \in 1..attempt
          PROVE  waits[i].ms <= Config.max_delay_ms + Config.max_delay_ms \div 4
        <3>1. PICK top \in Nat : top = Config.max_delay_ms
            BY BackoffAssumption
        <3>2. PICK c \in Nat : c <= top /\ Drawn(waits[i].ms, c)
            BY <1>1, <3>1 DEF InBand
        <3>3. waits[i].ms <= c + c \div 4 /\ waits[i].ms \in Int
            BY <3>2 DEF Drawn, Jitter
        <3>4. c \div 4 <= top \div 4 /\ c \div 4 \in Int /\ top \div 4 \in Int
            BY <3>2
        <3> QED BY <3>1, <3>2, <3>3, <3>4
    <2> QED BY <1>1, <2>1, <2>2 DEF WaitingBounded
<1>3. TighterCapsCountEveryRetry
    BY <1>1, CapsBounded
    DEF TighterCapsCountEveryRetry, MAX_RATE_LIMIT_RETRIES, MAX_MODEL_OUTPUT_MALFORMED_RETRIES
<1>4. BackoffGrows
    <2> SUFFICES ASSUME NEW i \in 1..attempt, NEW j \in 1..attempt, i < j,
                        waits[i].error # "RateLimited", waits[j].error # "RateLimited",
                        Exponential(Config, j - 1) <= Config.max_delay_ms
                 PROVE  waits[i].ms <= waits[j].ms
        BY <1>1 DEF BackoffGrows
    <2>1. /\ Drawn(waits[i].ms, Least(Exponential(Config, i - 1), Config.max_delay_ms))
          /\ Drawn(waits[j].ms, Least(Exponential(Config, j - 1), Config.max_delay_ms))
        BY <1>1 DEF InBand
    <2>2. i - 1 \in Nat /\ j - 1 \in Nat /\ i - 1 < j - 1
        BY <1>1
    <2> QED BY <2>1, <2>2, BandsApart
<1> QED BY <1>2, <1>3, <1>4 DEF BackoffSound

\* Waiting for a provider is bounded and backs off (RetryPolicy::decide and retry_delay_ms),
\* however the errors of a turn and the draws of the jitter mix.
THEOREM BackoffBounded == BackoffSpec => []BackoffSound
<1>1. BackoffInit => BackoffInv
    BY BackoffStart
<1>2. BackoffInv /\ [BackoffNext]_backoffVars => BackoffInv'
    BY BackoffStep
<1>3. BackoffInv => BackoffSound
    BY BackoffInvSound
<1> QED BY <1>1, <1>2, <1>3, PTL DEF BackoffSpec

-----------------------------------------------------------------------------
(***************************************************************************)
(* `anie login`: what a login at a place has been given decides what it may *)
(* store; what is stored stays whose it was through every refresh.         *)
(***************************************************************************)
Places == {"idle", "listening", "reading", "exchanging", "discovering", "onboarding", "operation",
           "polling", "copilot", "saving", "done", "failed"}
Grants == Logins \cup {Unset}
TokenEntry ==
    [grant : Grants, refresh : BOOLEAN, account : BOOLEAN,
     project : {"none", "server", "default", "env"}]
LoginRecord ==
    [provider : OAuthProviders, at : Places, code : Grants, late : BOOLEAN, cred : TokenEntry,
     interval : Nat, multiplier : {12, 14}, now : Nat, last : Nat, asked : Nat, attempts : Nat]

\* What a login that is at a place has been given.
Earned(l, d) ==
    /\ d.code \in {Unset, l}
    /\ d.at \in {"exchanging", "copilot"} => d.code = l
    /\ d.at \in {"discovering", "onboarding", "operation"} => d.provider \in Google
    /\ d.at \in {"polling", "copilot"} => d.provider = "github-copilot"
    /\ d.at \in {"discovering", "onboarding", "operation", "saving", "done"} =>
           d.cred.grant = l /\ d.cred.refresh
    /\ d.at \in {"saving", "done"} => (d.provider \in Google <=> d.cred.project # "none")

\* A login that has not begun is fresh; none waits less than it was asked to.
LoginOK(l, d) ==
    /\ d \in LoginRecord
    /\ d.at = "idle" => d = Fresh
    /\ d.asked <= d.interval
    /\ Earned(l, d)

StoredOK(p, s, l) ==
    s # NoToken => /\ s.grant \in Logins
                   /\ l[s.grant].provider = p /\ l[s.grant].at # "idle"
                   /\ s.refresh /\ (p \in Google <=> s.project # "none")

LoginInv ==
    /\ login \in [Logins -> LoginRecord]
    /\ \A l \in Logins : LoginOK(l, login[l])
    /\ store \in [OAuthProviders -> TokenEntry]
    /\ \A p \in OAuthProviders : StoredOK(p, store[p], login)

Becomes(l, d) == login' = [login EXCEPT ![l] = d]

\* A login that has not begun.
LEMMA FreshOK == ASSUME NEW l \in Logins PROVE LoginOK(l, Fresh)
<1>1. NoToken \in TokenEntry
    BY DEF NoToken, TokenEntry, Grants
<1>2. Fresh \in LoginRecord
    BY <1>1 DEF Fresh, LoginRecord, OAuthProviders, AuthCode, Places, Grants
<1>3. Earned(l, Fresh) /\ Fresh.asked <= Fresh.interval
    BY DEF Earned, Fresh
<1> QED BY <1>2, <1>3 DEF LoginOK

\* No login has begun and nothing is stored.
LEMMA LoginStart == OAuthLoginInit => LoginInv
<1> SUFFICES ASSUME OAuthLoginInit PROVE LoginInv
    OBVIOUS
<1>1. login = [l \in Logins |-> Fresh] /\ store = [p \in OAuthProviders |-> NoToken]
    BY DEF OAuthLoginInit
<1>2. NoToken \in TokenEntry
    BY DEF NoToken, TokenEntry, Grants
<1>3. \A l \in Logins : login[l] \in LoginRecord /\ LoginOK(l, login[l])
    BY <1>1, FreshOK DEF LoginOK
<1>4. \A p \in OAuthProviders : StoredOK(p, store[p], login)
    BY <1>1 DEF StoredOK
<1> QED BY <1>1, <1>2, <1>3, <1>4 DEF LoginInv

\* A login moves on; once it has begun its provider stays.
LEMMA OneLogin ==
    ASSUME LoginInv, NEW l \in Logins, NEW d, Becomes(l, d), LoginOK(l, d), d.at # "idle",
           login[l].at # "idle" => d.provider = login[l].provider
    PROVE  /\ login' \in [Logins -> LoginRecord]
           /\ \A x \in Logins : LoginOK(x, login'[x])
           /\ login'[l] = d
           /\ \A p \in OAuthProviders : StoredOK(p, store[p], login')
<1>1. /\ d \in LoginRecord /\ login \in [Logins -> LoginRecord]
    BY DEF LoginOK, LoginInv
<1>2. /\ login' \in [Logins -> LoginRecord] /\ login'[l] = d
      /\ \A x \in Logins : x # l => login'[x] = login[x]
    BY <1>1 DEF Becomes
<1>3. \A x \in Logins : LoginOK(x, login'[x])
    BY <1>2 DEF LoginInv
<1>4. ASSUME NEW p \in OAuthProviders PROVE StoredOK(p, store[p], login')
    BY <1>2 DEF LoginInv, StoredOK
<1> QED BY <1>2, <1>3, <1>4

\* A step of one login keeps the invariant if its new record is sound.
LEMMA LoginMoves ==
    ASSUME LoginInv, NEW l \in Logins, NEW d, Becomes(l, d), LoginOK(l, d), d.at # "idle",
           login[l].at # "idle" => d.provider = login[l].provider, UNCHANGED store
    PROVE  LoginInv'
BY OneLogin DEF LoginInv

\* What the invariant says of one login.
LEMMA LoginKnown ==
    ASSUME LoginInv, NEW l \in Logins
    PROVE  /\ login[l] \in LoginRecord /\ LoginOK(l, login[l]) /\ Earned(l, login[l])
           /\ login[l].asked \in Nat /\ login[l].interval \in Nat /\ login[l].now \in Nat
           /\ login[l].asked <= login[l].interval /\ login[l].multiplier \in {12, 14}
           /\ login[l].cred \in TokenEntry /\ login[l].attempts \in Nat
           /\ (login[l].at = "idle" => login[l] = Fresh)
BY DEF LoginInv, LoginOK, LoginRecord

\* The other fields stay when a login goes somewhere.
To(d, place) == [d EXCEPT !.at = place]

\* A login elsewhere is the same otherwise.
LEMMA PlaceChanged ==
    ASSUME NEW d \in LoginRecord, NEW place \in Places
    PROVE  /\ To(d, place) \in LoginRecord /\ To(d, place).at = place
           /\ To(d, place).provider = d.provider /\ To(d, place).code = d.code
           /\ To(d, place).cred = d.cred /\ To(d, place).asked = d.asked
           /\ To(d, place).interval = d.interval
BY DEF To, LoginRecord

\* A login moves to a place that needs no more than it has.
LEMMA MovesKeep ==
    ASSUME LoginInv, NEW l \in Logins, UNCHANGED store, login[l].at # "idle",
           NEW place \in {"listening", "reading", "failed", "onboarding", "operation", "done"}, MoveTo(l, place),
           place \in {"onboarding", "operation"} => login[l].at \in {"discovering", "onboarding"},
           place = "done" => login[l].at = "saving"
    PROVE  LoginInv'
<1> DEFINE d == To(login[l], place)
<1>1. login[l] \in LoginRecord /\ Earned(l, login[l]) /\ login[l].asked <= login[l].interval
    BY LoginKnown
<1>2. /\ d \in LoginRecord /\ d.at = place /\ d.provider = login[l].provider /\ d.code = login[l].code
      /\ d.cred = login[l].cred /\ d.asked = login[l].asked /\ d.interval = login[l].interval
    BY <1>1, PlaceChanged DEF Places
<1>3. Becomes(l, d)
    BY DEF MoveTo, Becomes, To, LoginInv
<1> HIDE DEF d
<1>4. Earned(l, d)
    BY <1>1, <1>2 DEF Earned
<1>5. LoginOK(l, d)
    BY <1>1, <1>2, <1>4 DEF LoginOK
<1> QED BY <1>2, <1>3, <1>5, LoginMoves

\* Any other change of one login's record.
LEMMA RecordKeeps ==
    ASSUME LoginInv, NEW l \in Logins, NEW d \in LoginRecord, Becomes(l, d), UNCHANGED store,
           d.at # "idle", login[l].at # "idle", d.provider = login[l].provider,
           d.asked <= d.interval, Earned(l, d)
    PROVE  LoginInv'
BY LoginMoves DEF LoginOK

\* A login begins.
LEMMA BegunKeeps ==
    ASSUME LoginInv, NEW l \in Logins, login[l].at = "idle", UNCHANGED store,
           NEW d \in LoginRecord, Becomes(l, d), d.at \in {"listening", "polling", "failed"},
           d.at = "polling" => d.provider = "github-copilot", d.code = Unset, d.asked <= d.interval
    PROVE  LoginInv'
<1>1. Earned(l, d)
    BY DEF Earned
<1>2. LoginOK(l, d)
    BY <1>1 DEF LoginOK
<1> QED BY <1>2, LoginMoves

\* begin_login, of either kind.
LEMMA BeginKeeps ==
    ASSUME LoginInv, NEW l \in Logins, (\E p \in AuthCode : BeginAuthCode(l, p)) \/ BeginDevice(l)
    PROVE  LoginInv'
<1>1. login[l].at = "idle" /\ UNCHANGED store
    BY DEF BeginAuthCode, BeginDevice
<1>2. login[l] = Fresh /\ Fresh \in LoginRecord /\ login \in [Logins -> LoginRecord]
    BY <1>1, LoginKnown DEF LoginInv
<1>3. ASSUME NEW p \in AuthCode, BeginAuthCode(l, p) PROVE LoginInv'
    <2>1. PICK place \in {"listening", "failed"} :
              login' = [login EXCEPT ![l].provider = p, ![l].at = place]
        BY <1>3 DEF BeginAuthCode
    <2> DEFINE d == [Fresh EXCEPT !.provider = p, !.at = place]
    <2>2. Becomes(l, d)
        BY <1>2, <2>1 DEF Becomes
    <2>3. d.at = place /\ d.code = Unset /\ d.asked = 0 /\ d.interval = 0
        BY DEF Fresh
    <2>4. d \in LoginRecord
        BY <1>2 DEF LoginRecord, Places, OAuthProviders
    <2> HIDE DEF d
    <2> QED BY <1>1, <2>2, <2>3, <2>4, BegunKeeps
<1>4. CASE BeginDevice(l)
    <2>1. CASE login' = [login EXCEPT ![l].provider = "github-copilot", ![l].at = "polling",
                                      ![l].interval = 10 * MaxOf(DeviceInterval, 1),
                                      ![l].asked = 10 * DeviceInterval]
        <3>1. PICK interval \in Nat, asked \in Nat :
                  /\ interval = 10 * MaxOf(DeviceInterval, 1) /\ asked = 10 * DeviceInterval
                  /\ asked <= interval
            BY OAuthLoginAssumption DEF MaxOf
        <3> DEFINE d == [Fresh EXCEPT !.provider = "github-copilot", !.at = "polling",
                                      !.interval = interval, !.asked = asked]
        <3>2. Becomes(l, d)
            BY <1>2, <2>1, <3>1 DEF Becomes
        <3>3. /\ d \in LoginRecord /\ d.at = "polling" /\ d.code = Unset
              /\ d.asked = asked /\ d.interval = interval /\ d.provider = "github-copilot"
            BY <1>2 DEF LoginRecord, Fresh, Places, OAuthProviders
        <3> HIDE DEF d
        <3> QED BY <1>1, <3>1, <3>2, <3>3, BegunKeeps
    <2>2. CASE login' = [login EXCEPT ![l].provider = "github-copilot", ![l].at = "failed"]
        <3> DEFINE d == [Fresh EXCEPT !.provider = "github-copilot", !.at = "failed"]
        <3>1. Becomes(l, d)
            BY <1>2, <2>2 DEF Becomes
        <3>2. d.at = "failed" /\ d.code = Unset /\ d.asked = 0 /\ d.interval = 0
            BY DEF Fresh
        <3>3. d \in LoginRecord
            BY <1>2 DEF LoginRecord, Places, OAuthProviders
        <3> HIDE DEF d
        <3> QED BY <1>1, <3>1, <3>2, <3>3, BegunKeeps
    <2> QED BY <1>4, <2>1, <2>2 DEF BeginDevice
<1> QED BY <1>3, <1>4

\* The steps that only change where a login is.
LEMMA GoingKeeps ==
    ASSUME LoginInv, NEW l \in Logins, UNCHANGED store,
           \/ Accept(l) \/ ReadTimesOut(l) \/ CallbackTimesOut(l) \/ OtherRequest(l)
           \/ BadCallback(l) \/ ExchangeFails(l) \/ DeviceExpired(l)
    PROVE  LoginInv'
<1>1. login[l].at # "idle"
    BY DEF Accept, ReadTimesOut, CallbackTimesOut, OtherRequest, BadCallback, ExchangeFails, DeviceExpired
<1>2. PICK place \in {"listening", "reading", "failed"} : MoveTo(l, place)
    BY DEF Accept, ReadTimesOut, CallbackTimesOut, OtherRequest, BadCallback, ExchangeFails, DeviceExpired, Fail
<1> QED BY <1>1, <1>2, MovesKeep

\* The deadline, and a redirect of this login's tab or of another's.
LEMMA CallbackKeeps ==
    ASSUME LoginInv, NEW l \in Logins, DeadlinePasses(l) \/ (\E x \in Tabs(login[l].provider) : Redirect(l, x))
    PROVE  LoginInv'
<1>1. /\ login[l] \in LoginRecord /\ Earned(l, login[l]) /\ login[l].asked <= login[l].interval
      /\ login \in [Logins -> LoginRecord]
    BY LoginKnown DEF LoginInv
<1>2. CASE DeadlinePasses(l)
    <2> DEFINE d == [login[l] EXCEPT !.late = TRUE]
    <2>1. login[l].at # "idle" /\ UNCHANGED store /\ Becomes(l, d)
        BY <1>1, <1>2 DEF DeadlinePasses, Becomes
    <2>2. /\ d \in LoginRecord /\ d.at = login[l].at /\ d.provider = login[l].provider
          /\ d.code = login[l].code /\ d.cred = login[l].cred
          /\ d.asked = login[l].asked /\ d.interval = login[l].interval
        BY <1>1 DEF LoginRecord
    <2> HIDE DEF d
    <2>3. Earned(l, d)
        BY <1>1, <2>2 DEF Earned
    <2> QED BY <1>1, <2>1, <2>2, <2>3, RecordKeeps
<1>3. ASSUME NEW x \in Tabs(login[l].provider), Redirect(l, x) PROVE LoginInv'
    <2>1. login[l].at = "reading" /\ UNCHANGED store
        BY <1>3 DEF Redirect
    <2>2. CASE x # l
        BY <1>3, <2>1, <2>2, MovesKeep DEF Redirect, Fail
    <2>3. CASE x = l
        <3> DEFINE d == [login[l] EXCEPT !.at = "exchanging", !.code = l]
        <3>1. Becomes(l, d)
            BY <1>1, <1>3, <2>3 DEF Redirect, Becomes
        <3>2. /\ d \in LoginRecord /\ d.at = "exchanging" /\ d.provider = login[l].provider
              /\ d.code = l /\ d.asked = login[l].asked /\ d.interval = login[l].interval
            BY <1>1 DEF LoginRecord, Places, Grants
        <3> HIDE DEF d
        <3>3. Earned(l, d)
            BY <3>2 DEF Earned
        <3> QED BY <1>1, <2>1, <3>1, <3>2, <3>3, RecordKeeps
    <2> QED BY <2>2, <2>3
<1> QED BY <1>2, <1>3

\* The tokens of the grant, and what is still missing.
Granted(l, account, next) ==
    login' = [login EXCEPT ![l].at = next,
        ![l].cred = [grant |-> login[l].code, refresh |-> TRUE, account |-> account, project |-> "none"]]

\* The grant's tokens arrive.
LEMMA GrantedKeeps ==
    ASSUME LoginInv, NEW l \in Logins, NEW account \in BOOLEAN, NEW next \in {"discovering", "saving"},
           Granted(l, account, next), login[l].at \in {"exchanging", "copilot"}, UNCHANGED store,
           next = "discovering" <=> login[l].provider \in Google
    PROVE  LoginInv'
<1>1. /\ login[l] \in LoginRecord /\ Earned(l, login[l]) /\ login[l].asked <= login[l].interval
      /\ login \in [Logins -> LoginRecord] /\ login[l].code = l
    BY LoginKnown DEF LoginInv, Earned
<1> DEFINE cred == [grant |-> l, refresh |-> TRUE, account |-> account, project |-> "none"]
           d == [login[l] EXCEPT !.at = next, !.cred = cred]
<1>2. cred \in TokenEntry /\ cred.grant = l /\ cred.refresh /\ cred.project = "none"
    BY DEF TokenEntry, Grants
<1>3. login' = [login EXCEPT ![l].at = next, ![l].cred = cred]
    BY <1>1 DEF Granted
<1> HIDE DEF cred
<1>4. Becomes(l, d)
    BY <1>1, <1>3 DEF Becomes
<1>5. /\ d \in LoginRecord /\ d.at = next /\ d.provider = login[l].provider
      /\ d.code = login[l].code /\ d.cred = cred /\ d.asked = login[l].asked /\ d.interval = login[l].interval
    BY <1>1, <1>2 DEF LoginRecord, Places
<1> HIDE DEF d
<1>6. Earned(l, d)
    BY <1>1, <1>2, <1>5 DEF Earned
<1> QED BY <1>1, <1>4, <1>5, <1>6, RecordKeeps

\* The five exchanges.
LEMMA ExchangesKeep ==
    ASSUME LoginInv, NEW l \in Logins,
           \/ AnthropicExchanged(l) \/ CopilotToken(l)
           \/ \E account \in BOOLEAN : CodexExchanged(l, account) \/ GoogleExchanged(l, account)
    PROVE  LoginInv'
<1>1. CASE AnthropicExchanged(l)
    <2>1. /\ Granted(l, FALSE, "saving") /\ login[l].provider \notin Google
          /\ login[l].at = "exchanging" /\ UNCHANGED store
        BY <1>1 DEF AnthropicExchanged, Exchanged, Granted, Google
    <2> QED BY <2>1, GrantedKeeps
<1>2. CASE CopilotToken(l)
    <2>1. login[l].provider = "github-copilot"
        BY <1>2, LoginKnown DEF CopilotToken, Earned
    <2>2. /\ Granted(l, FALSE, "saving") /\ login[l].provider \notin Google
          /\ login[l].at = "copilot" /\ UNCHANGED store
        BY <1>2, <2>1 DEF CopilotToken, Granted, Google
    <2> QED BY <2>2, GrantedKeeps
<1>3. ASSUME NEW account \in BOOLEAN, CodexExchanged(l, account) PROVE LoginInv'
    <2>1. /\ Granted(l, account, "saving") /\ login[l].provider \notin Google
          /\ login[l].at = "exchanging" /\ UNCHANGED store
        BY <1>3 DEF CodexExchanged, Exchanged, Granted, Google
    <2> QED BY <2>1, GrantedKeeps
<1>4. ASSUME NEW account \in BOOLEAN, GoogleExchanged(l, account) PROVE LoginInv'
    <2>1. /\ Granted(l, account, "discovering") /\ login[l].provider \in Google
          /\ login[l].at = "exchanging" /\ UNCHANGED store
        BY <1>4 DEF GoogleExchanged, Exchanged, Granted
    <2> QED BY <2>1, GrantedKeeps
<1> QED BY <1>1, <1>2, <1>3, <1>4

\* A Google project is found.
LEMMA FoundKeeps ==
    ASSUME LoginInv, NEW l \in Logins, NEW project \in {"server", "default", "env"},
           ProjectFound(l, project), UNCHANGED store,
           login[l].at \in {"discovering", "onboarding", "operation"}
    PROVE  LoginInv'
<1>1. /\ login[l] \in LoginRecord /\ Earned(l, login[l]) /\ login[l].asked <= login[l].interval
      /\ login \in [Logins -> LoginRecord] /\ login[l].cred \in TokenEntry
    BY LoginKnown DEF LoginInv
<1> DEFINE cred == [login[l].cred EXCEPT !.project = project]
           d == [login[l] EXCEPT !.at = "saving", !.cred = cred]
<1>2. /\ cred \in TokenEntry /\ cred.project = project
      /\ cred.grant = login[l].cred.grant /\ cred.refresh = login[l].cred.refresh
    BY <1>1 DEF TokenEntry
<1>3. Becomes(l, d)
    BY <1>1 DEF Becomes, ProjectFound
<1> HIDE DEF cred
<1>4. /\ d \in LoginRecord /\ d.at = "saving" /\ d.provider = login[l].provider
      /\ d.code = login[l].code /\ d.cred = cred /\ d.asked = login[l].asked /\ d.interval = login[l].interval
    BY <1>1, <1>2 DEF LoginRecord, Places
<1> HIDE DEF d
<1>5. Earned(l, d)
    BY <1>1, <1>2, <1>4 DEF Earned
<1> QED BY <1>1, <1>3, <1>4, <1>5, RecordKeeps

\* Project discovery and onboarding.
LEMMA ProjectsKeep ==
    ASSUME LoginInv, NEW l \in Logins,
           \/ DiscoverAntigravity(l) \/ Onboard(l) \/ PollOperation(l)
           \/ \E answer \in LoadAnswers, env_project \in BOOLEAN : DiscoverGemini(l, answer, env_project)
    PROVE  LoginInv'
<1>1. CASE DiscoverAntigravity(l)
    BY <1>1, FoundKeeps DEF DiscoverAntigravity
<1>2. CASE Onboard(l)
    BY <1>2, FoundKeeps, MovesKeep DEF Onboard, OperationDone, Fail
<1>3. CASE PollOperation(l)
    <2>1. login[l].at = "operation" /\ UNCHANGED store
        BY <1>3 DEF PollOperation
    <2>2. CASE OperationDone(l)
        BY <2>1, <2>2, FoundKeeps, MovesKeep DEF OperationDone, Fail
    <2>3. CASE ~OperationDone(l)
        <3>1. /\ login[l] \in LoginRecord /\ Earned(l, login[l]) /\ login[l].asked <= login[l].interval
              /\ login \in [Logins -> LoginRecord] /\ login[l].attempts \in Nat
            BY LoginKnown DEF LoginInv
        <3>2. PICK n : n = login[l].attempts + 1
            OBVIOUS
        <3>3. PICK place : place = (IF n = MaxLroPollAttempts THEN "failed" ELSE "operation")
            OBVIOUS
        <3>4. n \in Nat /\ place \in {"failed", "operation"}
            BY <3>1, <3>2, <3>3
        <3>5. login' = [login EXCEPT ![l].attempts = n, ![l].at = place]
            BY <1>3, <2>3, <3>2, <3>3 DEF PollOperation
        <3> DEFINE d == [login[l] EXCEPT !.attempts = n, !.at = place]
        <3>6. Becomes(l, d)
            BY <3>1, <3>5 DEF Becomes
        <3>7. /\ d \in LoginRecord /\ d.at = place /\ d.provider = login[l].provider
              /\ d.code = login[l].code /\ d.cred = login[l].cred
              /\ d.asked = login[l].asked /\ d.interval = login[l].interval
            BY <3>1, <3>4 DEF LoginRecord, Places
        <3> HIDE DEF d
        <3>8. Earned(l, d)
            BY <2>1, <3>1, <3>4, <3>7 DEF Earned
        <3> QED BY <2>1, <3>1, <3>4, <3>6, <3>7, <3>8, RecordKeeps
    <2> QED BY <2>2, <2>3
<1>4. ASSUME NEW answer \in LoadAnswers, NEW env_project \in BOOLEAN, DiscoverGemini(l, answer, env_project)
      PROVE  LoginInv'
    <2>1. PICK next : next = ProjectAnswer(answer, env_project)
        OBVIOUS
    <2>2. next \in {"fails", "server", "env", "onboard with project", "onboard"}
        BY <2>1 DEF ProjectAnswer
    <2>3. /\ login[l].at = "discovering" /\ UNCHANGED store
          /\ \/ Fail(l) \/ MoveTo(l, "onboarding")
             \/ next \in {"server", "env"} /\ ProjectFound(l, next)
        BY <1>4, <2>1, <2>2 DEF DiscoverGemini
    <2> QED BY <2>3, FoundKeeps, MovesKeep DEF Fail
<1> QED BY <1>1, <1>2, <1>3, <1>4

\* The wait before a poll: as long as was asked, or what is left.
LEMMA WaitLong ==
    ASSUME LoginInv, NEW l \in Logins, login[l].now < Deadline
    PROVE  /\ WaitOf(login[l]) \in Nat /\ Deadline \in Nat
           /\ login[l].now + WaitOf(login[l]) <= Deadline
           /\ \/ WaitOf(login[l]) >= login[l].asked
              \/ login[l].now + WaitOf(login[l]) = Deadline
<1>1. PICK n \in Nat, asked \in Nat, interval \in Nat, m \in {12, 14}, end \in Nat :
          /\ n = login[l].now /\ asked = login[l].asked /\ interval = login[l].interval
          /\ m = login[l].multiplier /\ end = Deadline /\ asked <= interval /\ n < end
    <2>1. Deadline \in Nat
        BY OAuthLoginAssumption DEF Deadline
    <2> QED BY <2>1, LoginKnown
<1>2. PICK w \in Nat : w = (interval * m) \div 10 /\ w >= interval
    <2>1. CASE m = 12
        BY <2>1
    <2>2. CASE m = 14
        BY <2>2
    <2> QED BY <2>1, <2>2
<1>3. WaitOf(login[l]) = MinOf(w, end - n)
    BY <1>1, <1>2 DEF WaitOf
<1> QED BY <1>1, <1>2, <1>3 DEF MinOf

\* One wait and one poll.
LEMMA PollKeeps ==
    ASSUME LoginInv, NEW l \in Logins, PollDevice(l)
    PROVE  LoginInv'
<1>1. /\ login[l] \in LoginRecord /\ Earned(l, login[l]) /\ login[l].asked <= login[l].interval
      /\ login \in [Logins -> LoginRecord] /\ login[l].now \in Nat
      /\ login[l].asked \in Nat /\ login[l].interval \in Nat
    BY LoginKnown DEF LoginInv
<1>2. login[l].at = "polling" /\ login[l].now < Deadline /\ UNCHANGED store
    BY DEF PollDevice
<1> DEFINE polled == [login[l] EXCEPT !.now = login[l].now + WaitOf(login[l]), !.last = login[l].now]
<1>3. login[l].now + WaitOf(login[l]) \in Nat
    BY <1>1, <1>2, WaitLong
<1>4. /\ polled \in LoginRecord /\ polled.at = "polling" /\ polled.provider = login[l].provider
      /\ polled.code = login[l].code
      /\ polled.asked = login[l].asked /\ polled.interval = login[l].interval
    BY <1>1, <1>2, <1>3 DEF LoginRecord
<1>5. CASE login' = [login EXCEPT ![l] = polled]
    <2> HIDE DEF polled
    <2>1. Earned(l, polled)
        BY <1>1, <1>2, <1>4 DEF Earned
    <2> QED BY <1>1, <1>2, <1>4, <1>5, <2>1, RecordKeeps DEF Becomes
<1>6. ASSUME NEW seconds \in {Unnamed} \cup SlowDownIntervals,
             login' = [login EXCEPT ![l] =
                          [SlowedDown(polled, seconds) EXCEPT !.asked = Required(login[l], seconds)]]
      PROVE  LoginInv'
    <2> HIDE DEF polled
    <2>1. PICK interval \in Nat, asked \in Nat :
              /\ asked <= interval
              /\ interval = (IF seconds = Unnamed THEN polled.interval + 50 ELSE 10 * seconds)
              /\ asked = Required(login[l], seconds)
        <3>1. CASE seconds = Unnamed
            BY <1>1, <1>4, <3>1 DEF Required
        <3>2. CASE seconds # Unnamed
            <4>1. seconds \in Nat
                BY <3>2, OAuthLoginAssumption
            <4> QED BY <3>2, <4>1 DEF Required
        <3> QED BY <3>1, <3>2
    <2> DEFINE d == [polled EXCEPT !.interval = interval, !.multiplier = 14, !.asked = asked]
    <2>2. d = [SlowedDown(polled, seconds) EXCEPT !.asked = Required(login[l], seconds)]
        BY <1>4, <2>1 DEF SlowedDown, LoginRecord
    <2>3. Becomes(l, d)
        BY <1>6, <2>2 DEF Becomes
    <2>4. /\ d \in LoginRecord /\ d.at = "polling" /\ d.provider = login[l].provider
          /\ d.code = login[l].code /\ d.asked = asked /\ d.interval = interval
        BY <1>4 DEF LoginRecord
    <2> HIDE DEF d
    <2>5. Earned(l, d)
        BY <1>1, <1>2, <2>4 DEF Earned
    <2> QED BY <1>1, <1>2, <2>1, <2>3, <2>4, <2>5, RecordKeeps
<1>7. CASE login' = [login EXCEPT ![l] = [polled EXCEPT !.at = "copilot", !.code = l]]
    <2> HIDE DEF polled
    <2> DEFINE d == [polled EXCEPT !.at = "copilot", !.code = l]
    <2>1. /\ d \in LoginRecord /\ d.at = "copilot" /\ d.provider = login[l].provider
          /\ d.code = l /\ d.asked = login[l].asked /\ d.interval = login[l].interval
        BY <1>4 DEF LoginRecord, Places, Grants
    <2>2. Becomes(l, d)
        BY <1>7 DEF Becomes
    <2> HIDE DEF d
    <2>3. Earned(l, d)
        BY <1>1, <1>2, <2>1 DEF Earned
    <2> QED BY <1>1, <1>2, <2>1, <2>2, <2>3, RecordKeeps
<1>8. CASE Fail(l)
    BY <1>2, <1>8, MovesKeep DEF Fail
<1> QED BY <1>5, <1>6, <1>7, <1>8 DEF PollDevice

\* The credential is stored, or the login fails.
LEMMA SaveKeeps ==
    ASSUME LoginInv, NEW l \in Logins, Persist(l)
    PROVE  LoginInv'
<1>1. /\ login[l].at = "saving" /\ Earned(l, login[l]) /\ login[l] \in LoginRecord
      /\ login[l].asked <= login[l].interval /\ login[l].cred \in TokenEntry
      /\ login \in [Logins -> LoginRecord] /\ store \in [OAuthProviders -> TokenEntry]
    BY LoginKnown DEF LoginInv, Persist
<1>2. CASE Fail(l) /\ UNCHANGED store
    BY <1>1, <1>2, MovesKeep DEF Fail
<1>3. CASE MoveTo(l, "done") /\ store' = [store EXCEPT ![login[l].provider] = login[l].cred]
    <2> DEFINE d == To(login[l], "done")
    <2>1. /\ d \in LoginRecord /\ d.at = "done" /\ d.provider = login[l].provider
          /\ d.code = login[l].code /\ d.cred = login[l].cred
          /\ d.asked = login[l].asked /\ d.interval = login[l].interval
        BY <1>1, PlaceChanged DEF Places
    <2>2. Becomes(l, d)
        BY <1>1, <1>3 DEF MoveTo, Becomes, To
    <2> HIDE DEF d
    <2>3. LoginOK(l, d)
        BY <1>1, <2>1 DEF LoginOK, Earned
    <2>4. /\ login' \in [Logins -> LoginRecord] /\ \A x \in Logins : LoginOK(x, login'[x])
          /\ login'[l] = d /\ \A p \in OAuthProviders : StoredOK(p, store[p], login')
        BY <2>1, <2>2, <2>3, OneLogin
    <2>5. PICK q \in OAuthProviders : q = login[l].provider
        BY <1>1 DEF LoginRecord
    <2>6. /\ store' \in [OAuthProviders -> TokenEntry] /\ store'[q] = login[l].cred
          /\ \A p \in OAuthProviders : p # q => store'[p] = store[p]
        BY <1>1, <1>3, <2>5
    <2>7. StoredOK(q, login[l].cred, login')
        BY <1>1, <2>1, <2>4, <2>5 DEF StoredOK, Earned
    <2>8. \A p \in OAuthProviders : StoredOK(p, store'[p], login')
        BY <2>4, <2>6, <2>7
    <2> QED BY <2>4, <2>6, <2>8 DEF LoginInv
<1> QED BY <1>2, <1>3 DEF Persist

\* What a refresh answers is still whose it was, with a refresh token and the project.
LEMMA RefreshedKept ==
    ASSUME NEW p \in OAuthProviders, NEW old \in TokenEntry, NEW refresh \in BOOLEAN,
           NEW account \in BOOLEAN, old.refresh
    PROVE  /\ RefreshedEntry(p, old, refresh, account) \in TokenEntry
           /\ RefreshedEntry(p, old, refresh, account).grant = old.grant
           /\ RefreshedEntry(p, old, refresh, account).refresh
           /\ RefreshedEntry(p, old, refresh, account).project = old.project
<1>1. CASE p = "anthropic"
    <2>1. RefreshedEntry(p, old, refresh, account) = [old EXCEPT !.refresh = TRUE]
        BY <1>1 DEF RefreshedEntry, AnthropicRefreshed, Google
    <2> QED BY <2>1 DEF TokenEntry
<1>2. CASE p = "openai-codex"
    <2>1. PICK a \in BOOLEAN : a = (old.account \/ account)
        OBVIOUS
    <2>2. RefreshedEntry(p, old, refresh, account) = [old EXCEPT !.refresh = TRUE, !.account = a]
        BY <1>2, <2>1 DEF RefreshedEntry, CodexRefreshed, Google
    <2> QED BY <2>2 DEF TokenEntry
<1>3. CASE p = "github-copilot"
    <2>1. RefreshedEntry(p, old, refresh, account) = old
        BY <1>3 DEF RefreshedEntry, CopilotRefreshed, Google
    <2> QED BY <2>1
<1>4. CASE p \in Google
    <2>1. PICK r \in BOOLEAN : r = (refresh \/ old.refresh) /\ r
        OBVIOUS
    <2>2. RefreshedEntry(p, old, refresh, account) = [old EXCEPT !.refresh = r]
        BY <1>4, <2>1 DEF RefreshedEntry, GoogleRefreshed, Google
    <2> QED BY <2>1, <2>2 DEF TokenEntry
<1> QED BY <1>1, <1>2, <1>3, <1>4 DEF OAuthProviders, AuthCode

\* A stored credential is refreshed.
LEMMA RefreshKeeps ==
    ASSUME LoginInv, NEW p \in OAuthProviders, NEW refresh \in BOOLEAN, NEW account \in BOOLEAN,
           RefreshToken(p, refresh, account)
    PROVE  LoginInv'
<1>1. /\ store[p] # NoToken /\ UNCHANGED login /\ store \in [OAuthProviders -> TokenEntry]
      /\ StoredOK(p, store[p], login)
      /\ store' = [store EXCEPT ![p] = RefreshedEntry(p, store[p], refresh, account)]
    BY DEF RefreshToken, LoginInv
<1>2. PICK new : new = RefreshedEntry(p, store[p], refresh, account)
    OBVIOUS
<1>3. /\ store[p].grant \in Logins /\ login[store[p].grant].provider = p
      /\ login[store[p].grant].at # "idle" /\ store[p].refresh
      /\ (p \in Google <=> store[p].project # "none")
    BY <1>1 DEF StoredOK
<1>4. /\ new \in TokenEntry /\ new.grant = store[p].grant /\ new.refresh
      /\ new.project = store[p].project
    BY <1>1, <1>2, <1>3, RefreshedKept
<1>5. StoredOK(p, new, login)
    BY <1>3, <1>4 DEF StoredOK
<1>6. /\ store' \in [OAuthProviders -> TokenEntry] /\ store'[p] = new
      /\ \A q \in OAuthProviders : q # p => store'[q] = store[q]
    BY <1>1, <1>2, <1>4
<1>7. \A q \in OAuthProviders : StoredOK(q, store'[q], login)
    BY <1>5, <1>6 DEF LoginInv
<1> QED BY <1>1, <1>6, <1>7 DEF LoginInv

\* Every step keeps the invariant.
LEMMA LoginStepKeeps ==
    ASSUME LoginInv, [OAuthLoginNext]_loginVars
    PROVE  LoginInv'
<1>1. CASE UNCHANGED loginVars
    BY <1>1 DEF loginVars, LoginInv
<1>2. ASSUME NEW l \in Logins, LoginStep(l) PROVE LoginInv'
    <2>1. CASE (\E p \in AuthCode : BeginAuthCode(l, p)) \/ BeginDevice(l)
        BY <2>1, BeginKeeps
    <2>2. CASE \/ Accept(l) \/ ReadTimesOut(l) \/ CallbackTimesOut(l) \/ OtherRequest(l)
               \/ BadCallback(l) \/ ExchangeFails(l) \/ DeviceExpired(l)
        <3>1. UNCHANGED store
            BY <2>2 DEF Accept, ReadTimesOut, CallbackTimesOut, OtherRequest, BadCallback,
                        ExchangeFails, DeviceExpired
        <3> QED BY <2>2, <3>1, GoingKeeps
    <2>3. CASE DeadlinePasses(l) \/ (\E x \in Tabs(login[l].provider) : Redirect(l, x))
        BY <2>3, CallbackKeeps
    <2>4. CASE \/ AnthropicExchanged(l) \/ CopilotToken(l)
               \/ \E account \in BOOLEAN : CodexExchanged(l, account) \/ GoogleExchanged(l, account)
        BY <2>4, ExchangesKeep
    <2>5. CASE \/ DiscoverAntigravity(l) \/ Onboard(l) \/ PollOperation(l)
               \/ \E answer \in LoadAnswers, env_project \in BOOLEAN : DiscoverGemini(l, answer, env_project)
        BY <2>5, ProjectsKeep
    <2>6. CASE PollDevice(l)
        BY <2>6, PollKeeps
    <2>7. CASE Persist(l)
        BY <2>7, SaveKeeps
    <2> QED BY <1>2, <2>1, <2>2, <2>3, <2>4, <2>5, <2>6, <2>7 DEF LoginStep
<1>3. ASSUME NEW p \in OAuthProviders, NEW refresh \in BOOLEAN, NEW account \in BOOLEAN,
             RefreshToken(p, refresh, account)
      PROVE  LoginInv'
    BY <1>3, RefreshKeeps
<1> QED BY <1>1, <1>2, <1>3 DEF OAuthLoginNext

\* What the invariant says of the store and of the codes.
LEMMA LoginInvSound == LoginInv => StoredComplete /\ OwnGrant
<1> SUFFICES ASSUME LoginInv PROVE StoredComplete /\ OwnGrant
    OBVIOUS
<1>1. StoredComplete
    <2>1. ASSUME NEW p \in OAuthProviders, store[p] # NoToken
          PROVE  /\ store[p].grant \in Logins /\ login[store[p].grant].provider = p
                 /\ store[p].refresh /\ (p \in Google) = (store[p].project # "none")
        BY <2>1 DEF LoginInv, StoredOK
    <2> QED BY <2>1 DEF StoredComplete
<1>2. OwnGrant
    BY LoginKnown DEF OwnGrant, Earned
<1> QED BY <1>1, <1>2

\* Only a poll moves a login's clock.
LEMMA OnlyPollsWait ==
    ASSUME LoginInv, [OAuthLoginNext]_loginVars, NEW x \in Logins, login'[x].now # login[x].now
    PROVE  PollDevice(x)
<1>1. login \in [Logins -> LoginRecord] /\ login[x] \in LoginRecord
    BY DEF LoginInv
<1>2. PICK l \in Logins : LoginStep(l)
    BY DEF OAuthLoginNext, loginVars, RefreshToken
<1>3. CASE PollDevice(l)
    <2>1. CASE x = l
        BY <1>3, <2>1
    <2>2. CASE x # l
        BY <1>1, <1>3, <2>2 DEF PollDevice, Fail, MoveTo
    <2> QED BY <2>1, <2>2
<1>4. CASE ~PollDevice(l)
    <2>1. CASE BeginDevice(l) \/ \E p \in AuthCode : BeginAuthCode(l, p)
        <3>1. CASE BeginDevice(l)
            <4>1. CASE x # l
                BY <1>1, <3>1, <4>1 DEF BeginDevice
            <4>2. CASE x = l
                BY <1>1, <3>1, <4>2 DEF BeginDevice, LoginRecord
            <4> QED BY <4>1, <4>2
        <3>2. ASSUME NEW p \in AuthCode, BeginAuthCode(l, p) PROVE FALSE
            <4>1. PICK place : login' = [login EXCEPT ![l].provider = p, ![l].at = place]
                BY <3>2 DEF BeginAuthCode
            <4>2. CASE x # l
                BY <1>1, <4>1, <4>2
            <4>3. CASE x = l
                BY <1>1, <4>1, <4>3 DEF LoginRecord
            <4> QED BY <4>2, <4>3
        <3> QED BY <2>1, <3>1, <3>2
    <2>2. CASE \/ Accept(l) \/ ReadTimesOut(l) \/ CallbackTimesOut(l) \/ OtherRequest(l)
               \/ BadCallback(l) \/ ExchangeFails(l) \/ DeviceExpired(l) \/ DeadlinePasses(l)
               \/ \E y \in Tabs(login[l].provider) : Redirect(l, y)
        BY <1>1, <2>2 DEF Accept, ReadTimesOut, CallbackTimesOut, OtherRequest, BadCallback,
                        ExchangeFails, DeviceExpired, DeadlinePasses, Redirect, Fail, MoveTo, LoginRecord
    <2>3. CASE \/ AnthropicExchanged(l) \/ CopilotToken(l)
               \/ \E account \in BOOLEAN : CodexExchanged(l, account) \/ GoogleExchanged(l, account)
        BY <1>1, <2>3 DEF AnthropicExchanged, CopilotToken, CodexExchanged, GoogleExchanged, Exchanged, LoginRecord
    <2>4. CASE \/ DiscoverAntigravity(l) \/ Onboard(l) \/ PollOperation(l)
               \/ \E answer \in LoadAnswers, env_project \in BOOLEAN : DiscoverGemini(l, answer, env_project)
        <3>1. CASE DiscoverAntigravity(l) \/ Onboard(l) \/ PollOperation(l)
            BY <1>1, <3>1 DEF DiscoverAntigravity, Onboard, PollOperation, OperationDone, ProjectFound,
                            Fail, MoveTo, LoginRecord
        <3>2. ASSUME NEW answer \in LoadAnswers, NEW env_project \in BOOLEAN,
                     DiscoverGemini(l, answer, env_project)
              PROVE  FALSE
            <4>1. PICK next : next = ProjectAnswer(answer, env_project)
                OBVIOUS
            <4>2. Fail(l) \/ MoveTo(l, "onboarding") \/ ProjectFound(l, next)
                BY <3>2, <4>1 DEF DiscoverGemini
            <4> QED BY <1>1, <4>2 DEF ProjectFound, Fail, MoveTo, LoginRecord
        <3> QED BY <2>4, <3>1, <3>2
    <2>5. CASE Persist(l)
        BY <1>1, <2>5 DEF Persist, Fail, MoveTo, LoginRecord
    <2> QED BY <1>2, <1>4, <2>1, <2>2, <2>3, <2>4, <2>5 DEF LoginStep
<1> QED BY <1>3, <1>4

\* A poll's time has passed as it was asked to, or is over.
LEMMA PollTakesTime ==
    ASSUME LoginInv, [OAuthLoginNext]_loginVars, NEW l \in Logins, login'[l].now # login[l].now
    PROVE  /\ login'[l].now <= Deadline
           /\ login'[l].now - login[l].now >= login[l].asked \/ login'[l].now = Deadline
<1>1. PollDevice(l) /\ login \in [Logins -> LoginRecord]
    BY OnlyPollsWait DEF LoginInv
<1>2. login[l].now < Deadline
    BY <1>1 DEF PollDevice
<1>3. PICK w : w = WaitOf(login[l])
    OBVIOUS
<1>4. login'[l].now = login[l].now + w
    <2> DEFINE polled == [login[l] EXCEPT !.now = login[l].now + w, !.last = login[l].now]
    <2>1. login[l] \in LoginRecord
        BY <1>1
    <2>2. /\ polled.now = login[l].now + w
          /\ \A seconds : [SlowedDown(polled, seconds) EXCEPT !.asked = Required(login[l], seconds)].now = polled.now
          /\ [polled EXCEPT !.at = "copilot", !.code = l].now = polled.now
        BY <2>1 DEF SlowedDown, LoginRecord
    <2>3. ~ Fail(l)
        BY <1>1, <2>1 DEF Fail, MoveTo, LoginRecord
    <2>4. \/ login' = [login EXCEPT ![l] = polled]
          \/ \E seconds \in {Unnamed} \cup SlowDownIntervals :
                login' = [login EXCEPT ![l] = [SlowedDown(polled, seconds) EXCEPT !.asked = Required(login[l], seconds)]]
          \/ login' = [login EXCEPT ![l] = [polled EXCEPT !.at = "copilot", !.code = l]]
        BY <1>1, <1>3, <2>3 DEF PollDevice
    <2> HIDE DEF polled
    <2> QED BY <1>1, <2>2, <2>4
<1>5. /\ login[l].now \in Nat /\ login[l].asked \in Nat
    BY LoginKnown
<1>6. /\ w \in Nat /\ Deadline \in Nat /\ login[l].now + w <= Deadline
      /\ w >= login[l].asked \/ login[l].now + w = Deadline
    BY <1>2, <1>3, WaitLong
<1> QED BY <1>4, <1>5, <1>6

\* The same, of every login.
LEMMA LoginSteps == LoginInv /\ [OAuthLoginNext]_loginVars => [\A l \in Logins :
          login'[l].now # login[l].now =>
              /\ login'[l].now <= Deadline
              /\ login'[l].now - login[l].now >= login[l].asked \/ login'[l].now = Deadline]_loginVars
BY PollTakesTime

\* A login ends with what it was granted, or with nothing: run_login uses only the code of its own
\* state, every credential that is stored or refreshed is complete, and poll_device_flow waits as
\* long as the provider asks.
THEOREM LoginsSound == OAuthLoginSpec => LoginSound
<1>1. OAuthLoginInit => LoginInv
    BY LoginStart
<1>2. LoginInv /\ [OAuthLoginNext]_loginVars => LoginInv'
    BY LoginStepKeeps
<1>3. OAuthLoginSpec => []LoginInv
    BY <1>1, <1>2, PTL DEF OAuthLoginSpec
<1>4. OAuthLoginSpec => [](StoredComplete /\ OwnGrant)
    BY <1>3, LoginInvSound, PTL
<1>5. OAuthLoginSpec => PollsSpaced
    BY <1>3, LoginSteps, PTL DEF OAuthLoginSpec, PollsSpaced
<1> QED BY <1>4, <1>5 DEF LoginSound

-----------------------------------------------------------------------------
(***************************************************************************)
(* The model picker's discovery: an answer is of the provider it was asked of, *)
(* and only adds to what is known.                                         *)
(***************************************************************************)
\* Providers that some model is configured for, and what a discovery of one may end with.
Offered == {p \in ProviderNames : Configured[p] # {}}
Answers(p) == {UsableEntries(p, listing) : listing \in Listings[p]}
Results == {Nothing, Failed} \cup UNION {Answers(p) : p \in Offered}
Tasks ==
    {t \in [provider : Offered, address : Nat, result : Results] :
        t.result \in {Nothing, Failed} \cup Answers(t.provider)}

KeyOK(k) == k = <<k[1], k[2]>> /\ k[1] \in Offered

PickerOK(m, models) ==
    /\ m = [provider |-> m.provider, address |-> m.address, list |-> m.list,
            loading |-> m.loading, error |-> m.error]
    /\ m.provider \in Offered /\ m.address \in Nat
    /\ \A id \in m.list : <<m.provider, id>> \in DOMAIN models

KnownOK(models) == \A k \in DOMAIN models : KeyOK(k) /\ models[k].address \in Nat

\* Every answer under way is of a listing of its own provider, and the picker's rows are
\* known.
DiscoveryInv ==
    /\ config \in [ProviderNames -> Nat]
    /\ KnownOK(known)
    /\ KeyOK(active.key)
    /\ tasks \in Seq(Tasks)
    /\ model_picker # Closed => PickerOK(model_picker, known)

\* What is known changes only by what a listing has.
GrowsBy(old, new) ==
    /\ \A k \in DOMAIN old : k \in DOMAIN new /\ new[k] = old[k]
    /\ \A k \in DOMAIN new \ DOMAIN old :
         \E listing \in Listings[k[1]] : \E e \in Range(listing) : e.id = k[2] /\ Usable(k[1], e)

\* The catalog has models of the offered providers only.
LEMMA CatalogKeys ==
    ASSUME NEW c \in [ProviderNames -> Nat]
    PROVE  /\ KnownOK(BuildCatalog(c))
           /\ \A p \in Offered : \E k \in DOMAIN BuildCatalog(c) : k[1] = p
<1> DEFINE rows == UNION {{<<p, id>> : id \in Configured[p]} : p \in ProviderNames}
<1>1. /\ DOMAIN BuildCatalog(c) = rows
      /\ \A k \in rows : BuildCatalog(c)[k].address = c[k[1]]
    BY DEF BuildCatalog
<1>2. ASSUME NEW k \in rows PROVE KeyOK(k)
    <2>1. PICK p \in ProviderNames, id \in UNION {Configured[q] : q \in ProviderNames} :
              k = <<p, id>> /\ id \in Configured[p]
        BY <1>2
    <2> QED BY <2>1 DEF KeyOK, Offered
<1>3. ASSUME NEW p \in Offered PROVE \E k \in rows : k[1] = p
    <2>1. PICK id : id \in Configured[p] /\ p \in ProviderNames
        BY DEF Offered
    <2>2. <<p, id>> \in rows /\ <<p, id>>[1] = p
        BY <2>1
    <2> QED BY <2>2
<1> HIDE DEF rows
<1>4. \A k \in rows : c[k[1]] \in Nat
    BY <1>2 DEF KeyOK, Offered
<1> QED BY <1>1, <1>2, <1>3, <1>4 DEF KnownOK

\* What is known at first is the catalog.
LEMMA DiscoveryStart == DiscoveryInit => DiscoveryInv
<1> SUFFICES ASSUME DiscoveryInit PROVE DiscoveryInv
    OBVIOUS
<1>1. config \in [ProviderNames -> Nat]
    BY DEF DiscoveryInit
<1>2. KnownOK(known)
    BY <1>1, CatalogKeys DEF DiscoveryInit
<1>3. KeyOK(active.key)
    <2>1. PICK k \in DOMAIN known : active = [key |-> k, model |-> known[k]]
        BY DEF DiscoveryInit
    <2>2. active.key = k
        BY <2>1
    <2> QED BY <1>2, <2>1, <2>2 DEF KnownOK
<1>4. tasks \in Seq(Tasks) /\ model_picker = Closed
    BY DEF DiscoveryInit
<1> QED BY <1>1, <1>2, <1>3, <1>4 DEF DiscoveryInv

\* Nothing new.
LEMMA SameKnown == GrowsBy(known, known)
BY DEF GrowsBy

\* A task begins without a result.
LEMMA NewTaskOK ==
    ASSUME NEW p \in Offered, NEW a \in Nat
    PROVE  NewTask(p, a) \in Tasks
<1>1. Nothing \in Results
    BY DEF Results
<1> QED BY <1>1 DEF NewTask, Tasks

\* A discovery is started.
LEMMA SpawnKeeps ==
    ASSUME tasks \in Seq(Tasks), NEW p \in Offered, NEW a \in Nat, SpawnDiscovery(p, a)
    PROVE  tasks' \in Seq(Tasks)
<1>1. PICK t \in Tasks : t = NewTask(p, a)
    BY NewTaskOK
<1>2. tasks' = Append(tasks, t)
    BY <1>1 DEF SpawnDiscovery
<1> QED BY <1>2

\* The active provider has an address that the config, or a known model of it, has.
LEMMA AddressKnown ==
    ASSUME DiscoveryInv
    PROVE  Provider \in Offered /\ ProviderAddress \in Nat
<1>1. Provider \in Offered /\ Provider \in ProviderNames
    BY DEF DiscoveryInv, KeyOK, Provider, Offered
<1>2. ASSUME IdsOf(known, Provider) # {}
      PROVE  known[<<Provider, CHOOSE id \in IdsOf(known, Provider) : TRUE>>].address \in Nat
    <2>1. PICK id : id = CHOOSE i \in IdsOf(known, Provider) : TRUE
        OBVIOUS
    <2>2. id \in IdsOf(known, Provider)
        BY <1>2, <2>1
    <2>3. PICK k \in DOMAIN known : k[1] = Provider /\ k[2] = id
        BY <2>2 DEF IdsOf
    <2>4. k = <<Provider, id>> /\ known[k].address \in Nat
        BY <2>3 DEF DiscoveryInv, KnownOK, KeyOK
    <2> QED BY <2>1, <2>4
<1> QED BY <1>1, <1>2 DEF ProviderAddress, DiscoveryInv, KnownOK

\* The picker shows what is known.
LEMMA OpenKeeps ==
    ASSUME DiscoveryInv, OpenPicker
    PROVE  DiscoveryInv' /\ GrowsBy(known, known')
<1>1. /\ UNCHANGED <<config, known, active>> /\ SpawnDiscovery(Provider, ProviderAddress)
      /\ model_picker' = [provider |-> Provider, address |-> ProviderAddress,
                          list |-> IdsOf(known, Provider), loading |-> FALSE, error |-> FALSE]
    BY DEF OpenPicker
<1>2. Provider \in Offered /\ ProviderAddress \in Nat
    BY AddressKnown
<1>3. tasks' \in Seq(Tasks)
    BY <1>1, <1>2, SpawnKeeps DEF DiscoveryInv
<1>4. ASSUME NEW id \in IdsOf(known, Provider) PROVE <<Provider, id>> \in DOMAIN known
    <2>1. PICK k \in DOMAIN known : k[1] = Provider /\ k[2] = id
        BY <1>4 DEF IdsOf
    <2> QED BY <2>1 DEF DiscoveryInv, KnownOK, KeyOK
<1>5. PICK p, a, list :
          /\ p \in Offered /\ p = Provider /\ a \in Nat /\ a = ProviderAddress
          /\ list = IdsOf(known, Provider)
    BY <1>2
<1>6. PickerOK(model_picker', known)
    BY <1>1, <1>4, <1>5 DEF PickerOK
<1> QED BY <1>1, <1>3, <1>6, SameKnown DEF DiscoveryInv

\* The picker asks again.
LEMMA RefreshShows ==
    ASSUME DiscoveryInv, RefreshPicker
    PROVE  DiscoveryInv' /\ GrowsBy(known, known')
<1>1. /\ UNCHANGED <<config, known, active>> /\ PickerOK(model_picker, known)
      /\ SpawnDiscovery(model_picker.provider, model_picker.address)
      /\ model_picker' = [model_picker EXCEPT !.loading = TRUE, !.error = FALSE]
    BY DEF RefreshPicker, DiscoveryInv
<1>2. tasks' \in Seq(Tasks)
    BY <1>1, SpawnKeeps DEF DiscoveryInv, PickerOK
<1>3. PickerOK(model_picker', known)
    BY <1>1 DEF PickerOK
<1> QED BY <1>1, <1>2, <1>3, SameKnown DEF DiscoveryInv

\* An answer is of the provider that was asked.
LEMMA AnswerKeeps ==
    ASSUME DiscoveryInv, Answer
    PROVE  DiscoveryInv' /\ GrowsBy(known, known')
<1>1. UNCHANGED <<config, known, active, model_picker>> /\ tasks \in Seq(Tasks)
    BY DEF Answer, DiscoveryInv
<1>2. PICK result, new :
          /\ tasks' = [tasks EXCEPT ![fetching].result = new]
          /\ new = (IF result = Failed THEN Failed ELSE UsableEntries(tasks[fetching].provider, result))
          /\ result \in {Failed} \cup Listings[tasks[fetching].provider]
    BY DEF Answer
<1>3. CASE fetching \in DOMAIN tasks
    <2>1. PICK t \in Tasks : t = tasks[fetching]
        BY <1>1, <1>3
    <2>2. t \in [provider : Offered, address : Nat, result : Results]
        BY DEF Tasks
    <2>3. new \in {Nothing, Failed} \cup Answers(t.provider)
        BY <1>2, <2>1 DEF Answers
    <2>4. new \in Results
        BY <2>2, <2>3 DEF Results
    <2>5. PICK u : u = [t EXCEPT !.result = new]
        OBVIOUS
    <2>6. u \in [provider : Offered, address : Nat, result : Results] /\ u.result = new /\ u.provider = t.provider
        BY <2>2, <2>4, <2>5
    <2>7. u \in Tasks
        BY <2>3, <2>6 DEF Tasks
    <2>8. tasks' = [tasks EXCEPT ![fetching] = u]
        BY <1>1, <1>2, <1>3, <2>1, <2>5
    <2>9. tasks' \in Seq(Tasks)
        BY <1>1, <1>3, <2>7, <2>8
    <2> QED BY <1>1, <2>9, SameKnown DEF DiscoveryInv, PickerOK
<1>4. CASE fetching \notin DOMAIN tasks
    <2>1. tasks' = tasks
        BY <1>1, <1>2, <1>4
    <2> QED BY <1>1, <2>1, SameKnown DEF DiscoveryInv
<1> QED BY <1>3, <1>4

\* A sequence with an element removed.
LEMMA Removed ==
    ASSUME NEW S, NEW s \in Seq(S), NEW i \in DOMAIN s
    PROVE  RemoveAt(s, i) \in Seq(S)
<1>1. i \in 1..Len(s) /\ Len(s) \in Nat
    OBVIOUS
<1>2. SubSeq(s, 1, i - 1) \in Seq(S)
    BY <1>1
<1>3. SubSeq(s, i + 1, Len(s)) \in Seq(S)
    BY <1>1
<1> QED BY <1>2, <1>3 DEF RemoveAt

\* An answer for the open picker's provider: what is new is added with its address.
LEMMA AddedGrows ==
    ASSUME DiscoveryInv, NEW p \in Offered, NEW a \in Nat, NEW entries \in Answers(p),
           known' = Added(p, a, entries)
    PROVE  /\ KnownOK(known') /\ GrowsBy(known, known')
           /\ \A e \in entries : <<p, e.id>> \in DOMAIN known'
<1> DEFINE rows == {<<p, e.id>> : e \in entries}
<1>1. /\ DOMAIN known' = DOMAIN known \cup rows
      /\ \A k \in DOMAIN known : known'[k] = known[k]
      /\ \A k \in rows : k \notin DOMAIN known =>
             known'[k] = ToModel(p, CHOOSE e \in entries : e.id = k[2], a)
    BY DEF Added
<1>2. ASSUME NEW k \in rows
      PROVE  KeyOK(k) /\ k[1] = p /\ \E e \in entries : e.id = k[2]
    <2>1. PICK e \in entries : k = <<p, e.id>>
        OBVIOUS
    <2> QED BY <2>1 DEF KeyOK
<1> HIDE DEF rows
<1>3. \A k \in rows : k \notin DOMAIN known => known'[k].address = a
    BY <1>1 DEF ToModel
<1>4. KnownOK(known')
    BY <1>1, <1>2, <1>3 DEF KnownOK, DiscoveryInv
<1>5. PICK listing \in Listings[p] : entries = UsableEntries(p, listing)
    BY DEF Answers
<1>6. ASSUME NEW k \in DOMAIN known' \ DOMAIN known
      PROVE  \E l \in Listings[k[1]] : \E e \in Range(l) : e.id = k[2] /\ Usable(k[1], e)
    <2>1. PICK e \in entries : e.id = k[2] /\ k[1] = p
        BY <1>1, <1>2
    <2>2. e \in Range(listing) /\ Usable(p, e)
        BY <1>5 DEF UsableEntries
    <2> QED BY <2>1, <2>2
<1>7. GrowsBy(known, known')
    BY <1>1, <1>6 DEF GrowsBy
<1>8. \A e \in entries : <<p, e.id>> \in DOMAIN known'
    BY <1>1 DEF rows
<1> QED BY <1>4, <1>7, <1>8

\* An answer reaches the UI loop.
LEMMA DeliverKeeps ==
    ASSUME DiscoveryInv, Deliver
    PROVE  DiscoveryInv' /\ GrowsBy(known, known')
<1>1. UNCHANGED <<config, active>> /\ tasks \in Seq(Tasks)
    BY DEF Deliver, DiscoveryInv
<1>2. PICK i \in DOMAIN tasks :
          LET task == tasks[i]
              wanted == model_picker # Closed /\ model_picker.provider = task.provider
          IN /\ task.result # Nothing
             /\ tasks' = RemoveAt(tasks, i)
             /\ IF ~wanted THEN UNCHANGED <<known, model_picker>>
                ELSE IF task.result = Failed
                THEN /\ model_picker' = [model_picker EXCEPT !.loading = FALSE, !.error = TRUE]
                     /\ UNCHANGED known
                ELSE /\ known' = Added(task.provider, model_picker.address, task.result)
                     /\ model_picker' = [model_picker EXCEPT !.list = {e.id : e \in task.result},
                                                 !.loading = FALSE, !.error = FALSE]
    BY DEF Deliver
<1>3. PICK task \in Tasks : task = tasks[i]
    BY <1>1
<1>4. tasks' \in Seq(Tasks)
    BY <1>1, <1>2, Removed
<1>5. CASE UNCHANGED <<known, model_picker>>
    BY <1>1, <1>4, <1>5, SameKnown DEF DiscoveryInv
<1>6. CASE /\ model_picker # Closed /\ UNCHANGED known
           /\ model_picker' = [model_picker EXCEPT !.loading = FALSE, !.error = TRUE]
    <2>1. PickerOK(model_picker', known)
        BY <1>6 DEF DiscoveryInv, PickerOK
    <2> QED BY <1>1, <1>4, <1>6, <2>1, SameKnown DEF DiscoveryInv
<1>7. CASE /\ model_picker # Closed /\ model_picker.provider = task.provider
           /\ task.result # Nothing /\ task.result # Failed
           /\ known' = Added(task.provider, model_picker.address, task.result)
           /\ model_picker' = [model_picker EXCEPT !.list = {e.id : e \in task.result},
                                                   !.loading = FALSE, !.error = FALSE]
    <2>1. PickerOK(model_picker, known)
        BY <1>7 DEF DiscoveryInv
    <2>2. PICK p \in Offered, a \in Nat, entries \in Results :
              /\ p = task.provider /\ a = model_picker.address /\ entries = task.result
        BY <2>1 DEF PickerOK, Tasks
    <2>3. entries \in Answers(p)
        BY <1>7, <2>2 DEF Tasks
    <2>4. /\ KnownOK(known') /\ GrowsBy(known, known')
          /\ \A e \in entries : <<p, e.id>> \in DOMAIN known'
        BY <1>7, <2>2, <2>3, AddedGrows
    <2>5. PICK list : list = {e.id : e \in entries}
        OBVIOUS
    <2>6. model_picker' = [model_picker EXCEPT !.list = list, !.loading = FALSE, !.error = FALSE]
        BY <1>7, <2>2, <2>5
    <2>7. \A id \in list : <<p, id>> \in DOMAIN known'
        BY <2>4, <2>5
    <2>8. PickerOK(model_picker', known')
        BY <1>7, <2>1, <2>2, <2>6, <2>7 DEF PickerOK
    <2> QED BY <1>1, <1>4, <2>4, <2>8 DEF DiscoveryInv
<1> QED BY <1>2, <1>3, <1>5, <1>6, <1>7

\* A row chosen is a model known, so nothing is made up.
LEMMA SelectKeeps ==
    ASSUME DiscoveryInv, Select
    PROVE  DiscoveryInv' /\ GrowsBy(known, known')
<1>1. /\ UNCHANGED <<config, tasks>> /\ model_picker' = Closed /\ PickerOK(model_picker, known)
    BY DEF Select, DiscoveryInv
<1>2. PICK id \in model_picker.list :
          LET key == <<model_picker.provider, id>>
              model == IF key \in DOMAIN known THEN known[key]
                       ELSE [address |-> model_picker.address, window |-> Guess]
          IN SendResolvedModel(key, model) /\ known' = With(known, key, model)
    BY DEF Select
<1>3. PICK key : key = <<model_picker.provider, id>>
    OBVIOUS
<1>4. key \in DOMAIN known
    BY <1>1, <1>3 DEF PickerOK
<1>5. /\ SendResolvedModel(key, known[key]) /\ known' = With(known, key, known[key])
    BY <1>2, <1>3, <1>4
<1>6. /\ DOMAIN known' = DOMAIN known /\ \A k \in DOMAIN known : known'[k] = known[k]
    BY <1>4, <1>5 DEF With
<1>7. active'.key = key /\ KeyOK(key)
    BY <1>4, <1>5 DEF SendResolvedModel, DiscoveryInv, KnownOK
<1>8. KnownOK(known') /\ GrowsBy(known, known')
    BY <1>6 DEF DiscoveryInv, KnownOK, GrowsBy
<1> QED BY <1>1, <1>7, <1>8 DEF DiscoveryInv

\* A model named exactly.
LEMMA ExactKeeps ==
    ASSUME DiscoveryInv, ExactSwitch
    PROVE  DiscoveryInv' /\ GrowsBy(known, known')
<1>1. UNCHANGED <<config, known, model_picker, tasks>>
    BY DEF ExactSwitch
<1>2. PICK key \in DOMAIN known : SendResolvedModel(key, known[key])
    BY DEF ExactSwitch
<1>3. active'.key = key /\ KeyOK(key)
    BY <1>2 DEF SendResolvedModel, DiscoveryInv, KnownOK
<1> QED BY <1>1, <1>3, SameKnown DEF DiscoveryInv

\* The catalog is built anew.
LEMMA ReloadKeeps ==
    ASSUME DiscoveryInv, Reload
    PROVE  DiscoveryInv' /\ GrowsBy(known, known')
<1>1. UNCHANGED <<config, known, model_picker, tasks>> /\ Provider \in Offered
    BY AddressKnown DEF Reload
<1>2. PICK built : built = BuildCatalog(config) /\ catalog' = built
    BY DEF Reload
<1>3. KnownOK(built) /\ \A p \in Offered : \E k \in DOMAIN built : k[1] = p
    BY <1>2, CatalogKeys DEF DiscoveryInv
<1>4. PICK rows : rows = {k \in DOMAIN built : k[1] = Provider}
    OBVIOUS
<1>5. PICK key : key = IF active.key \in DOMAIN built THEN active.key ELSE CHOOSE k \in rows : TRUE
    OBVIOUS
<1>6. active' = [key |-> key, model |-> built[key]]
    BY <1>2, <1>4, <1>5 DEF Reload
<1>7. rows # {}
    BY <1>1, <1>3, <1>4
<1>8. key \in DOMAIN built
    BY <1>4, <1>5, <1>7
<1>9. KeyOK(active'.key)
    BY <1>3, <1>6, <1>8 DEF KnownOK
<1> QED BY <1>1, <1>9, SameKnown DEF DiscoveryInv

\* Every step keeps the invariant, and only adds.
LEMMA DiscoveryKeeps ==
    ASSUME DiscoveryInv, [DiscoveryNext]_discoveryVars
    PROVE  DiscoveryInv' /\ GrowsBy(known, known')
<1>1. CASE UNCHANGED discoveryVars
    BY <1>1, SameKnown DEF discoveryVars, DiscoveryInv
<1>2. CASE ClosePicker
    BY <1>2, SameKnown DEF ClosePicker, DiscoveryInv
<1>3. CASE TakeLock
    BY <1>3, SameKnown DEF TakeLock, DiscoveryInv
<1>4. CASE EditConfig
    <2>1. PICK p \in ProviderNames : config' = [config EXCEPT ![p] = @ + 1]
        BY <1>4 DEF EditConfig
    <2>2. config' \in [ProviderNames -> Nat]
        BY <2>1 DEF DiscoveryInv
    <2> QED BY <1>4, <2>2, SameKnown DEF EditConfig, DiscoveryInv
<1> QED BY <1>1, <1>2, <1>3, <1>4, OpenKeeps, RefreshShows, AnswerKeeps, DeliverKeeps, SelectKeeps,
           ExactKeeps, ReloadKeeps DEF DiscoveryNext

\* What the invariant says of the rows.
LEMMA RowsKnown == DiscoveryInv => RowsAreKnown
BY DEF DiscoveryInv, PickerOK, RowsAreKnown

\* handle_worker_event: whatever answers arrive in which order, for whichever picker, what is known
\* is only added to, by usable entries of a listing, and every row of the picker is known.
THEOREM DiscoveryAdds == DiscoverySpec => DiscoverySound
<1>1. DiscoveryInit => DiscoveryInv
    BY DiscoveryStart
<1>2. DiscoveryInv /\ [DiscoveryNext]_discoveryVars => DiscoveryInv'
    BY DiscoveryKeeps
<1>3. DiscoveryInv /\ [DiscoveryNext]_discoveryVars =>
          [/\ \A k \in DOMAIN known : k \in DOMAIN known' /\ known'[k] = known[k]
           /\ \A k \in DOMAIN known' \ DOMAIN known :
                \E listing \in Listings[k[1]] : \E e \in Range(listing) : e.id = k[2] /\ Usable(k[1], e)
          ]_discoveryVars
    BY DiscoveryKeeps DEF GrowsBy
<1>4. DiscoverySpec => []DiscoveryInv
    BY <1>1, <1>2, PTL DEF DiscoverySpec
<1>5. DiscoverySpec => []RowsAreKnown
    BY <1>4, RowsKnown, PTL
<1>6. DiscoverySpec => DiscoveryKeepsKnown
    BY <1>3, <1>4, PTL DEF DiscoverySpec, DiscoveryKeepsKnown
<1> QED BY <1>5, <1>6 DEF DiscoverySound

-----------------------------------------------------------------------------
(***************************************************************************)
(* Onboarding: contexts of hosted providers that get as far as a discovery, a *)
(* choice of models or an entry have had their key stored.                 *)
(***************************************************************************)
KeyTexts == Keys \cup {""}
FormNames == CustomNames \cup {""}
Manuals == {"", "typed"}
ModelIds == Advertised \cup {Fallback} \cup Manuals
AllNames == Names \cup {"custom", ""}

\* Presets whose key was stored once.
KeyedNames == {p \in Presets : stored[p] # {} \/ p \in removed}

Contexts ==
    [kind : {"local"}, name : Servers \cup {""}, key : {""}, manual : {""}]
    \cup [kind : {"preset"}, name : Presets, key : KeyTexts, manual : {""}]
    \cup [kind : {"custom"}, name : CustomNames \cup {"custom"}, key : KeyTexts, manual : Manuals,
          typed : FormNames]
KeyedContexts(K) == {c \in Contexts : c.kind = "preset" => c.name \in K}

Jobs(K) ==
    {w \in [kind : {"detect", "validate", "discover"}, context : Contexts] :
        /\ w.kind = "discover" => w.context \in KeyedContexts(K)
        /\ w.kind = "validate" /\ w.context.kind = "preset" => w.context.key # ""}
Answered(K) ==
    {r \in [kind : {"detect", "validate", "discover"}, context : Contexts, ok : BOOLEAN,
            models : SUBSET Advertised, servers : SUBSET Servers] :
        r.kind = "discover" \/ (r.kind = "validate" /\ r.ok) => r.context \in KeyedContexts(K)}
Entries(K) ==
    {c \in [name : AllNames, model : ModelIds, kind : {"local", "preset", "custom"}, default : BOOLEAN] :
        c.kind = "preset" => c.name \in K}

Plain ==
    [at : {"menu", "waiting", "servers", "no_servers", "presets", "managing", "success", "oauth", "closed"}]
KeyInputs == [at : {"key"}, name : Presets, key : KeyTexts]
Forms == [at : {"custom"}, url : BOOLEAN, name : FormNames, key : KeyTexts, manual : Manuals]
Backs == {Screen("servers")} \cup KeyInputs \cup Forms
Outcomes == [at : {"busy", "error"}, back : Backs]
Searches == [at : {"discovering"}, context : Contexts]
Picks(K) ==
    [at : {"picking"}, context : KeyedContexts(K), models : SUBSET Advertised, loading : BOOLEAN]
States(K) == Plain \cup KeyInputs \cup Forms \cup Outcomes \cup Searches \cup Picks(K)

DistinctNames(list) == \A i, j \in DOMAIN list : i # j => list[i].name # list[j].name

IsDefault(list, d, last) ==
    /\ d \in DOMAIN list /\ list[d].default
    /\ \A i \in DOMAIN list : list[i].default => i = d
    /\ last = [name |-> list[d].name, model |-> list[d].model]

\* One entry is the default: the one finalized last.
Marked(list, last) ==
    DistinctNames(list) /\ (list # <<>> => \E d \in DOMAIN list : IsDefault(list, d, last))

SetupInv ==
    /\ found \in SUBSET Servers
    /\ stored \in [Names \cup {"custom"} -> SUBSET KeyTexts]
    /\ state \in States(KeyedNames)
    /\ workers \in Seq(Jobs(KeyedNames))
    /\ results \in Seq(Answered(KeyedNames))
    /\ configured \in Seq(Entries(KeyedNames))
    /\ Marked(configured, latest)

\* Whatever is sound for some keyed presets is so for more.
LEMMA MoreKeys ==
    ASSUME NEW A, NEW B, A \subseteq B
    PROVE  /\ KeyedContexts(A) \subseteq KeyedContexts(B) /\ Jobs(A) \subseteq Jobs(B)
           /\ Answered(A) \subseteq Answered(B) /\ Entries(A) \subseteq Entries(B)
           /\ States(A) \subseteq States(B)
<1>1. KeyedContexts(A) \subseteq KeyedContexts(B)
    BY DEF KeyedContexts
<1>2. Jobs(A) \subseteq Jobs(B)
    BY <1>1 DEF Jobs
<1>3. Answered(A) \subseteq Answered(B)
    BY <1>1 DEF Answered
<1>4. Entries(A) \subseteq Entries(B)
    BY DEF Entries
<1>5. Picks(A) \subseteq Picks(B)
    BY <1>1 DEF Picks
<1>6. States(A) \subseteq States(B)
    BY <1>5 DEF States
<1> QED BY <1>1, <1>2, <1>3, <1>4, <1>6

\* Sequences over a larger set.
LEMMA WiderSeq ==
    ASSUME NEW A, NEW B, A \subseteq B, NEW s \in Seq(A)
    PROVE  s \in Seq(B)
<1>1. DOMAIN s = 1..Len(s) /\ Len(s) \in Nat /\ \A i \in 1..Len(s) : s[i] \in B
    OBVIOUS
<1> QED BY <1>1

\* The fields of a screen that its place gives it.
LEMMA ScreenIs ==
    ASSUME NEW K, NEW s \in States(K)
    PROVE  /\ s.at = "key" => s \in KeyInputs
           /\ s.at = "custom" => s \in Forms
           /\ s.at \in {"busy", "error"} => s \in Outcomes
           /\ s.at = "discovering" => s \in Searches
           /\ s.at = "picking" => s \in Picks(K)
BY DEF States, Plain, KeyInputs, Forms, Outcomes, Searches, Picks

\* The fields of a context.
LEMMA ContextIs ==
    ASSUME NEW c \in Contexts
    PROVE  /\ c.kind \in {"local", "preset", "custom"} /\ c.name \in AllNames
           /\ c.manual \in Manuals /\ c.key \in KeyTexts
           /\ c.kind = "preset" => c.name \in Presets
           /\ c.kind = "custom" => c.typed \in FormNames
BY DEF Contexts, AllNames, Names, KeyTexts, Manuals

\* The contexts the keys make.
LEMMA NewContexts ==
    /\ \A s \in Servers \cup {""} : LocalContext(s) \in Contexts /\ LocalContext(s).kind = "local"
    /\ \A p \in Presets, key \in KeyTexts :
           /\ PresetContext(p, key) \in Contexts /\ PresetContext(p, key).kind = "preset"
           /\ PresetContext(p, key).key = key
    /\ \A f \in Forms : CustomContext(f) \in Contexts /\ CustomContext(f).kind = "custom"
<1>1. ASSUME NEW s \in Servers \cup {""} PROVE LocalContext(s) \in Contexts /\ LocalContext(s).kind = "local"
    BY DEF LocalContext, Contexts
<1>2. ASSUME NEW p \in Presets, NEW key \in KeyTexts
      PROVE  /\ PresetContext(p, key) \in Contexts /\ PresetContext(p, key).kind = "preset"
             /\ PresetContext(p, key).key = key
    BY DEF PresetContext, Contexts
<1>3. ASSUME NEW f \in Forms PROVE CustomContext(f) \in Contexts /\ CustomContext(f).kind = "custom"
    <2>1. /\ f.name \in FormNames /\ f.key \in KeyTexts /\ f.manual \in Manuals
        BY DEF Forms
    <2>2. PICK name : name = (IF f.name = "" THEN "custom" ELSE f.name)
        OBVIOUS
    <2>3. name \in CustomNames \cup {"custom"}
        BY <2>1, <2>2 DEF FormNames
    <2>4. CustomContext(f) = [kind |-> "custom", key |-> f.key, manual |-> f.manual,
                              typed |-> f.name, name |-> name]
        BY <2>2 DEF CustomContext
    <2>5. CustomContext(f) \in [kind : {"custom"}, name : CustomNames \cup {"custom"}, key : KeyTexts,
                                manual : Manuals, typed : FormNames]
        BY <2>1, <2>3, <2>4
    <2> QED BY <2>4, <2>5 DEF Contexts
<1> QED BY <1>1, <1>2, <1>3

\* Where Esc leads.
LEMMA ReturnsBack == ASSUME NEW c \in Contexts PROVE ReturnState(c) \in Backs
<1>1. CASE c.kind = "local"
    BY <1>1 DEF ReturnState, Backs
<1>2. CASE c.kind = "preset"
    <2>1. c.name \in Presets /\ c.key \in KeyTexts
        BY <1>2, ContextIs
    <2>2. ReturnState(c) = KeyInput(c.name, c.key)
        BY <1>2 DEF ReturnState
    <2> QED BY <2>1, <2>2 DEF Backs, KeyInputs, KeyInput
<1>3. CASE c.kind = "custom"
    <2>1. c.typed \in FormNames /\ c.key \in KeyTexts /\ c.manual \in Manuals
        BY <1>3, ContextIs
    <2>2. ReturnState(c) = Form(TRUE, c.typed, c.key, c.manual)
        BY <1>3 DEF ReturnState
    <2> QED BY <2>1, <2>2 DEF Backs, Forms, Form
<1> QED BY <1>1, <1>2, <1>3, ContextIs

\* The screens the steps make.
LEMMA NewScreens ==
    ASSUME NEW K
    PROVE  /\ Plain \subseteq States(K) /\ Backs \subseteq States(K) /\ EmptyForm \in States(K)
           /\ \A at \in {"menu", "waiting", "servers", "no_servers", "presets", "managing", "success",
                         "oauth", "closed"} : Screen(at) \in States(K)
           /\ \A back \in Backs : Problem(back) \in States(K) /\ Working(back) \in States(K)
           /\ \A c \in Contexts : Discovering(c) \in States(K)
           /\ \A c \in KeyedContexts(K), models \in SUBSET Advertised, loading \in BOOLEAN :
                  ChoosingModel(c, models, loading) \in States(K)
<1>1. /\ Plain \subseteq States(K)
      /\ \A at \in {"menu", "waiting", "servers", "no_servers", "presets", "managing", "success",
                    "oauth", "closed"} : Screen(at) \in Plain
    BY DEF States, Plain, Screen
<1>2. Backs \subseteq States(K)
    BY <1>1 DEF States, Backs
<1>3. EmptyForm \in Forms
    BY DEF EmptyForm, Form, Forms, FormNames, KeyTexts, Manuals
<1>4. ASSUME NEW back \in Backs PROVE Problem(back) \in Outcomes /\ Working(back) \in Outcomes
    BY DEF Problem, Working, Outcomes
<1>5. ASSUME NEW c \in Contexts PROVE Discovering(c) \in Searches
    BY DEF Discovering, Searches
<1>6. ASSUME NEW c \in KeyedContexts(K), NEW models \in SUBSET Advertised, NEW loading \in BOOLEAN
      PROVE  ChoosingModel(c, models, loading) \in Picks(K)
    BY DEF ChoosingModel, Picks
<1>7. \A s : s \in Forms \/ s \in Outcomes \/ s \in Searches \/ s \in Picks(K) => s \in States(K)
    BY DEF States
<1> QED BY <1>1, <1>2, <1>3, <1>4, <1>5, <1>6, <1>7

\* Nothing is configured; a detection runs.
LEMMA SetupStart == OnboardingInit => SetupInv
<1> SUFFICES ASSUME OnboardingInit PROVE SetupInv
    OBVIOUS
<1>1. state \in States(KeyedNames) /\ found \in SUBSET Servers
    BY NewScreens DEF OnboardingInit
<1>2. stored \in [Names \cup {"custom"} -> SUBSET KeyTexts]
    BY DEF OnboardingInit
<1>3. PICK job : job = [kind |-> "detect", context |-> LocalContext("")]
    OBVIOUS
<1>4. job \in Jobs(KeyedNames)
    <2>1. LocalContext("") \in Contexts
        BY NewContexts
    <2> QED BY <1>3, <2>1 DEF Jobs
<1>5. workers \in Seq(Jobs(KeyedNames))
    <2>1. workers = <<job>>
        BY <1>3 DEF OnboardingInit
    <2> QED BY <1>4, <2>1
<1>6. results \in Seq(Answered(KeyedNames)) /\ configured \in Seq(Entries(KeyedNames)) /\ configured = <<>>
    <2>1. results = <<>> /\ configured = <<>>
        BY DEF OnboardingInit
    <2> QED BY <2>1
<1>7. Marked(configured, latest)
    BY <1>6 DEF Marked, DistinctNames
<1> QED BY <1>1, <1>2, <1>5, <1>6, <1>7 DEF SetupInv

-----------------------------------------------------------------------------
\* A finalized provider is the only default, and the only one of its name.
LEMMA FinalizedMarks ==
    ASSUME NEW K, NEW list \in Seq(Entries(K)), DistinctNames(list),
           NEW c \in Entries(K), c.default
    PROVE  /\ Finalized(list, c) \in Seq(Entries(K))
           /\ Marked(Finalized(list, c), [name |-> c.name, model |-> c.model])
<1> DEFINE cleared == [i \in DOMAIN list |-> [list[i] EXCEPT !.default = FALSE]]
           same == {i \in DOMAIN list : list[i].name = c.name}
           new == Finalized(list, c)
<1>1. DOMAIN list = 1..Len(list) /\ Len(list) \in Nat /\ \A i \in DOMAIN list : list[i] \in Entries(K)
    OBVIOUS
<1>2. ASSUME NEW e \in Entries(K)
      PROVE  /\ [e EXCEPT !.default = FALSE] \in Entries(K) /\ [e EXCEPT !.default = FALSE].name = e.name
             /\ ~ [e EXCEPT !.default = FALSE].default
    BY DEF Entries
<1>3. /\ DOMAIN cleared = 1..Len(list)
      /\ \A i \in 1..Len(list) : /\ cleared[i] \in Entries(K) /\ cleared[i].name = list[i].name
                                 /\ ~ cleared[i].default
    BY <1>1, <1>2
<1>4. cleared \in Seq(Entries(K)) /\ Len(cleared) = Len(list)
    BY <1>1, <1>3
<1>5. new = IF same = {} THEN Append(cleared, c)
            ELSE [cleared EXCEPT ![CHOOSE i \in same : \A j \in same : i <= j] = c]
    BY DEF Finalized
<1> HIDE DEF cleared, new
<1>6. CASE same = {}
    <2>1. /\ new \in Seq(Entries(K)) /\ DOMAIN new = 1..(Len(list) + 1) /\ new[Len(list) + 1] = c
          /\ \A i \in 1..Len(list) : new[i] = cleared[i]
        BY <1>1, <1>4, <1>5, <1>6
    <2>2. \A i \in 1..Len(list) : cleared[i].name # c.name
        BY <1>1, <1>3, <1>6
    <2>3. \A i \in DOMAIN new : i \in 1..Len(list) \/ i = Len(list) + 1
        BY <1>1, <2>1
    <2>4. DistinctNames(new)
        BY <1>1, <1>3, <2>1, <2>2, <2>3 DEF DistinctNames
    <2>5. IsDefault(new, Len(list) + 1, [name |-> c.name, model |-> c.model])
        BY <1>1, <1>3, <2>1, <2>3 DEF IsDefault
    <2> QED BY <2>1, <2>4, <2>5 DEF Marked, IsDefault, new
<1>7. CASE same # {}
    <2>1. PICK d \in DOMAIN list : list[d].name = c.name
        BY <1>7
    <2>2. \A i \in same : i = d
        BY <2>1 DEF DistinctNames
    <2>3. d \in same /\ d <= d
        BY <1>1, <2>1
    <2>4. d = CHOOSE i \in same : \A j \in same : i <= j
        BY <2>2, <2>3
    <2> HIDE DEF same
    <2>5. new = [cleared EXCEPT ![d] = c]
        BY <1>5, <1>7, <2>4
    <2>6. /\ new \in Seq(Entries(K)) /\ DOMAIN new = 1..Len(list) /\ new[d] = c
          /\ \A i \in 1..Len(list) : i # d => new[i] = cleared[i]
        BY <1>1, <1>3, <1>4, <2>1, <2>5
    <2>7. \A i \in 1..Len(list) : new[i].name = list[i].name
        BY <1>3, <2>1, <2>6
    <2>8. DistinctNames(new)
        BY <1>1, <2>6, <2>7 DEF DistinctNames
    <2>9. IsDefault(new, d, [name |-> c.name, model |-> c.model])
        BY <1>1, <1>3, <2>1, <2>6 DEF IsDefault
    <2> QED BY <2>6, <2>8, <2>9 DEF Marked, IsDefault, new
<1> QED BY <1>6, <1>7

\* A provider is finalized.
LEMMA Configures ==
    ASSUME SetupInv, NEW c \in KeyedContexts(KeyedNames), NEW m \in ModelIds, Configure(c, m)
    PROVE  configured' \in Seq(Entries(KeyedNames)) /\ Marked(configured', latest')
<1>1. PICK e : e = [name |-> c.name, model |-> m, kind |-> c.kind, default |-> TRUE]
    OBVIOUS
<1>2. c \in Contexts /\ (c.kind = "preset" => c.name \in KeyedNames)
    BY DEF KeyedContexts
<1>3. c.name \in AllNames /\ c.kind \in {"local", "preset", "custom"}
    BY <1>2, ContextIs
<1>4. e \in Entries(KeyedNames) /\ e.default /\ e.name = c.name /\ e.model = m
    BY <1>1, <1>2, <1>3 DEF Entries
<1>5. configured' = Finalized(configured, e) /\ latest' = [name |-> e.name, model |-> e.model]
    BY <1>1 DEF Configure
<1>6. configured \in Seq(Entries(KeyedNames)) /\ DistinctNames(configured)
    BY DEF SetupInv, Marked
<1> QED BY <1>4, <1>5, <1>6, FinalizedMarks

\* The parts that most steps leave alone.
LEMMA SameKeys == ASSUME UNCHANGED <<stored, removed>> PROVE KeyedNames' = KeyedNames
BY DEF KeyedNames

\* A step that only changes the screen.
LEMMA Moved ==
    ASSUME SetupInv, NEW s \in States(KeyedNames), Go(s), NothingElse
    PROVE  SetupInv'
<1>1. KeyedNames' = KeyedNames
    BY SameKeys DEF NothingElse
<1> QED BY <1>1 DEF Go, NothingElse, SetupInv

\* A step that also starts a worker.
LEMMA Worked ==
    ASSUME SetupInv, NEW s \in States(KeyedNames), Go(s), NEW job \in Jobs(KeyedNames), Work(job)
    PROVE  SetupInv'
<1>1. KeyedNames' = KeyedNames
    BY SameKeys DEF Work
<1>2. workers' \in Seq(Jobs(KeyedNames))
    BY DEF Work, Start, SetupInv
<1> QED BY <1>1, <1>2 DEF Go, Work, SetupInv

\* The main menu.
LEMMA MenuKeeps == ASSUME SetupInv, MainMenuKey PROVE SetupInv'
<1>1. PICK s \in States(KeyedNames) : Go(s) /\ NothingElse
    BY NewScreens DEF MainMenuKey
<1> QED BY <1>1, Moved

\* Escape, and the ways on that start nothing.
LEMMA BackKeeps == ASSUME SetupInv, ReturnKey PROVE SetupInv'
<1>1. NothingElse /\ state \in States(KeyedNames)
    BY DEF ReturnKey, SetupInv
<1>2. CASE state.at \in {"busy", "error"} /\ Go(state.back)
    <2>1. state.back \in Backs
        BY <1>1, <1>2, ScreenIs DEF Outcomes
    <2> QED BY <1>1, <1>2, <2>1, NewScreens, Moved
<1>3. CASE state.at \in {"discovering", "picking"} /\ Go(ReturnState(state.context))
    <2>1. state.context \in Contexts
        BY <1>1, <1>3, ScreenIs DEF Searches, Picks, KeyedContexts
    <2>2. ReturnState(state.context) \in States(KeyedNames)
        BY <2>1, ReturnsBack, NewScreens
    <2> QED BY <1>1, <1>3, <2>2, Moved
<1>4. CASE \E at \in {"menu", "presets", "oauth"} : Go(Screen(at))
    BY <1>1, <1>4, NewScreens, Moved
<1>5. CASE Go(EmptyForm)
    BY <1>1, <1>5, NewScreens, Moved
<1>6. ASSUME NEW p \in Presets, Go(KeyInput(p, "")) PROVE SetupInv'
    <2>1. KeyInput(p, "") \in Backs
        BY DEF KeyInput, Backs, KeyInputs, KeyTexts
    <2> QED BY <1>1, <1>6, <2>1, NewScreens, Moved
<1> QED BY <1>2, <1>3, <1>4, <1>5, <1>6 DEF ReturnKey

\* A local server is chosen.
LEMMA ServerKeeps == ASSUME SetupInv, ServerKey PROVE SetupInv'
<1>1. CASE Go(Screen("waiting")) /\ NothingElse
    BY <1>1, NewScreens, Moved
<1>2. ASSUME NEW s \in found, Go(Discovering(LocalContext(s))),
             Work([kind |-> "discover", context |-> LocalContext(s)])
      PROVE  SetupInv'
    <2>1. LocalContext(s) \in Contexts /\ LocalContext(s).kind = "local"
        BY NewContexts DEF SetupInv
    <2>2. PICK job : job = [kind |-> "discover", context |-> LocalContext(s)]
        OBVIOUS
    <2>3. job \in Jobs(KeyedNames)
        BY <2>1, <2>2 DEF Jobs, KeyedContexts
    <2> QED BY <1>2, <2>1, <2>2, <2>3, NewScreens, Worked
<1> QED BY <1>1, <1>2 DEF ServerKey

\* The API key field.
LEMMA ApiKeyKeeps == ASSUME SetupInv, ApiKeyKey PROVE SetupInv'
<1>1. state \in KeyInputs /\ state \in Backs
    BY ScreenIs DEF ApiKeyKey, SetupInv, Backs
<1>2. state.name \in Presets /\ state.key \in KeyTexts
    BY <1>1 DEF KeyInputs
<1>3. ASSUME NEW key \in Keys, Go([state EXCEPT !.key = key]), NothingElse PROVE SetupInv'
    <2>1. [state EXCEPT !.key = key] \in KeyInputs
        BY <1>1 DEF KeyInputs, KeyTexts
    <2> QED BY <1>3, <2>1, NewScreens, Moved DEF Backs
<1>4. CASE Go(Problem(state)) /\ NothingElse
    BY <1>1, <1>4, NewScreens, Moved
<1>5. CASE /\ state.key # "" /\ Go(Working(state))
           /\ Work([kind |-> "validate", context |-> PresetContext(state.name, state.key)])
    <2>1. PICK context : context = PresetContext(state.name, state.key)
        OBVIOUS
    <2>2. context \in Contexts /\ context.key # ""
        BY <1>2, <1>5, <2>1, NewContexts
    <2>3. PICK job : job = [kind |-> "validate", context |-> context]
        OBVIOUS
    <2>4. job \in Jobs(KeyedNames)
        BY <2>2, <2>3 DEF Jobs
    <2> QED BY <1>1, <1>5, <2>1, <2>3, <2>4, NewScreens, Worked
<1> QED BY <1>3, <1>4, <1>5 DEF ApiKeyKey

\* The form of a custom endpoint.
LEMMA FormKeeps == ASSUME SetupInv, FormKey PROVE SetupInv'
<1>1. state \in Forms /\ state \in Backs
    BY ScreenIs DEF FormKey, SetupInv, Backs
<1>2. ASSUME NEW name \in CustomNames \cup {""}, NEW key \in Keys \cup {""}, NEW manual \in {"", "typed"},
             Go(Form(TRUE, name, key, manual)), NothingElse
      PROVE  SetupInv'
    <2>1. Form(TRUE, name, key, manual) \in Forms
        BY DEF Form, Forms, FormNames, KeyTexts, Manuals
    <2> QED BY <1>2, <2>1, NewScreens, Moved DEF Backs
<1>3. CASE Go(Problem(state)) /\ NothingElse
    BY <1>1, <1>3, NewScreens, Moved
<1>4. CASE Go(Working(state)) /\ Work([kind |-> "validate", context |-> CustomContext(state)])
    <2>1. PICK context : context = CustomContext(state)
        OBVIOUS
    <2>2. context \in Contexts /\ context.kind = "custom"
        BY <1>1, <2>1, NewContexts
    <2>3. PICK job : job = [kind |-> "validate", context |-> context]
        OBVIOUS
    <2>4. job \in Jobs(KeyedNames)
        BY <2>2, <2>3 DEF Jobs
    <2> QED BY <1>1, <1>4, <2>1, <2>3, <2>4, NewScreens, Worked
<1> QED BY <1>2, <1>3, <1>4 DEF FormKey

\* A model is chosen, or the list asked for again.
LEMMA ModelKeeps == ASSUME SetupInv, ModelKey PROVE SetupInv'
<1>1. state \in Picks(KeyedNames)
    BY ScreenIs DEF ModelKey, SetupInv
<1>2. state.context \in KeyedContexts(KeyedNames) /\ state.models \subseteq Advertised
    BY <1>1 DEF Picks
<1>3. CASE /\ Go([state EXCEPT !.loading = TRUE])
           /\ Work([kind |-> "discover", context |-> state.context])
    <2>1. PICK next : next = [state EXCEPT !.loading = TRUE]
        OBVIOUS
    <2>2. next \in Picks(KeyedNames)
        BY <1>1, <2>1 DEF Picks
    <2>3. next \in States(KeyedNames)
        BY <2>2 DEF States
    <2>4. PICK job : job = [kind |-> "discover", context |-> state.context]
        OBVIOUS
    <2>5. job \in Jobs(KeyedNames)
        BY <1>2, <2>4 DEF Jobs, KeyedContexts
    <2> QED BY <1>3, <2>1, <2>3, <2>4, <2>5, Worked
<1>4. ASSUME NEW m \in state.models, Configure(state.context, m), Go(Screen("success")),
             UNCHANGED <<servers, found, reload_target, workers, results, stored, saved, notified, removed>>
      PROVE  SetupInv'
    <2>1. configured' \in Seq(Entries(KeyedNames)) /\ Marked(configured', latest')
        BY <1>2, <1>4, Configures DEF ModelIds
    <2>2. KeyedNames' = KeyedNames
        BY <1>4, SameKeys
    <2>3. state' \in States(KeyedNames)
        BY <1>4, NewScreens DEF Go
    <2> QED BY <1>4, <2>1, <2>2, <2>3 DEF SetupInv
<1> QED BY <1>3, <1>4 DEF ModelKey

\* Once a key was stored for a name, it counts as keyed for good.
LEMMA KeysGrow ==
    ASSUME SetupInv, UNCHANGED <<found, configured, latest>>, KeyedNames \subseteq KeyedNames',
           stored' \in [Names \cup {"custom"} -> SUBSET KeyTexts],
           workers' \in Seq(Jobs(KeyedNames')), results' \in Seq(Answered(KeyedNames')),
           UNCHANGED state
    PROVE  SetupInv'
<1>1. state \in States(KeyedNames')
    BY MoreKeys DEF SetupInv
<1>2. configured \in Seq(Entries(KeyedNames'))
    <2>1. Entries(KeyedNames) \subseteq Entries(KeyedNames')
        BY MoreKeys
    <2> QED BY <2>1, WiderSeq DEF SetupInv
<1> QED BY <1>1, <1>2 DEF SetupInv

\* The embedded provider screen; a key deleted is remembered as removed.
LEMMA ManageKeeps == ASSUME SetupInv, ManageKey PROVE SetupInv'
<1>1. CASE Go(Screen("menu")) /\ UNCHANGED <<reload_target, stored, saved, removed>>
    <2>1. NothingElse
        BY <1>1 DEF ManageKey, NothingElse
    <2> QED BY <1>1, <2>1, NewScreens, Moved
<1>2. CASE UNCHANGED <<state, stored, removed>>
    <2>1. KeyedNames' = KeyedNames
        BY <1>2, SameKeys
    <2> QED BY <1>2, <2>1 DEF ManageKey, SetupInv
<1>3. ASSUME NEW n \in Presets, stored' = [stored EXCEPT ![n] = {}], removed' = removed \cup {n},
             UNCHANGED state
      PROVE  SetupInv'
    <2>1. /\ UNCHANGED <<found, configured, workers, results, latest>>
          /\ stored \in [Names \cup {"custom"} -> SUBSET KeyTexts]
        BY DEF ManageKey, SetupInv
    <2>2. stored' \in [Names \cup {"custom"} -> SUBSET KeyTexts]
        BY <1>3, <2>1
    <2>3. KeyedNames \subseteq KeyedNames'
        BY <1>3, <2>1 DEF KeyedNames, Names
    <2>4. Jobs(KeyedNames) \subseteq Jobs(KeyedNames') /\ Answered(KeyedNames) \subseteq Answered(KeyedNames')
        BY <2>3, MoreKeys
    <2>5. workers' \in Seq(Jobs(KeyedNames')) /\ results' \in Seq(Answered(KeyedNames'))
        BY <2>1, <2>4, WiderSeq DEF SetupInv
    <2> QED BY <1>3, <2>1, <2>2, <2>3, <2>5, KeysGrow
<1> QED BY <1>1, <1>2, <1>3 DEF ManageKey

\* A worker ends: a validated key is stored before its result is seen.
LEMMA HelperKeeps == ASSUME SetupInv, HelperEnds PROVE SetupInv'
<1>1. PICK i \in DOMAIN workers, ok \in BOOLEAN, models \in SUBSET Advertised, some \in SUBSET Servers :
          LET w == workers[i]
              keyed == ok /\ w.kind = "validate" /\ w.context.key # ""
          IN  /\ state # Screen("closed")
              /\ w.kind # "discover" => models = {}
              /\ w.kind # "detect" => some = {}
              /\ w.kind # "validate" => ok
              /\ workers' = RemoveAt(workers, i)
              /\ results' = Append(results, [kind |-> w.kind, context |-> w.context, ok |-> ok,
                                             models |-> models, servers |-> some])
              /\ stored' = IF keyed THEN [stored EXCEPT ![w.context.name] = @ \cup {w.context.key}]
                           ELSE stored
              /\ UNCHANGED <<state, servers, found, configured, reload_target, saved, notified,
                             latest, removed>>
    BY DEF HelperEnds
<1>2. UNCHANGED <<state, found, configured, latest, removed>>
    BY DEF HelperEnds
<1>3. PICK w \in Jobs(KeyedNames) : w = workers[i]
    BY DEF SetupInv
<1>4. w.context \in Contexts /\ w.kind \in {"detect", "validate", "discover"}
    BY DEF Jobs
<1>5. PICK name, key : name = w.context.name /\ key = w.context.key /\ key \in KeyTexts
    BY <1>4, ContextIs
<1>6. \/ stored' = stored
      \/ stored' = [stored EXCEPT ![name] = @ \cup {key}]
    BY <1>1, <1>3, <1>5
<1>7. stored \in [Names \cup {"custom"} -> SUBSET KeyTexts]
    BY DEF SetupInv
<1>8. /\ stored' \in [Names \cup {"custom"} -> SUBSET KeyTexts]
      /\ \A n \in Names : stored[n] \subseteq stored'[n]
    BY <1>5, <1>6, <1>7
<1>9. KeyedNames \subseteq KeyedNames'
    BY <1>2, <1>8 DEF KeyedNames, Names
<1>10. ASSUME w.kind = "discover" \/ (w.kind = "validate" /\ ok)
       PROVE  w.context \in KeyedContexts(KeyedNames')
    <2>1. CASE w.kind = "discover"
        BY <1>9, <2>1, MoreKeys DEF Jobs
    <2>2. CASE w.kind = "validate" /\ ok /\ w.context.kind = "preset"
        <3>1. key # "" /\ name \in Presets
            BY <1>4, <1>5, <2>2, ContextIs DEF Jobs
        <3>2. stored' = [stored EXCEPT ![name] = @ \cup {key}]
            BY <1>1, <1>3, <1>5, <2>2, <3>1
        <3>3. stored'[name] # {}
            BY <1>7, <3>1, <3>2 DEF Names
        <3>4. name \in KeyedNames'
            BY <3>1, <3>3 DEF KeyedNames
        <3> QED BY <1>4, <1>5, <3>4 DEF KeyedContexts
    <2>3. CASE w.context.kind # "preset"
        BY <1>4, <2>3 DEF KeyedContexts
    <2> QED BY <1>10, <2>1, <2>2, <2>3
<1>11. PICK r : r = [kind |-> w.kind, context |-> w.context, ok |-> ok, models |-> models, servers |-> some]
    OBVIOUS
<1>12. r \in Answered(KeyedNames')
    BY <1>4, <1>10, <1>11 DEF Answered
<1>13. Jobs(KeyedNames) \subseteq Jobs(KeyedNames') /\ Answered(KeyedNames) \subseteq Answered(KeyedNames')
    BY <1>9, MoreKeys
<1>14. workers \in Seq(Jobs(KeyedNames')) /\ results \in Seq(Answered(KeyedNames'))
    BY <1>13, WiderSeq DEF SetupInv
<1>15. workers' = RemoveAt(workers, i) /\ results' = Append(results, r)
    BY <1>1, <1>3, <1>11
<1>16. workers' \in Seq(Jobs(KeyedNames'))
    BY <1>14, <1>15, Removed
<1>17. results' \in Seq(Answered(KeyedNames'))
    BY <1>12, <1>14, <1>15
<1> QED BY <1>2, <1>8, <1>9, <1>16, <1>17, KeysGrow

\* A discovery's models are shown, or a provider falls back.
LEMMA ArriveKeeps ==
    ASSUME SetupInv, NEW c \in KeyedContexts(KeyedNames), NEW models \in SUBSET Advertised,
           ModelsArrive(c, models)
    PROVE  /\ state' \in States(KeyedNames)
           /\ configured' \in Seq(Entries(KeyedNames)) /\ Marked(configured', latest')
<1>1. c \in Contexts
    BY DEF KeyedContexts
<1>2. CASE Go(ChoosingModel(c, models, FALSE)) /\ UNCHANGED <<configured, latest>>
    BY <1>2, NewScreens DEF Go, SetupInv
<1>3. CASE /\ state.at = "picking" /\ Go([state EXCEPT !.loading = FALSE])
           /\ UNCHANGED <<configured, latest>>
    <2>1. state \in Picks(KeyedNames)
        BY <1>3, ScreenIs DEF SetupInv
    <2>2. PICK next : next = [state EXCEPT !.loading = FALSE]
        OBVIOUS
    <2>3. next \in Picks(KeyedNames)
        BY <2>1, <2>2 DEF Picks
    <2>4. state' \in States(KeyedNames)
        BY <1>3, <2>2, <2>3 DEF Go, States
    <2> QED BY <1>3, <2>4 DEF SetupInv
<1>4. CASE Configure(c, FallbackModel(c)) /\ Go(Screen("success"))
    <2>1. FallbackModel(c) \in ModelIds
        BY <1>1, ContextIs DEF FallbackModel, ModelIds
    <2>2. state' \in States(KeyedNames)
        BY <1>4, NewScreens DEF Go
    <2> QED BY <1>4, <2>1, <2>2, Configures
<1>5. CASE Go(Problem(ReturnState(c))) /\ UNCHANGED <<configured, latest>>
    BY <1>1, <1>5, ReturnsBack, NewScreens DEF Go, SetupInv
<1> QED BY <1>2, <1>3, <1>4, <1>5 DEF ModelsArrive

\* A result is handled.
LEMMA TickKeeps == ASSUME SetupInv, OnboardingTick PROVE SetupInv'
<1>1. /\ results # <<>> /\ results' = Tail(results) /\ UNCHANGED <<stored, removed>>
      /\ results \in Seq(Answered(KeyedNames)) /\ workers \in Seq(Jobs(KeyedNames))
    BY DEF OnboardingTick, SetupInv
<1>2. KeyedNames' = KeyedNames
    BY <1>1, SameKeys
<1>3. results' \in Seq(Answered(KeyedNames))
    BY <1>1
<1>4. PICK r \in Answered(KeyedNames) : r = Head(results)
    BY <1>1
<1>5. /\ r.context \in Contexts /\ r.models \in SUBSET Advertised /\ r.servers \in SUBSET Servers
      /\ (r.kind = "discover" \/ (r.kind = "validate" /\ r.ok)) => r.context \in KeyedContexts(KeyedNames)
    BY DEF Answered
<1>6. CASE r.kind = "detect"
    <2>1. /\ found' = r.servers /\ UNCHANGED <<configured, latest, workers>>
          /\ Go(IF state # Screen("waiting") THEN state
                ELSE IF r.servers = {} THEN Screen("no_servers") ELSE Screen("servers"))
        BY <1>4, <1>6 DEF OnboardingTick
    <2>2. state' \in States(KeyedNames)
        BY <2>1, NewScreens DEF Go, SetupInv
    <2> QED BY <1>1, <1>2, <1>3, <1>5, <2>1, <2>2 DEF SetupInv
<1>7. CASE r.kind = "validate" /\ r.ok
    <2>1. /\ Go(Discovering(r.context)) /\ Start([kind |-> "discover", context |-> r.context])
          /\ UNCHANGED <<found, configured, latest>>
        BY <1>4, <1>7 DEF OnboardingTick
    <2>2. PICK job : job = [kind |-> "discover", context |-> r.context]
        OBVIOUS
    <2>3. job \in Jobs(KeyedNames)
        BY <1>5, <1>7, <2>2 DEF Jobs
    <2>4. workers' \in Seq(Jobs(KeyedNames))
        BY <1>1, <2>1, <2>2, <2>3 DEF Start
    <2>5. state' \in States(KeyedNames)
        BY <1>5, <2>1, NewScreens DEF Go
    <2> QED BY <1>1, <1>2, <1>3, <2>1, <2>4, <2>5 DEF SetupInv
<1>8. CASE r.kind = "validate" /\ ~r.ok
    <2>1. Go(Problem(ReturnState(r.context))) /\ UNCHANGED <<found, configured, latest, workers>>
        BY <1>4, <1>8 DEF OnboardingTick
    <2>2. state' \in States(KeyedNames)
        BY <1>5, <2>1, ReturnsBack, NewScreens DEF Go
    <2> QED BY <1>1, <1>2, <1>3, <2>1, <2>2 DEF SetupInv
<1>9. CASE r.kind = "discover"
    <2>1. ModelsArrive(r.context, r.models) /\ UNCHANGED <<found, workers>>
        BY <1>4, <1>9 DEF OnboardingTick
    <2>2. /\ state' \in States(KeyedNames)
          /\ configured' \in Seq(Entries(KeyedNames)) /\ Marked(configured', latest')
        BY <1>5, <1>9, <2>1, ArriveKeeps
    <2> QED BY <1>1, <1>2, <1>3, <2>1, <2>2 DEF SetupInv
<1> QED BY <1>4, <1>6, <1>7, <1>8, <1>9 DEF OnboardingTick

\* The screen closes.
LEMMA CloseKeeps == ASSUME SetupInv, Done \/ Cancelled PROVE SetupInv'
<1>1. /\ Go(Screen("closed"))
      /\ UNCHANGED <<found, configured, workers, results, stored, latest, removed>>
    BY DEF Done, Cancelled, NothingElse
<1>2. KeyedNames' = KeyedNames
    BY <1>1, SameKeys
<1>3. state' \in States(KeyedNames)
    BY <1>1, NewScreens DEF Go
<1> QED BY <1>1, <1>2, <1>3 DEF SetupInv

\* Every step keeps the invariant.
LEMMA SetupKeeps == SetupInv /\ [OnboardingNext]_onvars => SetupInv'
<1> SUFFICES ASSUME SetupInv, [OnboardingNext]_onvars PROVE SetupInv'
    OBVIOUS
<1>1. CASE UNCHANGED onvars
    <2>1. KeyedNames' = KeyedNames
        BY <1>1, SameKeys DEF onvars
    <2> QED BY <1>1, <2>1 DEF onvars, SetupInv
<1> QED BY <1>1, HelperKeeps, TickKeeps, MenuKeeps, ServerKeeps, ApiKeyKeeps, FormKeeps, ModelKeeps,
           BackKeeps, ManageKeeps, CloseKeeps DEF OnboardingNext

\* What the invariant says of the configured providers.
LEMMA SetupInvSound == SetupInv => SetupSound
<1> SUFFICES ASSUME SetupInv PROVE SetupSound
    OBVIOUS
<1>1. configured \in Seq(Entries(KeyedNames)) /\ Marked(configured, latest)
    BY DEF SetupInv
<1>2. DOMAIN configured = 1..Len(configured) /\ Len(configured) \in Nat
    BY <1>1
<1>3. ASSUME configured # <<>>
      PROVE  /\ WrittenDefault(configured) = latest
             /\ Cardinality({i \in DOMAIN configured : configured[i].default}) = 1
    <2>1. PICK d \in DOMAIN configured : IsDefault(configured, d, latest)
        BY <1>1, <1>3 DEF Marked
    <2>2. PICK marked : marked = {i \in DOMAIN configured : configured[i].default}
        OBVIOUS
    <2>3. marked = {d}
        BY <2>1, <2>2 DEF IsDefault
    <2>4. Cardinality(marked) = 1
        BY <2>3, FS_Singleton
    <2>5. d = (IF marked = {} THEN Len(configured) ELSE CHOOSE i \in marked : \A j \in marked : j <= i)
        <3>1. d <= d
            BY <1>2, <2>1
        <3> QED BY <2>3, <3>1
    <2>6. WrittenDefault(configured) = [name |-> configured[d].name, model |-> configured[d].model]
        BY <2>2, <2>5 DEF WrittenDefault
    <2> QED BY <2>1, <2>2, <2>4, <2>6 DEF IsDefault
<1>4. DefaultIsLatest
    BY <1>1, <1>3 DEF DefaultIsLatest, Marked, DistinctNames
<1>5. ConfiguredHasKey
    BY <1>1 DEF ConfiguredHasKey, Entries, KeyedNames
<1> QED BY <1>4, <1>5 DEF SetupSound

\* Onboarding: however keys and late results interleave, the providers configured have distinct
\* names and one default, the one finalized last, and a hosted one has a key that was stored.
THEOREM SetupHolds == OnboardingSpec => []SetupSound
<1>1. OnboardingInit => SetupInv
    BY SetupStart
<1>2. SetupInv /\ [OnboardingNext]_onvars => SetupInv'
    BY SetupKeeps
<1>3. SetupInv => SetupSound
    BY SetupInvSound
<1> QED BY <1>1, <1>2, <1>3, PTL DEF OnboardingSpec

-----------------------------------------------------------------------------
(***************************************************************************)
(* AfterEvents: what the TUI makes of a sequence of events.                *)
(***************************************************************************)
UiStates == {"Idle", "Streaming", "ToolExecuting", "Compacting"}

\* agent_state after each of the first m events of a batch.
IsShowing(f, seen, batch, m) ==
    f = [n \in 0..m |-> IF n = 0 THEN seen ELSE AfterEvent(f[n - 1], batch[n])]

LEMMA ShowingAt ==
    ASSUME NEW seen, NEW batch, NEW m \in Nat, NEW f, IsShowing(f, seen, batch, m)
    PROVE  f[0] = seen /\ \A n \in 1..m : f[n] = AfterEvent(f[n - 1], batch[n])
<1>1. 0 \in 0..m /\ \A n \in 1..m : n \in 0..m /\ n # 0
    OBVIOUS
<1> QED BY <1>1 DEF IsShowing

LEMMA ShowingExists ==
    ASSUME NEW seen, NEW batch, NEW m \in Nat
    PROVE  \E f : IsShowing(f, seen, batch, m)
<1> DEFINE P == {n \in Nat : \E f : IsShowing(f, seen, batch, n)}
<1>1. 0 \in P
    <2>1. IsShowing([n \in 0..0 |-> seen], seen, batch, 0)
        BY DEF IsShowing
    <2> QED BY <2>1
<1>2. ASSUME NEW k \in Nat, k \in P PROVE k + 1 \in P
    <2>1. PICK f : IsShowing(f, seen, batch, k)
        BY <1>2
    <2> DEFINE last == AfterEvent(f[k], batch[k + 1])
               g == [n \in 0..k + 1 |-> IF n = k + 1 THEN last ELSE f[n]]
    <2>2. g[k + 1] = last /\ (\A n \in 0..k : g[n] = f[n]) /\ g = [n \in 0..k + 1 |-> g[n]]
        OBVIOUS
    <2> HIDE DEF g
    <2>3. ASSUME NEW n \in 0..k + 1
          PROVE  g[n] = IF n = 0 THEN seen ELSE AfterEvent(g[n - 1], batch[n])
        <3>1. CASE n = 0
            <4>1. f[0] = seen
                BY <2>1, ShowingAt
            <4>2. 0 \in 0..k
                OBVIOUS
            <4>3. g[0] = f[0]
                BY <2>2, <4>2
            <4> QED BY <3>1, <4>1, <4>3
        <3>2. CASE n = k + 1
            <4>1. n # 0 /\ n - 1 = k /\ k \in 0..k
                BY <3>2
            <4>2. g[n - 1] = f[k]
                BY <2>2, <4>1
            <4> QED BY <2>2, <3>2, <4>1, <4>2
        <3>3. CASE n \in 1..k
            <4>1. n # 0 /\ n - 1 \in 0..k /\ n \in 0..k
                BY <3>3
            <4>2. g[n] = f[n] /\ g[n - 1] = f[n - 1]
                BY <2>2, <4>1
            <4>3. f[n] = AfterEvent(f[n - 1], batch[n])
                BY <2>1, <3>3, ShowingAt
            <4> QED BY <4>1, <4>2, <4>3
        <3> QED BY <3>1, <3>2, <3>3
    <2>4. IsShowing(g, seen, batch, k + 1)
        BY <2>2, <2>3 DEF IsShowing
    <2> QED BY <2>4
<1> HIDE DEF P
<1>3. Nat \subseteq P
    BY <1>1, <1>2, Induction
<1> QED BY <1>3 DEF P

LEMMA ShownIs ==
    ASSUME NEW S, NEW seen, NEW batch \in Seq(S)
    PROVE  \E f : IsShowing(f, seen, batch, Len(batch)) /\ AfterEvents(seen, batch) = f[Len(batch)]
<1>1. Len(batch) \in Nat
    OBVIOUS
<1>2. \E f : IsShowing(f, seen, batch, Len(batch))
    BY <1>1, ShowingExists
<1> QED BY <1>2 DEF AfterEvents, IsShowing

LEMMA NothingShown ==
    ASSUME NEW seen PROVE AfterEvents(seen, <<>>) = seen
<1>0. PICK none : none = <<>>
    OBVIOUS
<1>1. none \in Seq({}) /\ Len(none) \in Nat
    BY <1>0
<1>4. Len(none) = 0
    BY <1>0
<1>2. PICK f : IsShowing(f, seen, none, Len(none)) /\ AfterEvents(seen, none) = f[Len(none)]
    BY <1>1, ShownIs
<1>3. f[0] = seen
    BY <1>1, <1>2, ShowingAt
<1> QED BY <1>0, <1>2, <1>3, <1>4

\* What is shown up to an event depends on the events up to it.
LEMMA ShowingAgrees ==
    ASSUME NEW seen, NEW s, NEW t, NEW m \in Nat, \A i \in 1..m : s[i] = t[i],
           NEW f, IsShowing(f, seen, s, m), NEW g, IsShowing(g, seen, t, m + 1)
    PROVE  f[m] = g[m]
<1> DEFINE P == {n \in Nat : n <= m => f[n] = g[n]}
<1>1. f[0] = seen /\ \A n \in 1..m : f[n] = AfterEvent(f[n - 1], s[n])
    BY ShowingAt
<1>2. g[0] = seen /\ \A n \in 1..m + 1 : g[n] = AfterEvent(g[n - 1], t[n])
    <2>1. PICK n \in Nat : n = m + 1
        OBVIOUS
    <2>2. IsShowing(g, seen, t, n)
        BY <2>1
    <2>3. g[0] = seen /\ \A i \in 1..n : g[i] = AfterEvent(g[i - 1], t[i])
        BY <2>2, ShowingAt
    <2> QED BY <2>1, <2>3
<1>3. 0 \in P
    BY <1>1, <1>2
<1>4. ASSUME NEW n \in Nat, n \in P PROVE n + 1 \in P
    <2> SUFFICES ASSUME n + 1 <= m PROVE f[n + 1] = g[n + 1]
        OBVIOUS
    <2>1. f[n] = g[n] /\ (n + 1) - 1 = n /\ n + 1 \in 1..m /\ n + 1 \in 1..m + 1
        BY <1>4
    <2>2. f[n + 1] = AfterEvent(f[n], s[n + 1])
        BY <1>1, <2>1
    <2>3. g[n + 1] = AfterEvent(g[n], t[n + 1])
        BY <1>2, <2>1
    <2>4. s[n + 1] = t[n + 1]
        BY <2>1
    <2> QED BY <2>1, <2>2, <2>3, <2>4
<1> HIDE DEF P
<1>5. Nat \subseteq P
    BY <1>3, <1>4, Induction
<1> QED BY <1>5 DEF P

\* One more event.
LEMMA ShownAppend ==
    ASSUME NEW S, NEW seen, NEW batch \in Seq(S), NEW event \in S
    PROVE  AfterEvents(seen, Append(batch, event)) = AfterEvent(AfterEvents(seen, batch), event)
<1> DEFINE m == Len(batch)
           t == Append(batch, event)
<1>1. /\ m \in Nat /\ t \in Seq(S) /\ Len(t) = m + 1 /\ t[m + 1] = event
      /\ \A i \in 1..m : batch[i] = t[i]
    OBVIOUS
<1>2. PICK f : IsShowing(f, seen, batch, m) /\ AfterEvents(seen, batch) = f[m]
    BY ShownIs
<1>3. PICK g : IsShowing(g, seen, t, m + 1) /\ AfterEvents(seen, t) = g[m + 1]
    BY <1>1, ShownIs
<1> HIDE DEF m, t
<1>4. f[m] = g[m]
    BY <1>1, <1>2, <1>3, ShowingAgrees
<1>5. g[m + 1] = AfterEvent(g[(m + 1) - 1], t[m + 1])
    <2>1. PICK n \in Nat : n = m + 1 /\ n \in 1..n
        BY <1>1
    <2>2. IsShowing(g, seen, t, n)
        BY <1>3, <2>1
    <2>3. g[n] = AfterEvent(g[n - 1], t[n])
        BY <2>1, <2>2, ShowingAt
    <2> QED BY <2>1, <2>3
<1>6. (m + 1) - 1 = m
    BY <1>1
<1> QED BY <1>1, <1>2, <1>3, <1>4, <1>5, <1>6 DEF t

\* A set of sequences that has the empty one, and every other with its front, has all.
LEMMA SequencesByFront ==
    ASSUME NEW S, NEW Good, <<>> \in Good,
           \A s \in Seq(S) : \A x \in S : s \in Good => Append(s, x) \in Good
    PROVE  Seq(S) \subseteq Good
<1> DEFINE P == {n \in Nat : \A s \in Seq(S) : Len(s) = n => s \in Good}
<1>1. 0 \in P
    <2>1. \A s \in Seq(S) : Len(s) = 0 => s = <<>>
        OBVIOUS
    <2> QED BY <2>1
<1>2. ASSUME NEW n \in Nat, n \in P PROVE n + 1 \in P
    <2> SUFFICES ASSUME NEW s \in Seq(S), Len(s) = n + 1 PROVE s \in Good
        OBVIOUS
    <2>1. s # <<>>
        OBVIOUS
    <2>2. PICK r \in Seq(S), x \in S : s = Append(r, x)
        BY <2>1, SequenceEmptyOrAppend
    <2>3. Len(s) = Len(r) + 1 /\ Len(r) \in Nat
        BY <2>2
    <2>4. r \in Good
        BY <1>2, <2>3
    <2> QED BY <2>2, <2>4
<1> HIDE DEF P
<1>3. Nat \subseteq P
    BY <1>1, <1>2, Induction
<1>4. \A s \in Seq(S) : Len(s) \in Nat
    OBVIOUS
<1> QED BY <1>3, <1>4 DEF P

\* Two batches one after the other are one batch.
LEMMA ShownJoined ==
    ASSUME NEW S, NEW seen, NEW b \in Seq(S), NEW c \in Seq(S)
    PROVE  AfterEvents(seen, b \o c) = AfterEvents(AfterEvents(seen, b), c)
<1> DEFINE Good == {d \in Seq(S) : AfterEvents(seen, b \o d) = AfterEvents(AfterEvents(seen, b), d)}
<1>1. <<>> \in Good
    <2>1. b \o <<>> = b /\ <<>> \in Seq(S)
        BY ConcatEmptySeq
    <2> QED BY <2>1, NothingShown
<1>2. ASSUME NEW d \in Seq(S), NEW x \in S, d \in Good PROVE Append(d, x) \in Good
    <2>1. Append(d, x) = d \o <<x>> /\ <<x>> \in Seq(S) /\ Append(d, x) \in Seq(S)
        BY AppendIsConcat
    <2>2. (b \o d) \o <<x>> = b \o (d \o <<x>>)
        BY <2>1, ConcatAssociative
    <2>3. b \o d \in Seq(S)
        BY ConcatProperties
    <2>4. Append(b \o d, x) = (b \o d) \o <<x>>
        <3>1. \A u \in Seq(S) : Append(u, x) = u \o <<x>>
            BY AppendIsConcat
        <3> QED BY <2>3, <3>1
    <2>5. AfterEvents(seen, Append(b \o d, x)) = AfterEvent(AfterEvents(seen, b \o d), x)
        <3>1. \A u \in Seq(S) : AfterEvents(seen, Append(u, x)) = AfterEvent(AfterEvents(seen, u), x)
            BY ShownAppend
        <3> QED BY <2>3, <3>1
    <2>6. AfterEvents(AfterEvents(seen, b), Append(d, x))
              = AfterEvent(AfterEvents(AfterEvents(seen, b), d), x)
        BY ShownAppend
    <2> QED BY <1>2, <2>1, <2>2, <2>4, <2>5, <2>6
<1> HIDE DEF Good
<1>3. Seq(S) \subseteq Good
    BY <1>1, <1>2, SequencesByFront
<1> QED BY <1>3 DEF Good

\* agent_state stays one of the four.
LEMMA ShownTyped ==
    ASSUME NEW seen \in UiStates, NEW S, NEW batch \in Seq(S)
    PROVE  AfterEvents(seen, batch) \in UiStates
<1> DEFINE Good == {d \in Seq(S) : AfterEvents(seen, d) \in UiStates}
<1>1. <<>> \in Good
    BY NothingShown
<1>2. ASSUME NEW d \in Seq(S), NEW x \in S, d \in Good PROVE Append(d, x) \in Good
    <2>1. AfterEvents(seen, Append(d, x)) = AfterEvent(AfterEvents(seen, d), x)
        BY ShownAppend
    <2>2. AfterEvents(seen, d) \in UiStates
        BY <1>2
    <2>3. AfterEvent(AfterEvents(seen, d), x) \in UiStates
        BY <2>2 DEF AfterEvent, UiStates
    <2> QED BY <2>1, <2>3
<1> HIDE DEF Good
<1>3. Seq(S) \subseteq Good
    BY <1>1, <1>2, SequencesByFront
<1> QED BY <1>3 DEF Good

\* Events of no interest change nothing.
LEMMA OtherShown ==
    ASSUME NEW seen \in UiStates, NEW batch \in Seq({"Other"})
    PROVE  AfterEvents(seen, batch) = seen
<1> DEFINE Good == {d \in Seq({"Other"}) : AfterEvents(seen, d) = seen}
<1>1. <<>> \in Good
    BY NothingShown
<1>2. ASSUME NEW d \in Seq({"Other"}), NEW x \in {"Other"}, d \in Good PROVE Append(d, x) \in Good
    <2>1. AfterEvents(seen, Append(d, x)) = AfterEvent(AfterEvents(seen, d), x)
        BY ShownAppend
    <2>2. AfterEvents(seen, d) = seen /\ x = "Other"
        BY <1>2
    <2>3. AfterEvent(seen, "Other") = seen
        BY DEF AfterEvent
    <2> QED BY <2>1, <2>2, <2>3
<1> HIDE DEF Good
<1>3. Seq({"Other"}) \subseteq Good
    BY <1>1, <1>2, SequencesByFront
<1> QED BY <1>3 DEF Good

LEMMA TwoInRow ==
    ASSUME NEW S, NEW a \in S, NEW b \in S PROVE Append(<<a>>, b) = <<a, b>>
<1> DEFINE s == Append(<<a>>, b)
           t == <<a, b>>
<1>1. s \in Seq(S) /\ Len(s) = 2 /\ s[1] = a /\ s[2] = b
    OBVIOUS
<1>2. t \in Seq(S) /\ Len(t) = 2 /\ t[1] = a /\ t[2] = b
    OBVIOUS
<1> HIDE DEF s, t
<1>3. \A i \in 1..Len(s) : i = 1 \/ i = 2
    BY <1>1
<1>4. s = t
    BY <1>1, <1>2, <1>3, SeqEqual
<1> QED BY <1>4 DEF s, t

LEMMA ThreeInRow ==
    ASSUME NEW S, NEW a \in S, NEW b \in S, NEW c \in S
    PROVE  Append(<<a, b>>, c) = <<a, b, c>>
<1> DEFINE s == Append(<<a, b>>, c)
           t == <<a, b, c>>
<1>1. s \in Seq(S) /\ Len(s) = 3 /\ s[1] = a /\ s[2] = b /\ s[3] = c
    OBVIOUS
<1>2. t \in Seq(S) /\ Len(t) = 3 /\ t[1] = a /\ t[2] = b /\ t[3] = c
    OBVIOUS
<1> HIDE DEF s, t
<1>3. \A i \in 1..Len(s) : i = 1 \/ i = 2 \/ i = 3
    BY <1>1
<1>4. s = t
    BY <1>1, <1>2, <1>3, SeqEqual
<1> QED BY <1>4 DEF s, t

\* One event.
LEMMA OneShown ==
    ASSUME NEW seen, NEW S, NEW event \in S
    PROVE  AfterEvents(seen, <<event>>) = AfterEvent(seen, event)
<1>0. PICK none : none = <<>>
    OBVIOUS
<1>1. none \in Seq(S)
    BY <1>0
<1>2. AfterEvents(seen, Append(none, event)) = AfterEvent(AfterEvents(seen, none), event)
    BY <1>1, ShownAppend
<1>3. Append(none, event) = <<event>>
    BY <1>0
<1>4. AfterEvents(seen, none) = seen
    BY <1>0, NothingShown
<1> QED BY <1>2, <1>3, <1>4

\* The seen of the last event that matters.
LEMMA BatchShown ==
    ASSUME NEW seen \in UiStates
    PROVE  /\ AfterEvents(seen, <<"AgentStart">>) = "Streaming"
           /\ AfterEvents(seen, <<"Other", "ToolExecStart">>) = "ToolExecuting"
           /\ AfterEvents(seen, <<"Other", "Other", "AgentEnd">>) = "Idle"
           /\ AfterEvents(seen, <<"ToolExecEnd", "Other", "AgentEnd">>) = "Idle"
           /\ AfterEvents(seen, <<"ToolExecEnd", "Other">>) = "Streaming"
<1>1. ASSUME NEW a \in Events PROVE AfterEvents(seen, <<a>>) = AfterEvent(seen, a)
    BY OneShown
<1>2. ASSUME NEW a \in Events, NEW b \in Events
      PROVE  AfterEvents(seen, <<a, b>>) = AfterEvent(AfterEvent(seen, a), b)
    <2>0. PICK s : s = <<a>>
        OBVIOUS
    <2>1. s \in Seq(Events)
        BY <2>0
    <2>2. AfterEvents(seen, Append(s, b)) = AfterEvent(AfterEvents(seen, s), b)
        BY <2>1, ShownAppend
    <2>3. Append(s, b) = <<a, b>>
        BY <2>0, TwoInRow
    <2> QED BY <1>1, <2>0, <2>2, <2>3
<1>3. ASSUME NEW a \in Events, NEW b \in Events, NEW c \in Events
      PROVE  AfterEvents(seen, <<a, b, c>>) = AfterEvent(AfterEvent(AfterEvent(seen, a), b), c)
    <2>0. PICK s : s = <<a, b>>
        OBVIOUS
    <2>1. s \in Seq(Events)
        BY <2>0
    <2>2. AfterEvents(seen, Append(s, c)) = AfterEvent(AfterEvents(seen, s), c)
        BY <2>1, ShownAppend
    <2>3. Append(s, c) = <<a, b, c>>
        BY <2>0, ThreeInRow
    <2> QED BY <1>2, <2>0, <2>2, <2>3
<1>4. {"AgentStart", "ToolExecStart", "ToolExecEnd", "Other", "AgentEnd"} \subseteq Events
    BY DEF Events
<1>5. AfterEvents(seen, <<"AgentStart">>) = AfterEvent(seen, "AgentStart")
    BY <1>1, <1>4
<1>6. AfterEvents(seen, <<"Other", "ToolExecStart">>)
          = AfterEvent(AfterEvent(seen, "Other"), "ToolExecStart")
    BY <1>2, <1>4
<1>7. AfterEvents(seen, <<"Other", "Other", "AgentEnd">>)
          = AfterEvent(AfterEvent(AfterEvent(seen, "Other"), "Other"), "AgentEnd")
    BY <1>3, <1>4
<1>8. AfterEvents(seen, <<"ToolExecEnd", "Other", "AgentEnd">>)
          = AfterEvent(AfterEvent(AfterEvent(seen, "ToolExecEnd"), "Other"), "AgentEnd")
    BY <1>3, <1>4
<1>9. AfterEvents(seen, <<"ToolExecEnd", "Other">>)
          = AfterEvent(AfterEvent(seen, "ToolExecEnd"), "Other")
    BY <1>2, <1>4
<1> QED BY <1>5, <1>6, <1>7, <1>8, <1>9 DEF AfterEvent

-----------------------------------------------------------------------------
(***************************************************************************)
(* What the TUI will show once the events under way have arrived.          *)
(***************************************************************************)
Delivered == AfterEvents(agent_state, events)
Pending == IF run = "none" THEN outbox ELSE run_out
Told == AfterEvents(Delivered, Pending)

\* Who may still send what.
SendersInv ==
    /\ run \in {"none", "finished"} => run_out = <<>>
    /\ run # "none" => ~starting /\ outbox \in Seq({"Other"})
    /\ retry_armed => run = "none" /\ ~starting

\* Every queued prompt and every action under way was a key, but for SIGTERM's Quit.
KeysInv ==
    /\ keys \in 0..MaxKeys
    /\ \/ queued_prompts + Len(actions) <= keys
       \/ /\ queued_prompts + Len(actions) <= keys + 1
          /\ signalled /\ Contains(actions, "Quit")

\* The TUI will have been told what the run is at.
IdleTold == \/ run = "none" /\ ~starting /\ ~recovery_failed
            \/ run \in {"ending", "finished"}
StreamTold == run = "gate" \/ (run = "model" /\ ~compacted)
ToldInv ==
    /\ IdleTold => Told = "Idle"
    /\ run = "tool" => Told = "ToolExecuting"
    /\ StreamTold => Told = "Streaming"
    /\ run = "compacting" => compacted

KeysFollowInv == TypeOK /\ SendersInv /\ KeysInv /\ ToldInv

Actions == {"SubmitPrompt", "QueuePrompt", "AbortAndQueuePrompt", "Abort", "Quit"}

LEMMA KeysFollowInit == Init => KeysFollowInv
<1> SUFFICES ASSUME Init PROVE KeysFollowInv
    OBVIOUS
<1>1. MaxKeys \in Nat /\ EventCapacity \in Nat \ {0}
    BY InteractiveAssumption
<1>2. TypeOK
    <2>1. PICK q : q = <<"Other", "Other">>
        OBVIOUS
    <2>2. q \in Seq(Events)
        BY <2>1 DEF Events
    <2>3. outbox \in Seq(Events)
        BY <2>1, <2>2 DEF Init
    <2>4. actions = <<>> /\ events = <<>> /\ run_out = <<>> /\ Len(events) = 0
        BY DEF Init
    <2>5. /\ actions \in Seq({"SubmitPrompt", "QueuePrompt", "AbortAndQueuePrompt",
                               "Abort", "Quit"})
          /\ events \in Seq(Events) /\ run_out \in Seq(Events)
          /\ Len(events) <= EventCapacity
        BY <1>1, <2>4
    <2>6. /\ {last_ctrl_c, quitting, starting, retry_armed, cancelled, signalled,
               compacted, recovery_failed} \subseteq BOOLEAN
          /\ tui = "looping" /\ agent_state = "Idle"
          /\ controller = "looping" /\ run = "none"
        BY DEF Init
    <2>7. queued_prompts \in 0..MaxKeys
        <3>1. queued_prompts = 0
            BY DEF Init
        <3> QED BY <1>1, <3>1
    <2> QED BY <2>3, <2>5, <2>6, <2>7 DEF TypeOK
<1>3. SendersInv
    BY DEF Init, SendersInv
<1>4. KeysInv
    BY <1>1 DEF Init, KeysInv
<1>5. Told = "Idle"
    <2>1. Delivered = "Idle"
        BY NothingShown DEF Delivered, Init
    <2>2. Pending = outbox /\ outbox \in Seq({"Other"})
        BY DEF Pending, Init
    <2>3. AfterEvents("Idle", outbox) = "Idle"
        BY <2>2, OtherShown DEF UiStates
    <2> QED BY <2>1, <2>2, <2>3 DEF Told
<1>6. ToldInv
    BY <1>5 DEF ToldInv, Init, IdleTold, StreamTold
<1> QED BY <1>2, <1>3, <1>4, <1>6 DEF KeysFollowInv

-----------------------------------------------------------------------------
(* The types. *)
LEMMA EventAppended ==
    ASSUME NEW q \in Seq(Events), NEW e \in Events
    PROVE  Append(q, e) \in Seq(Events) /\ Len(Append(q, e)) = Len(q) + 1
OBVIOUS

\* What a sender has left, and what it has sent.
LEMMA OneSent ==
    ASSUME NEW q \in Seq(Events), q # <<>>, NEW e \in Seq(Events), Len(e) < EventCapacity
    PROVE  /\ Head(q) \in Events /\ Tail(q) \in Seq(Events)
           /\ Append(e, Head(q)) \in Seq(Events) /\ Len(Append(e, Head(q))) <= EventCapacity
<1>1. EventCapacity \in Nat
    BY InteractiveAssumption
<1>2. Head(q) \in Events /\ Tail(q) \in Seq(Events)
    OBVIOUS
<1>3. Append(e, Head(q)) \in Seq(Events) /\ Len(Append(e, Head(q))) = Len(e) + 1
    BY <1>2, EventAppended
<1>4. Len(e) \in Nat
    OBVIOUS
<1> QED BY <1>1, <1>2, <1>3, <1>4

\* What a compaction sends; what a handler sends.
LEMMA SentTyped ==
    /\ PromptEvents \subseteq Seq(Events)
    /\ <<"Other">> \in Seq({"Other"}) /\ <<>> \in Seq({"Other"})
    /\ Seq({"Other"}) \subseteq Seq(Events)
<1>1. {"Other", "CompactionStart", "CompactionEnd"} \subseteq Events
    BY DEF Events
<1>2. \A q \in Seq({"Other"}) : q \in Seq(Events)
    BY <1>1
<1> QED BY <1>1, <1>2 DEF PromptEvents

LEMMA SentJoined ==
    ASSUME NEW a \in Seq(Events), NEW b \in Seq(Events) PROVE a \o b \in Seq(Events)
BY ConcatProperties

\* The two ways a batch divides the channel.
Batch(n) == SubSeq(events, 1, n)
Rest(n) == SubSeq(events, n + 1, Len(events))
LEMMA BatchTaken ==
    ASSUME NEW n \in 0..Len(events), events \in Seq(Events)
    PROVE  /\ Batch(n) \in Seq(Events) /\ Rest(n) \in Seq(Events)
           /\ Len(Rest(n)) <= Len(events)
           /\ Batch(n) \o Rest(n) = events
<1>1. Len(events) \in Nat /\ n \in Nat
    OBVIOUS
<1>2. \A i \in 1..n : events[i] \in Events
    BY <1>1
<1>3. \A i \in n + 1..Len(events) : events[i] \in Events
    BY <1>1
<1>4. Batch(n) \in Seq(Events)
    BY <1>1, <1>2, SubSeqProperties DEF Batch
<1>5. PICK k : k = n + 1
    OBVIOUS
<1>6. k \in Int /\ Len(events) \in Int /\ \A i \in k..Len(events) : events[i] \in Events
    BY <1>1, <1>3, <1>5
<1>7. /\ SubSeq(events, k, Len(events)) \in Seq(Events)
      /\ Len(SubSeq(events, k, Len(events))) = IF k <= Len(events) THEN Len(events) - k + 1 ELSE 0
    BY <1>6, SubSeqProperties
<1>8. Rest(n) \in Seq(Events) /\ Len(Rest(n)) <= Len(events)
    BY <1>1, <1>5, <1>7 DEF Rest
<1>9. SubSeq(events, 1, n) \o SubSeq(events, n + 1, Len(events)) = SubSeq(events, 1, Len(events))
    <2>1. 1 \in 1..Len(events) + 1 /\ n \in 1 - 1..Len(events) /\ Len(events) \in n..Len(events)
        BY <1>1
    <2> QED BY <2>1, ConcatAdjacentSubSeq
<1>10. SubSeq(events, 1, Len(events)) = events
    BY SubSeqFull
<1> QED BY <1>4, <1>8, <1>9, <1>10 DEF Batch, Rest

\* How many events are taken.
BatchSize == IF Len(events) < MaxBatch THEN Len(events) ELSE MaxBatch
LEMMA BatchSizeTyped ==
    ASSUME events \in Seq(Events) PROVE BatchSize \in 0..Len(events)
<1>1. MaxBatch \in Nat /\ Len(events) \in Nat
    BY InteractiveAssumption
<1> QED BY <1>1 DEF BatchSize

\* DrainEvents, with its parts named.
LEMMA DrainIs ==
    ASSUME DrainEvents
    PROVE  /\ events' = Rest(BatchSize)
           /\ agent_state' = AfterEvents(agent_state, Batch(BatchSize))
           /\ last_ctrl_c' \in BOOLEAN \/ last_ctrl_c \notin BOOLEAN
           /\ UNCHANGED <<tui, keys, signalled, actions, ctlVars, runVars>>
BY DEF DrainEvents, Batch, Rest, BatchSize

-----------------------------------------------------------------------------
(* The steps. *)
LEMMA ToldTyped ==
    ASSUME KeysFollowInv
    PROVE  /\ agent_state \in UiStates /\ events \in Seq(Events) /\ Pending \in Seq(Events)
           /\ Delivered \in UiStates /\ Told \in UiStates
<1>1. agent_state \in UiStates /\ events \in Seq(Events) /\ Pending \in Seq(Events)
    BY DEF KeysFollowInv, TypeOK, UiStates, Pending
<1>2. Delivered \in UiStates
    BY <1>1, ShownTyped DEF Delivered
<1> QED BY <1>1, <1>2, ShownTyped DEF Told

\* With nothing left to send, the TUI will show what has been delivered.
LEMMA NothingPending ==
    ASSUME Pending = <<>> PROVE Told = Delivered
BY NothingShown DEF Told

LEMMA ToldFrame ==
    ASSUME UNCHANGED <<agent_state, events>>, Pending' = Pending
    PROVE  Told' = Told
BY DEF Told, Delivered

LEMMA DeliveredFrame ==
    ASSUME UNCHANGED <<agent_state, events>>
    PROVE  Delivered' = Delivered /\ Told' = AfterEvents(Delivered, Pending')
BY DEF Told, Delivered

\* What is told stays, and with it the invariant, while the run does not move.
LEMMA ToldKept ==
    ASSUME ToldInv, Told' = Told,
           UNCHANGED <<run, starting, recovery_failed, compacted>>
    PROVE  ToldInv'
BY DEF ToldInv, IdleTold, StreamTold

\* An action on its way.
LEMMA ActionAppended ==
    ASSUME NEW q \in Seq(Actions), NEW a \in Actions
    PROVE  /\ Append(q, a) \in Seq(Actions) /\ Len(Append(q, a)) = Len(q) + 1
           /\ Len(q) \in Nat
           /\ Contains(q, "Quit") \/ a = "Quit" => Contains(Append(q, a), "Quit")
<1>1. /\ Append(q, a) \in Seq(Actions) /\ Len(Append(q, a)) = Len(q) + 1 /\ Len(q) \in Nat
      /\ \A i \in 1..Len(q) : Append(q, a)[i] = q[i]
      /\ Append(q, a)[Len(q) + 1] = a
    OBVIOUS
<1>2. 1..Len(q) \subseteq 1..Len(q) + 1 /\ Len(q) + 1 \in 1..Len(q) + 1
    BY <1>1
<1> QED BY <1>1, <1>2 DEF Contains

LEMMA ActionTaken ==
    ASSUME NEW q \in Seq(Actions), q # <<>>
    PROVE  /\ Head(q) \in Actions /\ Tail(q) \in Seq(Actions)
           /\ Len(Tail(q)) = Len(q) - 1 /\ Len(q) \in Nat /\ Len(Tail(q)) \in Nat
           /\ Contains(q, "Quit") /\ Head(q) # "Quit"
                 => Contains(Tail(q), "Quit") /\ Len(Tail(q)) >= 1
<1>1. /\ Head(q) \in Actions /\ Tail(q) \in Seq(Actions) /\ Head(q) = q[1]
      /\ Len(Tail(q)) = Len(q) - 1 /\ Len(q) \in Nat /\ Len(Tail(q)) \in Nat
      /\ \A i \in 1..Len(Tail(q)) : Tail(q)[i] = q[i + 1]
    BY HeadTailProperties
<1>2. ASSUME Contains(q, "Quit"), Head(q) # "Quit"
      PROVE  Contains(Tail(q), "Quit") /\ Len(Tail(q)) >= 1
    <2>1. PICK i \in 1..Len(q) : q[i] = "Quit"
        BY <1>2 DEF Contains
    <2>2. i - 1 \in 1..Len(Tail(q)) /\ Tail(q)[i - 1] = "Quit"
        BY <1>1, <1>2, <2>1
    <2> QED BY <1>1, <2>2 DEF Contains
<1> QED BY <1>1, <1>2

LEMMA ActionsTyped == KeysFollowInv => actions \in Seq(Actions)
BY DEF KeysFollowInv, TypeOK, Actions

\* A key, and its action.
LEMMA KeyPressed ==
    ASSUME KeysFollowInv, NEW action \in Actions, Key(action),
           tui' \in {"looping", "left"}, last_ctrl_c' \in BOOLEAN
    PROVE  KeysFollowInv'
<1>1. actions \in Seq(Actions) /\ actions' \in Seq(Actions)
    BY ActionsTyped, ActionAppended DEF Key
<1>2. TypeOK'
    BY <1>1 DEF KeysFollowInv, TypeOK, Key, Actions, ctlVars, runVars, recovering, progress
<1>3. SendersInv'
    BY DEF KeysFollowInv, SendersInv, Key, ctlVars, runVars
<1>4. KeysInv'
    <2>1. queued_prompts \in Nat /\ keys \in 0..MaxKeys /\ MaxKeys \in Nat
          /\ queued_prompts' = queued_prompts /\ keys' = keys + 1 /\ keys < MaxKeys
          /\ signalled' = signalled
        BY InteractiveAssumption DEF KeysFollowInv, TypeOK, KeysInv, Key, ctlVars
    <2>2. CASE actions' = actions
        <3>1. Len(actions) \in Nat
            BY <1>1
        <3> QED BY <2>1, <2>2, <3>1 DEF KeysFollowInv, KeysInv
    <2>3. CASE actions' = Append(actions, action)
        <3>1. /\ Len(actions') = Len(actions) + 1 /\ Len(actions) \in Nat
              /\ Contains(actions, "Quit") => Contains(actions', "Quit")
            BY <1>1, <2>3, ActionAppended
        <3> QED BY <2>1, <3>1 DEF KeysFollowInv, KeysInv
    <2> QED BY <2>2, <2>3 DEF Key
<1>5. ToldInv'
    <2>1. Told' = Told
        BY ToldFrame DEF Key, Pending, ctlVars, runVars
    <2> QED BY <2>1, ToldKept DEF KeysFollowInv, Key, ctlVars, runVars, recovering, progress
<1> QED BY <1>2, <1>3, <1>4, <1>5 DEF KeysFollowInv

LEMMA SigtermStep == ASSUME KeysFollowInv, Sigterm PROVE KeysFollowInv'
<1>1. actions \in Seq(Actions) /\ actions' \in Seq(Actions)
    BY ActionsTyped, ActionAppended DEF Sigterm, Actions
<1>2. TypeOK'
    BY <1>1 DEF KeysFollowInv, TypeOK, Sigterm, Actions, ctlVars, runVars, recovering, progress
<1>3. SendersInv'
    BY DEF KeysFollowInv, SendersInv, Sigterm, ctlVars, runVars
<1>4. KeysInv'
    <2>1. /\ queued_prompts \in Nat /\ keys \in 0..MaxKeys
          /\ queued_prompts' = queued_prompts /\ keys' = keys /\ ~signalled /\ signalled'
        BY InteractiveAssumption DEF KeysFollowInv, TypeOK, KeysInv, Sigterm, ctlVars
    <2>2. queued_prompts + Len(actions) <= keys
        BY <2>1 DEF KeysFollowInv, KeysInv
    <2>3. CASE actions' = actions
        BY <2>1, <2>2, <2>3 DEF KeysInv
    <2>4. CASE actions' = Append(actions, "Quit")
        <3>1. /\ Len(actions') = Len(actions) + 1 /\ Len(actions) \in Nat
              /\ Contains(actions', "Quit")
            BY <1>1, <2>4, ActionAppended DEF Actions
        <3> QED BY <2>1, <2>2, <3>1 DEF KeysInv
    <2> QED BY <2>3, <2>4 DEF Sigterm
<1>5. ToldInv'
    <2>1. Told' = Told
        BY ToldFrame DEF Sigterm, Pending, ctlVars, runVars
    <2> QED BY <2>1, ToldKept DEF KeysFollowInv, Sigterm, ctlVars, runVars, recovering, progress
<1> QED BY <1>2, <1>3, <1>4, <1>5 DEF KeysFollowInv

LEMMA UserStep == ASSUME KeysFollowInv, User PROVE KeysFollowInv'
<1>0. tui \in {"looping", "left", "ended"} /\ last_ctrl_c \in BOOLEAN
    BY DEF KeysFollowInv, TypeOK
<1>1. CASE Enter
    <2>1. PICK action \in Actions : Key(action)
        BY <1>1 DEF Enter, Actions
    <2> QED BY <1>0, <1>1, <2>1, KeyPressed DEF Enter, Key
<1>2. CASE CtrlEnter
    <2>1. "AbortAndQueuePrompt" \in Actions
        BY DEF Actions
    <2> QED BY <1>0, <1>2, <2>1, KeyPressed DEF CtrlEnter, Key
<1>3. CASE CtrlC
    <2>1. {"Abort", "Quit"} \subseteq Actions
        BY DEF Actions
    <2>2. PICK action \in Actions : Key(action)
        BY <1>3, <2>1 DEF CtrlC
    <2>3. tui' \in {"looping", "left"} /\ last_ctrl_c' \in BOOLEAN
        BY <1>0, <1>3, <2>2 DEF CtrlC, Key
    <2> QED BY <2>2, <2>3, KeyPressed
<1>4. CASE CtrlD
    <2>1. "Quit" \in Actions
        BY DEF Actions
    <2> QED BY <1>0, <1>4, <2>1, KeyPressed DEF CtrlD
<1>5. CASE TwoSecondsPass
    <2>1. Told' = Told
        BY <1>5, ToldFrame DEF TwoSecondsPass, Pending, ctlVars, runVars
    <2>2. ToldInv'
        BY <1>5, <2>1, ToldKept DEF KeysFollowInv, TwoSecondsPass, ctlVars, runVars, recovering,
           progress
    <2>3. TypeOK'
        BY <1>5 DEF KeysFollowInv, TypeOK, TwoSecondsPass, ctlVars, runVars, recovering, progress
    <2>4. SendersInv' /\ KeysInv'
        BY <1>5 DEF KeysFollowInv, SendersInv, KeysInv, TwoSecondsPass, ctlVars, runVars
    <2> QED BY <2>2, <2>3, <2>4 DEF KeysFollowInv
<1>6. CASE Sigterm
    BY <1>6, SigtermStep
<1> QED BY <1>1, <1>2, <1>3, <1>4, <1>5, <1>6 DEF User

LEMMA ProcessEndsStep == ASSUME KeysFollowInv, ProcessEnds PROVE KeysFollowInv'
<1>1. Told' = Told
    BY ToldFrame DEF ProcessEnds, Pending, ctlVars, runVars
<1>2. ToldInv'
    BY <1>1, ToldKept DEF KeysFollowInv, ProcessEnds, ctlVars, runVars, recovering, progress
<1>3. TypeOK'
    BY DEF KeysFollowInv, TypeOK, ProcessEnds, ctlVars, runVars, recovering, progress
<1>4. SendersInv' /\ KeysInv'
    BY DEF KeysFollowInv, SendersInv, KeysInv, ProcessEnds, ctlVars, runVars
<1> QED BY <1>2, <1>3, <1>4 DEF KeysFollowInv

\* A batch moves from the channel to the screen: what will be shown is the same.
LEMMA DrainStep == ASSUME KeysFollowInv, DrainEvents PROVE KeysFollowInv'
<1>1. /\ events' = Rest(BatchSize)
      /\ agent_state' = AfterEvents(agent_state, Batch(BatchSize))
      /\ UNCHANGED <<tui, keys, signalled, actions, ctlVars, runVars>>
    BY DrainIs
<1>2. agent_state \in UiStates /\ events \in Seq(Events)
    BY ToldTyped
<1>3. BatchSize \in 0..Len(events)
    BY <1>2, BatchSizeTyped
<1>4. /\ Batch(BatchSize) \in Seq(Events) /\ Rest(BatchSize) \in Seq(Events)
      /\ Len(Rest(BatchSize)) <= Len(events)
      /\ Batch(BatchSize) \o Rest(BatchSize) = events
    BY <1>2, <1>3, BatchTaken
<1>5. AfterEvents(agent_state, Batch(BatchSize)) \in UiStates
    BY <1>2, <1>4, ShownTyped
<1>6. AfterEvents(agent_state, Batch(BatchSize) \o Rest(BatchSize))
          = AfterEvents(AfterEvents(agent_state, Batch(BatchSize)), Rest(BatchSize))
    <2>1. \A b, c \in Seq(Events) :
              AfterEvents(agent_state, b \o c) = AfterEvents(AfterEvents(agent_state, b), c)
        BY ShownJoined
    <2> QED BY <1>4, <2>1
<1>7. Delivered' = Delivered
    BY <1>1, <1>4, <1>6 DEF Delivered
<1>8. TypeOK'
    <2>1. last_ctrl_c' \in BOOLEAN
        BY DEF KeysFollowInv, TypeOK, DrainEvents
    <2>2. /\ events' \in Seq(Events) /\ Len(events') <= EventCapacity
          /\ agent_state' \in {"Idle", "Streaming", "ToolExecuting", "Compacting"}
        <3>1. Len(Rest(BatchSize)) \in Nat /\ Len(events) \in Nat /\ EventCapacity \in Nat
              /\ Len(events) <= EventCapacity
            BY <1>2, <1>4, InteractiveAssumption DEF KeysFollowInv, TypeOK
        <3> QED BY <1>1, <1>4, <1>5, <3>1 DEF UiStates
    <2> QED BY <1>1, <2>1, <2>2 DEF KeysFollowInv, TypeOK, ctlVars, runVars, recovering, progress
<1>9. ToldInv'
    <2>1. Pending' = Pending
        BY <1>1 DEF Pending, ctlVars, runVars
    <2>2. Told' = Told
        BY <1>7, <2>1 DEF Told
    <2> QED BY <1>1, <2>2, ToldKept DEF KeysFollowInv, ctlVars, runVars, recovering, progress
<1>10. SendersInv' /\ KeysInv'
    BY <1>1 DEF KeysFollowInv, SendersInv, KeysInv, ctlVars, runVars
<1> QED BY <1>8, <1>9, <1>10 DEF KeysFollowInv

\* An event moves from its sender to the channel: what will be shown is the same.
LEMMA EventSent ==
    ASSUME NEW seen \in UiStates, NEW e \in Seq(Events), NEW q \in Seq(Events), q # <<>>
    PROVE  AfterEvents(AfterEvents(seen, Append(e, Head(q))), Tail(q))
               = AfterEvents(AfterEvents(seen, e), q)
<1>1. Head(q) \in Events /\ Tail(q) \in Seq(Events)
    OBVIOUS
<1>2. PICK one : one = <<Head(q)>>
    OBVIOUS
<1>3. one \in Seq(Events)
    BY <1>1, <1>2
<1>4. one \o Tail(q) = q
    <2>1. q \in Seq(Events) /\ Len(q) \in Nat /\ Len(q) >= 1 /\ Head(q) = q[1]
        OBVIOUS
    <2>2. Len(one) = 1 /\ one[1] = Head(q)
        BY <1>2
    <2>3. Len(Tail(q)) = Len(q) - 1 /\ \A i \in 1..Len(Tail(q)) : Tail(q)[i] = q[i + 1]
        BY HeadTailProperties
    <2>4. /\ one \o Tail(q) \in Seq(Events) /\ Len(one \o Tail(q)) = Len(one) + Len(Tail(q))
          /\ \A i \in 1..Len(one) + Len(Tail(q)) : (one \o Tail(q))[i] =
                 IF i <= Len(one) THEN one[i] ELSE Tail(q)[i - Len(one)]
        BY <1>1, <1>3, ConcatProperties
    <2>5. Len(one \o Tail(q)) = Len(q)
        BY <2>1, <2>2, <2>3, <2>4
    <2>6. ASSUME NEW i \in 1..Len(q) PROVE (one \o Tail(q))[i] = q[i]
        <3>1. CASE i = 1
            BY <2>1, <2>2, <2>3, <2>4, <3>1
        <3>2. CASE i # 1
            <4>1. i - 1 \in 1..Len(Tail(q)) /\ i \in 1..Len(one) + Len(Tail(q)) /\ ~(i <= Len(one))
                BY <2>1, <2>2, <2>3, <3>2
            <4>2. (one \o Tail(q))[i] = Tail(q)[i - Len(one)]
                BY <2>4, <4>1
            <4>3. Tail(q)[i - 1] = q[(i - 1) + 1]
                BY <2>3, <4>1
            <4>4. i - Len(one) = i - 1 /\ (i - 1) + 1 = i
                BY <2>2
            <4> QED BY <4>2, <4>3, <4>4
        <3> QED BY <3>1, <3>2
    <2> QED BY <2>1, <2>4, <2>5, <2>6, SeqEqual
<1>5. Append(e, Head(q)) = e \o one
    BY <1>1, <1>2, AppendIsConcat
<1>6. AfterEvents(seen, e \o one) = AfterEvents(AfterEvents(seen, e), one)
    BY <1>3, ShownJoined
<1>7. AfterEvents(AfterEvents(seen, e), one \o Tail(q))
          = AfterEvents(AfterEvents(AfterEvents(seen, e), one), Tail(q))
    <2>1. PICK shown : shown = AfterEvents(seen, e)
        OBVIOUS
    <2>2. AfterEvents(shown, one \o Tail(q)) = AfterEvents(AfterEvents(shown, one), Tail(q))
        <3>1. \A b, c \in Seq(Events) :
                  AfterEvents(shown, b \o c) = AfterEvents(AfterEvents(shown, b), c)
            BY ShownJoined
        <3> QED BY <1>1, <1>3, <3>1
    <2> QED BY <2>1, <2>2
<1> QED BY <1>4, <1>5, <1>6, <1>7

\* An event of no interest is sent by the controller while a run goes on.
LEMMA OtherSent ==
    ASSUME NEW seen \in UiStates, NEW e \in Seq(Events)
    PROVE  AfterEvents(seen, Append(e, "Other")) = AfterEvents(seen, e)
<1>1. "Other" \in Events
    BY DEF Events
<1>2. AfterEvents(seen, Append(e, "Other")) = AfterEvent(AfterEvents(seen, e), "Other")
    BY <1>1, ShownAppend
<1> QED BY <1>2 DEF AfterEvent

LEMMA ControllerSendsStep == ASSUME KeysFollowInv, ControllerSends PROVE KeysFollowInv'
<1>1. agent_state \in UiStates /\ events \in Seq(Events) /\ outbox \in Seq(Events)
    BY ToldTyped DEF KeysFollowInv, TypeOK
<1>2. /\ Tail(outbox) \in Seq(Events)
      /\ Append(events, Head(outbox)) \in Seq(Events)
      /\ Len(Append(events, Head(outbox))) <= EventCapacity
    BY <1>1, OneSent DEF ControllerSends
<1>3. TypeOK'
    BY <1>2 DEF KeysFollowInv, TypeOK, ControllerSends, tuiVars, runVars, recovering, progress
<1>4. SendersInv'
    <2>1. outbox \in Seq({"Other"}) => Tail(outbox) \in Seq({"Other"})
        BY DEF ControllerSends
    <2> QED BY <2>1 DEF KeysFollowInv, SendersInv, ControllerSends, runVars
<1>5. KeysInv'
    BY DEF KeysFollowInv, KeysInv, ControllerSends, tuiVars
<1>6. Told' = Told
    <2>1. CASE run = "none"
        <3>1. AfterEvents(AfterEvents(agent_state, Append(events, Head(outbox))), Tail(outbox))
                  = AfterEvents(AfterEvents(agent_state, events), outbox)
            BY <1>1, EventSent DEF ControllerSends
        <3>2. Told' = AfterEvents(AfterEvents(agent_state, Append(events, Head(outbox))), Tail(outbox))
            BY <2>1 DEF ControllerSends, Told, Delivered, Pending, tuiVars, runVars
        <3> QED BY <2>1, <3>1, <3>2 DEF Told, Delivered, Pending
    <2>2. CASE run # "none"
        <3>1. Head(outbox) = "Other"
            <4>1. outbox \in Seq({"Other"}) /\ outbox # <<>>
                BY <2>2 DEF KeysFollowInv, SendersInv, ControllerSends
            <4>2. Head(outbox) \in {"Other"}
                BY <4>1, HeadTailProperties
            <4> QED BY <4>2
        <3>2. Delivered' = Delivered
            BY <1>1, <3>1, OtherSent DEF Delivered, ControllerSends, tuiVars
        <3>3. Pending' = Pending
            BY <2>2 DEF Pending, ControllerSends, runVars
        <3> QED BY <3>2, <3>3 DEF Told
    <2> QED BY <2>1, <2>2
<1>7. ToldInv'
    BY <1>6, ToldKept DEF KeysFollowInv, ControllerSends, runVars, recovering, progress
<1> QED BY <1>3, <1>4, <1>5, <1>7 DEF KeysFollowInv

LEMMA TaskSendsStep == ASSUME KeysFollowInv, TaskSends PROVE KeysFollowInv'
<1>1. agent_state \in UiStates /\ events \in Seq(Events) /\ run_out \in Seq(Events)
    BY ToldTyped DEF KeysFollowInv, TypeOK
<1>2. /\ Tail(run_out) \in Seq(Events)
      /\ Append(events, Head(run_out)) \in Seq(Events)
      /\ Len(Append(events, Head(run_out))) <= EventCapacity
    BY <1>1, OneSent DEF TaskSends
<1>3. TypeOK'
    BY <1>2 DEF KeysFollowInv, TypeOK, TaskSends, tuiVars, ctlVars, recovering, progress
<1>4. run \notin {"none", "finished"}
    BY DEF KeysFollowInv, SendersInv, TaskSends
<1>5. SendersInv' /\ KeysInv'
    BY <1>4 DEF KeysFollowInv, SendersInv, KeysInv, TaskSends, tuiVars, ctlVars
<1>6. Told' = Told
    <2>1. AfterEvents(AfterEvents(agent_state, Append(events, Head(run_out))), Tail(run_out))
              = AfterEvents(AfterEvents(agent_state, events), run_out)
        BY <1>1, EventSent DEF TaskSends
    <2>2. Told' = AfterEvents(AfterEvents(agent_state, Append(events, Head(run_out))), Tail(run_out))
        BY <1>4 DEF TaskSends, Told, Delivered, Pending, tuiVars
    <2> QED BY <1>4, <2>1, <2>2 DEF Told, Delivered, Pending
<1>7. ToldInv'
    BY <1>6, ToldKept DEF KeysFollowInv, TaskSends, ctlVars, recovering, progress
<1> QED BY <1>3, <1>5, <1>7 DEF KeysFollowInv

-----------------------------------------------------------------------------
(* The agent task. *)
\* A step of the task that says q and goes on at `to`.
TaskGoes(to, q) ==
    /\ run' = to /\ run_out' = q
    /\ UNCHANGED <<tuiVars, ctlVars, actions, events, cancelled>>

LEMMA TaskTold ==
    ASSUME KeysFollowInv, run # "none", run_out = <<>>, NEW to, to # "none",
           NEW q, TaskGoes(to, q)
    PROVE  Told' = AfterEvents(Told, q) /\ Told \in UiStates
<1>1. Told = Delivered
    BY NothingPending DEF Pending
<1>2. Pending' = q
    BY DEF Pending, TaskGoes
<1>3. Told' = AfterEvents(Delivered, Pending')
    BY DeliveredFrame DEF TaskGoes, tuiVars
<1> QED BY <1>1, <1>2, <1>3, ToldTyped

LEMMA TaskKeeps ==
    ASSUME KeysFollowInv, run # "none", NEW q \in Seq(Events),
           NEW to \in {"model", "tool", "gate", "compacting", "ending", "finished"},
           TaskGoes(to, q), to = "finished" => q = <<>>, compacted' \in BOOLEAN, ToldInv'
    PROVE  KeysFollowInv'
<1>1. TypeOK'
    BY DEF KeysFollowInv, TypeOK, TaskGoes, tuiVars, ctlVars, recovering
<1>2. SendersInv' /\ KeysInv'
    BY DEF KeysFollowInv, SendersInv, KeysInv, TaskGoes, tuiVars, ctlVars
<1> QED BY <1>1, <1>2 DEF KeysFollowInv

\* What the task says.
LEMMA TaskSays ==
    /\ <<"Other">> \in Seq(Events) /\ <<"Other", "ToolExecStart">> \in Seq(Events)
    /\ <<"Other", "Other", "AgentEnd">> \in Seq(Events)
    /\ <<"ToolExecEnd", "Other", "AgentEnd">> \in Seq(Events)
    /\ <<"ToolExecEnd", "Other">> \in Seq(Events) /\ <<"AgentStart">> \in Seq(Events)
    /\ <<"CompactionStart">> \in Seq(Events)
    /\ <<"CompactionEnd", "Other", "Other">> \in Seq(Events) /\ <<>> \in Seq(Events)
<1>1. {"Other", "ToolExecStart", "AgentEnd", "ToolExecEnd", "AgentStart", "CompactionStart",
       "CompactionEnd"} \subseteq Events
    BY DEF Events
<1>2. /\ \A a \in Events : <<a>> \in Seq(Events)
      /\ \A a, b \in Events : <<a, b>> \in Seq(Events)
      /\ \A a, b, c \in Events : <<a, b, c>> \in Seq(Events)
      /\ <<>> \in Seq(Events)
    OBVIOUS
<1> QED BY <1>1, <1>2

LEMMA TaskEndsStep == ASSUME KeysFollowInv, TaskEnds PROVE KeysFollowInv'
<1>0. compacted \in BOOLEAN /\ ToldInv
    BY DEF KeysFollowInv, TypeOK
<1>1. CASE StreamContinues
    <2>1. run = "model" /\ run_out = <<>> /\ UNCHANGED compacted
        BY <1>1 DEF StreamContinues, TaskStep
    <2>2. CASE run' = "model" /\ run_out' = <<"Other">>
        <3>1. TaskGoes("model", <<"Other">>)
            BY <1>1, <2>2 DEF TaskGoes, StreamContinues, TaskStep
        <3>2. Told' = AfterEvents(Told, <<"Other">>) /\ Told \in UiStates
            BY <2>1, <3>1, TaskTold
        <3>3. Told' = Told
            BY <3>2, OtherShown, SentTyped
        <3>4. ToldInv'
            BY <1>0, <2>1, <2>2, <3>3 DEF ToldInv, IdleTold, StreamTold
        <3> QED BY <1>0, <2>1, <3>1, <3>4, TaskKeeps, TaskSays
    <2>3. CASE run' = "tool" /\ run_out' = <<"Other", "ToolExecStart">>
        <3>1. TaskGoes("tool", <<"Other", "ToolExecStart">>)
            BY <1>1, <2>3 DEF TaskGoes, StreamContinues, TaskStep
        <3>2. Told' = AfterEvents(Told, <<"Other", "ToolExecStart">>) /\ Told \in UiStates
            BY <2>1, <3>1, TaskTold
        <3>3. Told' = "ToolExecuting"
            BY <3>2, BatchShown
        <3>4. ToldInv'
            BY <2>3, <3>3 DEF ToldInv, IdleTold, StreamTold
        <3> QED BY <1>0, <2>1, <3>1, <3>4, TaskKeeps, TaskSays
    <2> QED BY <1>1, <2>2, <2>3 DEF StreamContinues
<1>2. CASE StreamEnds
    <2>1. run = "model" /\ run_out = <<>> /\ UNCHANGED compacted
        BY <1>2 DEF StreamEnds, TaskStep, progress
    <2>2. TaskGoes("ending", <<"Other", "Other", "AgentEnd">>)
        BY <1>2 DEF TaskGoes, StreamEnds, TaskStep
    <2>3. Told' = AfterEvents(Told, <<"Other", "Other", "AgentEnd">>) /\ Told \in UiStates
        BY <2>1, <2>2, TaskTold
    <2>4. Told' = "Idle"
        BY <2>3, BatchShown
    <2>5. ToldInv'
        BY <2>2, <2>4 DEF ToldInv, IdleTold, StreamTold, TaskGoes
    <2> QED BY <1>0, <2>1, <2>2, <2>5, TaskKeeps, TaskSays
<1>3. CASE ToolEnds
    <2>1. run = "tool" /\ run_out = <<>> /\ UNCHANGED compacted
        BY <1>3 DEF ToolEnds, TaskStep, progress
    <2>2. CASE cancelled
        <3>1. TaskGoes("ending", <<"ToolExecEnd", "Other", "AgentEnd">>)
            BY <1>3, <2>2 DEF TaskGoes, ToolEnds, TaskStep
        <3>2. Told' = AfterEvents(Told, <<"ToolExecEnd", "Other", "AgentEnd">>) /\ Told \in UiStates
            BY <2>1, <3>1, TaskTold
        <3>3. Told' = "Idle"
            BY <3>2, BatchShown
        <3>4. ToldInv'
            BY <3>1, <3>3 DEF ToldInv, IdleTold, StreamTold, TaskGoes
        <3> QED BY <1>0, <2>1, <3>1, <3>4, TaskKeeps, TaskSays
    <2>3. CASE ~cancelled
        <3>1. TaskGoes("gate", <<"ToolExecEnd", "Other">>)
            BY <1>3, <2>3 DEF TaskGoes, ToolEnds, TaskStep
        <3>2. Told' = AfterEvents(Told, <<"ToolExecEnd", "Other">>) /\ Told \in UiStates
            BY <2>1, <3>1, TaskTold
        <3>3. Told' = "Streaming"
            BY <3>2, BatchShown
        <3>4. ToldInv'
            BY <3>1, <3>3 DEF ToldInv, IdleTold, StreamTold, TaskGoes
        <3> QED BY <1>0, <2>1, <3>1, <3>4, TaskKeeps, TaskSays
    <2> QED BY <2>2, <2>3
<1>4. CASE GateContinues
    <2>1. run = "gate" /\ run_out = <<>> /\ UNCHANGED compacted
        BY <1>4 DEF GateContinues, TaskStep, progress
    <2>2. TaskGoes("model", <<"Other">>)
        BY <1>4 DEF TaskGoes, GateContinues, TaskStep
    <2>3. Told' = AfterEvents(Told, <<"Other">>) /\ Told \in UiStates
        BY <2>1, <2>2, TaskTold
    <2>4. Told' = Told
        BY <2>3, OtherShown, SentTyped
    <2>5. ToldInv'
        BY <1>0, <2>1, <2>2, <2>4 DEF ToldInv, IdleTold, StreamTold, TaskGoes
    <2> QED BY <1>0, <2>1, <2>2, <2>5, TaskKeeps, TaskSays
<1>5. CASE GateCompacts
    <2>1. run = "gate" /\ compacted' = TRUE
        BY <1>5 DEF GateCompacts, TaskStep
    <2>2. TaskGoes("compacting", <<"CompactionStart">>)
        BY <1>5 DEF TaskGoes, GateCompacts, TaskStep
    <2>3. ToldInv'
        BY <2>1, <2>2 DEF ToldInv, IdleTold, StreamTold, TaskGoes
    <2> QED BY <2>1, <2>2, <2>3, TaskKeeps, TaskSays
<1>6. CASE SummarizerEnds
    <2>1. run = "compacting" /\ UNCHANGED compacted /\ run' = "model"
        BY <1>6 DEF SummarizerEnds, TaskStep, progress
    <2>2. compacted /\ compacted'
        BY <1>0, <2>1 DEF ToldInv
    <2>3. ToldInv'
        BY <2>1, <2>2 DEF ToldInv, IdleTold, StreamTold
    <2>4. PICK q \in Seq(Events) : run_out' = q
        BY <1>6, TaskSays DEF SummarizerEnds
    <2>5. TaskGoes("model", q)
        BY <1>6, <2>4 DEF TaskGoes, SummarizerEnds, TaskStep
    <2> QED BY <1>0, <2>1, <2>3, <2>5, TaskKeeps
<1>7. CASE TaskFinishes
    <2>1. run = "ending" /\ run_out = <<>> /\ UNCHANGED <<run_out, compacted>>
        BY <1>7 DEF TaskFinishes, TaskStep, progress
    <2>2. TaskGoes("finished", <<>>)
        BY <1>7, <2>1 DEF TaskGoes, TaskFinishes, TaskStep
    <2>3. Told' = AfterEvents(Told, <<>>) /\ Told = "Idle"
        BY <1>0, <2>1, <2>2, TaskTold DEF ToldInv, IdleTold
    <2>4. ToldInv'
        BY <2>2, <2>3, NothingShown DEF ToldInv, IdleTold, StreamTold, TaskGoes
    <2> QED BY <1>0, <2>1, <2>2, <2>4, TaskKeeps, TaskSays
<1> QED BY <1>1, <1>2, <1>3, <1>4, <1>5, <1>6, <1>7 DEF TaskEnds

-----------------------------------------------------------------------------
(* The controller. *)
LEMMA SpawnRunStep == ASSUME KeysFollowInv, SpawnRun PROVE KeysFollowInv'
<1>1. <<"AgentStart">> \in Seq(Events)
    BY TaskSays
<1>2. TypeOK'
    BY <1>1 DEF KeysFollowInv, TypeOK, SpawnRun, tuiVars, recovering
<1>3. SendersInv'
    <2>1. outbox' \in Seq({"Other"})
        BY SentTyped DEF SpawnRun
    <2> QED BY <2>1 DEF KeysFollowInv, SendersInv, SpawnRun
<1>4. KeysInv'
    BY DEF KeysFollowInv, KeysInv, SpawnRun, tuiVars
<1>5. Told' = "Streaming"
    <2>1. Told' = AfterEvents(Delivered, Pending')
        BY DeliveredFrame DEF SpawnRun, tuiVars
    <2>2. Pending' = <<"AgentStart">>
        BY DEF Pending, SpawnRun
    <2> QED BY <2>1, <2>2, ToldTyped, BatchShown
<1>6. ToldInv'
    BY <1>5 DEF ToldInv, IdleTold, StreamTold, SpawnRun
<1> QED BY <1>2, <1>3, <1>4, <1>6 DEF KeysFollowInv

\* What the controller says between two runs, once the last run has said all.
LEMMA BetweenRuns ==
    ASSUME KeysFollowInv, AtSelect, run \in {"none", "finished"}, run' = "none",
           UNCHANGED <<tuiVars, events, run_out, compacted>>,
           outbox' \in Seq(Events),
           \/ starting'
           \/ recovery_failed'
           \/ /\ outbox' \in Seq({"Other"})
              /\ run = "finished" \/ ~recovery_failed
    PROVE  ToldInv'
<1>1. Told = Delivered
    BY NothingPending DEF KeysFollowInv, SendersInv, Pending, AtSelect
<1>2. Told' = AfterEvents(Told, outbox')
    <2>1. Pending' = outbox'
        BY DEF Pending
    <2> QED BY <1>1, <2>1, DeliveredFrame DEF tuiVars
<1>3. Told \in UiStates
    BY ToldTyped
<1>4. ASSUME ~starting', ~recovery_failed' PROVE Told' = "Idle"
    <2>1. Told' = Told
        BY <1>2, <1>3, <1>4, OtherShown
    <2>2. IdleTold
        BY <1>4 DEF IdleTold, AtSelect
    <2> QED BY <2>1, <2>2 DEF KeysFollowInv, ToldInv
<1> QED BY <1>4 DEF ToldInv, IdleTold, StreamTold

\* The queue after a run.
LEMMA Drained ==
    ASSUME KeysFollowInv, AtSelect, NEW sent \in Seq(Events), DrainQueue(sent)
    PROVE  /\ outbox' \in Seq(Events) /\ starting' \in BOOLEAN
           /\ starting' \/ outbox' = sent
           /\ queued_prompts' \in 0..MaxKeys /\ queued_prompts' <= queued_prompts
<1>1. queued_prompts \in 0..MaxKeys /\ starting \in BOOLEAN /\ MaxKeys \in Nat
    BY InteractiveAssumption DEF KeysFollowInv, TypeOK
<1>2. CASE queued_prompts = 0 /\ outbox' = sent /\ UNCHANGED <<queued_prompts, starting>>
    BY <1>1, <1>2
<1>3. CASE /\ queued_prompts > 0 /\ queued_prompts' = queued_prompts - 1 /\ starting' = TRUE
           /\ \E compaction \in PromptEvents : outbox' = sent \o <<"Other">> \o compaction
    <2>1. PICK compaction \in PromptEvents : outbox' = (sent \o <<"Other">>) \o compaction
        BY <1>3
    <2>2. compaction \in Seq(Events) /\ <<"Other">> \in Seq(Events)
        BY SentTyped
    <2>3. sent \o <<"Other">> \in Seq(Events)
        BY <2>2, SentJoined
    <2>4. \A a, b \in Seq(Events) : a \o b \in Seq(Events)
        BY SentJoined
    <2>5. outbox' \in Seq(Events)
        BY <2>1, <2>2, <2>3, <2>4
    <2> QED BY <1>1, <1>3, <2>5
<1> QED BY <1>2, <1>3 DEF DrainQueue

\* A run's end, whatever the controller makes of it.
RunEndsSo ==
    /\ outbox' \in Seq(Events)
    /\ {starting', retry_armed', recovery_failed'} \subseteq BOOLEAN
    /\ retry_armed' => ~starting'
    /\ queued_prompts' \in 0..MaxKeys /\ queued_prompts' <= queued_prompts
    /\ starting' \/ recovery_failed' \/ outbox' \in Seq({"Other"})
LEMMA RunEnded ==
    ASSUME KeysFollowInv, RunResult, RunEndsSo PROVE KeysFollowInv'
<1>1. TypeOK'
    BY DEF RunEndsSo, KeysFollowInv, TypeOK, RunResult, tuiVars, progress
<1>2. SendersInv'
    BY DEF RunEndsSo, KeysFollowInv, SendersInv, RunResult
<1>3. KeysInv'
    <2>1. /\ queued_prompts \in Nat /\ queued_prompts' \in Nat /\ Len(actions) \in Nat
          /\ keys \in Nat /\ keys' = keys /\ actions' = actions /\ signalled' = signalled
        BY ActionsTyped DEF RunEndsSo, KeysFollowInv, KeysInv, TypeOK, RunResult, tuiVars
    <2>2. queued_prompts' + Len(actions) <= queued_prompts + Len(actions)
        BY <2>1 DEF RunEndsSo
    <2> QED BY <2>1, <2>2 DEF KeysFollowInv, KeysInv
<1>4. ToldInv'
    BY BetweenRuns DEF RunEndsSo, RunResult, progress
<1> QED BY <1>1, <1>2, <1>3, <1>4 DEF KeysFollowInv

LEMMA RunCompletesStep == ASSUME KeysFollowInv, RunCompletes PROVE KeysFollowInv'
<1>1. <<>> \in Seq(Events) /\ <<>> \in Seq({"Other"})
    BY SentTyped, TaskSays
<1>2. DrainQueue(<<>>) /\ AtSelect /\ RunResult
    BY DEF RunCompletes, RunResult
<1>3. /\ outbox' \in Seq(Events) /\ starting' \in BOOLEAN /\ (starting' \/ outbox' = <<>>)
      /\ queued_prompts' \in 0..MaxKeys /\ queued_prompts' <= queued_prompts
    BY <1>1, <1>2, Drained
<1>4. retry_armed' = FALSE /\ recovery_failed' \in BOOLEAN
    BY DEF RunCompletes, RunResult, KeysFollowInv, SendersInv, TypeOK, recovering
<1>5. starting' \/ outbox' \in Seq({"Other"})
    BY <1>1, <1>3
<1>6. RunEndsSo
    BY <1>3, <1>4, <1>5 DEF RunEndsSo
<1> QED BY <1>2, <1>6, RunEnded

LEMMA RunRetriesStep == ASSUME KeysFollowInv, RunRetries PROVE KeysFollowInv'
<1>1. <<"Other">> \in Seq(Events) /\ <<"Other">> \in Seq({"Other"})
    BY SentTyped, TaskSays
<1>2. AtSelect /\ RunResult /\ recovery_failed' \in BOOLEAN /\ retry_armed = FALSE
      /\ starting = FALSE /\ queued_prompts \in 0..MaxKeys
    BY DEF RunRetries, RunResult, AtSelect, KeysFollowInv, SendersInv, TypeOK
<1>3. CASE queued_prompts > 0 /\ DrainQueue(<<"Other">>) /\ UNCHANGED retry_armed
    <2>1. /\ outbox' \in Seq(Events) /\ starting' \in BOOLEAN /\ (starting' \/ outbox' = <<"Other">>)
          /\ queued_prompts' \in 0..MaxKeys /\ queued_prompts' <= queued_prompts
        BY <1>1, <1>2, <1>3, Drained
    <2>2. retry_armed' = FALSE
        BY <1>2, <1>3
    <2>3. starting' \/ outbox' \in Seq({"Other"})
        BY <1>1, <2>1
    <2>4. RunEndsSo
        BY <1>2, <2>1, <2>2, <2>3 DEF RunEndsSo
    <2> QED BY <1>2, <2>4, RunEnded
<1>4. CASE /\ retry_armed' = TRUE /\ outbox' = <<"Other", "Other">>
           /\ UNCHANGED <<queued_prompts, starting>>
    <2>1. <<"Other", "Other">> \in Seq({"Other"})
        OBVIOUS
    <2>2. outbox' \in Seq({"Other"}) /\ outbox' \in Seq(Events)
        BY <1>4, <2>1, SentTyped
    <2>3. /\ starting' = FALSE /\ retry_armed' = TRUE /\ queued_prompts' \in 0..MaxKeys
          /\ queued_prompts' <= queued_prompts
        BY <1>2, <1>4
    <2>4. RunEndsSo
        BY <1>2, <2>2, <2>3 DEF RunEndsSo
    <2> QED BY <1>2, <2>4, RunEnded
<1> QED BY <1>3, <1>4 DEF RunRetries

LEMMA RunOverflowsStep == ASSUME KeysFollowInv, RunOverflows PROVE KeysFollowInv'
<1>1. <<"Other", "CompactionStart", "Other">> \in Seq(Events)
      /\ <<"Other", "CompactionStart", "CompactionEnd", "Other">> \in Seq(Events)
    <2>1. {"Other", "CompactionStart", "CompactionEnd"} \subseteq Events
        BY DEF Events
    <2>2. /\ \A a, b, c \in Events : <<a, b, c>> \in Seq(Events)
          /\ \A a, b, c, d \in Events : <<a, b, c, d>> \in Seq(Events)
        OBVIOUS
    <2> QED BY <2>1, <2>2
<1>2. AtSelect /\ RunResult /\ retry_armed' = FALSE /\ recovery_failed \in BOOLEAN
      /\ queued_prompts \in 0..MaxKeys
    BY DEF RunOverflows, RunResult, AtSelect, KeysFollowInv, SendersInv, TypeOK
<1>3. CASE /\ outbox' = <<"Other", "CompactionStart", "CompactionEnd", "Other">>
           /\ starting' = TRUE /\ UNCHANGED <<queued_prompts, recovery_failed>>
    <2>1. outbox' \in Seq(Events) /\ starting' = TRUE
        BY <1>1, <1>3
    <2>2. /\ queued_prompts' \in 0..MaxKeys /\ queued_prompts' <= queued_prompts
          /\ recovery_failed' \in BOOLEAN
        BY <1>2, <1>3
    <2>3. RunEndsSo
        BY <1>2, <2>1, <2>2 DEF RunEndsSo
    <2> QED BY <1>2, <2>3, RunEnded
<1>4. CASE DrainQueue(<<"Other", "CompactionStart", "Other">>) /\ recovery_failed' = TRUE
    <2>1. /\ outbox' \in Seq(Events) /\ starting' \in BOOLEAN
          /\ queued_prompts' \in 0..MaxKeys /\ queued_prompts' <= queued_prompts
        BY <1>1, <1>2, <1>4, Drained
    <2>2. RunEndsSo
        BY <1>2, <1>4, <2>1 DEF RunEndsSo
    <2> QED BY <1>2, <2>2, RunEnded
<1> QED BY <1>3, <1>4 DEF RunOverflows

LEMMA RetryFiresStep == ASSUME KeysFollowInv, RetryFires PROVE KeysFollowInv'
<1>1. run = "none" /\ outbox \in Seq(Events) /\ AtSelect
    BY DEF KeysFollowInv, SendersInv, TypeOK, RetryFires
<1>2. TypeOK'
    BY DEF KeysFollowInv, TypeOK, RetryFires, tuiVars, runVars, recovering, progress
<1>3. SendersInv' /\ KeysInv'
    BY <1>1 DEF KeysFollowInv, SendersInv, KeysInv, RetryFires, tuiVars, runVars
<1>4. ToldInv'
    BY <1>1, BetweenRuns DEF RetryFires, tuiVars, runVars, progress
<1> QED BY <1>2, <1>3, <1>4 DEF KeysFollowInv

LEMMA ControllerExitsStep == ASSUME KeysFollowInv, ControllerExits PROVE KeysFollowInv'
<1>1. actions' \in Seq(Actions) /\ Len(actions') = 0
    BY DEF ControllerExits
<1>2. TypeOK'
    BY <1>1 DEF KeysFollowInv, TypeOK, ControllerExits, Actions, tuiVars, runVars, recovering,
       progress
<1>3. SendersInv'
    BY DEF KeysFollowInv, SendersInv, ControllerExits, runVars
<1>4. KeysInv'
    <2>1. /\ queued_prompts \in Nat /\ keys \in 0..MaxKeys /\ keys' = keys
          /\ queued_prompts' = queued_prompts /\ Len(actions) \in Nat
        BY ActionsTyped DEF KeysFollowInv, KeysInv, TypeOK, ControllerExits, tuiVars
    <2>2. queued_prompts + 0 <= keys
        <3>1. CASE queued_prompts + Len(actions) <= keys
            BY <2>1, <3>1
        <3>2. CASE queued_prompts + Len(actions) <= keys + 1 /\ Contains(actions, "Quit")
            <4>1. Len(actions) >= 1
                BY <2>1, <3>2 DEF Contains
            <4> QED BY <2>1, <3>2, <4>1
        <3> QED BY <3>1, <3>2 DEF KeysFollowInv, KeysInv
    <2> QED BY <1>1, <2>1, <2>2 DEF KeysInv
<1>5. ToldInv'
    <2>1. Told' = Told
        BY ToldFrame DEF ControllerExits, Pending, tuiVars, runVars
    <2> QED BY <2>1, ToldKept DEF KeysFollowInv, ControllerExits, runVars, recovering, progress
<1> QED BY <1>2, <1>3, <1>4, <1>5 DEF KeysFollowInv

\* A prompt is queued only if it was a key: the room for it is what the action leaves.
LEMMA ReceivedKeys ==
    ASSUME KeysFollowInv, actions # <<>>, actions' = Tail(actions),
           UNCHANGED <<keys, signalled>>,
           \/ queued_prompts' = queued_prompts
           \/ queued_prompts' = queued_prompts + 1 /\ Head(actions) # "Quit"
    PROVE  KeysInv' /\ queued_prompts' \in 0..MaxKeys /\ actions' \in Seq(Actions)
<1>1. actions \in Seq(Actions) /\ queued_prompts \in 0..MaxKeys /\ keys \in 0..MaxKeys
      /\ MaxKeys \in Nat
    BY ActionsTyped, InteractiveAssumption DEF KeysFollowInv, KeysInv, TypeOK
<1>2. /\ Tail(actions) \in Seq(Actions)
      /\ Len(Tail(actions)) = Len(actions) - 1 /\ Len(actions) \in Nat /\ Len(Tail(actions)) \in Nat
      /\ Contains(actions, "Quit") /\ Head(actions) # "Quit"
            => Contains(Tail(actions), "Quit") /\ Len(Tail(actions)) >= 1
    BY <1>1, ActionTaken
<1>3. CASE queued_prompts + Len(actions) <= keys
    <2>1. queued_prompts' + Len(Tail(actions)) <= keys
        BY <1>1, <1>2, <1>3
    <2>2. queued_prompts' \in 0..MaxKeys
        BY <1>1, <1>2, <2>1
    <2> QED BY <1>1, <1>2, <2>1, <2>2 DEF KeysInv
<1>4. CASE queued_prompts + Len(actions) <= keys + 1 /\ signalled /\ Contains(actions, "Quit")
    <2>1. CASE queued_prompts' = queued_prompts
        <3>1. queued_prompts' + Len(Tail(actions)) <= keys
            BY <1>1, <1>2, <1>4, <2>1
        <3> QED BY <1>1, <1>2, <2>1, <3>1 DEF KeysInv
    <2>2. CASE queued_prompts' = queued_prompts + 1 /\ Head(actions) # "Quit"
        <3>1. queued_prompts' + Len(Tail(actions)) <= keys + 1
            BY <1>1, <1>2, <1>4, <2>2
        <3>2. Contains(Tail(actions), "Quit") /\ Len(Tail(actions)) >= 1
            BY <1>2, <1>4, <2>2
        <3>3. queued_prompts' \in 0..MaxKeys
            BY <1>1, <1>2, <2>2, <3>1, <3>2
        <3> QED BY <1>1, <1>2, <1>4, <3>1, <3>2, <3>3 DEF KeysInv
    <2> QED BY <2>1, <2>2
<1> QED BY <1>3, <1>4 DEF KeysFollowInv, KeysInv

LEMMA ReceiveActionStep == ASSUME KeysFollowInv, ReceiveAction PROVE KeysFollowInv'
<1> DEFINE action == Head(actions)
<1>1. /\ AtSelect /\ actions # <<>> /\ actions' = Tail(actions)
      /\ UNCHANGED <<tuiVars, events, controller, recovering, run, run_out, progress>>
      /\ quitting' = (quitting \/ action = "Quit")
    BY DEF ReceiveAction
<1>2. \/ action \in {"Abort", "Quit"} /\ Cancel(action)
      \/ action \notin {"Abort", "Quit"} /\ Active /\ PromptWhileActive(action)
      \/ action \notin {"Abort", "Quit"} /\ ~Active /\ PromptWhileIdle
    BY DEF ReceiveAction
<1> HIDE DEF action
<1>3. /\ starting = FALSE /\ outbox = <<>> /\ retry_armed \in BOOLEAN /\ quitting \in BOOLEAN
      /\ cancelled \in BOOLEAN /\ recovery_failed \in BOOLEAN /\ queued_prompts \in 0..MaxKeys
      /\ run # "none" => ~retry_armed
    BY <1>1 DEF KeysFollowInv, SendersInv, TypeOK, AtSelect
\* What every case has in common.
<1>4. ASSUME outbox' \in Seq(Events), starting' \in BOOLEAN, retry_armed' \in BOOLEAN,
             cancelled' \in BOOLEAN,
             \/ queued_prompts' = queued_prompts
             \/ queued_prompts' = queued_prompts + 1 /\ action # "Quit",
             run # "none" => ~starting' /\ outbox' \in Seq({"Other"}),
             retry_armed' => run = "none" /\ ~starting',
             ToldInv'
      PROVE  KeysFollowInv'
    <2>1. KeysInv' /\ queued_prompts' \in 0..MaxKeys /\ actions' \in Seq(Actions)
        BY <1>1, <1>4, ReceivedKeys DEF action, tuiVars
    <2>2. quitting' \in BOOLEAN
        BY <1>1, <1>3
    <2>3. TypeOK'
        BY <1>1, <1>4, <2>1, <2>2 DEF KeysFollowInv, TypeOK, Actions, tuiVars, recovering, progress
    <2>4. SendersInv'
        BY <1>1, <1>4 DEF KeysFollowInv, SendersInv
    <2> QED BY <1>4, <2>1, <2>3, <2>4 DEF KeysFollowInv
<1>5. ASSUME outbox' \in Seq({"Other"}), starting' = FALSE PROVE ToldInv'
    <2>1. agent_state' = agent_state /\ events' = events
        BY <1>1 DEF tuiVars
    <2>2. Told' = Told
        <3>1. CASE run = "none"
            <4>1. Told = Delivered
                BY <1>3, <3>1, NothingPending DEF Pending
            <4>2. Told' = AfterEvents(Delivered, Pending') /\ Pending' = outbox'
                BY <1>1, <2>1, <3>1, DeliveredFrame DEF Pending
            <4>3. Delivered \in UiStates
                BY ToldTyped
            <4> QED BY <1>5, <4>1, <4>2, <4>3, OtherShown
        <3>2. CASE run # "none"
            <4>1. Pending' = Pending
                BY <1>1, <3>2 DEF Pending
            <4> QED BY <2>1, <4>1, ToldFrame
        <3> QED BY <3>1, <3>2
    <2> QED BY <1>1, <1>3, <1>5, <2>2, ToldKept DEF KeysFollowInv, recovering, progress
<1>6. <<"Other">> \in Seq({"Other"}) /\ <<>> \in Seq({"Other"})
      /\ Seq({"Other"}) \subseteq Seq(Events)
    BY SentTyped
<1>7. CASE action \in {"Abort", "Quit"} /\ Cancel(action)
    <2>1. /\ outbox' \in Seq({"Other"}) /\ starting' = FALSE /\ retry_armed' = FALSE
          /\ queued_prompts' = queued_prompts /\ cancelled' \in BOOLEAN
        BY <1>3, <1>6, <1>7 DEF Cancel, Active
    <2>2. ToldInv'
        BY <1>5, <2>1
    <2> QED BY <1>4, <1>6, <2>1, <2>2
<1>8. CASE action \notin {"Abort", "Quit"} /\ Active /\ PromptWhileActive(action)
    <2>1. /\ outbox' \in Seq({"Other"}) /\ starting' = FALSE /\ retry_armed' = FALSE
          /\ cancelled' \in BOOLEAN
          /\ queued_prompts' = queued_prompts \/ queued_prompts' = queued_prompts + 1
          /\ action # "Quit"
        BY <1>3, <1>6, <1>8 DEF PromptWhileActive, Active
    <2>2. ToldInv'
        BY <1>5, <2>1
    <2> QED BY <1>4, <1>6, <2>1, <2>2
<1>9. CASE action \notin {"Abort", "Quit"} /\ ~Active /\ PromptWhileIdle
    <2>1. PICK compaction \in PromptEvents :
              outbox' = (IF retry_armed THEN <<"Other">> ELSE <<>>) \o compaction
        BY <1>9 DEF PromptWhileIdle
    <2>2. PICK said \in Seq(Events) : outbox' = said \o compaction
        BY <1>6, <2>1
    <2>3. compaction \in Seq(Events)
        BY SentTyped
    <2>4. outbox' \in Seq(Events)
        BY <2>2, <2>3, SentJoined
    <2>5. /\ starting' = TRUE /\ retry_armed' = FALSE /\ run = "none"
          /\ queued_prompts' = queued_prompts /\ cancelled' = cancelled
        BY <1>9 DEF PromptWhileIdle, Active
    <2>6. ToldInv'
        BY <1>1, <2>4, <2>5, BetweenRuns DEF progress
    <2> QED BY <1>3, <1>4, <2>4, <2>5, <2>6
<1> QED BY <1>2, <1>7, <1>8, <1>9

LEMMA KeysFollowStep == ASSUME KeysFollowInv, [Next]_interactiveVars PROVE KeysFollowInv'
<1>1. CASE ControllerStep
    BY <1>1, ControllerSendsStep, SpawnRunStep, ReceiveActionStep, RunCompletesStep,
       RunRetriesStep, RunOverflowsStep, RetryFiresStep, ControllerExitsStep DEF ControllerStep
<1>2. CASE UNCHANGED interactiveVars
    <2>1. UNCHANGED <<tui, agent_state, last_ctrl_c, keys, signalled, controller, quitting,
                      queued_prompts, outbox, starting, retry_armed, recoveries, recovery_failed,
                      run, run_out, cancelled, steps, compacted, actions, events>>
        BY <1>2 DEF interactiveVars, tuiVars, ctlVars, runVars, recovering, progress
    <2>2. Told' = Told
        BY <2>1, ToldFrame DEF Pending
    <2>3. ToldInv'
        BY <2>1, <2>2, ToldKept DEF KeysFollowInv
    <2>4. TypeOK' /\ SendersInv' /\ KeysInv'
        BY <2>1 DEF KeysFollowInv, TypeOK, SendersInv, KeysInv
    <2> QED BY <2>3, <2>4 DEF KeysFollowInv
<1> QED BY <1>1, <1>2, UserStep, DrainStep, ProcessEndsStep, TaskSendsStep, TaskEndsStep DEF Next

LEMMA KeysFollowHolds == KeysFollowInv => KeysFollowRun
<1> SUFFICES ASSUME KeysFollowInv PROVE KeysFollowRun
    OBVIOUS
<1>1. ASSUME Shown PROVE Told = agent_state
    <2>1. Delivered = agent_state
        BY <1>1, NothingShown DEF Delivered, Shown
    <2>2. Pending = <<>>
        BY <1>1 DEF Pending, Shown
    <2> QED BY <2>1, <2>2, NothingPending
<1>2. IdleShown
    BY <1>1 DEF IdleShown, KeysFollowInv, ToldInv, IdleTold
<1>3. RunShownUntilCompacted
    BY <1>1 DEF RunShownUntilCompacted, InRun, KeysFollowInv, ToldInv, StreamTold
<1> QED BY <1>2, <1>3 DEF KeysFollowRun, KeysFollowInv

\* What a key means follows the run, as long as the events have come through: with
\* nothing on the way the TUI is idle between two runs, and takes the keys as those
\* of an active run until the run compacts its context on the way, and while a tool
\* runs.
THEOREM KeysFollow == Spec => []KeysFollowRun
<1>1. Init => KeysFollowInv
    BY KeysFollowInit
<1>2. KeysFollowInv /\ [Next]_interactiveVars => KeysFollowInv'
    BY KeysFollowStep
<1>3. KeysFollowInv => KeysFollowRun
    BY KeysFollowHolds
<1> QED BY <1>1, <1>2, <1>3, PTL DEF Spec

===========================================================================
