----------------------------- MODULE OAuthLogin -----------------------------
(***************************************************************************)
(* `anie login <provider>`: anie-cli/src/login_command.rs, the callback    *)
(* server of anie-auth/src/callback.rs and the five OAuth clients.  Several *)
(* logins may run at once, the browser tabs of all of them stay open, and   *)
(* every answer of a provider may be an error.                              *)
(*                                                                         *)
(* Device polling keeps time in tenths of a second.                         *)
(***************************************************************************)
EXTENDS Integers, FiniteSets

CONSTANTS
    Logins,
    DeviceInterval,     \* the poll interval of the device answer, seconds
    DeviceExpires,      \* how long its code lives, seconds
    SlowDownIntervals,  \* intervals a slow_down may carry, seconds
    MaxLroPollAttempts, \* 60 in the code
    MaxRefreshes        \* bound: refreshes of a stored credential

ASSUME OAuthLoginAssumption ==
    /\ DeviceInterval \in Nat /\ DeviceExpires \in Nat /\ SlowDownIntervals \subseteq Nat
    /\ MaxLroPollAttempts \in Nat \ {0} /\ MaxRefreshes \in Nat

Google == {"google-antigravity", "google-gemini-cli"}
AuthCode == {"anthropic", "openai-codex"} \cup Google
OAuthProviders == AuthCode \cup {"github-copilot"}

Unset == "unset"
Unnamed == -1       \* a slow_down without an interval
NoToken == [grant |-> Unset, refresh |-> FALSE, account |-> FALSE, project |-> "none"]
Fresh == [provider |-> "anthropic", at |-> "idle", code |-> Unset, late |-> FALSE, cred |-> NoToken,
          interval |-> 0, multiplier |-> 12, now |-> 0, last |-> 0, asked |-> 0, attempts |-> 0]

VARIABLES
    login,      \* every login attempt
    store,      \* the OAuth entry of every provider in auth.json
    refreshes

loginVars == <<login, store, refreshes>>

OAuthLoginInit ==
    /\ login = [l \in Logins |-> Fresh]
    /\ store = [p \in OAuthProviders |-> NoToken]
    /\ refreshes = 0

MoveTo(l, place) == login' = [login EXCEPT ![l].at = place]
Fail(l) == MoveTo(l, "failed")
MaxOf(a, b) == IF a >= b THEN a ELSE b
MinOf(a, b) == IF a <= b THEN a ELSE b

-----------------------------------------------------------------------------
(* begin_login *)

\* The redirect port belongs to the provider: a second listener cannot bind it.
PortTaken(p) == \E x \in Logins : login[x].provider = p /\ login[x].at \in {"listening", "reading"}

\* Authorization code with PKCE: the state is a secret of this login.
BeginAuthCode(l, p) ==
    /\ login[l].at = "idle" /\ p \in AuthCode
    /\ login' = [login EXCEPT ![l].provider = p,
                              ![l].at = IF PortTaken(p) THEN "failed" ELSE "listening"]
    /\ UNCHANGED <<store, refreshes>>

\* The device answer, whose interval is at least a second; or an error.
BeginDevice(l) ==
    /\ login[l].at = "idle"
    /\ \/ login' = [login EXCEPT ![l].provider = "github-copilot", ![l].at = "polling",
                                 ![l].interval = 10 * MaxOf(DeviceInterval, 1),
                                 ![l].asked = 10 * DeviceInterval]
       \/ login' = [login EXCEPT ![l].provider = "github-copilot", ![l].at = "failed"]
    /\ UNCHANGED <<store, refreshes>>

-----------------------------------------------------------------------------
(* The callback server: await_callback_on_path *)

Accept(l) ==
    /\ login[l].at = "listening" /\ ~ login[l].late
    /\ MoveTo(l, "reading")
    /\ UNCHANGED <<store, refreshes>>

\* A peer that sends nothing is dropped after ACCEPTED_READ_TIMEOUT.
ReadTimesOut(l) ==
    /\ login[l].at = "reading"
    /\ MoveTo(l, "listening")
    /\ UNCHANGED <<store, refreshes>>

\* LOGIN_TIMEOUT has passed: the accept ends, the loop sees it before the next one.
DeadlinePasses(l) ==
    /\ login[l].at \in {"listening", "reading"} /\ ~ login[l].late
    /\ login' = [login EXCEPT ![l].late = TRUE]
    /\ UNCHANGED <<store, refreshes>>

CallbackTimesOut(l) ==
    /\ login[l].at = "listening" /\ login[l].late
    /\ Fail(l)
    /\ UNCHANGED <<store, refreshes>>

\* A malformed request is answered 400, another path 404; the server goes on.
OtherRequest(l) ==
    /\ login[l].at = "reading"
    /\ MoveTo(l, "listening")
    /\ UNCHANGED <<store, refreshes>>

\* An I/O error, error=..., or a parameter missing: the login is over.
BadCallback(l) ==
    /\ login[l].at = "reading"
    /\ Fail(l)
    /\ UNCHANGED <<store, refreshes>>

\* The tab of login x, or of one that has ended, is redirected to the port.
Tabs(p) == {x \in Logins : login[x].provider = p /\ login[x].at # "idle"}

\* run_login compares the state with its own before it uses the code.
Redirect(l, x) ==
    /\ login[l].at = "reading"
    /\ IF x = l THEN login' = [login EXCEPT ![l].at = "exchanging", ![l].code = x]
       ELSE Fail(l)
    /\ UNCHANGED <<store, refreshes>>

-----------------------------------------------------------------------------
(* complete_login *)

\* The token endpoint fails, or its answer does not parse or has no refresh token.
ExchangeFails(l) ==
    /\ login[l].at \in {"exchanging", "copilot"}
    /\ Fail(l)
    /\ UNCHANGED <<store, refreshes>>

Exchanged(l, account, next) ==
    /\ login[l].at = "exchanging"
    /\ login' = [login EXCEPT ![l].at = next,
            ![l].cred = [grant |-> login[l].code, refresh |-> TRUE, account |-> account, project |-> "none"]]
    /\ UNCHANGED <<store, refreshes>>

AnthropicExchanged(l) == login[l].provider = "anthropic" /\ Exchanged(l, FALSE, "saving")

\* The account is a claim of the access token, if it can be read.
CodexExchanged(l, account) == login[l].provider = "openai-codex" /\ Exchanged(l, account, "saving")

\* The e-mail address is best effort; without a refresh token the login fails.
GoogleExchanged(l, account) == login[l].provider \in Google /\ Exchanged(l, account, "discovering")

ProjectFound(l, project) == login' = [login EXCEPT ![l].cred.project = project, ![l].at = "saving"]

\* Antigravity: the endpoints in order, each may say nothing useful; a default
\* project stands in.
DiscoverAntigravity(l) ==
    /\ login[l].at = "discovering" /\ login[l].provider = "google-antigravity"
    /\ \E project \in {"server", "default"} : ProjectFound(l, project)
    /\ UNCHANGED <<store, refreshes>>

\* Gemini: what loadCodeAssist answers.
TierIds == {"none", "free-tier", "standard-tier", "legacy-tier"}
LoadAnswers ==
    [status : {"ok"}, currentTier : BOOLEAN, project : BOOLEAN, defaultTier : TierIds]
    \cup [status : {"security policy violated", "error"}, currentTier : {FALSE},
          project : {FALSE}, defaultTier : {"none"}]

\* discover_project up to the onboarding: the project, a failure, or whether the
\* project of the environment goes into the onboarding request.
ProjectAnswer(answer, env_project) ==
    IF answer.status = "error" THEN "fails"
    ELSE IF answer.status = "security policy violated" \/ answer.currentTier
    THEN CASE answer.project -> "server"
           [] ~ answer.project /\ env_project -> "env"
           [] OTHER -> "fails"
    ELSE IF answer.defaultTier \in {"none", "standard-tier", "legacy-tier"}
         THEN IF env_project THEN "onboard with project" ELSE "fails"
         ELSE "onboard"

DiscoverGemini(l, answer, env_project) ==
    LET next == ProjectAnswer(answer, env_project)
    IN  /\ login[l].at = "discovering" /\ login[l].provider = "google-gemini-cli"
        /\ CASE next = "fails" -> Fail(l)
             [] next \in {"onboard", "onboard with project"} -> MoveTo(l, "onboarding")
             [] OTHER -> ProjectFound(l, next)
        /\ UNCHANGED <<store, refreshes>>

\* A finished operation has a project or the login fails.
OperationDone(l) == Fail(l) \/ ProjectFound(l, "server")

\* onboardUser: an error, an operation that is done, or one to poll (by its name).
Onboard(l) ==
    /\ login[l].at = "onboarding"
    /\ OperationDone(l) \/ MoveTo(l, "operation")
    /\ UNCHANGED <<store, refreshes>>

\* poll_lro gives up after MaxLroPollAttempts.
PollOperation(l) ==
    LET attempt == login[l].attempts + 1
    IN  /\ login[l].at = "operation"
        /\ \/ OperationDone(l)
           \/ login' = [login EXCEPT ![l].attempts = attempt,
                                     ![l].at = IF attempt = MaxLroPollAttempts THEN "failed" ELSE "operation"]
        /\ UNCHANGED <<store, refreshes>>

-----------------------------------------------------------------------------
(* The device flow: poll_device_flow *)

Deadline == 10 * DeviceExpires
WaitOf(d) == MinOf((d.interval * d.multiplier) \div 10, Deadline - d.now)

DeviceExpired(l) ==
    /\ login[l].at = "polling" /\ login[l].now >= Deadline
    /\ Fail(l)
    /\ UNCHANGED <<store, refreshes>>

\* Variant of SlowedDown with a bug: the interval stays as it is.
BugSlowDownIgnored(d, seconds) == [d EXCEPT !.multiplier = 14]

\* slow_down: the interval the server names, else five seconds more.
SlowedDown(d, seconds) ==
    LET interval == IF seconds = Unnamed THEN d.interval + 50 ELSE 10 * seconds
    IN  [d EXCEPT !.interval = interval, !.multiplier = 14]

Required(d, seconds) == IF seconds = Unnamed THEN d.asked + 50 ELSE 10 * seconds

\* One wait and one poll: pending, slow down, granted, rejected or unreachable.
PollDevice(l) ==
    LET d == login[l]
        polled == [d EXCEPT !.now = d.now + WaitOf(d), !.last = d.now]
    IN  /\ d.at = "polling" /\ d.now < Deadline
        /\ \/ login' = [login EXCEPT ![l] = polled]
           \/ \E seconds \in {Unnamed} \cup SlowDownIntervals :
                 login' = [login EXCEPT ![l] =
                             [SlowedDown(polled, seconds) EXCEPT !.asked = Required(d, seconds)]]
           \/ login' = [login EXCEPT ![l] = [polled EXCEPT !.at = "copilot", !.code = l]]
           \/ Fail(l)
        /\ UNCHANGED <<store, refreshes>>

\* fetch_copilot_token: the GitHub token is kept as the refresh token.
CopilotToken(l) ==
    /\ login[l].at = "copilot"
    /\ login' = [login EXCEPT ![l].at = "saving",
            ![l].cred = [grant |-> login[l].code, refresh |-> TRUE, account |-> FALSE, project |-> "none"]]
    /\ UNCHANGED <<store, refreshes>>

-----------------------------------------------------------------------------
(* Saving and refreshing *)

Persist(l) ==
    /\ login[l].at = "saving"
    /\ \/ /\ store' = [store EXCEPT ![login[l].provider] = login[l].cred]
          /\ MoveTo(l, "done")
       \/ /\ Fail(l)
          /\ UNCHANGED store
    /\ UNCHANGED refreshes

\* Anthropic's answer has both tokens; everything else is carried over.
AnthropicRefreshed(old) == [old EXCEPT !.refresh = TRUE]

\* An account found at login is kept, else it is looked for again.
CodexRefreshed(old, account) == [old EXCEPT !.refresh = TRUE, !.account = old.account \/ account]

\* The GitHub token, kept as the refresh token, buys another Copilot token.
CopilotRefreshed(old) == old

\* Google may leave the refresh token out of the answer.
GoogleRefreshed(old, refresh) == [old EXCEPT !.refresh = refresh \/ old.refresh]

RefreshedEntry(p, old, refresh, account) ==
    CASE p = "anthropic" -> AnthropicRefreshed(old)
      [] p = "openai-codex" -> CodexRefreshed(old, account)
      [] p = "github-copilot" -> CopilotRefreshed(old)
      [] p \in Google -> GoogleRefreshed(old, refresh)

RefreshToken(p, refresh, account) ==
    /\ store[p] # NoToken /\ refreshes < MaxRefreshes
    /\ store' = [store EXCEPT ![p] = RefreshedEntry(p, store[p], refresh, account)]
    /\ refreshes' = refreshes + 1
    /\ UNCHANGED login

LoginStep(l) ==
    \/ \E p \in AuthCode : BeginAuthCode(l, p)
    \/ BeginDevice(l)
    \/ Accept(l) \/ ReadTimesOut(l) \/ DeadlinePasses(l) \/ CallbackTimesOut(l)
    \/ OtherRequest(l) \/ BadCallback(l)
    \/ \E x \in Tabs(login[l].provider) : Redirect(l, x)
    \/ ExchangeFails(l)
    \/ AnthropicExchanged(l)
    \/ \E account \in BOOLEAN : CodexExchanged(l, account) \/ GoogleExchanged(l, account)
    \/ DiscoverAntigravity(l)
    \/ \E answer \in LoadAnswers, env_project \in BOOLEAN : DiscoverGemini(l, answer, env_project)
    \/ Onboard(l) \/ PollOperation(l)
    \/ DeviceExpired(l) \/ PollDevice(l) \/ CopilotToken(l)
    \/ Persist(l)

OAuthLoginNext ==
    \/ \E l \in Logins : LoginStep(l)
    \/ \E p \in OAuthProviders, refresh, account \in BOOLEAN : RefreshToken(p, refresh, account)

\* Timers fire; no peer, browser or provider is assumed to answer.
OAuthLoginSpec ==
    /\ OAuthLoginInit /\ [][OAuthLoginNext]_loginVars
    /\ \A l \in Logins : /\ WF_loginVars(DeadlinePasses(l))
                       /\ WF_loginVars(ReadTimesOut(l))
                       /\ WF_loginVars(CallbackTimesOut(l))

-----------------------------------------------------------------------------
(* Properties *)

\* What is stored came from a grant of a login of that provider, can be refreshed,
\* and has a project if it is Google's, however often it was refreshed since.
StoredComplete ==
    \A p \in OAuthProviders :
        store[p] # NoToken =>
            /\ store[p].grant \in Logins /\ login[store[p].grant].provider = p
            /\ store[p].refresh
            /\ (p \in Google) = (store[p].project # "none")

\* A login only ever uses the code its own browser tab was granted, whatever tabs of
\* other logins are redirected to its port.
OwnGrant ==
    \A l \in Logins :
        /\ login[l].code \in {Unset, l}
        /\ login[l].at = "done" => login[l].cred.grant = l

\* The device endpoint is polled no more often than it asked, except for the last
\* poll, at the deadline; and never after it.
PollsSpaced ==
    [][\A l \in Logins :
          login'[l].now # login[l].now =>
              /\ login'[l].now <= Deadline
              /\ login'[l].now - login[l].now >= login[l].asked \/ login'[l].now = Deadline]_loginVars

\* A login ends with what it was granted, or with nothing.
LoginSound == [](StoredComplete /\ OwnGrant) /\ PollsSpaced

\* A login that waits for its callback; it ends whatever connections come and say
\* nothing.
AwaitsCallback == \E l \in Logins : login[l].at \in {"listening", "reading"}
=============================================================================
