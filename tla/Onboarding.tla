----------------------------- MODULE Onboarding -----------------------------
(* The first-run and /onboard screen (anie-tui: overlays/onboarding.rs):     *)
(* one state that keys and late worker results both replace, the providers   *)
(* configured so far, and what closing the screen writes and reports         *)
(* (app.rs, anie-cli: onboarding.rs).  A context is [kind, name, key,        *)
(* manual]: the way a provider is added, its name, the key typed and the     *)
(* model id typed in case discovery finds none ("" for none).                *)
EXTENDS Naturals, Sequences, FiniteSets, SequencesExt

CONSTANTS
    Presets,        \* hosted providers offered with an API key
    Servers,        \* local servers detection may find
    CustomNames,    \* names a custom endpoint may be given
    Keys,           \* API keys that can be typed
    Advertised,        \* models a provider may advertise
    Fallback,       \* the preset's own model
    MaxConfigured,  \* bound: providers finalized
    MaxWorkers      \* bound: workers and undelivered results

VARIABLES
    state,          \* OnboardingState, the menu position left out
    servers,        \* local_detection: "pending" or "ready"
    found,          \* the servers of a detection that is ready
    configured,     \* configured_providers: [name, model, kind, default]
    reload_target,  \* persisted_reload_target
    workers, results,
    stored,         \* the credential store: the keys of each name
    saved,          \* the default the config file names
    notified,       \* the last ReloadConfig sent
    latest,         \* history: the provider finalized last
    removed         \* history: providers deleted under "manage existing"

onvars == <<state, servers, found, configured, reload_target, workers, results,
            stored, saved, notified, latest, removed>>

Screen(at) == [at |-> at]
Nobody == [name |-> "", model |-> ""]
Names == Presets \cup Servers \cup CustomNames

KeyInput(name, key) == [at |-> "key", name |-> name, key |-> key]
Form(url, name, key, manual) ==
    [at |-> "custom", url |-> url, name |-> name, key |-> key, manual |-> manual]
EmptyForm == Form(FALSE, "", "", "")
Problem(back) == [at |-> "error", back |-> back]
Working(back) == [at |-> "busy", back |-> back]
Discovering(context) == [at |-> "discovering", context |-> context]
ChoosingModel(context, models, loading) ==
    [at |-> "picking", context |-> context, models |-> models, loading |-> loading]

LocalContext(s) == [kind |-> "local", name |-> s, key |-> "", manual |-> ""]
PresetContext(p, key) == [kind |-> "preset", name |-> p, key |-> key, manual |-> ""]
CustomContext(f) ==
    [kind |-> "custom", key |-> f.key, manual |-> f.manual, typed |-> f.name,
     name |-> IF f.name = "" THEN "custom" ELSE f.name]

\* return_state_for_context: where Esc leads from a worker's screen.
ReturnState(context) ==
    CASE context.kind = "local"  -> Screen("servers")
      [] context.kind = "preset" -> KeyInput(context.name, context.key)
      [] context.kind = "custom" -> Form(TRUE, context.typed, context.key, context.manual)

Go(s) == state' = s
Start(job) == workers' = Append(workers, job)
RoomToWork == Len(workers) + Len(results) < MaxWorkers
NothingElse == UNCHANGED <<servers, found, configured, reload_target, workers, results,
                    stored, saved, notified, latest, removed>>

-----------------------------------------------------------------------------
(* Finishing a provider: the others lose the default, a provider of the same *)
(* name is replaced where it stands.                                         *)

\* Variant of Finalized with a bug: the others keep the default.
BugFinalized(list, c) ==
    LET cleared == [i \in DOMAIN list |-> list[i]]
        same    == {i \in DOMAIN list : list[i].name = c.name}
    IN  IF same = {} THEN Append(cleared, c)
        ELSE [cleared EXCEPT ![CHOOSE i \in same : \A j \in same : i <= j] = c]

Finalized(list, c) ==
    LET cleared == [i \in DOMAIN list |-> [list[i] EXCEPT !.default = FALSE]]
        same    == {i \in DOMAIN list : list[i].name = c.name}
    IN  IF same = {} THEN Append(cleared, c)
        ELSE [cleared EXCEPT ![CHOOSE i \in same : \A j \in same : i <= j] = c]

Configure(context, model) ==
    LET c == [name |-> context.name, model |-> model, kind |-> context.kind, default |-> TRUE]
    IN  /\ configured' = Finalized(configured, c)
        /\ latest' = [name |-> c.name, model |-> c.model]

\* fallback_provider_for_context
FallbackModel(context) == IF context.kind = "preset" THEN Fallback ELSE context.manual

\* apply_model_discovery_result, with no models for an error or an empty answer.
ModelsArrive(context, models) ==
    LET refresh == state.at = "picking" /\ state.context = context
    IN  IF models # {}
        THEN Go(ChoosingModel(context, models, FALSE)) /\ UNCHANGED <<configured, latest>>
        ELSE IF refresh
        THEN Go([state EXCEPT !.loading = FALSE]) /\ UNCHANGED <<configured, latest>>
        ELSE IF FallbackModel(context) # ""
        THEN Configure(context, FallbackModel(context)) /\ Go(Screen("success"))
        ELSE Go(Problem(ReturnState(context))) /\ UNCHANGED <<configured, latest>>

-----------------------------------------------------------------------------
(* Workers.                                                                  *)

\* Validation stores the key it found to work; discovery only answers.
HelperEnds ==
    \E i \in DOMAIN workers, ok \in BOOLEAN, models \in SUBSET Advertised, some \in SUBSET Servers :
        LET w == workers[i]
            keyed == ok /\ w.kind = "validate" /\ w.context.key # ""
        IN  /\ state # Screen("closed")
            /\ w.kind # "discover" => models = {}
            /\ w.kind # "detect" => some = {}
            /\ w.kind # "validate" => ok
            /\ workers' = RemoveAt(workers, i)
            /\ results' = Append(results, [kind |-> w.kind, context |-> w.context, ok |-> ok,
                                           models |-> models, servers |-> some])
            /\ stored' = IF keyed THEN [stored EXCEPT ![w.context.name] = @ \cup {w.context.key}]
                         ELSE stored
            /\ UNCHANGED <<state, servers, found, configured, reload_target, saved, notified,
                           latest, removed>>

\* handle_worker_event, for the result that waits longest.
OnboardingTick ==
    /\ results # <<>> /\ state # Screen("closed")
    /\ results' = Tail(results)
    /\ LET r == Head(results)
       IN  \/ /\ r.kind = "detect"
              /\ servers' = "ready" /\ found' = r.servers
              /\ Go(IF state # Screen("waiting") THEN state
                    ELSE IF r.servers = {} THEN Screen("no_servers") ELSE Screen("servers"))
              /\ UNCHANGED <<configured, latest, workers>>
           \/ /\ r.kind = "validate" /\ r.ok
              /\ Go(Discovering(r.context)) /\ Start([kind |-> "discover", context |-> r.context])
              /\ UNCHANGED <<servers, found, configured, latest>>
           \/ /\ r.kind = "validate" /\ ~r.ok
              /\ Go(Problem(ReturnState(r.context)))
              /\ UNCHANGED <<servers, found, configured, latest, workers>>
           \/ /\ r.kind = "discover"
              /\ ModelsArrive(r.context, r.models)
              /\ UNCHANGED <<servers, found, workers>>
    /\ UNCHANGED <<reload_target, stored, saved, notified, removed>>

-----------------------------------------------------------------------------
(* Keys.                                                                     *)

MainMenuKey ==
    /\ state = Screen("menu")
    /\ \/ Go(IF servers = "pending" THEN Screen("waiting")
             ELSE IF found = {} THEN Screen("no_servers") ELSE Screen("servers"))
       \/ \E s \in {Screen("presets"), Screen("managing"), EmptyForm} : Go(s)
    /\ NothingElse

\* Escape from a list, any key on an outcome, Enter where there is only one way on.
ReturnKey ==
    /\ \/ state.at \in {"waiting", "servers", "no_servers", "presets", "success", "custom"} /\ Go(Screen("menu"))
       \/ state.at \in {"key", "oauth"} /\ Go(Screen("presets"))
       \/ state.at \in {"busy", "error"} /\ Go(state.back)
       \/ state.at \in {"discovering", "picking"} /\ Go(ReturnState(state.context))
       \/ state.at = "no_servers" /\ Go(EmptyForm)
       \/ state.at = "presets" /\ \E s \in {Screen("oauth")} \cup {KeyInput(p, "") : p \in Presets} : Go(s)
    /\ NothingElse

Work(job) ==
    /\ RoomToWork /\ Start(job)
    /\ UNCHANGED <<servers, found, configured, reload_target, results, stored, saved, notified,
                   latest, removed>>

\* The servers are those of the detection, which may have answered again meanwhile.
ServerKey ==
    /\ state = Screen("servers")
    /\ IF servers = "pending" THEN Go(Screen("waiting")) /\ NothingElse
       ELSE \E s \in found :
                /\ Go(Discovering(LocalContext(s)))
                /\ Work([kind |-> "discover", context |-> LocalContext(s)])

ApiKeyKey ==
    /\ state.at = "key"
    /\ \/ \E key \in Keys \ {state.key} : Go([state EXCEPT !.key = key]) /\ NothingElse
       \/ state.key = "" /\ Go(Problem(state)) /\ NothingElse
       \/ /\ state.key # ""
          /\ Go(Working(state))
          /\ Work([kind |-> "validate", context |-> PresetContext(state.name, state.key)])

FormKey ==
    /\ state.at = "custom"
    /\ \/ \E name \in CustomNames \cup {""}, key \in Keys \cup {""}, manual \in {"", "typed"} :
              /\ state = EmptyForm
              /\ Go(Form(TRUE, name, key, manual)) /\ NothingElse
       \/ ~state.url /\ Go(Problem(state)) /\ NothingElse
       \/ /\ state.url
          /\ Go(Working(state))
          /\ Work([kind |-> "validate", context |-> CustomContext(state)])

ModelKey ==
    /\ state.at = "picking"
    /\ \/ /\ Go([state EXCEPT !.loading = TRUE])
          /\ Work([kind |-> "discover", context |-> state.context])
       \/ \E m \in state.models :
              /\ Configure(state.context, m) /\ Go(Screen("success"))
              /\ UNCHANGED <<servers, found, reload_target, workers, results, stored, saved,
                             notified, removed>>

\* The embedded provider screen (the module ProviderScreen), for a hosted provider: it
\* changes the default, or deletes the provider and its key; the change it reports
\* becomes the reload target.
ManageKey ==
    /\ state = Screen("managing")
    /\ \/ Go(Screen("menu")) /\ UNCHANGED <<reload_target, stored, saved, removed>>
       \/ \E n \in Presets :
              /\ stored[n] # {} /\ n # saved.name
              /\ \/ saved' = [name |-> n, model |-> Fallback] /\ UNCHANGED <<stored, removed>>
                 \/ /\ stored' = [stored EXCEPT ![n] = {}]
                    /\ removed' = removed \cup {n}
                    /\ UNCHANGED saved
              /\ reload_target' = saved'
              /\ UNCHANGED state
    /\ UNCHANGED <<servers, found, configured, workers, results, notified, latest>>

\* write_configured_providers: the last one marked as the default, else the last.
WrittenDefault(list) ==
    LET marked == {i \in DOMAIN list : list[i].default}
        chosen == IF marked = {} THEN Len(list) ELSE CHOOSE i \in marked : \A j \in marked : j <= i
    IN  [name |-> list[chosen].name, model |-> list[chosen].model]

\* Done: the configured providers are written and reported, or else what the embedded
\* screen already wrote is reported.  A failed write reports nothing.
Done ==
    /\ state = Screen("menu")
    /\ Go(Screen("closed"))
    /\ \/ configured # <<>> /\ saved' = WrittenDefault(configured) /\ notified' = saved'
       \/ configured # <<>> /\ UNCHANGED <<saved, notified>>
       \/ /\ configured = <<>>
          /\ notified' = IF reload_target = Nobody THEN notified ELSE reload_target
          /\ UNCHANGED saved
    /\ UNCHANGED <<servers, found, configured, reload_target, workers, results, stored, latest, removed>>

Cancelled == state = Screen("menu") /\ Go(Screen("closed")) /\ NothingElse

OnboardingInit ==
    /\ state = Screen("menu") /\ servers = "pending" /\ found = {}
    /\ configured = <<>> /\ reload_target = Nobody
    /\ workers = <<[kind |-> "detect", context |-> LocalContext("")]>> /\ results = <<>>
    /\ stored = [n \in Names \cup {"custom"} |-> {}]
    /\ saved = Nobody /\ notified = Nobody /\ latest = Nobody /\ removed = {}

OnboardingNext ==
    \/ HelperEnds \/ OnboardingTick
    \/ /\ Len(configured) < MaxConfigured
       /\ MainMenuKey \/ ServerKey \/ ApiKeyKey \/ FormKey \/ ModelKey
    \/ ReturnKey \/ ManageKey \/ Done \/ Cancelled

OnboardingFairness == WF_onvars(HelperEnds) /\ WF_onvars(OnboardingTick)
OnboardingSpec == OnboardingInit /\ [][OnboardingNext]_onvars /\ OnboardingFairness

-----------------------------------------------------------------------------
(* Whatever was added twice, fell back or came late: the configured          *)
(* providers have distinct names and one default, the one finalized last,    *)
(* and that is the default closing the screen writes.                        *)
DefaultIsLatest ==
    configured # <<>> =>
        /\ \A i, j \in DOMAIN configured : i # j => configured[i].name # configured[j].name
        /\ WrittenDefault(configured) = latest
        /\ Cardinality({i \in DOMAIN configured : configured[i].default}) = 1

(* A hosted provider is only configured with a key that was found to work    *)
(* and stored before, unless the user deleted it again meanwhile.            *)
ConfiguredHasKey ==
    \A i \in DOMAIN configured :
        LET c == configured[i]
        IN  c.kind = "preset" => (stored[c.name] # {} \/ c.name \in removed)

(* What onboarding configures has one default and keys that work.            *)
SetupSound == DefaultIsLatest /\ ConfiguredHasKey

(* The screens that say to wait.                                             *)
SetupWaits == state.at \in {"waiting", "busy", "discovering"}
=============================================================================
