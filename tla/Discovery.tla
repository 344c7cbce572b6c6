----------------------------- MODULE Discovery -----------------------------
(* The model picker's live discovery: what a server lists and which entries    *)
(* are offered, the tasks that fetch lists one at a time, the answers that     *)
(* arrive while the picker has been closed or reopened, and the model the      *)
(* picker sends to a controller whose catalog a reload may have rebuilt        *)
(* (anie-providers-builtin model_discovery.rs, anie-tui app.rs,                *)
(* anie-cli models_command.rs).                                                *)
EXTENDS Naturals, Sequences, SequencesExt

CONSTANTS
    Configured,    \* provider -> the ids its config entry defines
    Listings,      \* provider -> the answers its server may give
    Nothing,       \* an absent value
    Failed,        \* a discovery that failed
    Closed,        \* no picker is open
    Cap,           \* [ollama] default_max_num_ctx, or Nothing
    Guess,         \* the window of a model whose listing gives none
    MaxAddress,    \* bound: addresses a provider gets over time
    MaxTasks       \* bound: discoveries started

ProviderNames == DOMAIN Configured

VARIABLES
    config,       \* provider -> the address config.toml gives it
    loaded,       \* what the controller last read
    catalog,      \* the controller's models: <<provider, id>> -> [address, window]
    known,        \* the TUI's copy, taken at start
    active,       \* the model in use
    model_picker, \* [provider, address, list, loading, error], or Closed
    tasks,        \* discoveries not yet delivered, oldest first
    fetching,     \* the index of the task that holds the cache's lock, or 0
    started       \* how many were started

discoveryVars == <<config, loaded, catalog, known, active, model_picker, tasks, fetching, started>>

------------------------------------------------------------------------------
(* What a listing becomes.                                                     *)

\* Entries a chat cannot use are dropped: anything but a model; for OpenRouter
\* what takes no tools; for Copilot what has no chat endpoint or is hidden.
Usable(provider, entry) ==
    /\ entry.model
    /\ provider = "openrouter" => entry.tools
    /\ provider = "copilot" => entry.chat

\* The first window any of the listing's fields gives.
ListedContext(entry) ==
    LET given == SelectSeq(entry.windows, LAMBDA w : w # Nothing)
    IN IF given = <<>> THEN Nothing ELSE given[1]

\* A listing's usable entries by id; later ones win in the picker's list.
UsableEntries(provider, listing) == {e \in Range(listing) : Usable(provider, e)}

\* A bare entry made into a model; native Ollama windows are capped.
ToModel(provider, entry, address) ==
    LET window == IF ListedContext(entry) = Nothing THEN Guess ELSE ListedContext(entry)
    IN [address |-> address,
        window |-> IF provider = "ollama" /\ Cap # Nothing /\ Cap < window THEN Cap ELSE window]

\* The catalog a start or a reload builds from the config.
BuildCatalog(c) ==
    [k \in UNION {{<<p, id>> : id \in Configured[p]} : p \in ProviderNames} |->
        [address |-> c[k[1]], window |-> Guess]]

\* f with key k set to v.
With(f, k, v) == [x \in DOMAIN f \cup {k} |-> IF x = k THEN v ELSE f[x]]

------------------------------------------------------------------------------
IdsOf(models, provider) == {k[2] : k \in {k \in DOMAIN models : k[1] = provider}}
NewTask(provider, address) == [provider |-> provider, address |-> address, result |-> Nothing]

DiscoveryInit ==
    /\ config = [p \in ProviderNames |-> 1] /\ loaded = config
    /\ catalog = BuildCatalog(config) /\ known = catalog
    /\ active \in {[key |-> k, model |-> catalog[k]] : k \in DOMAIN catalog}
    /\ model_picker = Closed /\ tasks = <<>> /\ fetching = 0 /\ started = 0

Provider == active.key[1]

\* The address discovery uses: the active model's entry, another model of that
\* provider, or else the config file.
ProviderAddress ==
    IF active.key \in DOMAIN known THEN known[active.key].address
    ELSE IF IdsOf(known, Provider) # {}
         THEN known[<<Provider, CHOOSE id \in IdsOf(known, Provider) : TRUE>>].address
         ELSE config[Provider]

SpawnDiscovery(provider, address) ==
    /\ started < MaxTasks /\ started' = started + 1
    /\ tasks' = Append(tasks, NewTask(provider, address))

\* Ctrl+O or /model: what is known is shown at once.
OpenPicker ==
    /\ model_picker = Closed
    /\ model_picker' = [provider |-> Provider, address |-> ProviderAddress,
                        list |-> IdsOf(known, Provider), loading |-> FALSE, error |-> FALSE]
    /\ SpawnDiscovery(Provider, ProviderAddress)
    /\ UNCHANGED <<config, loaded, catalog, known, active, fetching>>

RefreshPicker ==
    /\ model_picker # Closed
    /\ model_picker' = [model_picker EXCEPT !.loading = TRUE, !.error = FALSE]
    /\ SpawnDiscovery(model_picker.provider, model_picker.address)
    /\ UNCHANGED <<config, loaded, catalog, known, active, fetching>>

ClosePicker ==
    /\ model_picker # Closed /\ model_picker' = Closed
    /\ UNCHANGED <<config, loaded, catalog, known, active, tasks, fetching, started>>

\* Tasks take the lock in any order and hold it until their answer, or the
\* request's ten seconds, are over.
TakeLock ==
    /\ fetching = 0
    /\ \E i \in DOMAIN tasks : tasks[i].result = Nothing /\ fetching' = i
    /\ UNCHANGED <<config, loaded, catalog, known, active, model_picker, tasks, started>>

Answer ==
    /\ fetching # 0
    /\ \E result \in {Failed} \cup Listings[tasks[fetching].provider] :
         tasks' = [tasks EXCEPT ![fetching].result =
                     IF result = Failed THEN Failed ELSE UsableEntries(tasks[fetching].provider, result)]
    /\ fetching' = 0
    /\ UNCHANGED <<config, loaded, catalog, known, active, model_picker, started>>

\* Variant of Added with a bug: an answer overwrites what was known.
BugAdded(provider, address, entries) ==
    LET keys == {<<provider, e.id>> : e \in entries}
    IN [k \in DOMAIN known \cup keys |->
           IF k \notin keys THEN known[k]
           ELSE ToModel(provider, CHOOSE e \in entries : e.id = k[2], address)]

\* What is known after an answer: models it does not know are added, no other changes.
Added(provider, address, entries) ==
    LET keys == {<<provider, e.id>> : e \in entries}
    IN [k \in DOMAIN known \cup keys |->
           IF k \in DOMAIN known THEN known[k]
           ELSE ToModel(provider, CHOOSE e \in entries : e.id = k[2], address)]

\* Variant of Deliver with a bug: a failure leaves the picker loading.
BugDeliver ==
    /\ \E i \in DOMAIN tasks :
         LET task == tasks[i]
             wanted == model_picker # Closed /\ model_picker.provider = task.provider
         IN /\ task.result # Nothing
            /\ tasks' = RemoveAt(tasks, i)
            /\ fetching' = IF fetching > i THEN fetching - 1 ELSE fetching
            /\ IF ~wanted THEN UNCHANGED <<known, model_picker>>
               ELSE IF task.result = Failed
               THEN /\ model_picker' = [model_picker EXCEPT !.error = TRUE]
                    /\ UNCHANGED known
               ELSE /\ known' = Added(task.provider, model_picker.address, task.result)
                    /\ model_picker' = [model_picker EXCEPT !.list = {e.id : e \in task.result},
                                                !.loading = FALSE, !.error = FALSE]
    /\ UNCHANGED <<config, loaded, catalog, active, started>>

\* A discovery's answer reaches the UI loop: dropped unless a picker for the
\* same provider is open, be it the one that asked or a later one.
Deliver ==
    /\ \E i \in DOMAIN tasks :
         LET task == tasks[i]
             wanted == model_picker # Closed /\ model_picker.provider = task.provider
         IN /\ task.result # Nothing
            /\ tasks' = RemoveAt(tasks, i)
            /\ fetching' = IF fetching > i THEN fetching - 1 ELSE fetching
            /\ IF ~wanted THEN UNCHANGED <<known, model_picker>>
               ELSE IF task.result = Failed
               THEN /\ model_picker' = [model_picker EXCEPT !.loading = FALSE, !.error = TRUE]
                    /\ UNCHANGED known
               ELSE /\ known' = Added(task.provider, model_picker.address, task.result)
                    /\ model_picker' = [model_picker EXCEPT !.list = {e.id : e \in task.result},
                                                !.loading = FALSE, !.error = FALSE]
    /\ UNCHANGED <<config, loaded, catalog, active, started>>

\* SetResolvedModel, as the controller applies it.
SendResolvedModel(key, model) ==
    /\ catalog' = With(catalog, key, model)
    /\ active' = [key |-> key, model |-> model]

\* A row chosen: the model known under that id, or else made up from the row.
Select ==
    /\ model_picker # Closed
    /\ \E id \in model_picker.list :
         LET key == <<model_picker.provider, id>>
             model == IF key \in DOMAIN known THEN known[key]
                      ELSE [address |-> model_picker.address, window |-> Guess]
         IN SendResolvedModel(key, model) /\ known' = With(known, key, model)
    /\ model_picker' = Closed
    /\ UNCHANGED <<config, loaded, tasks, fetching, started>>

\* /model provider:id that names a known model exactly.
ExactSwitch ==
    /\ model_picker = Closed
    /\ \E key \in DOMAIN known : SendResolvedModel(key, known[key])
    /\ UNCHANGED <<config, loaded, known, model_picker, tasks, fetching, started>>

EditConfig ==
    /\ \E p \in ProviderNames :
         config[p] < MaxAddress /\ config' = [config EXCEPT ![p] = @ + 1]
    /\ UNCHANGED <<loaded, catalog, known, active, model_picker, tasks, fetching, started>>

\* /reload: the catalog is built anew; the model in use is looked up in it, by
\* its key, then any of its provider.
Reload ==
    /\ model_picker = Closed
    /\ loaded' = config /\ catalog' = BuildCatalog(config)
    /\ active' = LET keys == {k \in DOMAIN catalog' : k[1] = Provider}
                     key == IF active.key \in DOMAIN catalog' THEN active.key
                            ELSE CHOOSE k \in keys : TRUE
                 IN [key |-> key, model |-> catalog'[key]]
    /\ UNCHANGED <<config, known, model_picker, tasks, fetching, started>>

DiscoveryNext ==
    \/ OpenPicker \/ RefreshPicker \/ ClosePicker \/ Select \/ ExactSwitch
    \/ TakeLock \/ Answer \/ Deliver
    \/ EditConfig \/ Reload

DiscoverySpec == DiscoveryInit /\ [][DiscoveryNext]_discoveryVars

------------------------------------------------------------------------------
\* An answer that arrives late, twice or for a picker opened since never changes
\* what is known of a model ("overwriting them produces requests with wrong
\* parameters and 400 errors"), and never offers an entry a chat cannot use.
DiscoveryKeepsKnown ==
    [][/\ \A k \in DOMAIN known : k \in DOMAIN known' /\ known'[k] = known[k]
       /\ \A k \in DOMAIN known' \ DOMAIN known :
            \E listing \in Listings[k[1]] : \E e \in Range(listing) : e.id = k[2] /\ Usable(k[1], e)
      ]_discoveryVars

\* Every row of the picker is a model the TUI knows in full: the list shown and
\* the models known never drift apart, whichever answers came in between, so no
\* choice is sent with a made-up description.
RowsAreKnown ==
    model_picker # Closed => \A id \in model_picker.list : <<model_picker.provider, id>> \in DOMAIN known

\* The picker offers what is known, and what is known is only added to.
DiscoverySound == []RowsAreKnown /\ DiscoveryKeepsKnown

\* A picker that says it is loading: the task's answer or timeout reaches the UI
\* loop and is for the picker that is open.
PickerLoads == model_picker # Closed /\ model_picker.loading
=============================================================================
