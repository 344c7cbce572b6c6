----------------------------- MODULE Selection -----------------------------
(* Which model answers: how the catalog is built, how flags, the session, the  *)
(* config files and the remembered state are ranked at a start, what the       *)
(* controller's model, thinking, context-length, session and reload commands   *)
(* change, and what survives to the next start (anie-cli model_catalog.rs,      *)
(* runtime/config_state.rs, bootstrap.rs, controller.rs; anie-config lib.rs).  *)
EXTENDS Naturals, Sequences, SequencesExt, FiniteSets

CONSTANTS
    None,            \* an absent value
    Stopped,         \* no process is running
    Unparsable,      \* a config file that does not load
    Builtin,         \* the compiled-in models, a sequence
    LocalModels,     \* what the local Ollama server lists, a sequence
    LoginModel,      \* the placeholder of the provider one can log in to
    Discoverable,    \* models only the picker's discovery finds
    FileContents,    \* what the global config file may hold; see NoPartial
    ProjectContents, \* what the project's config file holds
    DefaultModel,    \* ModelConfig::default()
    Flags,           \* the command lines used: [provider, id, thinking]
    ThinkingChoices, \* thinking levels
    Requests,        \* what /model is given: [provider, id]
    Windows,         \* what /context-length is given
    MinContext,      \* the least legal window
    Placeholder,     \* the window of a model nobody described
    Sessions,        \* session ids
    MaxStarts,       \* bound: processes started
    MaxCommands,     \* bound: commands that change something
    MaxEdits         \* bound: changes made outside the process

ASSUME SelectionAssumption ==
    /\ Builtin # <<>> /\ Placeholder \in Nat /\ MinContext \in Nat
    /\ None \notin ThinkingChoices /\ None \notin Sessions

VARIABLES
    machine,  \* the config files, the server, the login and state.json
    logs,     \* session -> the last model and thinking its log records
    app,      \* the running process, or Stopped
    shown,    \* the last status event
    steps     \* how many starts, commands and edits there were

selectionVars == <<machine, logs, app, shown, steps>>

------------------------------------------------------------------------------
(* Config: two files, the project's over the global one.                       *)
NoPartial == [provider |-> None, id |-> None, thinking |-> None, custom |-> None, cap |-> None]
ConfigFields == DOMAIN NoPartial

\* The first value given.
Coalesce(values) ==
    LET given == SelectSeq(values, LAMBDA v : v # None) IN IF given = <<>> THEN None ELSE given[1]

Merge(config, partial) ==
    [f \in ConfigFields |-> Coalesce(<<partial[f], config[f]>>)]

\* A file that names any [model] field declares a model.
Explicit(partial) == \E f \in {"provider", "id", "thinking"} : partial[f] # None

\* Unparsable when a file does not parse or a value is out of range.
LoadConfig(d) ==
    IF Unparsable \in {d.global, d.project} THEN Unparsable
    ELSE LET merged == Merge(Merge([DefaultModel EXCEPT !.cap = None], d.global), d.project)
         IN IF merged.cap # None /\ merged.cap < MinContext THEN Unparsable
            ELSE [fields |-> merged, explicit |-> Explicit(d.global) \/ Explicit(d.project)]

Custom(config) == IF config.fields.custom = None THEN {} ELSE config.fields.custom

------------------------------------------------------------------------------
(* The catalog.                                                                *)
Key(model) == <<model.provider, model.id>>

\* Variant of Dedupe with a bug: the first entry wins.
BugDedupe(models) ==
    FoldLeft(LAMBDA kept, m : IF \E i \in DOMAIN kept : Key(kept[i]) = Key(m) THEN kept ELSE Append(kept, m), <<>>, models)

\* Later sources replace earlier ones.
Dedupe(models) ==
    FoldLeft(LAMBDA kept, m : Append(SelectSeq(kept, LAMBDA k : Key(k) # Key(m)), m), <<>>, models)

\* The server's models; the window is the capped answer of /api/show, or the
\* placeholder when the probe gave none.
DetectLocal(d, config, described) ==
    IF ~d.server THEN <<>>
    ELSE [i \in DOMAIN LocalModels |->
            [LocalModels[i] EXCEPT !.window =
                IF LocalModels[i].id \notin described THEN Placeholder
                ELSE IF config.fields.cap # None /\ config.fields.cap < @ THEN config.fields.cap
                ELSE @]]

\* Every catalog a build may produce: the providers of the config file come
\* in any order, each probe may fail.
Catalogs(d, config) ==
    {Dedupe(Builtin \o configured \o DetectLocal(d, config, described)
            \o IF d.login THEN <<LoginModel>> ELSE <<>>) :
        configured \in SetToSeqs(Custom(config)),
        described \in SUBSET {LocalModels[i].id : i \in DOMAIN LocalModels}}

Upsert(catalog, model) ==
    IF \E i \in DOMAIN catalog : Key(catalog[i]) = Key(model)
    THEN [i \in DOMAIN catalog |-> IF Key(catalog[i]) = Key(model) THEN model ELSE catalog[i]]
    ELSE Append(catalog, model)

FirstWith(catalog, Test(_)) == Coalesce(SelectSeq(catalog, Test))

Exact(catalog, provider, id) == FirstWith(catalog, LAMBDA m : Key(m) = <<provider, id>>)
OfProvider(catalog, provider) == FirstWith(catalog, LAMBDA m : m.provider = provider)
WithId(catalog, id) == FirstWith(catalog, LAMBDA m : m.id = id)

\* Relaxed match, down to the first model there is.
ResolveModel(catalog, provider, id, server) ==
    Coalesce(<<Exact(catalog, provider, id), WithId(catalog, id), OfProvider(catalog, provider),
               IF server THEN OfProvider(catalog, "ollama") ELSE None,
               FirstWith(catalog, LAMBDA m : TRUE)>>)

\* A model made up for a provider whose address is known.
FallbackModel(catalog, provider, id, config, d) ==
    IF \/ \E m \in Custom(config) : m.provider = provider
       \/ OfProvider(catalog, provider) # None
       \/ d.login /\ LoginModel.provider = provider
       \/ provider \in {"anthropic", "openai"}
    THEN [provider |-> provider, id |-> id, window |-> Placeholder,
          native |-> \E m \in Custom(config) : m.provider = provider /\ m.native]
    ELSE None

\* --provider: that provider or an error.
ExactOrFabricate(catalog, flags, id, config, d) ==
    Coalesce(<<IF flags.id # None THEN Exact(catalog, flags.provider, id)
               ELSE OfProvider(catalog, flags.provider),
               FallbackModel(catalog, flags.provider, id, config, d),
               OfProvider(catalog, flags.provider)>>)

\* /model: "provider:id", or an id, the current provider's first.
ResolveRequested(catalog, request, provider) ==
    Coalesce(<<Exact(catalog, request.provider, request.id), Exact(catalog, provider, request.id),
               WithId(catalog, request.id)>>)

Declared(config, field) == IF config.explicit THEN config.fields[field] ELSE None

\* Flags, then the session, then a declared [model], then state.json, then the
\* default.
Preferred(flags, log, config, state, field) ==
    Coalesce(<<flags[field], log[field], Declared(config, field), state[field], config.fields[field]>>)

InitialSelection(catalog, flags, log, config, d) ==
    LET provider == Preferred(flags, log, config, d.state, "provider")
        id == Preferred(flags, log, config, d.state, "id")
    IN IF flags.provider # None THEN ExactOrFabricate(catalog, flags, id, config, d)
       ELSE Coalesce(<<ResolveModel(catalog, provider, id, d.server),
                       FallbackModel(catalog, provider, id, config, d)>>)

------------------------------------------------------------------------------
(* The process.                                                                *)
NoChoice == [provider |-> None, id |-> None, thinking |-> None]
NativeKeys == {Key(LocalModels[i]) : i \in DOMAIN LocalModels}
NoOverrides == [k \in NativeKeys |-> None]
EmptyState == [provider |-> None, id |-> None, thinking |-> None, overrides |-> NoOverrides]

\* The session's recorded model and thinking over the current ones.
ApplySession(a, log, d) ==
    LET model == Coalesce(<<Exact(a.catalog, log.provider, log.id),
                            IF log.provider = None THEN None
                            ELSE FallbackModel(a.catalog, log.provider, log.id, a.config, d)>>)
        timed == [a EXCEPT !.thinking = Coalesce(<<log.thinking, @>>)]
    IN IF log.provider = None \/ model = None THEN timed
       ELSE [timed EXCEPT !.catalog = Upsert(@, model), !.model = model]

\* state.json as this process would write it.
Remembered(a) ==
    [provider |-> a.model.provider, id |-> a.model.id, thinking |-> a.thinking,
     overrides |-> a.overrides]

EffectiveWindow(a) ==
    IF a.model.native /\ Key(a.model) \in NativeKeys
    THEN Coalesce(<<a.overrides[Key(a.model)], a.model.window>>) ELSE a.model.window

Status(a) ==
    [model |-> Key(a.model), thinking |-> a.thinking, window |-> EffectiveWindow(a),
     session |-> a.session]

\* The handler's end: memory and the status told; state.json written unless
\* that fails, which is only a warning.
Settle(a) ==
    /\ app' = a
    /\ shown' = Status(a)
    /\ machine' = IF machine.writable THEN [machine EXCEPT !.state = Remembered(a)] ELSE machine

Unused == {s \in Sessions : logs[s] = None}

\* prepare_controller_state: a config that does not load, or a provider that
\* cannot be addressed, starts nothing.
StartProcess(flags, resumed) ==
    LET config == LoadConfig(machine)
        session == IF resumed # None THEN resumed ELSE CHOOSE s \in Unused : TRUE
        log == IF resumed # None THEN logs[resumed] ELSE NoChoice
    IN /\ app = Stopped /\ config # Unparsable
       /\ IF resumed = None THEN Unused # {} ELSE logs[resumed] # None
       /\ \E catalog \in Catalogs(machine, config) :
            LET model == InitialSelection(catalog, flags, log, config, machine)
                started == [catalog |-> catalog, config |-> config, model |-> model,
                            thinking |-> Preferred(flags, log, config, machine.state, "thinking"),
                            overrides |-> machine.state.overrides, session |-> session]
            IN model # None /\ Settle(ApplySession(started, log, machine))
       /\ logs' = [logs EXCEPT ![session] = log]

Running == app # Stopped

\* A failed append, session file or reload is fatal: the run loop returns the error.
Fatal == app' = Stopped /\ UNCHANGED <<machine, logs, shown>>

Choose(model) ==
    \/ /\ logs' = [logs EXCEPT ![app.session].provider = model.provider,
                               ![app.session].id = model.id]
       /\ Settle([app EXCEPT !.catalog = Upsert(@, model), !.model = model])
    \/ Fatal

\* /model: an unknown name is told and changes nothing.
SetModel(request) ==
    LET model == ResolveRequested(app.catalog, request, app.model.provider)
    IN model # None /\ Choose(model)

\* The picker sends the whole model.
SetResolvedModel(model) == Choose(model)

SetThinking(level) ==
    \/ /\ logs' = [logs EXCEPT ![app.session].thinking = level]
       /\ Settle([app EXCEPT !.thinking = level])
    \/ Fatal

\* /context-length <n> or reset, for native Ollama models only.
ContextLength(value) ==
    /\ app.model.native /\ Key(app.model) \in NativeKeys
    /\ value \in {None} \cup {w \in Windows : w >= MinContext}
    /\ Settle([app EXCEPT !.overrides[Key(app.model)] = value])
    /\ UNCHANGED logs

\* The selection stays; the new session's log records none of it.
NewSession(session) ==
    \/ /\ session \in Unused
       /\ logs' = [logs EXCEPT ![session] = NoChoice]
       /\ Settle([app EXCEPT !.session = session])
    \/ Fatal

\* The open session's own file is locked: switching to it is refused.
SwitchSession(session) ==
    /\ session \notin Unused /\ session # app.session
    /\ Settle(ApplySession([app EXCEPT !.session = session], logs[session], machine))
    /\ UNCHANGED logs

ForkSession(session) ==
    /\ session \in Unused
    /\ logs' = [logs EXCEPT ![session] = logs[app.session]]
    /\ Settle(ApplySession([app EXCEPT !.session = session], logs[app.session], machine))

\* The files are read again; the model asked for, or else the current one, is
\* looked up in the new catalog. Nothing is appended to the session.
ReloadConfig(request) ==
    LET config == LoadConfig(machine)
        provider == Coalesce(<<request.provider, app.model.provider>>)
        id == Coalesce(<<request.id, app.model.id>>)
    IN IF config = Unparsable THEN Fatal
       ELSE \/ /\ \E catalog \in Catalogs(machine, config) :
                     Settle([app EXCEPT !.config = config, !.catalog = catalog,
                                        !.model = ResolveModel(catalog, provider, id, machine.server)])
               /\ UNCHANGED logs
            \/ Fatal   \* the prompt's context files are not readable

Exit == app' = Stopped /\ UNCHANGED <<machine, logs, shown>>

\* Outside the process: files edited, the server started or stopped, a login,
\* state.json becoming writable or not.
EditOutside ==
    /\ \/ \E c \in FileContents : machine' = [machine EXCEPT !.global = c]
       \/ machine' = [machine EXCEPT !.server = ~@]
       \/ machine' = [machine EXCEPT !.login = ~@]
       \/ machine' = [machine EXCEPT !.writable = ~@]
    /\ UNCHANGED <<logs, app, shown>>

SelectionInit ==
    /\ machine \in [global : FileContents, project : ProjectContents, server : BOOLEAN, login : {FALSE},
                 writable : {TRUE}, state : {EmptyState}]
    /\ logs = [s \in Sessions |-> None]
    /\ app = Stopped /\ shown = None /\ steps = [start |-> 0, command |-> 0, edit |-> 0]

Bounded(kind, bound) ==
    steps[kind] < bound /\ steps' = [steps EXCEPT ![kind] = @ + 1]

SelectionNext ==
    \/ /\ Bounded("start", MaxStarts)
       /\ \E flags \in Flags, s \in Sessions \cup {None} : StartProcess(flags, s)
    \/ Bounded("edit", MaxEdits) /\ EditOutside
    \/ /\ Running /\ Bounded("command", MaxCommands)
       /\ \/ \E r \in Requests : SetModel(r)
          \/ \E m \in Discoverable : SetResolvedModel(m)
          \/ \E t \in ThinkingChoices : SetThinking(t)
          \/ \E v \in Windows \cup {None} : ContextLength(v)
          \/ \E s \in Sessions : NewSession(s) \/ SwitchSession(s) \/ ForkSession(s)
          \/ \E r \in Requests \cup {NoChoice} : ReloadConfig(r)
    \/ Running /\ Exit /\ UNCHANGED steps

SelectionSpec == SelectionInit /\ [][SelectionNext]_selectionVars

------------------------------------------------------------------------------
\* The status line the user sees is the selection the next run will use, in
\* the session it will be written to, after every command, failed saves and
\* refused commands included (cancel_and_emit_status and its siblings).
ShownIsCurrent == Running => shown = Status(app)

\* Every catalog entry can be addressed: no two entries share provider and id,
\* and where the user's file defines a model that is also compiled in, the
\* user's definition is the one found.
CatalogAddressable ==
    Running =>
        /\ \A i, j \in DOMAIN app.catalog : Key(app.catalog[i]) = Key(app.catalog[j]) => i = j
        /\ \A m \in Custom(app.config) : Exact(app.catalog, m.provider, m.id) \notin Range(Builtin) \ {m}

Available(a, key) == Exact(a.catalog, key[1], key[2]) # None
Entered == app' # Stopped /\ (app = Stopped \/ app'.session # app.session)
Recorded(session) == IF logs[session] = None THEN NoChoice ELSE logs[session]

\* A recorded session is entered, by a start with these flags or by a command.
EnteredWith(flags) ==
    Entered /\ IF app = Stopped THEN StartProcess(flags, app'.session) ELSE flags = NoChoice
ModelNamed(flags) == flags.provider # None \/ flags.id # None

\* A session reopened, switched to or forked runs with the model and thinking
\* its log records, if that model can still be had: what other sessions, the
\* config files or the remembered state chose since does not leak into it.
\* Nothing is claimed of what the command line names: there model_catalog.rs
\* ranks the flag before the session, and apply_session_overrides
\* (bootstrap.rs:106) the session before the flag.
SessionChoiceKept ==
    [][\A flags \in Flags \cup {NoChoice} : EnteredWith(flags) =>
        LET log == Recorded(app'.session) IN
        /\ ~ModelNamed(flags) /\ log.provider # None /\ Available(app', <<log.provider, log.id>>)
               => Key(app'.model) = <<log.provider, log.id>>
        /\ flags.thinking = None /\ log.thinking # None => app'.thinking = log.thinking]_selectionVars

FreshStart(flags) == Entered /\ app = Stopped /\ Recorded(app'.session) = NoChoice /\ StartProcess(flags, None)

\* A fresh start never goes to another provider than --provider names; without
\* flags a model declared in a config file beats the remembered one, and the
\* remembered one comes back if its model is still there.
FreshStartAsAsked ==
    [][\A flags \in Flags : FreshStart(flags) =>
        LET declared == IF app'.config.explicit THEN app'.config.fields
                        ELSE [f \in {"provider", "id"} |-> Coalesce(<<machine.state[f], app'.config.fields[f]>>)]
            wanted == <<declared.provider, declared.id>>
        IN /\ flags.provider # None => app'.model.provider = flags.provider
           /\ flags = NoChoice /\ Available(app', wanted) => Key(app'.model) = wanted]_selectionVars

\* Reloading the configuration keeps the current model if the new catalog still
\* has it, and takes the new catalog's description of it.
ReloadKeepsModel ==
    [][Running /\ app' # Stopped /\ ReloadConfig(NoChoice) /\ Available(app', Key(app.model))
        => app'.model = Exact(app'.catalog, app.model.provider, app.model.id)]_selectionVars

\* The selection shown is the one in use, and it is the one that was asked for.
SelectionSound ==
    [](ShownIsCurrent /\ CatalogAddressable) /\ SessionChoiceKept /\ FreshStartAsAsked /\ ReloadKeepsModel
=============================================================================
