--------------------------- MODULE ProviderScreen ---------------------------
(* The /providers screen (anie-tui: overlays/providers.rs): a table of the   *)
(* configured providers, a mode, background workers whose results the tick   *)
(* hands to whatever mode is then on show, and the config file and the       *)
(* credential store it edits (anie-config: mutation.rs).  A provider is a    *)
(* number, in the order of its name; the results shown beside the rows are   *)
(* left out, nothing reads them.                                             *)
EXTENDS Naturals, Sequences, FiniteSets, SequencesExt, Functions

CONSTANTS
    Providers,      \* the providers that may be configured
    ApiProviders,   \* those of type ApiKey: no table is written for them
    ModelIds,       \* the models a provider may answer
    Builtin,        \* the model shown for a provider without one of its own
    MaxJobs         \* bound: workers and undelivered results

VARIABLES
    screen,     \* [providers, selected, mode]
    disk,       \* [default, tables, keys]: the config file and the stored keys
    jobs,       \* the workers running
    inbox,      \* their results, not handled yet
    told        \* the last default reported to the program (Reread names none)

psvars == <<screen, disk, jobs, inbox, told>>

Reread == [name |-> 0, model |-> "none"]

Table == [at |-> "table"]
Menu == [at |-> "menu"]
Confirm == [at |-> "confirm"]
Busy == [at |-> "busy"]
Status(error) == [at |-> "status", error |-> error]
Editing(typed) == [at |-> "edit", typed |-> typed]
Picking(n, models, loading) ==
    [at |-> "picking", name |-> n, models |-> models, loading |-> loading]

\* load_provider_entries: the default first, then by name.
EntryOf(d, n) ==
    [name |-> n, cred |-> n \in d.keys, default |-> n = d.default.name,
     model |-> IF n = d.default.name THEN d.default.model
               ELSE IF n \in DOMAIN d.tables /\ d.tables[n] # <<>> THEN Head(d.tables[n])
               ELSE Builtin[n]]
LoadEntries(d) ==
    LET names == {d.default.name} \cup DOMAIN d.tables \cup d.keys
        sorted == SetToSortSeq(names, LAMBDA a, b : a = d.default.name \/ (b # d.default.name /\ a < b))
    IN  [i \in DOMAIN sorted |-> EntryOf(d, sorted[i])]

NewScreen(d) == [providers |-> LoadEntries(d), selected |-> 0, mode |-> Table]

HasSelected == screen.selected < Len(screen.providers)
SelectedEntry == screen.providers[screen.selected + 1]

MarkDefault(entries, n) == [i \in DOMAIN entries |-> [entries[i] EXCEPT !.default = entries[i].name = n]]
Show(mode) == screen' = [screen EXCEPT !.mode = mode]

\* ConfigMutator: each call loads the document, changes it and writes it whole.
SetDefault(d, n, m) == [d EXCEPT !.default = [name |-> n, model |-> m]]
UpsertModel(d, n, m) ==
    LET old == IF n \in DOMAIN d.tables THEN d.tables[n] ELSE <<>>
        new == IF Contains(old, m) THEN old ELSE Append(old, m)
    IN  [d EXCEPT !.tables = [k \in DOMAIN @ \cup {n} |-> IF k = n THEN new ELSE @[k]]]
RemoveProvider(d, n) == [d EXCEPT !.tables = Restrict(@, DOMAIN @ \ {n})]

-----------------------------------------------------------------------------
(* Workers: each ends with one result, delivered while its screen is open.   *)

Spawn(job) == jobs' = Append(jobs, job)
HasRoom == Len(jobs) + Len(inbox) < MaxJobs

TestSelected ==
    IF HasSelected
    THEN HasRoom /\ Show(Busy) /\ Spawn([kind |-> "test", name |-> SelectedEntry.name, live |-> TRUE])
    ELSE Show(Table) /\ UNCHANGED jobs

ViewModels ==
    /\ Show(Busy)
    /\ IF HasSelected
       THEN HasRoom /\ Spawn([kind |-> "discover", name |-> SelectedEntry.name, live |-> TRUE])
       ELSE UNCHANGED jobs

SaveKey ==
    IF HasSelected
    THEN HasRoom /\ Show(Busy) /\ Spawn([kind |-> "save", name |-> SelectedEntry.name, live |-> TRUE])
    ELSE UNCHANGED <<screen, jobs>>

\* The save writes the key before its result is seen, whatever happened meanwhile.
WorkerEnds ==
    \E i \in DOMAIN jobs, ok \in BOOLEAN, models \in SUBSET ModelIds :
        LET job == jobs[i]
            result == [kind |-> job.kind, name |-> job.name, ok |-> ok, models |-> models]
        IN  /\ (job.kind = "discover" /\ ok) \/ models = {}
            /\ jobs' = RemoveAt(jobs, i)
            /\ inbox' = IF job.live THEN Append(inbox, result) ELSE inbox
            /\ disk' = IF job.kind = "save" /\ ok THEN [disk EXCEPT !.keys = @ \cup {job.name}] ELSE disk
            /\ UNCHANGED <<screen, told>>

\* handle_worker_event
Handle(s, e) ==
    LET rows == {i \in DOMAIN s.providers : e.kind = "save" /\ s.providers[i].name = e.name}
        here == e.kind = "discover" /\ s.mode.at = "picking" /\ s.mode.name = e.name
    IN  CASE e.kind = "test" -> [s EXCEPT !.mode = Status(~e.ok)]
          [] e.kind = "save" /\ e.ok ->
                 [s EXCEPT !.mode = Status(FALSE),
                           !.providers = [i \in DOMAIN @ |-> IF i \in rows THEN [@[i] EXCEPT !.cred = TRUE] ELSE @[i]]]
          [] e.kind = "save" /\ ~e.ok -> [s EXCEPT !.mode = Status(TRUE)]
          [] e.kind = "discover" /\ e.ok ->
                 [s EXCEPT !.mode = Picking(e.name, e.models, FALSE)]
          [] e.kind = "discover" /\ ~e.ok ->
                 [s EXCEPT !.mode = IF here THEN [s.mode EXCEPT !.loading = FALSE] ELSE Status(TRUE)]

\* handle_tick drains every result that waits.
ScreenTick ==
    /\ inbox # <<>>
    /\ screen' = FoldLeft(Handle, screen, inbox)
    /\ inbox' = <<>>
    /\ UNCHANGED <<disk, jobs, told>>

-----------------------------------------------------------------------------
(* Changes to the configuration.  Any write may fail.                        *)

SetSelectedDefault ==
    IF ~HasSelected THEN Show(Table) /\ UNCHANGED <<disk, told>>
    ELSE \/ /\ disk' = SetDefault(disk, SelectedEntry.name, SelectedEntry.model)
            /\ told' = disk'.default
            /\ screen' = [screen EXCEPT !.providers = MarkDefault(@, SelectedEntry.name),
                                        !.mode = Status(FALSE)]
         \/ Show(Status(TRUE)) /\ UNCHANGED <<disk, told>>

\* Variant of ApplySelectedModel with a bug: the saved selection is not reported.
BugApplySelectedModel(n, m) ==
    \/ /\ disk' = SetDefault(IF n \in ApiProviders THEN disk ELSE UpsertModel(disk, n, m), n, m)
       /\ UNCHANGED told
       /\ screen' = [screen EXCEPT
              !.providers = [i \in DOMAIN @ |->
                  IF @[i].name = n THEN [@[i] EXCEPT !.default = TRUE, !.model = m]
                  ELSE [@[i] EXCEPT !.default = FALSE]],
              !.mode = Status(FALSE)]
    \/ Show(Status(TRUE)) /\ UNCHANGED <<disk, told>>

\* One load and save: the table of a provider that has one, and the default.
ApplySelectedModel(n, m) ==
    \/ /\ disk' = SetDefault(IF n \in ApiProviders THEN disk ELSE UpsertModel(disk, n, m), n, m)
       /\ told' = disk'.default
       /\ screen' = [screen EXCEPT
              !.providers = [i \in DOMAIN @ |->
                  IF @[i].name = n THEN [@[i] EXCEPT !.default = TRUE, !.model = m]
                  ELSE [@[i] EXCEPT !.default = FALSE]],
              !.mode = Status(FALSE)]
    \/ Show(Status(TRUE)) /\ UNCHANGED <<disk, told>>

Without(n) == SelectSeq(screen.providers, LAMBDA e : e.name # n)
LastRow(entries) == IF entries = <<>> THEN 0 ELSE Len(entries) - 1
Replaced(entries, mode) ==
    [providers |-> entries, mode |-> mode,
     selected |-> IF screen.selected < LastRow(entries) THEN screen.selected ELSE LastRow(entries)]

\* The key, the config file, the list and the new default: each step may be the last.
DeleteSelected ==
    LET n       == SelectedEntry.name
        keyless == [disk EXCEPT !.keys = @ \ {n}]
        removed == RemoveProvider(keyless, n)
        rest    == Without(n)
        first   == Head(rest)
    IN  IF ~HasSelected THEN UNCHANGED <<screen, disk, told>>
        ELSE \/ Show(Status(TRUE)) /\ disk' \in {disk, keyless} /\ UNCHANGED told
             \/ /\ rest = <<>>
                /\ disk' = removed /\ told' = Reread /\ screen' = Replaced(rest, Status(FALSE))
             \/ /\ rest # <<>>
                /\ disk' = SetDefault(removed, first.name, first.model)
                /\ told' = disk'.default
                /\ screen' = Replaced(MarkDefault(rest, first.name), Status(FALSE))
             \/ /\ rest # <<>>
                /\ disk' = removed /\ screen' = Replaced(rest, Status(TRUE)) /\ UNCHANGED told

-----------------------------------------------------------------------------
(* Keys, by mode.                                                            *)

Same == UNCHANGED <<disk, told>>

TableKey ==
    /\ screen.mode = Table
    /\ UNCHANGED inbox
    /\ \/ /\ screen' = [screen EXCEPT !.selected = IF @ = 0 THEN 0 ELSE @ - 1] /\ Same /\ UNCHANGED jobs
       \/ /\ screen' = [screen EXCEPT !.selected =
                            IF @ + 1 <= LastRow(screen.providers) THEN @ + 1 ELSE LastRow(screen.providers)]
          /\ Same /\ UNCHANGED jobs
       \/ \E mode \in {Menu, Confirm, Editing(FALSE)} : Show(mode) /\ Same /\ UNCHANGED jobs
       \/ TestSelected /\ Same
       \/ SetSelectedDefault /\ UNCHANGED jobs

\* The items: test, view models, edit key, set default, delete.
MenuKey ==
    /\ screen.mode = Menu
    /\ UNCHANGED inbox
    /\ \/ \E mode \in {Table, Editing(FALSE), Confirm} : Show(mode) /\ Same /\ UNCHANGED jobs
       \/ TestSelected /\ Same
       \/ ViewModels /\ Same
       \/ SetSelectedDefault /\ UNCHANGED jobs

ConfirmKey ==
    /\ screen.mode = Confirm
    /\ \/ DeleteSelected
       \/ Show(Table) /\ Same
    /\ UNCHANGED <<jobs, inbox>>

EditKey ==
    /\ screen.mode.at = "edit"
    /\ \/ Show(Table) /\ UNCHANGED jobs
       \/ Show(Editing(TRUE)) /\ UNCHANGED jobs
       \/ screen.mode.typed /\ SaveKey
       \/ ~screen.mode.typed /\ Show(Status(TRUE)) /\ UNCHANGED jobs
    /\ Same /\ UNCHANGED inbox

BackKey ==
    /\ screen.mode.at \in {"busy", "status"}
    /\ Show(Table) /\ Same /\ UNCHANGED <<jobs, inbox>>

PickerKey ==
    /\ screen.mode.at = "picking"
    /\ \/ Show(Menu) /\ Same /\ UNCHANGED jobs
       \/ /\ HasRoom
          /\ Show([screen.mode EXCEPT !.loading = TRUE])
          /\ Spawn([kind |-> "discover", name |-> screen.mode.name, live |-> TRUE])
          /\ Same
       \/ \E m \in screen.mode.models : ApplySelectedModel(screen.mode.name, m) /\ UNCHANGED jobs
    /\ UNCHANGED inbox

\* Closing drops the channel; of the workers that run on, only a save has an effect.
\* A new screen reads the files again.
Reopen ==
    /\ screen.mode = Table
    /\ screen' = NewScreen(disk)
    /\ inbox' = <<>>
    /\ LET saves == SelectSeq(jobs, LAMBDA j : j.kind = "save")
       IN  jobs' = [i \in DOMAIN saves |-> [saves[i] EXCEPT !.live = FALSE]]
    /\ Same

ProvidersInit ==
    /\ disk \in [default : {[name |-> n, model |-> Builtin[n]] : n \in Providers},
                 tables : UNION {[s -> {<<>>}] : s \in {{}, Providers \ ApiProviders}},
                 keys : {{}}]
    /\ screen = NewScreen(disk)
    /\ jobs = <<>> /\ inbox = <<>>
    /\ told = disk.default

ProvidersNext ==
    \/ TableKey \/ MenuKey \/ ConfirmKey \/ EditKey \/ BackKey \/ PickerKey
    \/ WorkerEnds \/ ScreenTick \/ Reopen

\* Requests have timeouts, and the program ticks: nothing is assumed of the keys.
ProvidersFairness == WF_psvars(WorkerEnds) /\ WF_psvars(ScreenTick)
ProvidersSpec == ProvidersInit /\ [][ProvidersNext]_psvars /\ ProvidersFairness

-----------------------------------------------------------------------------
(* The table marks the provider the config file names as the default, and no *)
(* other, with the model the file names, although the marks are never read   *)
(* back: whatever was picked from an answer that came late, deleted, or only *)
(* half written.                                                             *)
MarkIsDefault ==
    \A i \in DOMAIN screen.providers :
        LET e == screen.providers[i]
        IN  /\ e.default <=> e.name = disk.default.name
            /\ e.default => e.model = disk.default.model

(* No change of the config file goes unnoticed: the program is told of the   *)
(* default the file now names, or the screen shows an error.                 *)
ChangesTold ==
    [][(disk'.default # disk.default \/ disk'.tables # disk.tables) =>
          told' \in {disk'.default, Reread} \/ screen'.mode = Status(TRUE)]_psvars

(* The screen shows what the config file holds, and says what it changed.    *)
ProvidersSound == []MarkIsDefault /\ ChangesTold

(* "Working", which is to end by itself while there is a provider to work    *)
(* on: every worker's result takes the screen elsewhere, whatever the user   *)
(* did since.                                                                *)
ScreenWorks == screen.mode = Busy /\ screen.providers # <<>>
=============================================================================
