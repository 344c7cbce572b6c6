# anie in TLA+

anie is a coding agent for the terminal, written in Rust: a TUI (or a one-shot
print mode, or JSONL over stdin/stdout) around a controller that owns the
session and spawns one agent run at a time; a run streams from a provider,
executes tools and feeds their results back. This directory models the parts of
it that are concurrent or carry state over time, checks them with TLC on small
instances, and proves with TLAPS, for every value of the constants, the invariants of
the controller, of a run and its event protocol, of the session files, of the
credentials, of most tools and of the login and set-up screens.

Paths below are relative to `src/crates/`.

## Inventory

| Component | State | Operations | How it meets the others | What is hard |
|---|---|---|---|---|
| Interactive controller, `anie-cli/src/controller.rs` | active run (task handle, token, `already_compacted`, `retry_attempt`), armed retry, follow-up queue, per-turn compaction budget, `quitting`, session handle | one handler per `UiAction`, the end of a run, the retry deadline, a closed channel | actions in over an unbounded channel, events out over a bounded one; spawns the agent task; only writer of the session log | every handler against every moment of a run or a backoff; bookkeeping handed from run to retry to run |
| Retry policy, `anie-cli/src/retry_policy.rs` | none | `decide`, `retry_delay_ms` | called at the end of a failed run | caps that mix, floor, ceiling and jitter |
| Compaction gate, `anie-cli/src/compaction_gate.rs` | the shared budget | `maybe_compact` between the steps of a run | runs inside the agent task | shares the budget with the controller |
| Interactive mode, `anie-cli/src/interactive_mode.rs`, `anie-tui/src/app.rs` | `agent_state`, last Ctrl+C, `should_quit` | keys, event batches, ticks | reads the event channel, writes the action channel | infers the controller's state from events; shutdown |
| Print mode, `anie-cli/src/print_mode.rs` | one prompt, one forwarded Ctrl-C | print, exit | the same controller with `exit_after_run` | must end on every path |
| RPC mode, `anie-cli/src/rpc.rs` | three tasks, stdout shared by two | JSONL in and out | the same controller | end of stdin, lines of two writers |
| Agent loop, `anie-agent/src/agent_loop.rs` | step machine of a run: context, generated messages, next intent | model turn, tools, compaction gate, steering and follow-ups | events to the TUI, result to the controller | pairing of events, a result for every tool call, cancellation between steps |
| Session log, `anie-session/src/lib.rs` | append-only JSONL tree, leaf, lock | append, fork, branch, context, compaction | written by the controller | crash between two writes, torn lines, stale reads, cut points |
| Runtime state and configuration, `anie-cli/src/runtime*`, `anie-cli/src/model_catalog.rs`, `anie-config` | layered TOML, `state.json`, catalogue, cached system prompt | load, merge, mutate, save, resolve the model | read by the controller, written by screens | which of five sources wins, what survives a start |
| Credentials, `anie-auth` | `auth.json`, credential store, keyring, lock files, OAuth tokens | read, write, refresh under a lock, migrate, quarantine, log in and out | resolved for every request | two processes refreshing one rotating token, crashes between files |
| Provider streams, `anie-providers-builtin` | accumulators of one response, request body under retries | one transition per chunk, one per answer | feed the agent loop | truncated, interleaved and malformed chunks, derived token limits |
| Model discovery and catalog | cache with a TTL, the picker's worker | list, refresh, deduplicate | model picker, `/model` | late answers, duplicates, reloads |
| File tools, `anie-tools` | per-file mutation queue | read, write, edit, grep, find, ls | run in parallel inside a run | two edits of one file, ambiguous matches, page ends |
| Bash tool, `anie-tools/src/bash.rs` | child process group, tail of the output | spawn, read, time out, cancel, drain | run inside a run | timeout against exit against cancel against output |
| Web tools, `anie-tools-web` | robots cache, rate buckets | fetch, redirects, extract, search | run inside a run | what concurrent calls share, size limits |
| TUI editor, overlays, output | text, dialogs, block cache, scroll | editing, completion, layout, painting, dialogs with workers | inside the TUI loop | workers whose result arrives after the dialog changed, caches invalidated by hand |
| Commands, onboarding and login | registry, screens | `anie login`, `logout`, onboarding | credentials, configuration | late workers, abandoned logins |

What makes each of them correct: the **controller** never runs and backs off at
once, starts every follow-up, bounds runs and compactions per prompt, and
answers every prompt in its session exactly once; **interactive mode** shows
what is going on and ends when told to; **print** and **RPC mode** end, after all
there is to tell; the **agent loop** pairs its events and its tool calls; the
**session log** survives a crash with a prefix of what was written and never
orphans a tool result; **credentials** are refreshed once and never lost;
**streams** end with the whole of what was streamed whatever the chunks; **requests**
are repeated for a reason and leave room for an answer; **file tools** serialise
the edits of one file and apply each as if it were alone; every **tool** says when
its answer is not the whole; the **selection** is the one asked for and the one
shown; the **screens** do to the file what they say, and nothing that tells the user
to wait waits for ever.

## Plan

The order follows what would hurt most if it were wrong: the bookkeeping of the
controller, what the user sees of it, a run and its messages, the file they are
kept in; then the credentials, the providers, the tools, the selection and the
screens.

| # | Modules | Composes | Abstract specification | State |
|---|---|---|---|---|
| 1 | `RetryPolicy`, `RetryBackoff` | pure operators, then the sequence of waits of one turn | - | done, proofs in `FrontEndProofs` |
| 2 | `Controller` | extends `RetryPolicy` | - | done, `ControllerProofs` |
| 3 | `PrintMode`, `RpcMode` | the hosts without a terminal; `PrintMode` extends `Controller` | - | done, `HostProofs` |
| 4 | `Interactive` | the TUI loop, the controller reduced to what it sends, the agent task, two channels | - | done, proofs in `FrontEndProofs` |
| 5 | `Compaction`, `AgentRun` | extends `Compaction`, instantiates `AgentEvents` | `AgentEvents`: how events nest | done, refinement proved in `AgentRunProofs`, over the lemmas of `CompactionProofs` |
| 6 | `Transcript`, `OutputView` | `Transcript` extends `AgentEvents` and takes `Picked` from `Compaction`: the reader of any legal stream; the pane over its blocks | - | done, proofs in `AgentRunProofs` |
| 7 | `SessionLog` | extends `Compaction`, instantiates `SessionStore` over the conversations of all files | `SessionStore`: history only grows or is summarised | done, refinement proved in `SessionLogProofs` |
| 8 | `Credentials`, `OAuthLogin` | processes around lock, files, keyring and token endpoint | - | done, `ServicesProofs`, `FrontEndProofs` |
| 9 | `TaggedReasoning`, `ProviderStream`, `ProviderRequest`, `ProviderReplay` | one response, one request, one history | - | done, `ProviderRequest` proved in `ServicesProofs` |
| 10 | `FileTools`, `ReadTool`, `SearchTools`, `BashTool`, `WebTools` | concurrent calls where calls share something | - | done, `ToolsProofs` |
| 11 | `Selection`, `PromptCache`, `Discovery` | starts, commands, reloads; the picker's worker | - | done, `PromptCache` proved in `ServicesProofs`, `Discovery` in `FrontEndProofs` |
| 12 | `SelectList`, `Editor`, `TextLayout`, `ModelPicker`, `ProviderScreen`, `Onboarding` | `Editor` extends `SelectList` | - | done, `Onboarding` proved in `FrontEndProofs` |

Left for later: proofs of the provider screen, and the
composition of `ProviderScreen` and `Onboarding` over one configuration file.

## Modules

Every module names the source it models in its header; `PROJECT.json` maps each
definition that translates code (not the notation around it) to lines. Names are the source's wherever there is one.

### Core

**`RetryPolicy`, `RetryBackoff`** (`anie-cli/src/retry_policy.rs`). `Decide` is
`RetryPolicy::decide` (an error class, the attempts so far, whether the run
already compacted, the budget left, to Compact, Retry or GiveUp). `RetryDelay` is
`retry_delay_ms` in milliseconds: doubling, jitter as its two extremes, ceiling,
the rate-limit floor and fallback, in the order the code applies them.
`RetryBackoff` lets one turn fail again and again with any of the errors.

**`Controller`** (`anie-cli/src/controller.rs`). One action is one iteration of
`run`'s `select!`: the whole handler with everything it awaits, up to the quit
check at the end of the iteration. `current_run` is `Option<CurrentRun>`,
`pending_retry` is `PendingRetry`, `queued_prompts` the follow-ups,
`compactions_remaining_this_turn` the atomic shared with the gate,
`loop` whether `run` is still looping, returned Ok or returned Err. The end of a
run is one of `RunCompletes`, `RunPanics`, `CompactAndContinue`, `ArmRetry`,
`GiveUpOnRun`; then `AfterRun` drains the queue and looks at `exit_after_run`.
`GateCompacts` is the mid-turn compaction gate of the agent task, which shares the
budget. User actions are `SubmitPrompt`, `QueuePrompt`, `AbortAndQueuePrompt`,
`Abort`, `Quit`, `RunAffectingChange` (model, thinking, compact, reload),
`CommandFails` (an error the handler returns with `?`; one, listing the sessions,
can fail while a run is active), `NewSession`, `ForkSession`, `SwitchSession`.
Commands that only
print leave every variable alone and are stuttering steps. A session file is the
sequence of the user messages, replies and breadcrumbs in it.

**`PrintMode`** (`anie-cli/src/print_mode.rs`). The same controller with
`exit_after_run`, one prompt, and the task that forwards a single Ctrl-C.

**`RpcMode`** (`anie-cli/src/rpc.rs`). The task that reads stdin, the controller
reduced to what it does to the two channels, and the printer. A long event and its
newline are two writes, so that the lines of the two writers of stdout may meet.

**`Interactive`** (`anie-cli/src/interactive_mode.rs`, `anie-tui/src/app.rs`).
Three processes: the TUI loop, the controller, the agent task; `actions` is the
unbounded channel, `events` the bounded one. A handler of the controller or a step
of the task takes effect, then sends its events one by one and blocks when the
channel is full. `AfterEvent` is what `handle_agent_event` does to `agent_state`,
and the keys mean what `handle_idle_key` and `handle_active_key` make of them.

**`AgentEvents`** (`anie-protocol/src/events.rs`) is what a reader of the event
stream may rely on: which event may come next, as a protocol over the reader's
view (stage of the run, open text block, executions open and done).

**`Compaction`** (`anie-session/src/lib.rs`, the sanitizer of
`anie-agent/src/agent_loop.rs`) is shared by the next two: messages reduced to what
pairing of tool calls and results tells apart, where `find_cut_point` may cut, and
what a compaction leaves.

**`AgentRun`** (`anie-agent/src/agent_loop.rs`). `phase` is the intent being
evaluated by the step machine; `out` holds the events of the step still to be sent.
The stream (`StreamDelta`, `StreamToolCall`, `StreamFails`, ...), the tools of a
batch one after the other or in parallel, each with its forwarder of partial
results, the gate with its own summarizer, the hooks that inject messages, and the
session the controller appends a finished run to and takes the next context from.

**`SessionStore`, `SessionLog`** (`anie-session/src/lib.rs`,
`anie-cli/src/runtime/session_handle.rs`). Files of lines; a line is an entry and
whether its newline was written, because `writeln!` on a file is two writes. Every
process has a manager per file (`handles`) and at most one `add_entries` call under
way (`writing`). Opening is two actions, reading and locking, as in `open_session`.
Crashes and failing writes happen between any two steps. `Resumed` is what a process
that opens the file would go on from (`build_context` on the parsed lines);
`SessionStore` says how that may change. `Damages` notes in `damage` what an
interruption did to the session being written: "cut" when what is missing begins with
a tool result (`Torn`), "merged" when it wrote behind a line without a newline.
`Runs`, what a run appends when it ends, is a parameter; `RunsAnswered` assumes of it
what `AgentRunProofs` proves of `AgentRun` (`RunsAnswerTheirCalls`).

### Services

**`Credentials`** (`anie-auth/src/store.rs`, `refresh.rs`, `lib.rs`, the migration at
a start). A file is read in one step and replaced in another; anything may happen in
between, a crash included. `file` is what each file holds, `proc` what every process
is in the middle of (the wait for the lock, the second look, the exchange, the save
of a refresh among them). The endpoint rotates: `live` are the refresh tokens it
still accepts.

**`OAuthLogin`** (`anie-auth/src/callback.rs`, the OAuth clients,
`anie-cli/src/login_command.rs`). Browser logins wait for a callback among idle and
foreign connections, device logins poll; several run at once and the tabs of all of
them stay open.

**`TaggedReasoning`** (`openai/tagged_reasoning.rs` of `anie-providers-builtin`):
the splitter, with each response cut into fragments in every way.

**`ProviderStream`** (`anthropic.rs`, `openai/streaming.rs`,
`ollama_chat/streaming.rs`, next to the `AssistantMessageBuilder` of the agent
loop): the parsers of the wire protocols, one transition per event, and what the
reader of the same events was told. The server follows its documentation but may end
the response anywhere.

**`ProviderRequest`** (`openai/mod.rs`, `reasoning_strategy.rs`,
`ollama_chat/mod.rs`, `anthropic.rs`): how many requests are sent for one prompt, with
which optional parts and token limits, while a server refuses some of them.

**`ProviderReplay`** (`sanitize_assistant_for_request` and the `convert_messages` of
each protocol): what of a conversation each provider is shown, with a model switch
between any two turns.

**`Selection`** (`anie-cli/src/model_catalog.rs`, `runtime/config_state.rs`,
`bootstrap.rs`): the catalogue, the ranking of flags, session, files and remembered
state at a start, the commands that change the selection, and the next start.

**`PromptCache`** (`runtime/prompt_cache.rs`, `collect_context_files`): when the
cached system prompt is rebuilt, with the files changing between the read of their
contents and of their stamps.

### Tools

**`FileTools`** (`anie-tools/src/edit.rs`, `write.rs`, `file_mutation_queue.rs`).
Calls of a batch name one file by different paths; `directory` says whether its
directory exists yet, which decides the key of the lock (`LockKey`). An edit is the
code's: parse, normalise line endings, exact then fuzzy occurrences, overlap check,
replacement from the back, restored endings.

**`ReadTool`** (`read.rs`, the output budget of `anie-agent`) with an agent that
pages through a file; **`SearchTools`** (`grep.rs`, `find.rs`, `ls.rs`), a walk with
limits and a cancel flag.

**`BashTool`** (`bash.rs`): the policy, the process group with a background writer,
the two forwarders, the biased `select!`, the drain after it, and the collector.

**`WebTools`** (`anie-tools-web`): robots rules asked once per origin and kept, the
bucket per host, redirects, the budget of a body, the extractor, a cancel in any
wait.

### Screens

**`Transcript`** (`anie-tui/src/output.rs`). The blocks of the output pane, updated
by every stream that `AgentEvents` allows, interleaved with the controller's system
messages; `conversation` is what the events said, block by block, as a pane that
remembers which block an event is about would show it.

**`OutputView`** (`output.rs`, the paint scheduling of `app.rs`): the caches of each
block at two widths, the streamed answer's own cache, the flat snapshot an urgent
paint reuses, scrolling and following, and the flags that say a paint is due.

**`SelectList`, `Editor`** (`widgets/select_list.rs`, `input.rs`, `autocomplete/`):
the composer. A text is a sequence of characters, the cursor a byte offset, as in the
code. **`TextLayout`**: how it wraps, and its cache. **`ModelPicker`**
(`overlays/model_picker.rs`, `widgets/fuzzy.rs`): the ranked list.
**`Discovery`** (`model_discovery.rs`, the picker's worker in `app.rs`): answers that
arrive when the picker has been closed, reopened or reloaded.

**`ProviderScreen`, `Onboarding`** (`overlays/providers.rs`, `overlays/onboarding.rs`,
`anie-config/src/mutation.rs`): a mode, workers whose results the tick hands to
whatever mode is then on show, and the files they edit.

### Harnesses

`MCAgentRun`, `MCServices`, `MCTools` and `MCFrontEnds` put components that do not
share state into one run each: a variable `part`, chosen at the start, says which of
them moves, the others keep their initial state, so that the number of states is the
sum and not the product. `MCSessionLog` gives `SessionLog` its runs and its symmetry.

## Runs

All configurations say `CHECK_DEADLOCK FALSE`: users may stop typing, and the bounds
on prompts, keys and entries end every behaviour sooner or later. That nobody waits
for ever is stated as liveness instead.

A property that checks a component as a whole is a conjunction of named parts, each
with its own comment in the module (`CredentialsSound`, `EditsExact`, `RunSound`, ...).

| Run | Instance | Distinct states | Shows |
|---|---|---|---|
| `controller` | 2 sessions, 3 prompts, `max_retries` 2, `max_per_turn` 2, panics, failing summarizers and reloads, four error classes (one per kind of decision) | 226,496 | a run and a backoff exclude each other; every follow-up starts, in queue order; runs and compactions per prompt are bounded, and are exactly what the bookkeeping handed from run to retry to continuation says; every prompt is answered in its session once, or is lost in a named way; quitting ends the loop |
| `interactive` | 2 slots in the event channel, batches of 2, 3 keys, 2 steps per run, 1 recovery, compaction in the middle of a run, failing summarizers | 358,447 | with everything delivered the TUI shows a run or idleness rightly, outside the named exceptions; actions are taken; a quit without a run ends the process |
| `agent_run` | *run*: two runs, two requests each, two tool calls at a time in both execution modes, all injections, one compaction. *transcript*: two calls whose ids come back, one delta a block, four blocks. *output*: two blocks, two widths, one height | 460,473 | events implement `AgentEvents`; every request pairs calls and results; what was told is what is kept; cancellation stops a run soon, and it returns; executions are shown as they went, the count of live blocks is exact, the conversation is shown unless a system message interrupted an answer; no cached or urgent paint shows stale lines without a full one being due, and a pane that follows stays at the end |
| `session_log` | two processes, two files, four entries, three calls, one fault, one aborted tool run as the run's messages | 311,405 | every file implements `SessionStore`, the index is the file, requests stay paired and forks complete, outside the three named kinds of damage |
| `services` | *tagged*: four fragments of every tag, prefix and lookalike. *stream*: three chunks of each protocol, two responses. *request*: every mix of windows, ceilings and requested limits of the .cfg. *replay*: four messages. *credentials*: two symmetric processes, two providers of which one rotates its tokens, three operations, one fault. *selection*: two starts, two commands, one edit of a file. *prompt*: two context files, three changes | 391,900 | the splitter gives the same text however it is cut and swallows nothing; a message keeps what was shown, whole arguments and fresh ids; requests are repeated for cause and leave room; a history is replayed as its provider takes it; no credential is lost, spent twice or left behind outside the named overlaps; the selection shown is the one in use and asked for; the stamp vouches for the prompt |
| `tools` | *files*: two calls on one file through two paths, one cancel. *read*: files of up to four lines, limits met and not. *search*: three entries, limits met and not. *bash*: the shell and a background writer, two writes, room for one chunk, a timeout and a cancel. *web*: two calls, one redirect, a bucket of one, bodies of two to four bytes in pieces of one and two under limits of two (`web_read`) and three (`web_search`) | 459,290 | an edit changes what it named and loses no other; pages cover a file; a search that does not say it was cut is complete; a command's answer is whole or says it is not; the budget per host is shared, and a page `web_read` clipped is said to be; every call is answered |
| `front_ends` | *print*: `max_retries` 3, one Ctrl-C at any moment. *backoff*: `RetryConfig::default`, every class of error, hints 0, 500, 2000, 60000 ms. *editor*: drafts of up to three characters, of two with one draft in the history, of one with two. *layout*, *picker*: texts of four characters, widths 4 and 5, ten models in two orders. *providers*: two providers, one worker. *onboarding*: two providers, one worker. *login*: two logins. *discovery*: two tasks, two addresses. *rpc*: two lines, two events, one slot | 376,110 | print mode ends with its answer, unless Ctrl-C met a backoff; the waits of a turn are bounded and grow; the composer keeps the draft and its cursor; what Enter chooses is what is shown; a change on a screen is a change in the file and is told; a login keeps what it was granted; an RPC host gets every event, and every line whole outside the named race; whatever says "wait" stops |
| `session_change` | 2 sessions, 2 prompts | violation | finding 1 |
| `print_mode_ctrl_c` | print mode, one Ctrl-C at any moment | violation | finding 2 |
| `interactive_midturn` | a compaction inside a run | violation | finding 3 |
| `interactive_quit` | 2 keys, 3 steps | violation | finding 4 |
| `transcript_interrupted` | the instance of *transcript* | violation | finding 5 |

Why the bounds are enough. *Controller*: three prompts put one in flight, one in the
queue and one in front of it; two retries and two compactions reach every
combination of attempt and `already_compacted`, and their limits; two sessions are
enough to be in the wrong one. *Interactive*: two slots are fewer than the events
of one step, so the channel fills; three keys make a double Ctrl+C after a prompt.
*AgentRun*: two calls of a batch interleave, two requests put a result in front of a
later cut, two runs take a session from one to the next. *Transcript*: two call ids
used in two turns fit in four blocks, five of which the run of finding 5 has.
*OutputView*: two blocks are one that changes and one that must not, two widths are
what a cache holds and one more than a resize needs. *SessionLog*: two processes race
on one file while a fork needs the other; four entries hold a prompt, a call, its
result and a compaction. Processes and sessions of `session_log` are symmetric:
nothing tells them apart, and no liveness is checked there. *Credentials*: two
processes are what a refresh lock is for, three operations put a logout or a login
between the read and the write of a refresh. *Streams*: two open blocks, both ways to
end, and a call whose arguments come in two parts; two responses let ids meet.
*FileTools*: two calls race for a lock, edits of two replacements have an order.
*BashTool*: a writer that outlives the shell, more output than the collector keeps; a
unit of output stands for a line as well as a byte, so one of the two caps binds, here
the budget. *WebTools*: a body can end below, at and above either tool's limit, in the
middle of a piece or at its end. *Editor*: two drafts in the history are one to start
from and one to walk past, while a third is written; the drafts that are sent are a
command and a text of three bytes, because no clause compares their texts.
*Selection*: what one start remembers the next one reads. *Screens*: two rows and one
late worker are what it takes for an answer to meet another row; two workers at once
are more than the run has time for.

Every property has a mutant in `PROJECT.json`: a definition with a plausible bug put
in, under which the run must fail.

## Fairness

Nothing is assumed of the user: no key, prompt, signal or Ctrl-C ever has to come.

- `Controller`: weak fairness of the end of a run (providers, tools and summarizers
  have timeouts or are cancelled), of the retry deadline and of seeing a closed
  channel. `select!` polls every branch; the deadline is an absolute instant, so
  that recreating the sleep on every action does not postpone it.
- `PrintMode`: the controller's steps, the sending of the one prompt and the end of the printer.
- `Interactive`: the TUI keeps drawing (`DrainEvents`), the runtime keeps polling the
  controller and the task, a stream, a tool and a summarizer call end, `ProcessEnds`.
- `AgentRun`: events are read (`Send`), the loop takes its own steps, a tool's
  forwarder and end are taken. A stream and a tool may go on for ever; a tool
  honours its cancelled child token (weak fairness of `cancelled /\ ToolReturns`).
  The only strong fairness is `StreamCancelled`: while `collect_stream` sends an
  event it is not at its `select!`, so the branch is disabled again and again, and
  `tokio::select!` picks among ready branches at random, so that it does not pass
  over a cancelled token for ever.
- `tools`: the steps of a bash call that the runtime polls (spawn, chunk, exit, drain,
  cancel), the reader that takes its updates, the two forwarders, and of a web call
  the fetch, the refill of the bucket (a sleep) and seeing the cancelled token. The
  command itself, its background process and the extractor may go on for ever.
- `front_ends`: the workers of the provider screen and of onboarding with the tick
  that takes their answers (HTTP timeouts; the TUI loop ticks), the deadlines of a
  login (each a `tokio::time::timeout`), the lock, the answer and the delivery of a
  discovery, and of RPC mode its main task, its printer, the controller's reading of
  the channel and the end of a run that was cancelled. Nobody has to read a line or
  call a login's callback.
- `Transcript`, `OutputView`, `SessionLog`, everything in `services`,
  `RetryBackoff`, `ReadTool`, `SearchTools`, `FileTools`: safety only.

## Proofs

Eight modules hold the proofs. Each theorem is about the specification of its
component, for every value of the constants the assumptions admit; the run in the
table checks the same formula on a small instance.

| Module | Theorem | States | Run |
|---|---|---|---|
| `ControllerProofs` | `TypeCorrect`, `BookkeepingSound` | `[]TypeOK` (the `u32` budget that three paths decrement never wraps), `[]TurnBookkeeping` | `controller` |
| | `RunExcludesRetry`, `FollowUpsHaveADriver`, `RetriesBounded`, `CompactionsBounded` | its four parts | |
| | `TurnsAccounted`, `AnswersUnique`, `FollowUpOrder` | `[]EveryTurnAccounted`, `[]AnsweredOnce`, `FollowUpsInOrder` | `controller` |
| `AgentRunProofs` | `EventsImplemented` | `EventProtocol`: the agent loop refines `AgentEvents` | `agent_run` |
| | `ReadersViewSound` | `[]ViewOK` of any stream that nests | |
| | `ReadersServed`, `RunsSound` | `[]Events!ViewOK`, `[]RunSound` | `agent_run` |
| | `RequestsArePaired`, `RunsAnswerTheirCalls` | `[]RequestsPaired`; a finished run answers its own calls | `agent_run` |
| | `PaneShown`, `TranscriptShown` | `[]ViewSound`, `[]TranscriptSound` | `agent_run` |
| `CompactionProofs` | (lemmas) | what filters, cuts, batches and joins leave of messages that answer their calls | |
| `SessionLogProofs` | `SpecLogSound`, `SpecForkKeepsContext`, `SpecResumePaired` | `[]LogSound`, `[]ForkKeepsContext`, `[]ResumePaired` | `session_log` |
| | `SpecHistoryKept` | `HistoryKept`: the files implement `SessionStore`, outside the named kinds of damage | `session_log` |
| | `LogInvariant`, `StoriesInvariant` | the inductive invariants they rest on | |
| `ServicesProofs` | `CredentialsSafe`, `PromptStaysSound`, `RequestsStaySound` | `CredentialsSound`, `[]PromptSound`, `[]RequestsSound` | `services` |
| `ToolsProofs` | `SearchWhole`, `BashAnswers`, `WebLimits` | `[]SearchSound`, `BashSound`, `[]WebSound` | `tools` |
| | `LocksExclude` | the part of `EditsExact` that is about the lock | |
| `FrontEndProofs` | `BackoffBounded`, `LoginsSound`, `DiscoveryAdds`, `SetupHolds` | `[]BackoffSound`, `LoginSound`, `DiscoverySound`, `[]SetupSound` | `front_ends` |
| | `KeysFollow` | `[]KeysFollowRun` | `interactive` |
| `HostProofs` | `PrintAnswers`, `RpcTellsAll`, `HostsAreServed` | `[]NoEarlyExit`, `[]RpcSound`, and both as `[]HostsServed` | `front_ends` |

What they assume is what the modules' `ASSUME`s say: the types of the constants, and
`max_per_turn` in 1..8 (`validate_compaction_config` refuses to load any other),
limits that are positive, a multiplier of `RetryConfig` of at least 2, or of 1 without
jitter (the default and what the tests use; nothing else builds one), a context window
and budgets that are numbers, and of `SessionLog` that there is a process and a session
and that the runs it is given answer their own calls (`RunsAnswered`, above).

**Controller.** `IInv == TypeOK /\ RunXorRetry /\ NoStrandedFollowUp /\ Ladder /\
PromptNamed`. That a continuation does not exceed `max_retries + 2` runs needs the
exact relation between `runs_this_turn`, `retry_attempt` and `already_compacted`
(`RunsPerTurnBounded` is that relation), that a reactive compaction happens once needs
`already_compacted <=> reactive_this_turn = 1` while a run is active and its
counterpart while a retry is armed (`Ladder`), and that a lost turn is a turn needs
that an active run or an armed retry names one (`PromptNamed`). There is a lemma per
group of actions and one for each ending the handlers share (`StartPromptRunLemma`,
`AfterRunLemma`, `CancelIInv`).

**The controller's log.** `LogInv` says of every prompt in every file where its answer
is: behind it, with the run or armed retry in flight (at most one, in the active
session, and its prompt the last one there), left in another session as a breadcrumb, or
among those lost; that no turn is
answered twice; that files which do not exist yet are empty; and that the queued
follow-ups are distinct and that no file has a message of theirs.
It is stated about a log, a session and a set of open turns (`Kept`, `Queued`), so
that lemmas about appending one message or opening one file carry it through all the
handlers.

**Agent run.** The refinement mapping computes the reader's view from what the loop
has sent. `OnItsWay` says that the events still in `out` are legal one after the other
from that view, and lead to the view the loop's phase calls for (`Shape`); every step
of the loop then either queues events that continue from there or sends the first of
them, which is one step of `AgentEvents`. `RunInv` has what was told next to what was
generated (equal but for the message whose tools are running) and counts for each
phase what a cancelled run may still do.

**Requests.** `Paired` speaks of messages that were sanitized, and no step preserves it
as it stands: a sanitizer that drops an empty answer may hide what the next message
breaks. `Answered` says the same of messages as they are kept: a message that will be
sent has its results right behind it, a result belongs to a message that will be sent.
`CompactionProofs` shows that it survives a join, a batch, a cut at any place of `Cuts`
and a failed message, by induction over the places of a sequence (`InductionOnNat`, with
a set for the formula), and that it makes the sanitized messages `Paired`
(`AnsweredIsPaired`, from where `Picked` puts each element: `Mapped`). `PairInv` carries
it through a run: the session always answers its calls, and so do the context and the
generated messages, while a batch runs with the results it is going to have.

**Session log.** `LogInv` says who has what open: leaves are those of the indexes, a
file not created is empty, one process holds a session (`OneHolder`), a call writes to a
session its process has open (`Callers`), the index is the file but for an entry whose
newline failed (`Indexes`), and a fork under way has in the child's index and in what is
left to copy the branch it started from (`Forks`). `Stories` says what the entries tell:
each follows one that is there, and the first kept entry of a compaction is where a cut
of the conversation before it can be (`Told`); every beginning that does not end inside
a batch answers its calls (`Replied`). The second is stated of the file, when nothing
was cut and nobody is writing, and of the index with what is still to be written, so
that a failing write finds it on either side. The lemmas between the two are about the
walk to the root (`Branch` of a chain is what was written, `Linked`) and about
`BranchContext` when a message, a change or a compaction is appended (`ConversationOn`):
the last of these is the step of `SessionStore` that `HistoryKept` asks for.

**Pane and transcript.** `ViewSound` speaks of a drawing from nothing (`DrawnFresh`), so
`PaneInv` says of every cache that its lines are what its width gives, of a streamed
answer that its last rendering is of its key, and of the snapshot that, valid, it is the
fresh drawing of its width (`BlocksInv`, `FlatInv`); the lines of a block that is not live
do not depend on the rest, so that a delta outdates only the snapshot, and no step does
so without asking for a paint. `TranscriptInv` relates two sequences, the blocks and the
conversation, through what is picked of each (`SameShown`, of the tools always, of
everything until an answer is interrupted). A change of a block and of an entry keeps it
when they are at the same place among what is picked (`SameRevised`), which is so because
in the conversation at most one entry is live for a call, the one `entry_of` names, and at
most one is an open answer, the last (`LiveInv`); `find_tool_call_index` then finds that
very block (`ExecutionFound`), however many old blocks have the same id. An answer that
was interrupted stays live in the pane for ever, and the count stays exact.

**Credentials.** The header of `ServicesProofs` lists the parts. None of the promises is
inductive: that no dead token is sent rests on the lock excluding a second refresh of
the provider (`LockHeld`), on every token outside a login's own process having been
issued and saved (`IssuedInv`, `FreshInv`), and on the stored token being live or its
successor in the hands of the refresh that bought it (`StoredLive`).

**Prompt.** That the stamp matches says nothing of the prompt by itself. `PromptInv`
keeps what was read of each candidate (`CacheHolds`, `JobReached`): as long as a file is
what the stamp says, it was read so (`AgreeOn`), for a refresh because a change has a
time no earlier stamp knows, for a build because nothing changed while it read; and the
stamp knows every file in the prompt (`Stamped`), without which a file that came and
went would be in the prompt and in neither stamp. `Vouches` goes from there to the
prompt of files that stand still, by induction over the candidates, and `GatherWithin`
is the limits for any reads. The first of these rests on the model's clock, which gives
each change a time of its own; a file system with a coarser one vouches for less.

**Provider requests.** `RequestInv` says what a request that goes on has left behind: every
body sent differs from the next one by a change that is never taken back (`LeftBehind`:
`stream_options` dropped, another reasoning strategy, `think` dropped, the context
halved), so that no two are equal but at the smallest context; the changes that are left
(`ChangesLeft`) and the bodies sent are together at most three, which bounds the requests
by four; and the last reply is the reason for the next body, which differs in nothing else
but the two cases `AskedAgainForCause` names (`Causes`). That a plain
request succeeds needs of a local server that `NoNativeFields` is the last rung. What the
limits ask of the levels of thinking is arithmetic, each level against the next.

**Tools.** *Search*: the places the walk has passed are shown, or the flag or a limit
says why not; what is shown is closed downwards until then, so that "complete" is
decided by what the walk has seen. *Bash*: every chunk the shell wrote is in one of the
pipes, in the channel or in the tail, until the tail is cut (`Counted`), and when a
command that exited is answered and no background writer is left, both pipes and the
channel are empty (`Drained`). *Web*: for each host,
the calls that took a token and the tokens left never exceed the burst plus the
refills (`BudgetKept`),
and a call past a check has been admitted by it (`CallSound`). *Locks*: the key of a
call is computed before it waits, and one holder per key is kept by the queue's order.

**Front ends.** *Backoff*: the bases form a table that at least doubles
(`DelayGrows`, by induction over the exponent with a set for the formula), a draw stays
within a quarter of its base, and the bands of two doublings do not overlap, so that
whatever the jitter draws a later wait is not shorter. *Login*: what a place in the
flow has been given (`Earned`) decides what may be stored; a stored credential is of a
login of its provider, and no refresh changes whose it is; for the device flow the
interval kept is never below the one asked for, and 12/10 and 14/10 of it are above.
*Discovery*: an answer under way is of a listing of the provider it was asked of, and
the rows of the picker are among the models known, which only grow. *Onboarding*: the
sets of sound jobs, results, screens and entries are taken over the presets whose key
was stored (`KeyedNames`), grow with it, and a discovery, a list of models or an entry
of a preset is only ever made from a context in them; one entry is the default and is
the one finalized last (`Marked`).

**Keys.** `KeysFollowRun` speaks of the moment when everything sent has been shown, and
no step preserves it. `Told` is what the TUI will show once the events in the channel,
and those the sender has left, have arrived; `AfterEvents` of two batches one after the
other is that of the joined one (`ShownJoined`, by induction over the front of a
sequence), so that neither sending an event nor draining a batch of any size changes
`Told`. `ToldInv` ties it to the place the run is at, and each step of the task and of
the controller brings the events that move both. It needs that the two senders never
have something to say at the same time but for events of no interest (`SendersInv`);
that the queue of prompts stays within the keys pressed counts the actions under way
with it, and the `Quit` that SIGTERM adds (`KeysInv`).

**Hosts.** *Print mode* rests on the controller's invariants: nothing is ever queued
and nothing but the end of a turn's last run sets `quitting` (`PrintInv`), so that
behind the loop no turn is open, and `LogInv` leaves of a prompt in the log that it was
answered, lost or left a breadcrumb. *RPC mode*: what the lines tell is a set of places
(`Told`), and each write adds one behind all others or none (`MessageAdded`,
`LineEnded`); the events told are the first `n` sent and the channel holds the rest
(`DeliveredTo`), until the printer fails; and each task outlives what it reads from
(`EndsInOrder`), so that an orderly exit finds the channel empty.

**Only model-checked.** Liveness (`LoopEnds`, `NobodyStuck`, `CancelEndsRun`,
`CallsAnswered`, `EveryWaitEnds`): fairness and ENABLED are beyond the provers.
Properties of what a fold or a recursive definition computes over a whole text:
the replacements of `EditsExact`, the pages of `ReadSound`, `SplitterSound`,
`AnswersWhole`, the layout in `ComposerSound`. The same holds of
`ReplaySound` and `SelectionSound`, whose models fold over a history and over the
layers of a configuration, and of the order `PickerSound` asks of `SortSeq`. Not
attempted: the rest of `PickerSound` and `ProvidersSound`.

## Findings

1. `session_change`: a session change during a backoff writes the breadcrumb of the
   cancelled retry into the new session; the old one keeps an unanswered prompt.
2. `print_mode_ctrl_c`: Ctrl-C during a backoff leaves print mode waiting for ever.
3. `interactive_midturn`: the end of a compaction inside a run makes the TUI idle
   while the run goes on; Ctrl+C then quits.
4. `interactive_quit`: after the TUI loop has returned nobody reads the event
   channel; a run with more to say than the channel holds keeps the process alive.
5. `transcript_interrupted`: a system message in the middle of an answer makes the
   pane drop the rest of it, its error and the end of its spinner.

Met while modelling, visible in the modules, but without a run of their own. Where a
property would fail on one of them, it names the case and excludes it.

*Controller, run, session*

- A panicking agent task leaves its prompt unanswered (`RunPanics` adds it to `lost`).
- A run that fails after `Quit` arms a retry, and the process stays through the
  backoff.
- Ctrl+Enter on a run that ends in an overflow is continued before the draft starts.
- The reactive compaction does not look at `[compaction] enabled`.
- Jitter may take a rate-limit delay below `RATE_LIMIT_MIN_DELAY_MS`.
- A summarizer that fails after `CompactionStart` (`compaction_gate.rs`,
  `controller.rs`) leaves the start without an end (`IdleShown` exempts it).
- SIGTERM ends the controller, not the TUI loop that owns the terminal.
- `find_cut_point`: a last message larger than the tokens to keep makes compaction
  impossible, however long the history.
- Neither the gate nor the follow-up hook looks at the cancelled token
  (`CancelStopsSoon` counts one more request for each).
- Session files: a crash between an entry and its newline merges the next entry into
  an unparsable line, so that both are lost and the branch ends behind them
  (`damage` "merged"); an `open_session` that read before the previous holder's last
  append goes on from a stale index ("stale"); a crash in the middle of a run's
  messages leaves a tool call without its result ("cut"). The properties of
  `SessionLog` hold outside these.
- RPC mode: an "invalid command" answer can land inside the line of a long event
  (`raced`; rpc.rs:83-84 and 90-99); a controller that failed is noticed only at the
  next line of stdin; the end of stdin cancels a run in progress, where print mode
  waits for it; a failed controller ends the process before the printer has drained.

*Credentials, providers*

- Two processes refreshing *different* providers lose one of the updates of a shared
  `auth.json`: the lock is per provider (`anie-auth/src/lib.rs:331-360`).
- `anie logout` says "Nothing to remove" of a key the resolver still finds elsewhere;
  the migration renames an `auth.json` that holds OAuth entries (store.rs:130-143).
- After a refusal of reasoning fields the next strategy offers `stream_options` again,
  although the server may have refused them already (openai/mod.rs:292-298), and for a
  hosted reasoning model the strategy without native fields names the effort in OpenAI's
  own (openai/mod.rs:218-226). `AskedAgainForCause` excepts the two by name
  (`OffersOptionsAgain`, `NamesHostedEffort`) and allows no other change.
- GitHub's `slow_down` with interval 0 is not slower.
- An Anthropic body that ends without `message_stop` is taken as a complete answer.
- Text the tag splitter holds back is told after native reasoning that came later.
- Any status 400 whose text mentions "token" is a context overflow.
- `reasoning_details` are replayed to providers that did not opt in (convert.rs:83-86).
- Ollama: the second failure of a model load is reported as the first
  (ollama_chat/mod.rs:54-77); the retry after an overflow can raise `num_ctx` below its
  2048 floor; `EffectiveMax` may leave one token for an answer.

*Selection, prompt, discovery*

- A resume overrides `--provider`, `--model` and `--thinking`: the comment of the
  ranking puts "CLI flag (most specific intent)" before "Session context"
  (model_catalog.rs:157-165, 192-198), the architecture document says "CLI overrides are
  unconditional and applied last" (docs/arch/anie-rs_architecture.md:609), and
  `apply_session_overrides` at the end of the start (bootstrap.rs:106) puts the session's
  model and thinking back. `SessionChoiceKept` says nothing of what a flag names.
- `[model] thinking` alone makes the remembered
  provider and model ignored; one start with the local server down overwrites the
  remembered choice; a model picked from discovery that the catalogue lacks does not
  survive a fresh start; a reload changes the model without a session entry.
- `SystemPromptCache::build` reads files, then stamps: a change in between is served
  until the next one. A failing reload after the swap leaves the status untold.
- The TUI's list of known models is not rebuilt after a reload; the cache of
  discoveries is not read by the picker.

*Tools*

- Two paths to a directory that does not exist yet give two lock keys
  (file_mutation_queue.rs:53-72); an edit of a file with mixed line endings rewrites
  all of them; a failed write leaves a truncated file.
- Bash: the biased `select!` lets a background writer keep `child.wait` from being
  polled (bash.rs:153-183); the output of a timed out or aborted command is dropped; a
  multi-byte character at a 4096-byte chunk end is replaced; a huge timeout panics in
  `from_secs_f64`.
- Grep: a cancel during the last file answers as complete; context lines can fill the
  50 KB so that the answer is "No matches.". `ls` with limit 0 says the directory is
  empty. `read` counts pieces of a long line as lines.
- Web: robots answers, failures too, are kept for the life of the process, and each
  concurrent call is judged by its own answer; Defuddle has no timeout; a cancel while
  a clipped page is extracted is told as "too big"; the rate limit counts the first
  host of a redirect chain only.

*Screens*

- Output: compact mode hides a partial result while a tool executes; a worker event
  handled in an idle tick is not painted (app.rs:1002); transcripts beyond 65,535
  lines are clamped (output.rs:694); a click between a scroll and its paint is
  resolved with the new offset; typing faster than the frame budget postpones full
  paints.
- Composer: the cursor in front of a word moved to the next row stays on the old one
  (input.rs:625-627).
- Provider screen and onboarding: a late answer meets whatever row or screen is then
  shown (a deleted provider is written back, `Esc` is undone, an edited key is lost);
  `ViewModels` of an empty list stays busy; the configuration's default may name a
  provider that was deleted.
- `/markdown` and `/tool-output` validate case-insensitively and dispatch exactly; the
  model picker's Enter while "Discovering…" takes an invisible row.

## Not modelled, and why

- *Markdown layout, syntax colours, render debugging*: sequential text processing with
  unit tests of its own; the lines under it are what `OutputView` caches.
- *The headless renderer and Defuddle's extraction*: external programs; `WebTools` has
  what waits for them.
- *TOML text editing, argument parsing, parsing of endpoint answers*: conversions
  without state. `ProviderScreen` has which table changes.
- *Terminal set-up, mouse beyond clicks on links, terminal I/O errors.*
- *Wire formats and HTTP below the level of an event*: the streams are sequences of
  events; pipe backpressure of a child process is not modelled either.
- *Catalogs and protocol types*: data; their event and message kinds appear as the
  alphabets of `AgentEvents` and `Compaction`.
- In `SessionLog`: forks of an entry inside a file (the CLI does not call it), labels,
  schema versions, file systems without locks (the code goes on unlocked there), the
  window between creating a file and locking it, a torn header.
- In `Controller`: the model, thinking and compaction entries of a session file and
  writes that fail (`SessionLog` has them).
