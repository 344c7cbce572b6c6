----------------------------- MODULE Controller -----------------------------
(***************************************************************************)
(* The interactive controller of anie-cli/src/controller.rs: one loop that *)
(* polls UI actions, the active agent run and the retry backoff, and is    *)
(* the only writer of the session logs.                                    *)
(*                                                                         *)
(* One action is one iteration of `run`'s select: the whole handler, with  *)
(* every call it awaits, up to the quit check that ends the iteration.     *)
(* A user prompt is a number, its turn; a session log keeps the messages   *)
(* (user prompts, the messages a run generated as one "reply", the         *)
(* synthetic "breadcrumb" of a cancelled retry), and leaves out the model, *)
(* thinking and compaction entries, which SessionLog models.  Session      *)
(* writes succeed here; what a failing write does is SessionLog's subject. *)
(***************************************************************************)
EXTENDS RetryPolicy, Sequences

CONSTANTS
    Sessions,              \* names for session files
    MaxPrompts,            \* bound: prompts the user submits
    max_per_turn,          \* [compaction] max_per_turn
    compaction_enabled,    \* [compaction] enabled
    exit_after_run,        \* print mode
    TasksMayPanic,         \* an agent task may end with a JoinError
    InternalErrors,        \* a summarizer call or a config reload may fail
    UiErrors               \* the errors runs are given to end with

ASSUME ControllerAssumption ==
    /\ Sessions # {}
    /\ MaxPrompts \in Nat
    /\ max_per_turn \in 1..8
    /\ {compaction_enabled, exit_after_run, TasksMayPanic, InternalErrors}
         \subseteq BOOLEAN
    /\ UiErrors \subseteq ProviderErrors

VARIABLES
    loop,             \* "looping", "exited" (Ok) or "failed" (Err)
    channel_open,     \* some sender of ui_action_rx is left
    current_run,      \* Option<CurrentRun>
    pending_retry,    \* PendingRetry
    quitting,
    queued_prompts,
    compactions_remaining_this_turn,
    session,          \* the SessionHandle's active session
    log,              \* the messages of every session file
    created,          \* the session files that exist
    prompts,          \* prompts submitted so far
    runs_this_turn,          \* history: runs spawned for the current turn
    compactions_this_turn,   \* history: automatic compactions in this turn
    reactive_this_turn,      \* history: those that retry_after_overflow made
    lost              \* history: turns whose task or controller died

vars == <<loop, channel_open, current_run, pending_retry, quitting,
          queued_prompts, compactions_remaining_this_turn, session, log,
          created, prompts, runs_this_turn, compactions_this_turn,
          reactive_this_turn, lost>>
budget == <<compactions_remaining_this_turn, compactions_this_turn>>

Turns == 1..MaxPrompts

Run(turn, cancelled, already_compacted, retry_attempt) ==
    [active |-> TRUE, turn |-> turn, cancelled |-> cancelled,
     already_compacted |-> already_compacted, retry_attempt |-> retry_attempt]
NoRun == [active |-> FALSE, turn |-> 0, cancelled |-> FALSE,
          already_compacted |-> FALSE, retry_attempt |-> 0]

Armed(turn, attempt, already_compacted) ==
    [armed |-> TRUE, turn |-> turn, attempt |-> attempt,
     already_compacted |-> already_compacted]
Idle == [armed |-> FALSE, turn |-> 0, attempt |-> 0,
         already_compacted |-> FALSE]

Entry(kind, turn) == [kind |-> kind, turn |-> turn]

Init ==
    /\ loop = "looping"
    /\ channel_open = TRUE
    /\ current_run = NoRun
    /\ pending_retry = Idle
    /\ quitting = FALSE
    /\ queued_prompts = <<>>
    /\ compactions_remaining_this_turn = max_per_turn
    /\ session \in Sessions
    /\ created = {session}
    /\ log = [s \in Sessions |-> <<>>]
    /\ prompts = 0
    /\ runs_this_turn = 0
    /\ compactions_this_turn = 0
    /\ reactive_this_turn = 0
    /\ lost = {}

-----------------------------------------------------------------------------
\* L with one more message at the end of s.
Logged(L, kind, turn, s) == [L EXCEPT ![s] = Append(@, Entry(kind, turn))]

\* Variant of AbortPendingRetry with a bug: the retry is dropped without a breadcrumb.
BugNoBreadcrumb(L, s) == L

\* abort_pending_retry: L with the breadcrumb of an armed retry in session s.
AbortPendingRetry(L, s) ==
    IF pending_retry.armed THEN Logged(L, "breadcrumb", pending_retry.turn, s)
                           ELSE L

\* finish_run: the log with the messages the run generated.
FinishRun == Logged(log, "reply", current_run.turn, session)

\* Variant of QuitCheck with a bug: the loop never looks at `quitting`.
BugNoQuitCheck == loop' = "looping"

\* The quit check at the end of an iteration of the loop.
QuitCheck ==
    loop' = IF quitting' /\ ~current_run'.active /\ ~pending_retry'.armed
            THEN "exited" ELSE "looping"

\* `?` on an error that is not the user's: the controller is dropped, and a
\* turn it still had to answer with it.
Fatal(gone) ==
    /\ loop' = "failed"
    /\ current_run' = NoRun
    /\ pending_retry' = Idle
    /\ lost' = lost \cup gone

\* start_prompt_run on the log L, after a step that lost the turns `gone`.
\* The pre-prompt compaction may run, find nothing to do, or fail.
StartPromptRun(turn, L, gone) ==
    /\ log' = Logged(L, "user", turn, session)
    /\ reactive_this_turn' = 0
    /\ \/ \E compacted \in IF compaction_enabled THEN {0, 1} ELSE {0} :
             /\ compactions_remaining_this_turn' = max_per_turn - compacted
             /\ compactions_this_turn' = compacted
          /\ current_run' = Run(turn, FALSE, FALSE, 0)
          /\ pending_retry' = Idle
          /\ runs_this_turn' = 1
          /\ loop' = "looping"
          /\ lost' = lost \cup gone
       \/ /\ compaction_enabled /\ InternalErrors
          /\ compactions_remaining_this_turn' = max_per_turn
          /\ compactions_this_turn' = 0
          /\ runs_this_turn' = 0
          /\ Fatal(gone \cup {turn})

\* Variant of StartContinuationRun with a bug: the attempts are counted from zero again.
BugAttemptsStartOver(turn, already_compacted, retry_attempt) ==
    /\ current_run' = Run(turn, FALSE, already_compacted, 0)
    /\ pending_retry' = Idle
    /\ runs_this_turn' = runs_this_turn + 1

\* start_continuation_run of the current turn.
StartContinuationRun(turn, already_compacted, retry_attempt) ==
    /\ current_run' = Run(turn, FALSE, already_compacted, retry_attempt)
    /\ pending_retry' = Idle
    /\ runs_this_turn' = runs_this_turn + 1

\* Variant of AfterRun with a bug: the newest prompt is taken first.
BugDrainNewest(L, gone) ==
    \/ /\ queued_prompts # <<>>
       /\ StartPromptRun(queued_prompts[Len(queued_prompts)], L, gone)
       /\ queued_prompts' = SubSeq(queued_prompts, 1, Len(queued_prompts) - 1)
       /\ UNCHANGED quitting
    \/ /\ queued_prompts = <<>>
       /\ current_run' = NoRun /\ log' = L /\ lost' = lost \cup gone
       /\ quitting' = (quitting \/ exit_after_run)
       /\ UNCHANGED <<pending_retry, queued_prompts, budget, runs_this_turn,
                      reactive_this_turn>>
       /\ QuitCheck

\* After a run whose turn is over: try_drain_queued_prompt, exit_after_run.
AfterRun(L, gone) ==
    \/ /\ queued_prompts # <<>>
       /\ StartPromptRun(Head(queued_prompts), L, gone)
       /\ queued_prompts' = Tail(queued_prompts)
       /\ UNCHANGED quitting
    \/ /\ queued_prompts = <<>>
       /\ current_run' = NoRun
       /\ log' = L
       /\ lost' = lost \cup gone
       /\ quitting' = (quitting \/ exit_after_run)
       /\ UNCHANGED <<pending_retry, queued_prompts, budget, runs_this_turn,
                      reactive_this_turn>>
       /\ QuitCheck

-----------------------------------------------------------------------------
(***************************************************************************)
(* The active run: its task ends, or compacts its context on the way.      *)
(***************************************************************************)
RunEnds == loop = "looping" /\ current_run.active
           /\ UNCHANGED <<channel_open, session, created, prompts>>

Decision(error) ==
    Decide(error, current_run.retry_attempt, current_run.already_compacted,
           compactions_remaining_this_turn)

\* The task returned no terminal_error: a clean end, or an aborted one.
RunCompletes == RunEnds /\ AfterRun(FinishRun, {})

\* The task panicked: only a system message, nothing is persisted.
RunPanics == RunEnds /\ TasksMayPanic /\ AfterRun(log, {current_run.turn})

\* RetryDecision::Compact, and retry_after_overflow compacted the session.
CompactAndContinue(error) ==
    /\ RunEnds
    /\ Decision(error).kind = "Compact"
    /\ compactions_remaining_this_turn' = compactions_remaining_this_turn - 1
    /\ compactions_this_turn' = compactions_this_turn + 1
    /\ reactive_this_turn' = reactive_this_turn + 1
    /\ StartContinuationRun(current_run.turn, TRUE, current_run.retry_attempt)
    /\ UNCHANGED <<loop, quitting, queued_prompts, log, lost>>

\* Variant of ArmRetry with a bug: the failed attempt is persisted too.
BugArmRetryPersists(error) ==
    /\ RunEnds
    /\ Decision(error).kind = "Retry" /\ queued_prompts = <<>>
    /\ pending_retry' = Armed(current_run.turn, Decision(error).attempt,
                              current_run.already_compacted)
    /\ current_run' = NoRun
    /\ log' = FinishRun
    /\ UNCHANGED <<loop, quitting, queued_prompts, lost, budget,
                   runs_this_turn, reactive_this_turn>>

\* Variant of ArmRetry with a bug: exit_after_run does not wait for the retry.
BugArmRetryExits(error) ==
    /\ RunEnds
    /\ Decision(error).kind = "Retry" /\ queued_prompts = <<>>
    /\ current_run' = NoRun
    /\ quitting' = (quitting \/ exit_after_run)
    /\ UNCHANGED <<pending_retry, queued_prompts, log, lost, budget,
                   runs_this_turn, reactive_this_turn>>
    /\ QuitCheck

\* RetryDecision::Retry with no follow-up queued.
ArmRetry(error) ==
    /\ RunEnds
    /\ Decision(error).kind = "Retry"
    /\ queued_prompts = <<>>
    /\ pending_retry' = Armed(current_run.turn, Decision(error).attempt,
                              current_run.already_compacted)
    /\ current_run' = NoRun
    /\ UNCHANGED <<loop, quitting, queued_prompts, log, lost, budget,
                   runs_this_turn, reactive_this_turn>>

\* GiveUp, a Retry that yields to a queued follow-up, or a Compact that could
\* not compact (or whose summarizer failed).
GiveUpOnRun(error) ==
    /\ RunEnds
    /\ Decision(error).kind = "Retry" => queued_prompts # <<>>
    /\ AfterRun(FinishRun, {})

RunFails ==
    \E error \in UiErrors :
        CompactAndContinue(error) \/ ArmRetry(error) \/ GiveUpOnRun(error)

RunResult == RunCompletes \/ RunPanics \/ RunFails

\* ControllerCompactionGate::maybe_compact compacted inside the running task.
GateCompacts ==
    /\ loop = "looping" /\ current_run.active /\ compaction_enabled
    /\ compactions_remaining_this_turn > 0
    /\ compactions_remaining_this_turn' = compactions_remaining_this_turn - 1
    /\ compactions_this_turn' = compactions_this_turn + 1
    /\ UNCHANGED <<loop, channel_open, current_run, pending_retry, quitting,
                   queued_prompts, session, log, created, prompts,
                   runs_this_turn, reactive_this_turn, lost>>

\* sleep_until(deadline) elapsed.
RetryDeadlineFires ==
    /\ loop = "looping" /\ pending_retry.armed
    /\ StartContinuationRun(pending_retry.turn, pending_retry.already_compacted,
                            pending_retry.attempt)
    /\ UNCHANGED <<loop, channel_open, quitting, queued_prompts, session, log,
                   created, prompts, budget, reactive_this_turn, lost>>

-----------------------------------------------------------------------------
(***************************************************************************)
(* The UI actions that change state.  The ones rejected while a run is     *)
(* active leave it unchanged and need no action.                           *)
(***************************************************************************)
UiAction == loop = "looping" /\ channel_open /\ UNCHANGED channel_open

\* A new prompt; MaxPrompts bounds how many there are.
NewPrompt == UiAction /\ prompts < MaxPrompts /\ prompts' = prompts + 1
             /\ UNCHANGED <<quitting, session, created>>

\* SubmitPrompt, QueuePrompt or AbortAndQueuePrompt without an active run.
SubmitPrompt ==
    /\ NewPrompt /\ ~current_run.active
    /\ StartPromptRun(prompts + 1, AbortPendingRetry(log, session), {})
    /\ UNCHANGED queued_prompts

\* QueuePrompt with an active run.
QueuePrompt ==
    /\ NewPrompt /\ current_run.active
    /\ queued_prompts' = Append(queued_prompts, prompts + 1)
    /\ UNCHANGED <<loop, current_run, pending_retry, log, lost, budget,
                   runs_this_turn, reactive_this_turn>>

\* AbortAndQueuePrompt with an active run: to the front, and cancel.
AbortAndQueuePrompt ==
    /\ NewPrompt /\ current_run.active
    /\ queued_prompts' = <<prompts + 1>> \o queued_prompts
    /\ current_run' = [current_run EXCEPT !.cancelled = TRUE]
    /\ UNCHANGED <<loop, pending_retry, log, lost, budget, runs_this_turn,
                   reactive_this_turn>>

\* An action that starts no prompt and may cancel an armed retry.
Command == UiAction
           /\ UNCHANGED <<queued_prompts, prompts, budget, runs_this_turn,
                          reactive_this_turn>>

Abort ==
    /\ Command
    /\ current_run' = [current_run EXCEPT !.cancelled = current_run.active]
    /\ log' = AbortPendingRetry(log, session)
    /\ pending_retry' = Idle
    /\ UNCHANGED <<quitting, session, created, lost>>
    /\ QuitCheck

Quit ==
    /\ Command
    /\ quitting' = TRUE
    /\ current_run' = [current_run EXCEPT !.cancelled = current_run.active]
    /\ log' = AbortPendingRetry(log, session)
    /\ pending_retry' = Idle
    /\ UNCHANGED <<session, created, lost>>
    /\ QuitCheck

\* SetModel, SetResolvedModel, SetThinking, ReloadConfig, Compact: the change,
\* then cancel_pending_retry_for_run_affecting_change.
RunAffectingChange ==
    /\ Command /\ ~current_run.active
    /\ log' = AbortPendingRetry(log, session)
    /\ pending_retry' = Idle
    /\ UNCHANGED <<current_run, quitting, session, created, lost>>
    /\ QuitCheck

\* The turn is being answered.
InFlight(turn) ==
    \/ current_run.active /\ current_run.turn = turn
    \/ pending_retry.armed /\ pending_retry.turn = turn

\* `?` on an internal error: ListSessions whose directory can not be read, during
\* a run too; Compact whose summarizer failed, ReloadConfig whose file does not
\* load, before the retry is cancelled.
CommandFails ==
    /\ Command /\ InternalErrors
    /\ Fatal({turn \in Turns : InFlight(turn)})
    /\ UNCHANGED <<quitting, session, log, created>>

\* NewSession (copy = <<>>) and ForkSession (copy = the active branch): the
\* handle is swapped first, the retry cancelled after it.
MoveToNewFile(copy) ==
    /\ Command /\ ~current_run.active
    /\ \E s \in Sessions \ created :
          /\ session' = s
          /\ created' = created \cup {s}
          /\ log' = AbortPendingRetry([log EXCEPT ![s] = copy], s)
    /\ pending_retry' = Idle
    /\ UNCHANGED <<current_run, quitting, lost>>
    /\ QuitCheck

NewSession == MoveToNewFile(<<>>)
ForkSession == MoveToNewFile(log[session])

SwitchSession ==
    /\ Command /\ ~current_run.active
    /\ \E s \in created \ {session} :
          /\ session' = s
          /\ log' = AbortPendingRetry(log, s)
    /\ pending_retry' = Idle
    /\ UNCHANGED <<current_run, quitting, created, lost>>
    /\ QuitCheck

-----------------------------------------------------------------------------
\* The last sender of ui_action_rx is dropped.
CloseChannel ==
    /\ loop = "looping" /\ channel_open
    /\ channel_open' = FALSE
    /\ UNCHANGED <<loop, current_run, pending_retry, quitting, queued_prompts,
                   budget, session, log, created, prompts, runs_this_turn,
                   reactive_this_turn, lost>>

\* recv returned None: with a run cancel it, with a retry cancel that, with
\* neither leave the loop.
SeeClosedChannel ==
    /\ loop = "looping" /\ ~channel_open
    /\ current_run' = [current_run EXCEPT !.cancelled = current_run.active]
    /\ log' = AbortPendingRetry(log, session)
    /\ pending_retry' = Idle
    /\ quitting' = (quitting \/ current_run.active \/ pending_retry.armed)
    /\ loop' = IF current_run.active THEN "looping" ELSE "exited"
    /\ UNCHANGED <<channel_open, queued_prompts, budget, session, created,
                   prompts, runs_this_turn, reactive_this_turn, lost>>

UserStep ==
    \/ SubmitPrompt \/ QueuePrompt \/ AbortAndQueuePrompt \/ Abort \/ Quit
    \/ RunAffectingChange \/ CommandFails
    \/ NewSession \/ ForkSession \/ SwitchSession

Next ==
    \/ RunResult \/ GateCompacts \/ RetryDeadlineFires
    \/ UserStep
    \/ CloseChannel \/ SeeClosedChannel

\* A spawned task ends (providers, tools and the summarizer time out or are
\* cancelled), a timer fires, and a closed channel is seen.  The user owes
\* nothing.
Fairness ==
    WF_vars(RunResult) /\ WF_vars(RetryDeadlineFires) /\ WF_vars(SeeClosedChannel)

Spec == Init /\ [][Next]_vars /\ Fairness

-----------------------------------------------------------------------------
RunType == [active : BOOLEAN, turn : 0..MaxPrompts, cancelled : BOOLEAN,
            already_compacted : BOOLEAN, retry_attempt : 0..max_retries]
RetryType == [armed : BOOLEAN, turn : 0..MaxPrompts, attempt : 0..max_retries,
              already_compacted : BOOLEAN]
EntryType == [kind : {"user", "reply", "breadcrumb"}, turn : 0..MaxPrompts]

\* The type of every variable.
TypeOK ==
    /\ loop \in {"looping", "exited", "failed"}
    /\ channel_open \in BOOLEAN
    /\ current_run \in RunType
    /\ pending_retry \in RetryType
    /\ quitting \in BOOLEAN
    /\ queued_prompts \in Seq(Turns)
    /\ compactions_remaining_this_turn \in 0..max_per_turn
    /\ session \in Sessions
    /\ log \in [Sessions -> Seq(EntryType)]
    /\ created \subseteq Sessions
    /\ prompts \in 0..MaxPrompts
    /\ runs_this_turn \in 0..(max_retries + 2)
    /\ compactions_this_turn \in 0..max_per_turn
    /\ reactive_this_turn \in 0..1
    /\ lost \subseteq Turns

Answers(L, s, turn) ==
    {i \in DOMAIN L[s] : L[s][i].kind # "user" /\ L[s][i].turn = turn}
Started(turn) ==
    \E s \in Sessions : \E i \in DOMAIN log[s] : log[s][i] = Entry("user", turn)

\* The loop never holds an active run and an armed retry at once: a continuation
\* can not interleave with a fresh run on a stale context (start_prompt_run).
RunXorRetry == ~(current_run.active /\ pending_retry.armed)

\* A queued follow-up always has a run whose end will drain it: no path out of a
\* run (retry, give-up, compaction, panic) leaves the queue without a driver.
NoStrandedFollowUp ==
    queued_prompts # <<>> => current_run.active \/ loop = "failed"

\* Retries and the overflow continuation together spawn a bounded number of runs
\* for one prompt: the bookkeeping carried through CurrentRun, Armed and the
\* continuation is exactly the number of runs spawned.
RunsPerTurnBounded ==
    /\ runs_this_turn <= max_retries + 2
    /\ current_run.active =>
          runs_this_turn = 1 + current_run.retry_attempt
                             + (IF current_run.already_compacted THEN 1 ELSE 0)
    /\ pending_retry.armed =>
          runs_this_turn = pending_retry.attempt
                             + (IF pending_retry.already_compacted THEN 1 ELSE 0)

\* The three compaction paths share one budget: a turn compacts automatically at
\* most max_per_turn times, and reactively at most once.
CompactionsPerTurnBounded ==
    /\ compactions_this_turn + compactions_remaining_this_turn = max_per_turn
    /\ reactive_this_turn <= 1
    /\ current_run.active =>
          (current_run.already_compacted <=> reactive_this_turn = 1)

\* A user message is answered right behind it, in its own session, or its turn is
\* in flight, died with its task or the controller, or was waiting for a retry that
\* a session change cancelled (the breadcrumb is in the session changed to): no
\* other decision at the end of a run forgets to persist its outcome.
EveryTurnAccounted ==
    \A s \in Sessions : \A i \in DOMAIN log[s] :
        LET turn == log[s][i].turn
        IN  log[s][i].kind = "user" =>
              \/ i < Len(log[s]) /\ log[s][i + 1].kind # "user"
                                 /\ log[s][i + 1].turn = turn
              \/ i = Len(log[s]) /\ s = session /\ InFlight(turn)
              \/ turn \in lost
              \/ \E t \in Sessions \ {s} :
                    \E j \in DOMAIN log[t] : log[t][j] = Entry("breadcrumb", turn)

\* No session answers a turn twice, nor answers the one in flight: a discarded
\* attempt and its retry never both reach the log.
AnsweredOnce ==
    \A s \in Sessions, turn \in Turns :
        /\ \A i, j \in Answers(log, s, turn) : i = j
        /\ InFlight(turn) => Answers(log, s, turn) = {}

\* Every user message of a session has a following assistant message, except the
\* last one of the active session while its turn is in flight.
EveryPromptAnswered ==
    \A s \in Sessions : \A i \in DOMAIN log[s] :
        log[s][i].kind = "user" =>
            \/ i < Len(log[s]) /\ log[s][i + 1].kind # "user"
            \/ i = Len(log[s]) /\ s = session /\ InFlight(log[s][i].turn)

\* A follow-up starts in queue order: a prompt appended to a log while the queue
\* is not empty is the queue's head.
FollowUpsInOrder ==
    [][\A turn \in Turns :
          Started(turn)' /\ ~Started(turn) /\ queued_prompts # <<>>
              => turn = Head(queued_prompts)]_vars

\* Quit ends the loop, whatever the interrupted run ends with.
QuitEnds == quitting ~> loop # "looping"

\* So does a channel without senders.
ClosedChannelEnds == ~channel_open ~> loop # "looping"

\* A follow-up that was queued is started, unless the controller dies.
FollowUpStarts ==
    \A turn \in Turns :
        (\E i \in DOMAIN queued_prompts : queued_prompts[i] = turn)
            ~> (Started(turn) \/ loop = "failed")

\* An armed backoff is resolved: it becomes a run, or it is cancelled.
BackoffResolves == pending_retry.armed ~> ~pending_retry.armed

\* The loop's bookkeeping about the turn in progress: who drives it, what it may
\* still spend, and who will start what is queued behind it.
TurnBookkeeping ==
    RunXorRetry /\ NoStrandedFollowUp /\ RunsPerTurnBounded /\ CompactionsPerTurnBounded

\* Nothing the loop has taken on is left undone.
LoopEnds == QuitEnds /\ ClosedChannelEnds /\ FollowUpStarts /\ BackoffResolves
=============================================================================
