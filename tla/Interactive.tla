---------------------------- MODULE Interactive ----------------------------
(***************************************************************************)
(* Interactive mode (anie-cli/src/interactive_mode.rs): the TUI loop, the  *)
(* controller and the agent task around two channels, an unbounded one for *)
(* the user's actions and a bounded one for events.  The TUI decides what  *)
(* a key means from the state the events have told it so far.              *)
(*                                                                         *)
(* The controller is Controller's, reduced to what it sends and when it    *)
(* blocks: a handler takes effect, then sends its events one by one, and   *)
(* polls nothing until the last one is through.  Events that do not change *)
(* agent_state are "Other".                                                *)
(***************************************************************************)
EXTENDS Naturals, SequencesExt

CONSTANTS
    EventCapacity,        \* mpsc::channel(256)
    MaxBatch,             \* MAX_AGENT_EVENTS_PER_FRAME
    MaxKeys,              \* bound: keys the user presses
    MaxSteps,             \* bound: steps (deltas, tool calls) of a run
    MaxRecoveries,        \* bound: failed runs that are retried or compacted
    MidTurnCompaction,    \* the gate compacts inside a run
    SummarizerFails       \* a summarizer call may fail

ASSUME InteractiveAssumption ==
    /\ {EventCapacity, MaxBatch} \subseteq Nat \ {0}
    /\ {MaxKeys, MaxSteps, MaxRecoveries} \subseteq Nat
    /\ {MidTurnCompaction, SummarizerFails} \subseteq BOOLEAN

VARIABLES
    tui,            \* "looping"; "left" run_tui; the process "ended"
    agent_state,    \* AgentUiState
    last_ctrl_c,    \* a Ctrl+C within the last two seconds
    actions,        \* ui_action_tx, unbounded
    events,         \* agent_event_tx, bounded
    controller,     \* "looping" or "exited"
    quitting,
    queued_prompts, \* how many
    outbox,         \* events the running handler has still to send
    starting,       \* the running handler ends by spawning a run
    retry_armed,
    run,            \* "none", or what the task is at; "finished" until joined
    run_out,        \* events the task has to send before it goes on
    cancelled,      \* the run's token
    steps,          \* steps the run has taken
    keys,           \* keys pressed so far
    recoveries,     \* runs retried or compacted so far
    signalled,      \* history: SIGTERM came
    compacted,      \* history: the gate compacted inside this run
    recovery_failed \* history: since the last run a recovery's summarizer failed

recovering == <<recoveries, recovery_failed>>
progress == <<steps, compacted>>
tuiVars == <<tui, agent_state, last_ctrl_c, keys, signalled>>
ctlVars == <<controller, quitting, queued_prompts, outbox, starting,
             retry_armed, recovering>>
runVars == <<run, run_out, cancelled, progress>>
interactiveVars == <<tuiVars, ctlVars, runVars, actions, events>>

Init ==
    /\ tui = "looping" /\ agent_state = "Idle" /\ last_ctrl_c = FALSE
    /\ actions = <<>> /\ events = <<>>
    /\ controller = "looping" /\ quitting = FALSE /\ queued_prompts = 0
    /\ outbox = <<"Other", "Other">> /\ starting = FALSE /\ retry_armed = FALSE
    /\ run = "none" /\ run_out = <<>> /\ cancelled = FALSE /\ steps = 0
    /\ keys = 0 /\ recoveries = 0 /\ signalled = FALSE
    /\ compacted = FALSE /\ recovery_failed = FALSE

-----------------------------------------------------------------------------
(***************************************************************************)
(* The TUI.                                                                *)
(***************************************************************************)

\* Variant of AfterEvent with a bug: the end of a tool is taken for the end of the run.
BugToolEndIsIdle(state, event) ==
    CASE event \in {"AgentEnd", "ToolExecEnd"} -> "Idle"
      [] event = "AgentStart" -> "Streaming"
      [] event = "ToolExecStart" -> "ToolExecuting"
      [] event = "CompactionStart" -> "Compacting"
      [] event = "CompactionEnd" /\ state = "Compacting" -> "Idle"
      [] OTHER -> state

\* handle_agent_event: agent_state after one more event.
AfterEvent(state, event) ==
    CASE event = "AgentEnd" -> "Idle"
      [] event \in {"AgentStart", "ToolExecEnd"} -> "Streaming"
      [] event = "ToolExecStart" -> "ToolExecuting"
      [] event = "CompactionStart" -> "Compacting"
      [] event = "CompactionEnd" /\ state = "Compacting" -> "Idle"
      [] OTHER -> state

\* handle_agent_event_batch: agent_state after a batch.
AfterEvents(state, batch) ==
    LET upTo[n \in 0..Len(batch)] ==
            IF n = 0 THEN state ELSE AfterEvent(upTo[n - 1], batch[n])
    IN  upTo[Len(batch)]

\* Variant of DrainEvents with a bug: events are drained only while no run is shown.
BugDrainOnlyIdle ==
    /\ tui = "looping" /\ events # <<>> /\ agent_state = "Idle"
    /\ events' = Tail(events)
    /\ agent_state' = AfterEvent(agent_state, Head(events))
    /\ UNCHANGED <<tui, last_ctrl_c, keys, signalled, actions, ctlVars, runVars>>

\* event_rx.recv, drain_agent_event_batch, handle_agent_event_batch.
DrainEvents ==
    /\ tui = "looping" /\ events # <<>>
    /\ LET n == IF Len(events) < MaxBatch THEN Len(events) ELSE MaxBatch
           batch == SubSeq(events, 1, n)
       IN  /\ events' = SubSeq(events, n + 1, Len(events))
           /\ agent_state' = AfterEvents(agent_state, batch)
           /\ last_ctrl_c' = (last_ctrl_c /\ ~Contains(batch, "AgentEnd"))
    /\ UNCHANGED <<tui, keys, signalled, actions, ctlVars, runVars>>

\* The user presses a key that sends `action` (lost once the receiver is gone).
Key(action) ==
    /\ tui = "looping" /\ keys < MaxKeys
    /\ keys' = keys + 1
    /\ actions' = IF controller = "looping" THEN Append(actions, action)
                                            ELSE actions
    /\ UNCHANGED <<agent_state, signalled, events, ctlVars, runVars>>

\* Enter with a draft: handle_idle_key submits, handle_active_key queues.
Enter ==
    /\ Key(IF agent_state = "Idle" THEN "SubmitPrompt" ELSE "QueuePrompt")
    /\ UNCHANGED <<tui, last_ctrl_c>>

\* Ctrl+Enter with a draft.
CtrlEnter ==
    /\ agent_state # "Idle"
    /\ Key("AbortAndQueuePrompt")
    /\ UNCHANGED <<tui, last_ctrl_c>>

\* Ctrl+C: aborts, and quits when nothing is active or within two seconds.
CtrlC ==
    \/ /\ agent_state # "Idle" /\ ~last_ctrl_c
       /\ Key("Abort")
       /\ last_ctrl_c' = TRUE
       /\ UNCHANGED tui
    \/ /\ agent_state = "Idle" \/ last_ctrl_c
       /\ Key("Quit")
       /\ tui' = "left"
       /\ UNCHANGED last_ctrl_c

\* Ctrl+D, /quit, /exit.
CtrlD == Key("Quit") /\ tui' = "left" /\ UNCHANGED last_ctrl_c

TwoSecondsPass ==
    /\ last_ctrl_c /\ last_ctrl_c' = FALSE
    /\ UNCHANGED <<tui, agent_state, keys, signalled, actions, events, ctlVars,
                   runVars>>

\* spawn_shutdown_signal_forwarder: the first SIGTERM becomes a Quit.
Sigterm ==
    /\ ~signalled /\ tui # "ended"
    /\ signalled' = TRUE
    /\ actions' = IF controller = "looping" THEN Append(actions, "Quit")
                                            ELSE actions
    /\ UNCHANGED <<tui, agent_state, last_ctrl_c, keys, events, ctlVars, runVars>>

\* run_interactive_mode: controller_task was awaited.
ProcessEnds ==
    /\ tui = "left" /\ controller = "exited"
    /\ tui' = "ended"
    /\ UNCHANGED <<agent_state, last_ctrl_c, keys, signalled, actions, events,
                   ctlVars, runVars>>

-----------------------------------------------------------------------------
(***************************************************************************)
(* The controller.                                                         *)
(***************************************************************************)
Active == run # "none"
Quits == quitting /\ ~Active /\ ~retry_armed
AtSelect == controller = "looping" /\ outbox = <<>> /\ ~starting

\* One more event of the running handler goes through.
ControllerSends ==
    /\ outbox # <<>> /\ Len(events) < EventCapacity
    /\ events' = Append(events, Head(outbox))
    /\ outbox' = Tail(outbox)
    /\ UNCHANGED <<tuiVars, runVars, actions, controller, quitting,
                   queued_prompts, starting, retry_armed, recovering>>

\* The handler spawns the run.
SpawnRun ==
    /\ starting /\ outbox = <<>>
    /\ starting' = FALSE
    /\ run' = "model" /\ run_out' = <<"AgentStart">> /\ cancelled' = FALSE
    /\ steps' = 0 /\ compacted' = FALSE /\ recovery_failed' = FALSE
    /\ UNCHANGED <<tuiVars, actions, events, controller, quitting,
                   queued_prompts, outbox, retry_armed, recoveries>>

\* start_prompt_run's events: the pre-prompt compaction, if any.
PromptEvents == {<<>>, <<"CompactionStart", "CompactionEnd", "Other">>}

\* A prompt while a run is active: SubmitPrompt is rejected, the others queue.
PromptWhileActive(action) ==
    /\ outbox' = <<"Other">>
    /\ cancelled' = (cancelled \/ action = "AbortAndQueuePrompt")
    /\ queued_prompts' = queued_prompts + (IF action = "SubmitPrompt" THEN 0 ELSE 1)
    /\ UNCHANGED <<starting, retry_armed>>

\* A prompt otherwise: a pending retry yields, and the run starts.
PromptWhileIdle ==
    /\ \E compaction \in PromptEvents :
          outbox' = (IF retry_armed THEN <<"Other">> ELSE <<>>) \o compaction
    /\ starting' = TRUE /\ retry_armed' = FALSE
    /\ UNCHANGED <<queued_prompts, cancelled>>

\* Abort and Quit.
Cancel(action) ==
    /\ cancelled' = Active
    /\ outbox' = IF action = "Abort" /\ retry_armed THEN <<"Other">> ELSE <<>>
    /\ retry_armed' = FALSE
    /\ UNCHANGED <<queued_prompts, starting>>

\* handle_action.
ReceiveAction ==
    /\ AtSelect /\ ~Quits /\ actions # <<>>
    /\ actions' = Tail(actions)
    /\ LET action == Head(actions)
       IN  /\ quitting' = (quitting \/ action = "Quit")
           /\ CASE action \in {"Abort", "Quit"} -> Cancel(action)
                [] action \notin {"Abort", "Quit"} /\ Active ->
                      PromptWhileActive(action)
                [] OTHER -> PromptWhileIdle
    /\ UNCHANGED <<tuiVars, events, controller, recovering, run, run_out, progress>>

\* The drain of the queue after a run whose turn is over, behind `sent`.
DrainQueue(sent) ==
    \/ /\ queued_prompts > 0
       /\ queued_prompts' = queued_prompts - 1
       /\ starting' = TRUE
       /\ \E compaction \in PromptEvents :
             outbox' = sent \o <<"Other">> \o compaction
    \/ /\ queued_prompts = 0
       /\ outbox' = sent
       /\ UNCHANGED <<queued_prompts, starting>>

RunResult ==
    /\ AtSelect /\ run = "finished"
    /\ run' = "none"
    /\ UNCHANGED <<tuiVars, actions, events, controller, quitting,
                   run_out, cancelled, progress>>

RunCompletes == RunResult /\ DrainQueue(<<>>) /\ UNCHANGED <<retry_armed, recovering>>

\* A transient error: a retry is armed unless a follow-up is queued.
RunRetries ==
    /\ RunResult /\ recoveries < MaxRecoveries
    /\ recoveries' = recoveries + 1 /\ UNCHANGED recovery_failed
    /\ \/ /\ queued_prompts = 0
          /\ retry_armed' = TRUE
          /\ outbox' = <<"Other", "Other">>
          /\ UNCHANGED <<queued_prompts, starting>>
       \/ queued_prompts > 0 /\ DrainQueue(<<"Other">>) /\ UNCHANGED retry_armed

\* An overflow: retry_after_overflow compacts and continues, or its summarizer
\* fails and the run is given up.
RunOverflows ==
    /\ RunResult /\ recoveries < MaxRecoveries
    /\ recoveries' = recoveries + 1
    /\ UNCHANGED retry_armed
    /\ \/ /\ outbox' = <<"Other", "CompactionStart", "CompactionEnd", "Other">>
          /\ starting' = TRUE
          /\ UNCHANGED <<queued_prompts, recovery_failed>>
       \/ /\ SummarizerFails /\ DrainQueue(<<"Other", "CompactionStart", "Other">>)
          /\ recovery_failed' = TRUE

\* sleep_until(deadline).
RetryFires ==
    /\ AtSelect /\ retry_armed
    /\ retry_armed' = FALSE /\ starting' = TRUE
    /\ UNCHANGED <<tuiVars, runVars, actions, events, controller, quitting,
                   queued_prompts, outbox, recovering>>

\* The quit check ends the loop; what is left in `actions` goes with it.
ControllerExits ==
    /\ AtSelect /\ Quits
    /\ controller' = "exited" /\ actions' = <<>>
    /\ UNCHANGED <<tuiVars, runVars, events, quitting, queued_prompts, outbox,
                   starting, retry_armed, recovering>>

-----------------------------------------------------------------------------
(***************************************************************************)
(* The agent task (AgentRun has the whole step machine).                   *)
(***************************************************************************)
TaskSends ==
    /\ run_out # <<>> /\ Len(events) < EventCapacity
    /\ events' = Append(events, Head(run_out))
    /\ run_out' = Tail(run_out)
    /\ UNCHANGED <<tuiVars, ctlVars, actions, run, cancelled, progress>>

TaskStep(from) ==
    /\ run = from /\ run_out = <<>>
    /\ UNCHANGED <<tuiVars, ctlVars, actions, events, cancelled>>

\* Another delta of the stream, or a tool call at its end.
StreamContinues ==
    /\ TaskStep("model") /\ steps < MaxSteps
    /\ steps' = steps + 1 /\ UNCHANGED compacted
    /\ \/ run' = "model" /\ run_out' = <<"Other">>
       \/ run' = "tool" /\ run_out' = <<"Other", "ToolExecStart">>

\* The stream ends without tool calls, with an error, or is cancelled.
StreamEnds ==
    /\ TaskStep("model")
    /\ run' = "ending" /\ run_out' = <<"Other", "Other", "AgentEnd">>
    /\ UNCHANGED progress

ToolEnds ==
    /\ TaskStep("tool")
    /\ IF cancelled
       THEN run' = "ending" /\ run_out' = <<"ToolExecEnd", "Other", "AgentEnd">>
       ELSE run' = "gate" /\ run_out' = <<"ToolExecEnd", "Other">>
    /\ UNCHANGED progress

\* run_compaction_gate, which does not look at the token.
GateContinues ==
    /\ TaskStep("gate")
    /\ run' = "model" /\ run_out' = <<"Other">> /\ UNCHANGED progress
GateCompacts ==
    /\ TaskStep("gate") /\ MidTurnCompaction
    /\ run' = "compacting" /\ run_out' = <<"CompactionStart">>
    /\ compacted' = TRUE /\ UNCHANGED steps
SummarizerEnds ==
    /\ TaskStep("compacting")
    /\ run' = "model" /\ UNCHANGED progress
    /\ \/ run_out' = <<"CompactionEnd", "Other", "Other">>
       \/ SummarizerFails /\ run_out' = <<"Other">>

TaskFinishes ==
    /\ TaskStep("ending")
    /\ run' = "finished" /\ UNCHANGED <<run_out, progress>>

-----------------------------------------------------------------------------
User == Enter \/ CtrlEnter \/ CtrlC \/ CtrlD \/ TwoSecondsPass \/ Sigterm
ControllerStep == \/ ControllerSends \/ SpawnRun \/ ReceiveAction \/ RunCompletes
                  \/ RunRetries \/ RunOverflows \/ RetryFires \/ ControllerExits
TaskEnds == \/ StreamContinues \/ StreamEnds \/ ToolEnds \/ GateContinues
            \/ GateCompacts \/ SummarizerEnds \/ TaskFinishes

Next == \/ User \/ DrainEvents \/ ProcessEnds
        \/ ControllerStep \/ TaskSends \/ TaskEnds

\* The TUI keeps drawing, the runtime keeps polling the controller and the task,
\* and a stream, a tool and a summarizer call end (they time out).  The user owes
\* nothing.
Spec ==
    /\ Init /\ [][Next]_interactiveVars
    /\ WF_interactiveVars(DrainEvents) /\ WF_interactiveVars(ProcessEnds)
    /\ WF_interactiveVars(ControllerStep) /\ WF_interactiveVars(TaskSends)
    /\ WF_interactiveVars(TaskEnds)

-----------------------------------------------------------------------------
Events == {"AgentStart", "AgentEnd", "ToolExecStart", "ToolExecEnd",
           "CompactionStart", "CompactionEnd", "Other"}

\* The type of every variable; neither channel's sender overruns the bound.
TypeOK ==
    /\ tui \in {"looping", "left", "ended"}
    /\ agent_state \in {"Idle", "Streaming", "ToolExecuting", "Compacting"}
    /\ actions \in Seq({"SubmitPrompt", "QueuePrompt", "AbortAndQueuePrompt",
                        "Abort", "Quit"})
    /\ events \in Seq(Events) /\ Len(events) <= EventCapacity
    /\ controller \in {"looping", "exited"}
    /\ outbox \in Seq(Events) /\ run_out \in Seq(Events)
    /\ run \in {"none", "model", "tool", "gate", "compacting", "ending", "finished"}
    /\ queued_prompts \in 0..MaxKeys
    /\ {last_ctrl_c, quitting, starting, retry_armed, cancelled, signalled,
        compacted, recovery_failed} \subseteq BOOLEAN

\* Everything sent so far has reached the TUI.
Shown == tui = "looping" /\ events = <<>> /\ run_out = <<>> /\ outbox = <<>>

InRun == run \in {"model", "tool", "gate", "compacting"}

\* While a run is in progress the TUI treats the keys as those of an active run:
\* the first Ctrl+C aborts it, and Enter queues the draft.
ActiveRunShown == Shown /\ InRun => agent_state # "Idle"

\* It does so until the run compacts its context on the way, and always while a
\* tool runs.
RunShownUntilCompacted ==
    Shown /\ InRun /\ (compacted => run = "tool") => agent_state # "Idle"

\* With nothing going on the TUI is idle, and no spinner is left running, unless a
\* recovery's summarizer failed after its CompactionStart.
IdleShown ==
    Shown /\ run = "none" /\ ~starting /\ ~recovery_failed => agent_state = "Idle"

\* A quit that finds neither a run nor a retry ends the process, even when the
\* event channel is full: the controller sends nothing on its way out.
QuitWhenIdleEnds ==
    (/\ tui = "left" /\ actions = <<"Quit">> /\ AtSelect /\ ~Active
     /\ ~retry_armed) ~> tui = "ended"

\* While the TUI drains events nobody waits for ever: the user's actions are all
\* taken from the channel (or the controller has quit).
ActionsTaken ==
    (tui = "looping" /\ actions # <<>>) ~> (actions = <<>> \/ tui # "looping")

\* A user who quits leaves the program.
QuitEndsProcess == tui = "left" ~> tui = "ended"

\* The keys mean what the run's state calls for.
KeysFollowRun == TypeOK /\ RunShownUntilCompacted /\ IdleShown

\* Neither side of the two channels waits for ever.
NobodyStuck == QuitWhenIdleEnds /\ ActionsTaken
=============================================================================
