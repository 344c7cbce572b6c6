----------------------------- MODULE AgentRun -----------------------------
(***************************************************************************)
(* The agent loop (anie-agent/src/agent_loop.rs): one run as the step      *)
(* machine AgentRunMachine, from the prompt to AgentEnd, with the events   *)
(* it sends on the way, and the session the controller gives it and        *)
(* appends to.                                                             *)
(*                                                                         *)
(* `phase` is the intent being evaluated, and where in it.  A step computes *)
(* and queues its events; nothing else happens in it until they are sent.  *)
(* Tool executions send theirs on their own.                               *)
(***************************************************************************)
EXTENDS Compaction

CONSTANTS
    ToolExecutionModes,  \* the values of ToolExecutionMode a run may have
    Injections,          \* hooks installed: "steering", "follow_up", "policy"
    MaxToolCalls,            \* bound: tool calls of one assistant message
    MaxTurns,            \* bound: requests
    MaxRuns,             \* bound: runs
    max_per_turn         \* compaction budget

ASSUME RunAssumption ==
    /\ ToolExecutionModes \subseteq {"Sequential", "Parallel"}
    /\ ToolExecutionModes # {}
    /\ Injections \subseteq {"steering", "follow_up", "policy"}
    /\ {MaxToolCalls, MaxTurns, MaxRuns, max_per_turn} \subseteq Nat

VARIABLES
    session,            \* the messages of the active session's branch
    shown,               \* AgentEvents: what the sent events have told
    phase,
    out,                \* events of the step still to be sent
    tool_execution,
    context,
    generated_messages,
    terminal_error,     \* the run ended with a provider error
    active_delta,       \* collect_stream's open block
    building,           \* AssistantMessageBuilder
    tools,              \* the tool calls of the batch, and where each is
    partials,           \* those with a partial result still to be forwarded
    cancelled,
    budget,             \* compactions left
    turns,              \* requests so far
    runs,
    told,               \* history: messages of the run's TurnEnd events
    after_cancel        \* history: requests, follow-ups, tool batches since

toolVars == <<tools, partials>>
streamVars == <<active_delta, building>>
stateVars == <<context, generated_messages, terminal_error, told>>
runVars == <<session, runs, tool_execution>>
agentVars == <<session, shown, phase, out, tool_execution, context,
               generated_messages, terminal_error, active_delta, building,
               tools, partials, cancelled, budget, turns, runs, told,
               after_cancel>>

Events == INSTANCE AgentEvents WITH view <- shown, MaxCalls <- MaxToolCalls

ToolCalls == 1..MaxToolCalls
NoTools == [call \in ToolCalls |-> "none"]
NothingBuilt == Assistant("none", 0, FALSE)
Zero == [requests |-> 0, follow_ups |-> 0, batches |-> 0]

Init ==
    /\ session = <<>>
    /\ shown = Events!Outside
    /\ phase = "returned" /\ out = <<>>
    /\ tool_execution \in ToolExecutionModes
    /\ context = <<>> /\ generated_messages = <<>>
    /\ terminal_error = FALSE
    /\ active_delta = "none" /\ building = NothingBuilt
    /\ tools = NoTools /\ partials = {}
    /\ cancelled = FALSE
    /\ budget = max_per_turn
    /\ turns = 0 /\ runs = 0
    /\ told = <<>> /\ after_cancel = Zero

-----------------------------------------------------------------------------
(***************************************************************************)
(* Sending, and the controller around the run.                             *)
(***************************************************************************)
\* What the reader makes of event e; one that may not come now breaks its view.
Read(e) == shown' = IF Events!Legal(shown, e) THEN Events!After(shown, e)
                                            ELSE [shown EXCEPT !.stage = "broken"]

\* send_event.
Send ==
    /\ out # <<>>
    /\ Read(Head(out))
    /\ out' = Tail(out)
    /\ UNCHANGED <<phase, stateVars, streamVars, toolVars, runVars, cancelled,
                   budget, turns, after_cancel>>

Step(from) == phase = from /\ out = <<>> /\ UNCHANGED <<shown, cancelled>>

\* start_run_machine: a run on the session, with a prompt or as a continuation.
StartRun(prompts) ==
    /\ phase = "returned" /\ out = <<>> /\ runs < MaxRuns
    /\ cancelled' = FALSE
    /\ runs' = runs + 1
    /\ session' = session \o prompts
    /\ context' = session'
    /\ phase' = "model"
    /\ out' = <<Events!Event("AgentStart"), Events!Event("TurnStart")>>
              \o (IF prompts = <<>> THEN <<>>
                  ELSE <<Events!Event("MessageStart"), Events!Event("MessageEnd")>>)
    /\ after_cancel' = Zero
    /\ UNCHANGED <<shown, generated_messages, terminal_error, told, tool_execution,
                   streamVars, toolVars, turns>>

\* start_prompt_run.
NewPrompt == StartRun(<<UserMessage>>) /\ budget' = max_per_turn
\* start_continuation_run: what is last is the prompt, or a summary.
Continuation ==
    /\ session # <<>> /\ Last(session).kind = "user"
    /\ StartRun(<<>>) /\ UNCHANGED budget

\* auto_compact and force_compact between two runs; the summarizer may fail.
SessionCompacts ==
    /\ Step("returned") /\ Cuts(session) # {}
    /\ \/ /\ \E cut \in Cuts(session) : session' = Compacted(session, cut)
          /\ out' = <<Events!Event("CompactionStart"),
                      Events!Event("CompactionEnd")>>
       \/ out' = <<Events!Event("CompactionStart")>> /\ UNCHANGED session
    /\ UNCHANGED <<phase, stateVars, streamVars, toolVars, tool_execution,
                   runs, budget, turns, after_cancel>>

\* into_result; the controller appends what was generated, or drops a failed
\* attempt that it retries.
Return ==
    /\ Step("finished")
    /\ phase' = "returned"
    /\ session' \in {session \o generated_messages}
                    \cup (IF terminal_error THEN {session} ELSE {})
    /\ context' = <<>> /\ generated_messages' = <<>> /\ told' = <<>>
    /\ terminal_error' = FALSE
    /\ UNCHANGED <<out, streamVars, toolVars, tool_execution, runs, budget, turns,
                   after_cancel>>

\* The controller cancels the run's token.
Cancel ==
    /\ phase # "returned" /\ ~cancelled
    /\ cancelled' = TRUE
    /\ UNCHANGED <<shown, phase, out, stateVars, streamVars, toolVars, runVars,
                   budget, turns, after_cancel>>

-----------------------------------------------------------------------------
(***************************************************************************)
(* ModelTurn.                                                              *)
(***************************************************************************)
\* The policy's messages go into the context only.
PolicyAppends ==
    IF "policy" \in Injections THEN {<<>>, <<UserMessage>>} ELSE {<<>>}

\* The resolver, the registry or the request fails: finish_with_assistant, with
\* the run's AgentEnd.  A missing provider is no terminal_error.
PreflightFails ==
    /\ Step("model")
    /\ LET assistant == Assistant("Error", 0, TRUE)
       IN  /\ \E policy \in PolicyAppends :
                 context' = context \o policy \o <<assistant>>
           /\ generated_messages' = generated_messages \o <<assistant>>
           /\ told' = told \o <<assistant>>
    /\ terminal_error' \in BOOLEAN
    /\ out' = <<Events!Event("MessageStart"), Events!Event("MessageEnd"),
                Events!TurnEnd({}), Events!Event("AgentEnd")>>
    /\ phase' = "finished"
    /\ UNCHANGED <<streamVars, toolVars, runVars, budget, turns, after_cancel>>

CountAfterCancel(what) ==
    IF cancelled THEN [after_cancel EXCEPT ![what] = @ + 1] ELSE after_cancel

\* provider.stream on the sanitized context.
StreamStarts ==
    /\ Step("model") /\ turns < MaxTurns
    /\ \E policy \in PolicyAppends : context' = context \o policy
    /\ turns' = turns + 1
    /\ after_cancel' = CountAfterCancel("requests")
    /\ out' = <<Events!Event("MessageStart")>>
    /\ phase' = "streaming"
    /\ UNCHANGED <<streamVars, generated_messages, terminal_error, told, toolVars,
                   runVars, budget>>

\* finish_active_delta.
FinishDelta ==
    IF active_delta = "none" THEN <<>>
    ELSE <<Events!DeltaEvent("DeltaEnd", active_delta)>>

Streaming == Step("streaming") /\ UNCHANGED <<partials, runVars, budget, turns>>
StreamGoesOn == Streaming /\ UNCHANGED <<phase, stateVars, tools, after_cancel>>
StreamEnds == Streaming /\ active_delta' = "none" /\ building' = NothingBuilt

\* TextDelta and ThinkingDelta, after start_delta_if_needed.
StreamDelta(kind) ==
    /\ StreamGoesOn
    /\ out' = (IF active_delta = kind THEN <<>>
               ELSE Append(FinishDelta, Events!DeltaEvent("DeltaStart", kind)))
              \o <<Events!DeltaEvent("Delta", kind)>>
    /\ active_delta' = kind
    /\ building' = [building EXCEPT !.text = @ \/ kind = "text"]

\* ToolCallStart.
StreamToolCall ==
    /\ StreamGoesOn /\ building.calls < MaxToolCalls
    /\ out' = Append(FinishDelta, Events!Event("ToolCallDelta"))
    /\ active_delta' = "none"
    /\ building' = [building EXCEPT !.calls = @ + 1]

\* ToolCallDelta and ToolCallEnd, which leave an open text block open.
StreamToolCallGoesOn ==
    /\ StreamGoesOn /\ building.calls > 0
    /\ out' = <<Events!Event("ToolCallDelta")>>
    /\ UNCHANGED streamVars

\* collect_stream returns an assistant message that ends the run: its TurnEnd and
\* the tail AgentEnd follow.
FinishWith(assistant) ==
    /\ context' = Append(context, assistant)
    /\ generated_messages' = Append(generated_messages, assistant)
    /\ told' = Append(told, assistant)
    /\ out' = FinishDelta \o <<Events!Event("MessageEnd"), Events!TurnEnd({}),
                               Events!Event("AgentEnd")>>
    /\ phase' = "finished"
    /\ UNCHANGED <<tools, after_cancel>>

\* Some(Err(error)), or None.
StreamFails ==
    /\ StreamEnds
    /\ terminal_error' = TRUE
    /\ FinishWith([building EXCEPT !.stop = "Error"])

\* Variant of StreamCancelled with a bug: the select has no branch for the token.
BugStreamIgnoresCancel == FALSE /\ UNCHANGED agentVars

\* cancel.cancelled().
StreamCancelled ==
    /\ StreamEnds /\ cancelled
    /\ FinishWith([building EXCEPT !.stop = "Aborted"])
    /\ UNCHANGED terminal_error

\* Done without tool calls: the run is over, unless there are follow-ups.
StreamStops ==
    /\ StreamEnds /\ building.calls = 0
    /\ UNCHANGED terminal_error
    /\ \/ FinishWith([building EXCEPT !.stop = "Stop"])
       \/ /\ "follow_up" \in Injections /\ turns < MaxTurns
          /\ LET assistant == [building EXCEPT !.stop = "Stop"]
             IN  /\ context' = Append(context, assistant)
                 /\ generated_messages' = Append(generated_messages, assistant)
                 /\ told' = Append(told, assistant)
          /\ out' = FinishDelta \o <<Events!Event("MessageEnd"),
                                     Events!TurnEnd({})>>
          /\ phase' = "follow_ups"
          /\ UNCHANGED <<tools, after_cancel>>

\* AppendFollowUps.
FollowUpsAppended ==
    /\ Step("follow_ups")
    /\ context' = Append(context, UserMessage)
    /\ out' = <<Events!Event("TurnStart")>>
    /\ phase' = "model"
    /\ after_cancel' = CountAfterCancel("follow_ups")
    /\ UNCHANGED <<generated_messages, terminal_error, told, streamVars,
                   toolVars, runVars, budget, turns>>

\* Done with tool calls: ExecuteTools.
StreamAsksForTools ==
    /\ StreamEnds /\ building.calls > 0 /\ turns < MaxTurns
    /\ LET assistant == [building EXCEPT !.stop = "ToolUse"]
       IN  /\ context' = Append(context, assistant)
           /\ generated_messages' = Append(generated_messages, assistant)
    /\ tools' = [call \in ToolCalls |->
                    IF call <= building.calls THEN "waiting" ELSE "none"]
    /\ after_cancel' = CountAfterCancel("batches")
    /\ out' = Append(FinishDelta, Events!Event("MessageEnd"))
    /\ phase' = "tools"
    /\ UNCHANGED <<terminal_error, told>>

-----------------------------------------------------------------------------
(***************************************************************************)
(* ExecuteTools: execute_single_tool, one after the other or interleaved.  *)
(***************************************************************************)
ToolStep(call, from, to) ==
    /\ phase = "tools" /\ out = <<>>
    /\ tools[call] = from
    /\ tools' = [tools EXCEPT ![call] = to]
    /\ UNCHANGED <<phase, out, stateVars, streamVars, runVars, cancelled,
                   budget, turns, after_cancel>>

ToolStarts(call) ==
    /\ ToolStep(call, "waiting", "started")
    /\ tool_execution = "Sequential" =>
          \A earlier \in 1..(call - 1) : tools[earlier] = "ended"
    /\ Read(Events!ToolEvent("ToolExecStart", call))
    /\ UNCHANGED partials

\* No such tool, invalid arguments, or blocked by the hook.
ToolRefused(call) ==
    /\ ToolStep(call, "started", "ended")
    /\ Read(Events!ToolEvent("ToolExecEnd", call))
    /\ UNCHANGED partials

ToolRuns(call) ==
    /\ ToolStep(call, "started", "running")
    /\ UNCHANGED <<shown, partials>>

\* The tool sends a partial result to its forwarder.
ToolUpdates(call) ==
    /\ ToolStep(call, "running", "running") /\ call \notin partials
    /\ partials' = partials \cup {call}
    /\ UNCHANGED shown

\* tool.execute returns; it honours its child token.
ToolReturns(call) ==
    /\ ToolStep(call, "running", "returned")
    /\ UNCHANGED <<shown, partials>>

\* update_forwarder.
ForwardUpdate(call) ==
    /\ call \in partials /\ out = <<>>
    /\ partials' = partials \ {call}
    /\ Read(Events!ToolEvent("ToolExecUpdate", call))
    /\ UNCHANGED <<phase, out, stateVars, streamVars, tools, runVars,
                   cancelled, budget, turns, after_cancel>>

\* Variant of ToolEnds with a bug: the forwarder is not awaited.
BugForwarderNotAwaited(call) ==
    /\ ToolStep(call, "returned", "ended")
    /\ Read(Events!ToolEvent("ToolExecEnd", call))
    /\ UNCHANGED partials

\* The forwarder was awaited.
ToolEnds(call) ==
    /\ ToolStep(call, "returned", "ended") /\ call \notin partials
    /\ Read(Events!ToolEvent("ToolExecEnd", call))
    /\ UNCHANGED partials

SteeringMessages ==
    IF "steering" \in Injections THEN {<<>>, <<UserMessage>>} ELSE {<<>>}

\* join_all: the results in the order of the calls, then print_step.
ToolResultsAppended ==
    /\ Step("tools")
    /\ \A call \in ToolCalls : tools[call] \in {"none", "ended"}
    /\ LET assistant == Last(generated_messages)
           results == ToolResults(assistant.calls)
       IN  /\ \E steering \in SteeringMessages :
                 context' = context \o results \o steering
           /\ generated_messages' = generated_messages \o results
           /\ told' = Append(told, assistant) \o results
    /\ out' = <<Events!TurnEnd({call \in ToolCalls : tools[call] = "ended"})>>
    /\ tools' = NoTools
    /\ phase' = "decide"
    /\ UNCHANGED <<terminal_error, streamVars, partials, runVars, budget, turns,
                   after_cancel>>

\* Variant of DecideAfterTools with a bug: the token is not looked at.
BugDecideIgnoresCancel ==
    /\ Step("decide")
    /\ phase' = "gate" /\ UNCHANGED out
    /\ UNCHANGED <<stateVars, streamVars, toolVars, runVars, budget, turns,
                   after_cancel>>

\* decide_next_step.
DecideAfterTools ==
    /\ Step("decide")
    /\ IF cancelled
       THEN phase' = "finished" /\ out' = <<Events!Event("AgentEnd")>>
       ELSE phase' = "gate" /\ UNCHANGED out
    /\ UNCHANGED <<stateVars, streamVars, toolVars, runVars, budget, turns,
                   after_cancel>>

-----------------------------------------------------------------------------
(***************************************************************************)
(* RunCompactionGate; ControllerCompactionGate::maybe_compact.             *)
(***************************************************************************)
Gate == Step("gate")
        /\ UNCHANGED <<generated_messages, terminal_error, told, streamVars,
                       toolVars, runVars, turns, after_cancel>>

\* Continue, or Skipped with a SystemMessage.
GateContinues ==
    /\ Gate
    /\ out' = <<Events!Event("TurnStart")>>
    /\ phase' = "model"
    /\ UNCHANGED <<context, budget>>

\* The context is over the threshold and can be cut.
GateCompacts ==
    /\ Gate /\ budget > 0 /\ Cuts(context) # {}
    /\ out' = <<Events!Event("CompactionStart")>>
    /\ phase' = "summarizing"
    /\ UNCHANGED <<context, budget>>

SummarizerEnds ==
    /\ Step("summarizing")
    /\ \/ /\ \E cut \in Cuts(context) : context' = Compacted(context, cut)
          /\ budget' = budget - 1
          /\ out' = <<Events!Event("CompactionEnd"),
                      Events!Event("TranscriptReplace"),
                      Events!Event("TurnStart")>>
       \/ /\ out' = <<Events!Event("TurnStart")>>
          /\ UNCHANGED <<context, budget>>
    /\ phase' = "model"
    /\ UNCHANGED <<generated_messages, terminal_error, told, streamVars,
                   toolVars, runVars, turns, after_cancel>>

-----------------------------------------------------------------------------
Controller == NewPrompt \/ Continuation \/ SessionCompacts \/ Cancel
Stream == \/ \E kind \in Events!Deltas : StreamDelta(kind)
          \/ StreamToolCall \/ StreamToolCallGoesOn \/ StreamFails
          \/ StreamCancelled \/ StreamStops \/ StreamAsksForTools
\* What the loop does of its own accord, and the summarizer, which times out.
Loop == \/ StreamStarts \/ PreflightFails \/ FollowUpsAppended
        \/ ToolResultsAppended \/ DecideAfterTools \/ GateContinues
        \/ GateCompacts \/ SummarizerEnds \/ Return
ToolProgresses(call) == \/ ToolStarts(call) \/ ToolRefused(call) \/ ToolRuns(call)
                        \/ ForwardUpdate(call) \/ ToolEnds(call)
Tool(call) == ToolProgresses(call) \/ ToolUpdates(call) \/ ToolReturns(call)

Next == \/ Send \/ Controller \/ Stream \/ Loop
        \/ \E call \in ToolCalls : Tool(call)

\* Events are read and the loop's own steps taken; a tool honours its child token.
\* A stream and a tool may go on for ever, but select! picks its branches at
\* random: a cancelled token is not passed over for ever.
Fairness ==
    /\ WF_agentVars(Send) /\ WF_agentVars(Loop)
    /\ SF_agentVars(StreamCancelled)
    /\ \A call \in ToolCalls : /\ WF_agentVars(ToolProgresses(call))
                           /\ WF_agentVars(cancelled /\ ToolReturns(call))

Spec == Init /\ [][Next]_agentVars /\ Fairness

-----------------------------------------------------------------------------
MessageType ==
    {UserMessage} \cup {ToolResult(call) : call \in ToolCalls}
    \cup {Assistant(stop, calls, text) :
             stop \in Failed \cup {"Stop", "ToolUse"},
             calls \in 0..MaxToolCalls, text \in BOOLEAN}

\* The type of every variable; the compaction budget is never overdrawn.
TypeOK ==
    /\ session \in Seq(MessageType) /\ context \in Seq(MessageType)
    /\ generated_messages \in Seq(MessageType) /\ told \in Seq(MessageType)
    /\ shown.stage # "broken" => shown \in Events!View
    /\ phase \in {"model", "streaming", "follow_ups", "tools", "decide", "gate",
                  "summarizing", "finished", "returned"}
    /\ out \in Seq(Events!AgentEvent)
    /\ tool_execution \in ToolExecutionModes
    /\ {terminal_error, cancelled} \subseteq BOOLEAN
    /\ active_delta \in Events!Deltas \cup {"none"}
    /\ building \in {Assistant("none", calls, text) :
                       calls \in 0..MaxToolCalls, text \in BOOLEAN}
    /\ tools \in [ToolCalls -> {"none", "waiting", "started", "running", "returned",
                           "ended"}]
    /\ partials \subseteq ToolCalls
    /\ budget \in 0..max_per_turn
    /\ turns \in 0..MaxTurns /\ runs \in 0..MaxRuns

\* The events the readers get nest as AgentEvents says: blocks in messages,
\* messages and tool executions in turns, updates inside their execution even
\* when several tools run at once, and one AgentEnd per run whatever ended it.
EventProtocol == Events!EventsSpec

\* What a request carries, and what the session would give the next one, pairs
\* every tool call with its result: after a cancelled batch, a refused tool, a
\* failed stream, and a compaction that cut the context anywhere.
RequestsPaired ==
    /\ phase = "model" => Paired(Sanitize(context))
    /\ Paired(Sanitize(session))

\* When a run is over its TurnEnd events have told exactly the messages that the
\* controller persists.
ToldIsKept == phase = "finished" => told = generated_messages

\* Cancelling stops a run soon: at most one tool batch (whose tools get the token)
\* begins after it, and one request (the gate does not look at the token) besides
\* those for follow-ups.
CancelStopsSoon ==
    /\ after_cancel.batches <= 1
    /\ after_cancel.requests <= 1 + after_cancel.follow_ups

\* A cancelled run returns, even from a stream that never ends or a tool that
\* reports progress for ever.
CancelEndsRun == cancelled ~> phase = "returned"

\* A run tells what it keeps and stops when it is told to.
RunSound == TypeOK /\ ToldIsKept /\ CancelStopsSoon
=============================================================================
