----------------------------- MODULE MCAgentRun -----------------------------
(* A run of the agent and the two things that show it, each on its own       *)
(* bounded instance in one run: `part` says which one moves.  Transcript and *)
(* AgentRun meet in AgentEvents, the protocol the first reads and the second *)
(* implements.                                                               *)
EXTENDS AgentRun, Transcript, OutputView

MCContexts == {{}, {"compact"}}
MCLoaded == {<<>>}

VARIABLE part

Parts == {"run", "transcript", "output"}
mcAgentVars == <<part, agentVars, transcriptVars, outputVars>>

MCInit ==
    /\ part \in Parts /\ Init /\ TranscriptInit /\ OutputInit
    /\ part # "run" => tool_execution = "Sequential"
    /\ part # "output" => render_context = {} /\ size = [width |-> 1, height |-> 1]

MCNext ==
    \/ part = "run" /\ Next /\ UNCHANGED <<part, transcriptVars, outputVars>>
    \/ part = "transcript" /\ TranscriptNext /\ UNCHANGED <<part, agentVars, outputVars>>
    \/ part = "output" /\ OutputNext /\ UNCHANGED <<part, agentVars, transcriptVars>>

MCSpec ==
    /\ MCInit /\ [][MCNext]_mcAgentVars
    /\ WF_agentVars(part = "run" /\ Send) /\ WF_agentVars(part = "run" /\ Loop)
    /\ SF_agentVars(part = "run" /\ StreamCancelled)
    /\ \A call \in ToolCalls : /\ WF_agentVars(part = "run" /\ ToolProgresses(call))
                               /\ WF_agentVars(part = "run" /\ cancelled /\ ToolReturns(call))
=============================================================================
