----------------------------- MODULE MCServices -----------------------------
(* What a run draws on, each part on its own bounded instance in one run:     *)
(* the providers (tag splitter, streams, requests, replayed conversations),   *)
(* the credentials, the selected model and the system prompt. `part` says     *)
(* which one moves; the others stay in one initial state.                     *)
EXTENDS TaggedReasoning, ProviderStream, ProviderRequest, ProviderReplay, Credentials,
        Selection, PromptCache

CONSTANTS s1, s2, agents, claude

TestFragments ==
    {<<"x">>, <<"<">>, <<"<", "t">>, <<"<", "t", ">">>, <<"i", ">">>, <<">", "x">>, <<"<", "/">>,
     <<"t", ">">>, <<"<", "/", "t", "i", ">">>, <<"r", ">", "x">>}

\* Local and hosted models, with every declaration and with none.
TestModels ==
    {Served(p, u, Undeclared, FALSE, f) :
        p \in {"ollama", "lmstudio", "vllm", "other"}, u \in {"hosted", "local", "local:1234"}, f \in BOOLEAN}
    \cup {Served("other", u, c, TRUE, FALSE) :
            u \in {"hosted", "local:11434"},
            c \in {Undeclared, PromptOnly, Native("none")} \cup {Native(m) : m \in Modes}}

Known(provider, id, window) ==
    [provider |-> provider, id |-> id, window |-> window, native |-> provider = "ollama"]

MCBuiltin == <<Known("anthropic", "opus", 20), Known("openai", "gpt", 12)>>
MCLocalModels == <<Known("ollama", "qwen", 30)>>
MCLoginModel == Known("copilot", "opus", 20)
MCDiscoverable == {Known("openai", "mini", 14)}
MCDefaultModel ==
    [provider |-> "openai", id |-> "gpt", thinking |-> "low", custom |-> None, cap |-> None]

\* Redefines the compiled-in gpt; declares the local model under a cap.
OwnModel == [NoPartial EXCEPT !.custom = {Known("openai", "gpt", 9)}]
Declares == [NoPartial EXCEPT !.provider = "ollama", !.id = "qwen", !.cap = 10]
MCFileContents == {NoPartial, OwnModel, Declares, Unparsable}
MCProjectContents == {NoPartial}

MCFlags ==
    {NoChoice, [NoChoice EXCEPT !.provider = "copilot"],
     [NoChoice EXCEPT !.provider = "anthropic", !.id = "gpt", !.thinking = "high"]}
MCRequests == {[provider |-> "ollama", id |-> "qwen"], [provider |-> None, id |-> "opus"]}

MCPaths == <<agents, claude>>

\* Nothing tells the processes that share the credentials apart.
Symmetric == Permutations(Processes)

VARIABLE part

Parts == {"tagged", "stream", "request", "replay", "credentials", "selection", "prompt"}
servicesVars ==
    <<part, taggedVars, streamVars, requestVars, replayVars, credentialVars, selectionVars, promptVars>>

Init ==
    /\ part \in Parts
    /\ IF part = "stream" THEN TRUE ELSE protocol = "ollama"
    /\ IF part = "request" THEN ProviderRequestInit
       ELSE /\ request = [Fresh("ollama", NoModel, "off", NotGiven) EXCEPT !.num_ctx = 4096]
            /\ server = [no_stream_options |-> FALSE, refuses |-> {}, memory |-> 4096]
            /\ sent = <<>> /\ result = "none"
    /\ IF part = "replay" THEN TRUE ELSE target = ReplayModel("ollama", FALSE, FALSE, FALSE)
    /\ IF part = "selection" THEN TRUE
       ELSE machine = [global |-> NoPartial, project |-> NoPartial, server |-> FALSE,
                       login |-> FALSE, state |-> EmptyState, writable |-> TRUE]
    /\ IF part = "prompt" THEN TRUE ELSE files = [p \in {agents, claude} |-> Gone]
    /\ TaggedReasoningInit /\ ProviderStreamInit /\ ProviderReplayInit
    /\ CredentialsInit /\ SelectionInit /\ PromptInit
    /\ part # "credentials" => file["auth"] = Absent

Others(p) ==
    /\ UNCHANGED part
    /\ IF p = "tagged" THEN TRUE ELSE UNCHANGED taggedVars
    /\ IF p = "stream" THEN TRUE ELSE UNCHANGED streamVars
    /\ IF p = "request" THEN TRUE ELSE UNCHANGED requestVars
    /\ IF p = "replay" THEN TRUE ELSE UNCHANGED replayVars
    /\ IF p = "credentials" THEN TRUE ELSE UNCHANGED credentialVars
    /\ IF p = "selection" THEN TRUE ELSE UNCHANGED selectionVars
    /\ IF p = "prompt" THEN TRUE ELSE UNCHANGED promptVars

Next ==
    \/ part = "tagged" /\ TaggedReasoningNext /\ Others("tagged")
    \/ part = "stream" /\ ProviderStreamNext /\ Others("stream")
    \/ part = "request" /\ ProviderRequestNext /\ Others("request")
    \/ part = "replay" /\ ProviderReplayNext /\ Others("replay")
    \/ part = "credentials" /\ CredentialsNext /\ Others("credentials")
    \/ part = "selection" /\ SelectionNext /\ Others("selection")
    \/ part = "prompt" /\ PromptNext /\ Others("prompt")

Spec == Init /\ [][Next]_servicesVars
=============================================================================
