-------------------------- MODULE ProviderRequest --------------------------
(***************************************************************************)
(* From a model and the stream options to a response: the bodies anie      *)
(* sends one after the other while a server refuses optional parts of      *)
(* them.  anie-providers-builtin: openai/mod.rs and reasoning_strategy.rs, *)
(* ollama_chat/mod.rs, anthropic.rs, local.rs, openrouter.rs.              *)
(*                                                                         *)
(* The text of an error is the set of topics the classifiers look for.     *)
(***************************************************************************)
EXTENDS Integers, Sequences, SequencesExt, FiniteSets

CONSTANTS
    OpenAiModels,   \* models behind OpenAI-compatible endpoints
    Contexts,       \* context windows of Ollama models
    Ceilings,       \* max_tokens of Anthropic models
    Requested       \* max_tokens a caller asks for

ASSUME ProviderRequestAssumption ==
    /\ Contexts \subseteq Nat /\ Ceilings \subseteq Nat \ {0} /\ Requested \subseteq Nat

VARIABLES
    request,    \* what is asked, of which model, and how far the ladder is
    server,     \* what the server refuses
    sent,       \* bodies sent, each with its reply
    result      \* nothing yet, a response, or the error handed on

requestVars == <<request, server, sent, result>>

Levels == <<"off", "minimal", "low", "medium", "high">>
ThinkingLevels == ToSet(Levels)
NotGiven == -1

Modes == {"ReasoningEffort", "NestedReasoning", "EnableThinkingFlag", "ChatTemplateEnableThinking",
          "PromptSteering"}
Undeclared == [control |-> "none", request_mode |-> "none", output |-> FALSE]
Native(mode) == [control |-> "Native", request_mode |-> mode, output |-> TRUE]
PromptOnly == [control |-> "Prompt", request_mode |-> "PromptSteering", output |-> FALSE]

\* A model: who serves it where, what its entry declares, and whether its id is of a
\* family known to reason.
Served(provider, url, caps, supports, family) ==
    [provider |-> provider, url |-> url, caps |-> caps, supports_reasoning |-> supports,
     family |-> family]

-----------------------------------------------------------------------------
(* Reasoning of OpenAI-compatible targets *)

\* is_local_openai_compatible_target
IsLocal(model) == model.provider \in {"ollama", "lmstudio"} \/ model.url # "hosted"

\* default_local_reasoning_capabilities
DefaultLocal(model) ==
    LET lmstudio == model.provider = "lmstudio" \/ model.url = "local:1234"
        known == lmstudio \/ model.provider \in {"ollama", "vllm"} \/ model.url = "local:11434"
    IN  IF ~ IsLocal(model) /\ model.provider # "vllm" THEN Undeclared
        ELSE IF known /\ model.family
        THEN Native(IF lmstudio THEN "NestedReasoning" ELSE "ReasoningEffort")
        ELSE PromptOnly

EffectiveCapabilities(model) ==
    IF model.caps # Undeclared THEN model.caps ELSE DefaultLocal(model)

Backend(model) ==
    CASE ~ IsLocal(model) -> "Hosted"
      [] IsLocal(model) /\ (model.provider = "ollama" \/ model.url = "local:11434") -> "Ollama"
      [] IsLocal(model) /\ model.provider # "ollama" /\ model.url # "local:11434"
            /\ (model.provider = "lmstudio" \/ model.url = "local:1234") -> "LmStudio"
      [] OTHER -> "Local"

\* native_reasoning_request_strategies; NoNativeFields comes last.
Strategies(model, thinking) ==
    LET caps == EffectiveCapabilities(model)
        native == caps.control = "Native"
        mode == caps.request_mode
        ofMode == CASE mode = "NestedReasoning" -> <<"Nested">>
                    [] mode = "EnableThinkingFlag" -> <<"Flag">>
                    [] mode = "ChatTemplateEnableThinking" -> <<"Template">>
                    [] mode = "ReasoningEffort" -> <<"TopLevel">>
                    [] mode = "none" -> IF Backend(model) = "LmStudio" THEN <<"Nested">> ELSE <<"TopLevel">>
                    [] OTHER -> <<>>
        always == mode \in {"NestedReasoning", "EnableThinkingFlag", "ChatTemplateEnableThinking"}
    IN  (IF native /\ (always \/ (thinking # "off" /\ IsLocal(model))) THEN ofMode ELSE <<>>)
        \o <<"NoNativeFields">>

\* The reasoning fields a strategy puts in the body.
Fields(strategy, model, thinking) ==
    CASE strategy = "Nested" -> {"reasoning.effort"}
      [] strategy = "TopLevel" -> IF thinking = "off" THEN {} ELSE {"reasoning_effort"}
      [] strategy = "Flag" -> {"enable_thinking"}
      [] strategy = "Template" -> {"chat_template_kwargs"}
      [] strategy = "NoNativeFields" ->
            IF thinking # "off" /\ model.supports_reasoning /\ ~ IsLocal(model)
            THEN {"reasoning_effort", "reasoning.summary"} ELSE {}

\* Variant of EffectiveMax with a bug: a fixed share is taken, without a floor.
BugEffectiveMax(requested, model, thinking) ==
    IF ~ IsLocal(model) THEN requested
    ELSE requested - (CASE thinking = "off" -> 0 [] thinking = "minimal" -> 64 [] thinking = "low" -> 128
                        [] thinking = "medium" -> 256 [] thinking = "high" -> 512)

\* effective_max_tokens: headroom for reasoning on local targets.
EffectiveMax(requested, model, thinking) ==
    LET part == CASE thinking = "off" -> 0 [] thinking = "minimal" -> requested \div 20
                  [] thinking = "low" -> requested \div 10 [] thinking = "medium" -> requested \div 5
                  [] thinking = "high" -> requested \div 4
        shown == IF ~ EffectiveCapabilities(model).output THEN 0
                 ELSE CASE thinking = "off" -> 0 [] thinking = "minimal" -> 64 [] thinking = "low" -> 128
                        [] thinking = "medium" -> 256 [] thinking = "high" -> 512
        room == IF requested = 0 THEN 0 ELSE requested - 1
        headroom == IF part + shown < room THEN part + shown ELSE room
    IN  IF ~ IsLocal(model) THEN requested
        ELSE IF requested - headroom < 1 THEN 1 ELSE requested - headroom

\* thinking_config of Anthropic: the budget, and max_tokens grown to hold it.
MIN_OUTPUT_TOKENS == 1024
BudgetOf(thinking) ==
    CASE thinking = "minimal" -> 1024 [] thinking = "low" -> 2048 [] thinking = "medium" -> 8192
      [] thinking = "high" -> 16384 [] OTHER -> 0

ThinkingConfig(requested, ceiling, thinking) ==
    LET base == IF requested = NotGiven THEN ceiling ELSE requested
        grown == base + BudgetOf(thinking)
        effective == IF grown < ceiling THEN grown ELSE ceiling
        left == IF effective > MIN_OUTPUT_TOKENS THEN effective - MIN_OUTPUT_TOKENS ELSE 0
    IN  IF thinking = "off" THEN [max_tokens |-> base, budget |-> 0]
        ELSE [max_tokens |-> effective,
              budget |-> IF effective <= BudgetOf(thinking) + MIN_OUTPUT_TOKENS THEN left
                         ELSE BudgetOf(thinking)]

-----------------------------------------------------------------------------
(* Errors *)

Reply(status, topics) == [status |-> status, topics |-> topics]
Ok == Reply(200, {})
Lost == Reply(0, {})    \* the transport failed

\* classify_http_error
ClassifyHttp(reply) ==
    CASE reply.status = 0 -> "Transport"
      [] reply.status \in {401, 403} -> "Auth"
      [] reply.status \in {429, 529} -> "RateLimited"
      [] reply.status = 400 /\ "context" \in reply.topics -> "ContextOverflow"
      [] OTHER -> "Http"

ClassifyOpenAi(reply) ==
    IF reply.status = 400 /\ {"reasoning", "unsupported"} \subseteq reply.topics
    THEN "NativeReasoningUnsupported" ELSE ClassifyHttp(reply)

ClassifyAnthropic(reply) ==
    IF reply.status = 400 /\ "signature" \in reply.topics THEN "ReplayFidelity" ELSE ClassifyHttp(reply)

\* classify_ollama_error_body: memory before anything the text may also say.
ClassifyOllama(reply) ==
    CASE reply.status = 0 -> "Transport"
      [] reply.status \in {401, 403} -> "Auth"
      [] reply.status = 429 -> "RateLimited"
      [] OTHER ->
            IF "memory" \in reply.topics THEN "ModelLoadResources"
            ELSE IF reply.status = 400 /\ "parse" \in reply.topics THEN "ModelOutputMalformed"
            ELSE IF {"reasoning", "unsupported"} \subseteq reply.topics THEN "NativeReasoningUnsupported"
            ELSE IF "unsupported" \in reply.topics THEN "FeatureUnsupported"
            ELSE ClassifyHttp(reply)

-----------------------------------------------------------------------------
(* What a server may answer to a body *)

Body(stream_options, fields, num_ctx) ==
    [stream_options |-> stream_options, fields |-> fields, num_ctx |-> num_ctx]

Complaints(body) ==
    (IF body.stream_options /\ server.no_stream_options THEN {Reply(400, {"stream_options"})} ELSE {})
    \cup (IF body.fields \cap server.refuses # {} THEN {Reply(400, {"reasoning", "unsupported"})} ELSE {})
    \cup (IF body.num_ctx > server.memory THEN {Reply(500, {"memory"})} ELSE {})

Faults == {Lost, Reply(401, {}), Reply(429, {}), Reply(400, {"context"}), Reply(400, {"signature"}),
           Reply(400, {"parse"}), Reply(500, {})}

\* A server accepts what it has no complaint about, or fails for reasons of its own.
ServerAnswers(body) == (IF Complaints(body) = {} THEN {Ok} ELSE Complaints(body)) \cup Faults

Sends(body, reply) ==
    /\ result = "none" /\ reply \in ServerAnswers(body)
    /\ sent' = Append(sent, [body |-> body, reply |-> reply])
    /\ UNCHANGED server

Returns(outcome) == result' = outcome /\ UNCHANGED request
GoesOn(next) == request' = next /\ UNCHANGED result

-----------------------------------------------------------------------------
(* OpenAI: strategies, and for each a body without stream_options *)

OpenAiBody(r) == Body(r.stream_options, Fields(Head(r.ladder), r.model, r.thinking), 0)

SendStreamRequest(reply) ==
    LET error == ClassifyOpenAi(reply)
    IN  /\ request.api = "openai"
        /\ Sends(OpenAiBody(request), reply)
        /\ IF reply = Ok THEN Returns("ok")
           ELSE IF request.stream_options /\ reply.status = 400 /\ "stream_options" \in reply.topics
           THEN GoesOn([request EXCEPT !.stream_options = FALSE])
           ELSE IF Head(request.ladder) # "NoNativeFields" /\ error = "NativeReasoningUnsupported"
           THEN GoesOn([request EXCEPT !.ladder = Tail(@), !.stream_options = TRUE])
           ELSE Returns(error)

-----------------------------------------------------------------------------
(* Ollama: without think, then with half the context, once each *)

MIN_SUGGESTED_NUM_CTX == 2048

Suggested(num_ctx) ==
    IF num_ctx \div 2 > MIN_SUGGESTED_NUM_CTX THEN num_ctx \div 2 ELSE MIN_SUGGESTED_NUM_CTX

OllamaBody(r) == Body(FALSE, IF r.think THEN {"think"} ELSE {}, r.num_ctx)

\* What the outer retry makes of an error of the inner one.
LoadRetry(error) ==
    IF error = "ModelLoadResources" /\ ~ request.halved
    THEN GoesOn([request EXCEPT !.halved = TRUE, !.num_ctx = Suggested(@), !.dropped = FALSE,
                                !.think = request.capable])
    ELSE Returns(error)

\* Without think the second error is forgotten and the first one handed on.
SendOllama(reply) ==
    LET error == ClassifyOllama(reply)
    IN  /\ request.api = "ollama"
        /\ Sends(OllamaBody(request), reply)
        /\ IF reply = Ok THEN Returns("ok")
           ELSE IF request.dropped THEN LoadRetry("NativeReasoningUnsupported")
           ELSE IF error = "NativeReasoningUnsupported"
           THEN GoesOn([request EXCEPT !.dropped = TRUE, !.think = FALSE])
           ELSE LoadRetry(error)

-----------------------------------------------------------------------------
(* Anthropic: one request *)

SendAnthropic(reply) ==
    /\ request.api = "anthropic"
    /\ Sends(Body(FALSE, {}, 0), reply)
    /\ Returns(IF reply = Ok THEN "ok" ELSE ClassifyAnthropic(reply))

-----------------------------------------------------------------------------

Fresh(api, model, thinking, requested) ==
    [api |-> api, model |-> model, thinking |-> thinking, requested |-> requested,
     ladder |-> IF api = "openai" THEN Strategies(model, thinking) ELSE <<>>,
     stream_options |-> TRUE, num_ctx |-> 0, ceiling |-> 0,
     capable |-> FALSE, think |-> FALSE, dropped |-> FALSE, halved |-> FALSE]
NoModel == Served("none", "hosted", Undeclared, FALSE, FALSE)

OpenAiRequests ==
    {Fresh("openai", model, thinking, n) : model \in OpenAiModels, thinking \in ThinkingLevels, n \in Requested}
OllamaRequests ==
    {[Fresh("ollama", NoModel, "off", NotGiven) EXCEPT !.num_ctx = n, !.capable = c, !.think = c] :
        n \in Contexts, c \in BOOLEAN}
AnthropicRequests ==
    {[Fresh("anthropic", NoModel, thinking, n) EXCEPT !.ceiling = ceiling] :
        thinking \in ThinkingLevels, ceiling \in Ceilings, n \in Requested \cup {NotGiven}}

\* What a server refuses, of the parts this protocol has.
Servers(api) ==
    [no_stream_options : IF api = "openai" THEN BOOLEAN ELSE {FALSE},
     refuses : CASE api = "openai" ->
                        {{}, {"reasoning.effort", "enable_thinking", "chat_template_kwargs"},
                         {"reasoning_effort", "reasoning.summary"},
                         {"reasoning_effort", "reasoning.effort", "reasoning.summary", "enable_thinking",
                          "chat_template_kwargs"}}
                 [] api = "ollama" -> {{}, {"think"}}
                 [] OTHER -> {{}},
     memory : IF api = "ollama" THEN Contexts ELSE {0}]

ProviderRequestInit ==
    /\ request \in OpenAiRequests \cup OllamaRequests \cup AnthropicRequests
    /\ server \in Servers(request.api)
    /\ sent = <<>> /\ result = "none"

ProviderRequestNext ==
    \E reply \in {Ok, Reply(400, {"stream_options"}), Reply(400, {"reasoning", "unsupported"}),
                  Reply(500, {"memory"})} \cup Faults :
        SendStreamRequest(reply) \/ SendOllama(reply) \/ SendAnthropic(reply)

ProviderRequestSpec == ProviderRequestInit /\ [][ProviderRequestNext]_requestVars

-----------------------------------------------------------------------------
(* Properties *)

\* What a reasoning refusal may bring along, beyond fewer fields: the next strategy
\* offers stream_options again although the server may have refused them, and the plain
\* request to a hosted reasoning model names its effort in OpenAI's own fields.
OffersOptionsAgain(body, next) == request.api = "openai" /\ next.stream_options /\ ~body.stream_options
NamesHostedEffort(next) ==
    /\ request.api = "openai" /\ request.model.supports_reasoning /\ ~IsLocal(request.model)
    /\ next.fields = {"reasoning_effort", "reasoning.summary"}

\* A server is asked again only for a reason it gave, without what it complained about
\* and with nothing else changed, but for the two cases above; and never with a body it
\* has already refused, but for the smallest context: a rate limit or a rejected key
\* never costs a second request (send_stream_request_once and its siblings).
AskedAgainForCause ==
    /\ \A i, j \in DOMAIN sent : i # j => sent[i].body # sent[j].body \/ sent[i].body.num_ctx = MIN_SUGGESTED_NUM_CTX
    /\ \A i \in 1..(Len(sent) - 1) :
        LET reply == sent[i].reply
            body == sent[i].body
            next == sent[i + 1].body
        IN  \/ /\ "stream_options" \in reply.topics /\ body.stream_options
               /\ next = [body EXCEPT !.stream_options = FALSE]
            \/ /\ "reasoning" \in reply.topics /\ body.fields # {} /\ next.num_ctx = body.num_ctx
               /\ next.fields = {} \/ NamesHostedEffort(next)
               /\ next.stream_options = body.stream_options \/ OffersOptionsAgain(body, next)
            \* The context of a model below the floor is raised to it.
            \/ /\ "memory" \in reply.topics /\ next = [body EXCEPT !.num_ctx = next.num_ctx]
               /\ next.num_ctx < body.num_ctx \/ body.num_ctx <= MIN_SUGGESTED_NUM_CTX

\* A local server that takes plain requests is never lost over a field it does not
\* know, and costs at most four requests; one behind OpenAI's own fields may be.
PlainRequestsSucceed ==
    LET faultless == \A i \in DOMAIN sent : sent[i].reply \in Complaints(sent[i].body) \cup {Ok}
    IN  /\ Len(sent) <= 4
        /\ (result # "none" /\ faultless /\ request.api = "openai" /\ IsLocal(request.model)) => result = "ok"

\* The reserve for reasoning never uses up the answer, and more reasoning never leaves
\* more: OpenAI-compatible servers get at least one token and no more than was asked.
AnswerTokensLeft ==
    request.api = "openai" =>
        LET left(level) == EffectiveMax(request.requested, request.model, level)
        IN  /\ request.requested > 0 =>
                  left(request.thinking) >= 1 /\ left(request.thinking) <= request.requested
            /\ \A i \in 1..(Len(Levels) - 1) : left(Levels[i + 1]) <= left(Levels[i])

\* Anthropic's budget is part of max_tokens, and max_tokens is within the model's
\* ceiling: room for an answer stays whenever the ceiling has any.
BudgetFits ==
    (request.api = "anthropic" /\ request.thinking # "off") =>
        LET config == ThinkingConfig(request.requested, request.ceiling, request.thinking)
        IN  /\ config.max_tokens <= request.ceiling
            /\ config.max_tokens >= MIN_OUTPUT_TOKENS =>
                    config.budget + MIN_OUTPUT_TOKENS <= config.max_tokens
            /\ request.ceiling >= 2 * MIN_OUTPUT_TOKENS => config.budget >= MIN_OUTPUT_TOKENS \/
                    config.max_tokens < 2 * MIN_OUTPUT_TOKENS

\* Requests are repeated for a reason only, and leave room for the answer.
RequestsSound == AskedAgainForCause /\ PlainRequestsSucceed /\ AnswerTokensLeft /\ BudgetFits
=============================================================================
