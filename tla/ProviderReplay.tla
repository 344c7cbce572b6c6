--------------------------- MODULE ProviderReplay ---------------------------
(***************************************************************************)
(* A conversation as the next request replays it.  The session keeps one   *)
(* list of messages; the sanitizer of agent_loop.rs and convert_messages   *)
(* of each protocol make the wire messages of it, and the user may switch  *)
(* to another model between any two turns.                                 *)
(***************************************************************************)
EXTENDS Integers, Sequences, SequencesExt, FiniteSets

CONSTANTS MaxMessages   \* bound: messages of the conversation

ASSUME ProviderReplayAssumption == MaxMessages \in Nat

VARIABLES
    conversation,   \* messages in order
    target          \* the model the next request goes to

replayVars == <<conversation, target>>

\* What of a model the replay looks at.  Signed: requires_thinking_signature; details:
\* supports_reasoning_details_replay; marked: needs_anthropic_cache_control.
ReplayModel(api, signed, details, marked) ==
    [api |-> api, signed |-> signed, details |-> details, marked |-> marked]
Targets ==
    {ReplayModel("anthropic", TRUE, FALSE, FALSE), ReplayModel("anthropic", FALSE, FALSE, FALSE),
     ReplayModel("ollama", FALSE, FALSE, FALSE), ReplayModel("openai", FALSE, FALSE, FALSE),
     ReplayModel("openai", FALSE, TRUE, FALSE), ReplayModel("openai", TRUE, FALSE, TRUE)}

\* Content blocks; empty: nothing but white space.
TextBlock(empty) == [kind |-> "text", empty |-> empty, signed |-> FALSE, id |-> 0]
ThinkingBlock(empty, signed) == [kind |-> "thinking", empty |-> empty, signed |-> signed, id |-> 0]
RedactedBlock == [kind |-> "redacted", empty |-> FALSE, signed |-> FALSE, id |-> 0]
KeptCall(id) == [kind |-> "call", empty |-> FALSE, signed |-> FALSE, id |-> id]

Entry(role, content, stop, details) ==
    [role |-> role, content |-> content, stop |-> stop, details |-> details, of |-> 0]

-----------------------------------------------------------------------------
(* The conversation: prompts, answers, results, hooks' messages *)

CallsOf(message) == {message.content[i].id : i \in {j \in DOMAIN message.content :
                                                    message.content[j].kind = "call"}}
AllCalls == UNION {CallsOf(conversation[i]) : i \in DOMAIN conversation}
Answered == {conversation[i].of : i \in {j \in DOMAIN conversation : conversation[j].role = "tool"}}

\* CallsOf of a message that was cut short or failed are never run.
Live(i) == conversation[i].role = "assistant" /\ conversation[i].stop = "stop"
Open == UNION {CallsOf(conversation[i]) : i \in {j \in DOMAIN conversation : Live(j)}} \ Answered

Grows(message) ==
    /\ Len(conversation) < MaxMessages
    /\ conversation' = Append(conversation, message)
    /\ UNCHANGED target

Says(role) ==
    /\ role \in {"user", "custom"} /\ Open = {}
    /\ Grows(Entry(role, <<TextBlock(FALSE)>>, "stop", FALSE))

\* What a model says before its calls: nothing, text, or reasoning of the kinds its
\* protocol knows.
Openings(api) ==
    {<<>>, <<TextBlock(FALSE)>>, <<ThinkingBlock(FALSE, FALSE)>>, <<TextBlock(TRUE)>>}
    \cup IF api = "anthropic"
         THEN {<<ThinkingBlock(FALSE, TRUE), RedactedBlock>>, <<RedactedBlock>>,
               <<ThinkingBlock(TRUE, TRUE), TextBlock(FALSE)>>}
         ELSE {}

NewCalls == {Cardinality(AllCalls) + 1, Cardinality(AllCalls) + 2}

\* Providers refuse an answer without text or calls; one that failed is kept with
\* what had arrived.
Completes(opening, calls, stop, details) ==
    LET order == SetToSortSeq(calls, <)
        content == opening \o [i \in DOMAIN order |-> KeptCall(order[i])]
    IN  /\ Open = {} /\ conversation # <<>> /\ Last(conversation).role # "assistant"
        /\ opening \in Openings(target.api)
        /\ details => target.api = "openai" /\ target.details
        /\ stop = "error" => Cardinality(calls) <= 1 /\ ~ details
        /\ stop = "stop" => \E i \in DOMAIN content : content[i].kind \in {"text", "call"}
        /\ Grows(Entry("assistant", content, stop, details))

Results(id) ==
    /\ id \in Open
    /\ Grows([Entry("tool", <<TextBlock(FALSE)>>, "stop", FALSE) EXCEPT !.of = id])

SwitchModel(model) ==
    /\ model # target /\ Open = {}
    /\ target' = model
    /\ UNCHANGED conversation

-----------------------------------------------------------------------------
(* sanitize_context_for_request *)

Replays(model) == model.api = "anthropic"   \* includes_thinking_in_replay
Reasoning(block) == block.kind \in {"thinking", "redacted"}

\* Variant of KeptBlock with a bug: unsigned reasoning is kept for every model.
BugKeptBlock(block, model) ==
    CASE block.kind = "text" -> ~ block.empty
      [] Reasoning(block) -> ~ block.empty /\ Replays(model)
      [] OTHER -> TRUE

KeptBlock(block, model) ==
    CASE block.kind = "text" -> ~ block.empty
      [] block.kind = "thinking" ->
            ~ block.empty /\ Replays(model) /\ (model.signed => block.signed)
      [] block.kind = "redacted" -> Replays(model)
      [] OTHER -> TRUE

\* sanitize_assistant_for_request: nothing, or one message.
Sanitized(message, model) ==
    LET content == SelectSeq(message.content, LAMBDA block : KeptBlock(block, model))
    IN  IF message.role # "assistant" THEN <<message>>
        ELSE IF message.stop # "stop" \/ \A i \in DOMAIN content : Reasoning(content[i]) THEN <<>>
        ELSE <<[message EXCEPT !.content = content]>>

\* context_needs_sanitization, written beside the sanitizer.
NeedsSanitizing(messages, model) ==
    \E i \in DOMAIN messages :
        LET content == messages[i].content
            drop(block) ==
                \/ block.kind \in {"text", "thinking"} /\ block.empty
                \/ block.kind = "thinking" /\ (~ Replays(model) \/ (model.signed /\ ~ block.signed))
                \/ block.kind = "redacted" /\ ~ Replays(model)
            visible(block) == block.kind = "call" \/ (block.kind = "text" /\ ~ block.empty)
        IN  /\ messages[i].role = "assistant"
            /\ \/ messages[i].stop # "stop"
               \/ \E j \in DOMAIN content : drop(content[j])
               \/ ~ \E j \in DOMAIN content : visible(content[j])

ForRequest(messages, model) ==
    IF NeedsSanitizing(messages, model)
    THEN FlattenSeq([i \in DOMAIN messages |-> Sanitized(messages[i], model)])
    ELSE messages

-----------------------------------------------------------------------------
(* convert_messages, one for each protocol *)

Wire(role, parts, calls, of, details) ==
    [role |-> role, parts |-> parts, calls |-> calls, of |-> of, details |-> details]

\* Anthropic: tool results wait for the next other message and go before it as one
\* user message.
AnthropicWire(messages) ==
    LET batch(state) ==
            IF state.pending = <<>> THEN state.wire
            ELSE Append(state.wire, Wire("user", <<>>, <<>>, state.pending, FALSE))
        one(message) ==
            Wire(IF message.role = "assistant" THEN "assistant" ELSE "user", message.content,
                 SetToSortSeq(CallsOf(message), <), <<>>, FALSE)
        step(state, message) ==
            IF message.role = "tool" THEN [state EXCEPT !.pending = Append(@, message.of)]
            ELSE [wire |-> Append(batch(state), one(message)), pending |-> <<>>]
    IN  batch(FoldLeft(step, [wire |-> <<>>, pending |-> <<>>], messages))

\* OpenAI: an answer's text is one string, or null beside calls; nothing at all is left
\* out.  Reasoning is not sent back, reasoning_details are.
AssistantToOpenAi(message) ==
    LET text == SelectSeq(message.content, LAMBDA block : block.kind = "text")
        calls == SetToSortSeq(CallsOf(message), <)
    IN  IF text = <<>> /\ calls = <<>> THEN <<>>
        ELSE <<Wire("assistant", IF text = <<>> THEN <<>> ELSE <<TextBlock(FALSE)>>, calls, <<>>,
                    message.details)>>

OpenAiWire(messages) ==
    FlattenSeq([i \in DOMAIN messages |->
        LET message == messages[i]
        IN  IF message.role = "assistant" THEN AssistantToOpenAi(message)
            ELSE <<Wire(message.role, <<TextBlock(FALSE)>>, <<>>,
                        IF message.role = "tool" THEN <<message.of>> ELSE <<>>, FALSE)>>])

\* Ollama: results are known by the tool's name and their place.
OllamaWire(messages) ==
    [i \in DOMAIN messages |->
        Wire(messages[i].role, SelectSeq(messages[i].content, LAMBDA block : block.kind = "text"),
             SetToSortSeq(CallsOf(messages[i]), <),
             IF messages[i].role = "tool" THEN <<messages[i].of>> ELSE <<>>, FALSE)]

\* insert_anthropic_cache_control: the last text part of the last message that has one.
MarkLast(wire) ==
    LET texts == {<<i, j>> \in (DOMAIN wire) \X (1..4) :
                    j \in DOMAIN wire[i].parts /\ wire[i].parts[j].kind \in {"text", "marked"}}
        last == CHOOSE p \in texts : \A q \in texts : q[1] < p[1] \/ (q[1] = p[1] /\ q[2] <= p[2])
    IN  IF texts = {} THEN wire
        ELSE [wire EXCEPT ![last[1]].parts[last[2]].kind = "marked"]

SystemPrompt == Wire("system", <<TextBlock(FALSE)>>, <<>>, <<>>, FALSE)

Replayed(messages, model) ==
    LET sent == ForRequest(messages, model)
    IN  CASE model.api = "anthropic" -> AnthropicWire(sent)
          [] model.api = "ollama" -> <<SystemPrompt>> \o OllamaWire(sent)
          [] model.api = "openai" ->
                IF model.marked THEN MarkLast(<<SystemPrompt>> \o OpenAiWire(sent))
                ELSE <<SystemPrompt>> \o OpenAiWire(sent)

-----------------------------------------------------------------------------

ProviderReplayInit ==
    /\ conversation = <<>>
    /\ target \in Targets

ProviderReplayNext ==
    \/ \E role \in {"user", "custom"} : Says(role)
    \/ \E opening \in Openings("anthropic"), n \in 0..2, stop \in {"stop", "error"}, details \in BOOLEAN :
          Completes(opening, {id \in NewCalls : id - Cardinality(AllCalls) <= n}, stop, details)
    \/ \E id \in AllCalls : Results(id)
    \/ \E model \in Targets : SwitchModel(model)

ProviderReplaySpec == ProviderReplayInit /\ [][ProviderReplayNext]_replayVars

-----------------------------------------------------------------------------
(* Properties *)

\* Requests are made when no call waits for its result.
Sent == IF Open = {} THEN Replayed(conversation, target) ELSE <<>>

\* The scan that decides whether the conversation may be borrowed as it is and the
\* sanitizer, two copies of the same rules, never disagree.
FastPathAgrees ==
    ~ NeedsSanitizing(conversation, target) =>
        FlattenSeq([i \in DOMAIN conversation |-> Sanitized(conversation[i], target)]) = conversation

\* Providers refuse a call whose results do not follow at once, and a result without
\* its call: whatever the sanitizer leaves out and however results are put together,
\* the results of a message's calls are the next thing after it, each once.
ResultsFollowCalls ==
    \A i \in DOMAIN Sent :
        LET calls == Sent[i].calls
            n == Len(calls)
            answers == FlattenSeq([k \in 1..(Len(Sent) - i) |-> Sent[i + k].of])
            next == IF target.api = "anthropic" THEN Sent[i + 1].of ELSE SubSeq(answers, 1, n)
        IN  /\ calls # <<>> =>
                 /\ i < Len(Sent) /\ Sent[i + 1].of # <<>>
                 /\ ToSet(next) = ToSet(calls) /\ Len(next) = n
            /\ Sent[i].of # <<>> => i > 1 /\ (Sent[i - 1].calls # <<>> \/ Sent[i - 1].of # <<>>)

\* After any switch of models, reasoning goes only to the protocol that can verify it,
\* with a signature where the model asks for one, and in the order it was given.
ReasoningStaysHome ==
    \A i \in DOMAIN Sent :
        LET reasoning == SelectSeq(Sent[i].parts, Reasoning)
        IN  reasoning # <<>> =>
                /\ target.api = "anthropic"
                /\ target.signed => \A j \in DOMAIN reasoning :
                                        reasoning[j].kind = "thinking" => reasoning[j].signed
                /\ \E k \in DOMAIN conversation :
                        SelectSeq(conversation[k].content,
                                  LAMBDA b : Reasoning(b) /\ KeptBlock(b, target)) = reasoning

\* A request through OpenRouter to Anthropic has one cache mark, on its last text.
OneCacheMark ==
    LET marks == {p \in (DOMAIN Sent) \X (1..4) :
                    p[2] \in DOMAIN Sent[p[1]].parts /\ Sent[p[1]].parts[p[2]].kind = "marked"}
    IN  /\ Sent # <<>> => Cardinality(marks) = (IF target.marked THEN 1 ELSE 0)
        /\ \A p \in marks : \A i \in (p[1] + 1)..Len(Sent) : Sent[i].parts = <<>>

\* A conversation is replayed as its provider takes it.
ReplaySound == FastPathAgrees /\ ResultsFollowCalls /\ ReasoningStaysHome /\ OneCacheMark
=============================================================================
