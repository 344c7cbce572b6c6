--------------------------- MODULE ProviderStream ---------------------------
(***************************************************************************)
(* One response after the other, as the three wire protocols of            *)
(* anie-providers-builtin put it together (anthropic.rs,                   *)
(* openai/streaming.rs, ollama_chat/streaming.rs), next to what            *)
(* anie-agent's AssistantMessageBuilder makes of the same events.  The     *)
(* server follows its documentation, may end the response anywhere, and    *)
(* numbers blocks and calls as it likes.                                   *)
(*                                                                         *)
(* Text is the number of its fragments; the arguments of a call are whole  *)
(* after ArgumentParts fragments.                                          *)
(***************************************************************************)
EXTENDS Integers, Sequences, SequencesExt, FiniteSets

CONSTANTS
    Indexes,        \* indexes of blocks and tool calls a server uses
    ArgumentParts,  \* fragments of a whole JSON text of arguments
    MaxChunks,      \* bound: chunks of a conversation
    MaxStreams      \* bound: responses of a conversation

ASSUME ProviderStreamAssumption ==
    /\ Indexes \subseteq Nat /\ IsFiniteSet(Indexes)
    /\ ArgumentParts \in Nat \ {0} /\ MaxChunks \in Nat /\ MaxStreams \in Nat \ {0}

Protocols == {"anthropic", "openai", "ollama"}
NoId == <<>>

VARIABLES
    protocol,
    stream,     \* the accumulators of the response
    told,       \* the blocks of AssistantMessageBuilder
    outcome,    \* of the response: none yet, an error, or the Done message
    chunks, streams,
    kept        \* history: the ids of the calls of the responses before

streamVars == <<protocol, stream, told, outcome, chunks, streams, kept>>

Pending == [kind |-> "none", message |-> <<>>, cut |-> FALSE]
Failed(error) == [kind |-> error, message |-> <<>>, cut |-> FALSE]

\* A block of a message.
Block(kind, n) == [kind |-> kind, n |-> n, signature |-> 0, id |-> NoId, arguments |-> "none"]
CallBlock(id, arguments) == [Block("call", 0) EXCEPT !.id = id, !.arguments = arguments]

Calls(blocks) == SelectSeq(blocks, LAMBDA block : block.kind = "call")
Ids(blocks) == {Calls(blocks)[i].id : i \in DOMAIN Calls(blocks)}

\* serde_json::from_str on the fragments so far.
Parse(n) == IF n = ArgumentParts THEN "whole" ELSE "raw"

-----------------------------------------------------------------------------
(* The builder that listens: text, thinking and calls in order of arrival *)

Text == [kind |-> "text", id |-> NoId, n |-> 1]
Thinking == [kind |-> "thinking", id |-> NoId, n |-> 1]
CallStart(id) == [kind |-> "start", id |-> id, n |-> 0]
CallDelta(id, n) == [kind |-> "delta", id |-> id, n |-> n]
CallEnd(id) == [kind |-> "end", id |-> id, n |-> 0]

\* push_text, push_thinking, start_tool_call, append_tool_call_delta and
\* finish_tool_call; an unknown id changes nothing.
Tell(blocks, event) ==
    CASE event.kind \in {"text", "thinking"} ->
            IF blocks # <<>> /\ Last(blocks).kind = event.kind
            THEN [blocks EXCEPT ![Len(blocks)].n = @ + 1]
            ELSE Append(blocks, Block(event.kind, 1))
      [] event.kind = "start" -> Append(blocks, CallBlock(event.id, "none"))
      [] OTHER ->
            LET places == {i \in DOMAIN blocks : blocks[i].kind = "call" /\ blocks[i].id = event.id}
                i == CHOOSE i \in places : \A j \in places : i <= j
            IN  IF places = {} THEN blocks
                ELSE IF event.kind = "delta" THEN [blocks EXCEPT ![i].n = @ + event.n]
                ELSE [blocks EXCEPT ![i].arguments = IF blocks[i].n = 0 THEN @ ELSE Parse(blocks[i].n)]

Tells(events) == told' = FoldLeft(Tell, told, events)

Receives ==
    /\ outcome.kind = "none" /\ chunks < MaxChunks
    /\ chunks' = chunks + 1
    /\ UNCHANGED <<protocol, streams, kept>>

Goes(next, events) ==
    /\ stream' = next
    /\ Tells(events)
    /\ UNCHANGED outcome

Ends(next, events, result) ==
    /\ stream' = next
    /\ Tells(events)
    /\ outcome' = result

\* An error ends the response; the builder keeps what it was told.
Fails(error) ==
    /\ outcome' = Failed(error)
    /\ UNCHANGED <<stream, told>>

-----------------------------------------------------------------------------
(* Anthropic: content blocks by index *)

NewAnthropic == [blocks |-> <<>>, raw_stop_reason |-> "none"]

BlockTypes == {"text", "thinking", "redacted", "call"}
AnthropicId(index) == <<"toolu", streams, index>>

BlockStart(index, type, signature) ==
    LET block == [kind |-> type, n |-> 0, signature |-> signature, json |-> 0,
                  input |-> "empty", open |-> TRUE]
    IN  /\ protocol = "anthropic" /\ index \notin DOMAIN stream.blocks
        /\ Receives
        /\ Goes([stream EXCEPT !.blocks = (index :> block) @@ @],
                IF type = "call" THEN <<CallStart(AnthropicId(index))>> ELSE <<>>)

\* server_tool_use, web_search, citations; unknown types are ignored.
UnsupportedBlock ==
    /\ protocol = "anthropic"
    /\ Receives /\ Fails("UnsupportedStreamFeature")

OpenBlock(index, type) ==
    index \in DOMAIN stream.blocks /\ stream.blocks[index].open /\ stream.blocks[index].kind = type

\* text_delta and thinking_delta; empty ones change nothing.
BlockDelta(index, type) ==
    /\ protocol = "anthropic" /\ type \in {"text", "thinking"} /\ OpenBlock(index, type)
    /\ Receives
    /\ Goes([stream EXCEPT !.blocks[index].n = @ + 1],
            IF type = "text" THEN <<Text>> ELSE <<Thinking>>)

SignatureDelta(index) ==
    /\ protocol = "anthropic" /\ OpenBlock(index, "thinking")
    /\ Receives
    /\ Goes([stream EXCEPT !.blocks[index].signature = @ + 1], <<>>)

InputJsonDelta(index) ==
    /\ protocol = "anthropic" /\ OpenBlock(index, "call")
    /\ stream.blocks[index].json < ArgumentParts
    /\ Receives
    /\ Goes([stream EXCEPT !.blocks[index].json = @ + 1], <<CallDelta(AnthropicId(index), 1)>>)

\* content_block_stop: the fragments, if any, become the input.
InputOf(block) == IF block.json = 0 THEN block.input ELSE Parse(block.json)

BlockStop(index) ==
    /\ protocol = "anthropic" /\ index \in DOMAIN stream.blocks /\ stream.blocks[index].open
    /\ Receives
    /\ LET block == stream.blocks[index]
       IN  IF block.kind = "call"
           THEN Goes([stream EXCEPT !.blocks[index].open = FALSE, !.blocks[index].input = InputOf(block)],
                     <<CallEnd(AnthropicId(index))>>)
           ELSE Goes([stream EXCEPT !.blocks[index].open = FALSE], <<>>)

MessageDelta(reason) ==
    /\ protocol = "anthropic"
    /\ Receives
    /\ Goes([stream EXCEPT !.raw_stop_reason = reason], <<>>)

\* into_message: the blocks in the order of their indexes.
AnthropicBlock(index) ==
    LET block == stream.blocks[index]
    IN  CASE block.kind = "call" -> CallBlock(AnthropicId(index), block.input)
          [] block.kind = "thinking" ->
                [Block("thinking", block.n) EXCEPT !.signature = block.signature]
          [] OTHER -> Block(block.kind, block.n)

AnthropicMessage ==
    LET order == SetToSortSeq(DOMAIN stream.blocks, <)
    IN  [i \in DOMAIN order |-> AnthropicBlock(order[i])]

\* has_visible_content, has_meaningful_content: text, or a call with an id.
Visible(block) ==
    \/ block.kind = "text" /\ block.n > 0
    \/ block.kind = "call" /\ block.id # NoId

\* EmptyAssistantResponse, or ResponseTruncated when the output limit was reached.
Emptied(truncated) == Failed(IF truncated THEN "ResponseTruncated" ELSE "EmptyAssistantResponse")
Done(message, cut) == [kind |-> "done", message |-> message, cut |-> cut]

\* A server stops every block before the message.
MessageStop ==
    /\ protocol = "anthropic"
    /\ \A index \in DOMAIN stream.blocks : ~ stream.blocks[index].open
    /\ Receives
    /\ Ends(stream, <<>>,
            IF \E i \in DOMAIN AnthropicMessage : Visible(AnthropicMessage[i])
            THEN Done(AnthropicMessage, FALSE)
            ELSE Emptied(stream.raw_stop_reason = "max_tokens"))

-----------------------------------------------------------------------------
(* OpenAI: deltas, and slots of tool calls *)

NewOpenAi == [text |-> 0, thinking |-> 0, held |-> FALSE, tool_calls |-> <<>>, finish |-> "none",
              details |-> 0]
NewSlot == [id |-> NoId, name |-> FALSE, arguments |-> 0, started |-> FALSE, ended |-> FALSE]

OpenAiId(index) == <<"call", streams, index>>

\* What one chunk's delta holds.  Content is plain, reasoning in tags, or ends with
\* what may become a tag and is held back (TaggedReasoning has the details).
Contents == {"none", "plain", "tagged", "held"}
NoCall == [index |-> 0, present |-> FALSE, id |-> FALSE, name |-> FALSE, parts |-> 0]
CallDeltas == {NoCall} \cup [index : Indexes, present : {TRUE}, id : BOOLEAN, name : BOOLEAN, parts : 0..1]
Delta(reasoning, content, call) == [reasoning |-> reasoning, content |-> content, call |-> call]
Deltas ==
    {Delta(reasoning, content, NoCall) : reasoning \in BOOLEAN, content \in Contents}
    \cup {Delta(FALSE, "none", call) : call \in CallDeltas}
\* "stop" and no reason at all are treated alike.
FinishReasons == {"none", "length", "tool_calls"}

\* Native reasoning, then content: beside native reasoning it is not split, else what
\* was held back comes first, as text.
Reasoned(s, delta) ==
    IF delta.reasoning
    THEN [state |-> [s EXCEPT !.thinking = @ + 1], events |-> <<Thinking>>]
    ELSE [state |-> s, events |-> <<>>]

Flushed(s) ==
    IF s.held THEN [state |-> [s EXCEPT !.held = FALSE, !.text = @ + 1], events |-> <<Text>>]
    ELSE [state |-> s, events |-> <<>>]

WithContent(s, delta) ==
    IF delta.content = "none" THEN [state |-> s, events |-> <<>>]
    ELSE IF delta.reasoning THEN [state |-> [s EXCEPT !.text = @ + 1], events |-> <<Text>>]
    ELSE LET flushed == Flushed(s)
             f == flushed.state
         IN  CASE delta.content = "plain" ->
                    [state |-> [f EXCEPT !.text = @ + 1], events |-> Append(flushed.events, Text)]
               [] delta.content = "tagged" ->
                    [state |-> [f EXCEPT !.thinking = @ + 1], events |-> Append(flushed.events, Thinking)]
               [] delta.content = "held" ->
                    [state |-> [f EXCEPT !.held = TRUE], events |-> flushed.events]

\* A slot takes the id and the name whenever they come; the call starts once it has
\* both; fragments are reported under the id known so far.
WithCall(s, call) ==
    LET old == IF call.index \in DOMAIN s.tool_calls THEN s.tool_calls[call.index] ELSE NewSlot
        named == [old EXCEPT !.id = IF call.id THEN OpenAiId(call.index) ELSE @,
                             !.name = @ \/ call.name,
                             !.arguments = @ + call.parts]
        starts == ~ old.started /\ named.id # NoId /\ named.name
        slot == [named EXCEPT !.started = @ \/ starts]
    IN  IF ~ call.present THEN [state |-> s, events |-> <<>>]
        ELSE [state |-> [s EXCEPT !.tool_calls = (call.index :> slot) @@ @],
              events |-> (IF starts THEN <<CallStart(slot.id)>> ELSE <<>>)
                         \o (IF call.parts > 0 THEN <<CallDelta(slot.id, call.parts)>> ELSE <<>>)]

\* finish_tool_calls: every call with an id is ended once.
Finished(s) ==
    LET due == {i \in DOMAIN s.tool_calls : ~ s.tool_calls[i].ended /\ s.tool_calls[i].id # NoId}
        order == SetToSortSeq(due, <)
    IN  [state |-> [s EXCEPT !.tool_calls =
                        [i \in DOMAIN @ |-> [@[i] EXCEPT !.ended = @ \/ i \in due]]],
         events |-> [i \in DOMAIN order |-> CallEnd(s.tool_calls[order[i]].id)]]

WithFinish(s, reason) ==
    IF reason = "none" THEN [state |-> s, events |-> <<>>]
    ELSE IF reason = "tool_calls" THEN Finished([s EXCEPT !.finish = reason])
    ELSE [state |-> [s EXCEPT !.finish = reason], events |-> <<>>]

\* process_event on one choice; a reasoning_details array is only collected.
ProcessEvent(delta, reason) ==
    LET one == Reasoned(stream, delta)
        two == WithContent(one.state, delta)
        three == WithCall(two.state, delta.call)
        four == WithFinish(three.state, reason)
    IN  /\ protocol = "openai"
        /\ (delta.call.present /\ delta.call.index \in DOMAIN stream.tool_calls) =>
              stream.tool_calls[delta.call.index].arguments + delta.call.parts <= ArgumentParts
        /\ Receives
        /\ Goes(four.state, one.events \o two.events \o three.events \o four.events)

OpenAiMessage(s) ==
    LET order == SetToSortSeq(DOMAIN s.tool_calls, <)
    IN  (IF s.thinking > 0 THEN <<Block("thinking", s.thinking)>> ELSE <<>>)
        \o (IF s.text > 0 THEN <<Block("text", s.text)>> ELSE <<>>)
        \o [i \in DOMAIN order |->
              CallBlock(s.tool_calls[order[i]].id, Parse(s.tool_calls[order[i]].arguments))]

\* Variant of FinishStream with a bug: into_message flushes the splitter itself and tells nobody.
BugFinishStream(s) ==
    LET ended == Finished(s)
        flushed == Flushed(ended.state)
    IN  [state |-> flushed.state, events |-> ended.events]

\* finish_stream: the splitter is flushed, then the calls are ended.
FinishStream(s) ==
    LET flushed == Flushed(s)
        ended == Finished(flushed.state)
    IN  [state |-> ended.state, events |-> flushed.events \o ended.events]

\* At [DONE], and at the end of the body without one.
OpenAiEnds ==
    LET last == FinishStream(stream)
        message == OpenAiMessage(last.state)
    IN  /\ protocol = "openai"
        /\ IF \E i \in DOMAIN message : Visible(message[i])
           THEN Ends(last.state, last.events, Done(message, FALSE))
           ELSE Fails(Emptied(stream.finish = "length").kind)

-----------------------------------------------------------------------------
(* Ollama: whole calls without ids *)

NewOllama == [text |-> 0, thinking |-> 0, tool_calls |-> 0, done_reason |-> "none"]

\* The nonce is the number of streams of this process.
OllamaId(n) == <<"ollama", streams, n>>

OllamaCall(n) == <<CallStart(OllamaId(n)), CallDelta(OllamaId(n), ArgumentParts), CallEnd(OllamaId(n))>>

OllamaMessage(s) ==
    (IF s.thinking > 0 THEN <<Block("thinking", s.thinking)>> ELSE <<>>)
    \o (IF s.text > 0 THEN <<Block("text", s.text)>> ELSE <<>>)
    \o [n \in 1..s.tool_calls |-> CallBlock(OllamaId(n), "whole")]

OllamaResult(s) ==
    LET message == OllamaMessage(s)
    IN  IF \E i \in DOMAIN message : Visible(message[i]) THEN Done(message, FALSE)
        ELSE Emptied(s.done_reason = "length")

\* process_line: thinking, content, calls, and done with its reason.
ProcessLine(thinking, content, calls, done, reason) ==
    LET s == stream
        next == [s EXCEPT !.thinking = @ + thinking, !.text = @ + content, !.tool_calls = @ + calls,
                          !.done_reason = IF done /\ reason # "none" THEN reason ELSE @]
        events == (IF thinking = 1 THEN <<Thinking>> ELSE <<>>)
                  \o (IF content = 1 THEN <<Text>> ELSE <<>>)
                  \o (IF calls = 1 THEN OllamaCall(s.tool_calls + 1) ELSE <<>>)
    IN  /\ protocol = "ollama"
        /\ Receives
        /\ IF ~ done THEN Goes(next, events)
           ELSE IF OllamaResult(next).kind = "done" THEN Ends(next, events, OllamaResult(next))
           ELSE Fails(OllamaResult(next).kind)

-----------------------------------------------------------------------------
(* The end of a response, and the next one *)

\* A chunk that is no JSON, an error event, or a transport that fails.
ChunkFails ==
    /\ Receives
    /\ Fails("MalformedStreamEvent")

\* The body ends without the protocol's own end.  Anthropic's message is handed on
\* as it stands.
BodyEnds ==
    /\ outcome.kind = "none"
    /\ CASE protocol = "anthropic" -> Ends(stream, <<>>, Done(AnthropicMessage, TRUE))
         [] protocol = "openai" -> OpenAiEnds
         [] protocol = "ollama" ->
               IF OllamaResult(stream).kind = "done" THEN Ends(stream, <<>>, OllamaResult(stream))
               ELSE Fails(OllamaResult(stream).kind)
    /\ UNCHANGED <<protocol, chunks, streams, kept>>

NewState(p) ==
    CASE p = "anthropic" -> NewAnthropic [] p = "openai" -> NewOpenAi [] p = "ollama" -> NewOllama

\* The next request of the conversation goes to the same provider.
NextStream ==
    /\ outcome.kind # "none" /\ streams < MaxStreams
    /\ stream' = NewState(protocol) /\ told' = <<>> /\ outcome' = Pending
    /\ streams' = streams + 1
    /\ kept' = kept \cup Ids(outcome.message)
    /\ UNCHANGED <<protocol, chunks>>

ProviderStreamInit ==
    /\ protocol \in Protocols
    /\ stream = NewState(protocol)
    /\ told = <<>> /\ outcome = Pending
    /\ chunks = 0 /\ streams = 1 /\ kept = {}

ProviderStreamNext ==
    \/ \E index \in Indexes :
          \/ \E type \in BlockTypes : BlockStart(index, type, 0)
          \/ BlockStart(index, "thinking", 1)
          \/ \E type \in {"text", "thinking"} : BlockDelta(index, type)
          \/ SignatureDelta(index) \/ InputJsonDelta(index) \/ BlockStop(index)
    \/ UnsupportedBlock \/ MessageStop
    \/ \E reason \in {"end_turn", "max_tokens"} : MessageDelta(reason)
    \/ \E delta \in Deltas, reason \in FinishReasons : ProcessEvent(delta, reason)
    \/ \E thinking, content, calls \in 0..1, done \in BOOLEAN, reason \in {"none", "length"} :
          ProcessLine(thinking, content, calls, done, reason)
    \/ ChunkFails \/ BodyEnds \/ NextStream

ProviderStreamSpec == ProviderStreamInit /\ [][ProviderStreamNext]_streamVars

-----------------------------------------------------------------------------
(* Properties *)

CountOf(blocks, kind) ==
    FoldLeft(LAMBDA sum, block : IF block.kind = kind THEN sum + block.n ELSE sum, 0, blocks)

\* What was shown while it streamed is what the message keeps: every fragment of text
\* and reasoning, and every call, under the same id; the events and the message are
\* built by different code.  Calls the server never gave a name were not shown.
ShownIsKept ==
    outcome.kind = "done" =>
        /\ \A kind \in {"text", "thinking"} : CountOf(told, kind) = CountOf(outcome.message, kind)
        /\ Ids(told) \subseteq Ids(outcome.message)
        /\ protocol # "openai" => Ids(told) = Ids(outcome.message)

\* A response without an answer or a call is an error, never an empty message in the
\* session; Anthropic's body that stops before message_stop is not looked at.
AnswersVisible ==
    (outcome.kind = "done" /\ ~ outcome.cut) =>
        \E i \in DOMAIN outcome.message :
            \/ outcome.message[i].kind = "call"
            \/ outcome.message[i].kind = "text" /\ outcome.message[i].n > 0

\* A call whose arguments were streamed never runs with none: they are parsed, or
\* handed to the tool marked as raw.  Anthropic's body may stop inside a call.
NoArgumentsDropped ==
    (outcome.kind = "done" /\ ~ outcome.cut) =>
        \A i \in DOMAIN Calls(outcome.message) :
            Calls(outcome.message)[i].arguments = "empty" =>
                \E j \in DOMAIN told : /\ told[j].id = Calls(outcome.message)[i].id
                                       /\ told[j].n = 0

\* No call of a conversation has the id of an earlier one, though Ollama gives none
\* and anie makes them up.
CallIdsFresh ==
    outcome.kind = "done" =>
        /\ kept \cap Ids(outcome.message) \subseteq {NoId}
        /\ protocol = "ollama" => Cardinality(Ids(outcome.message)) = Len(Calls(outcome.message))

\* The message that ends a stream is the whole of what was streamed, and an answer.
AnswersWhole == ShownIsKept /\ AnswersVisible /\ NoArgumentsDropped /\ CallIdsFresh
=============================================================================
