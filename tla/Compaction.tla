---------------------------- MODULE Compaction ----------------------------
(***************************************************************************)
(* Messages, and how a compaction cuts them (anie-session/src/lib.rs:      *)
(* find_cut_point, compact_messages_inline).  A message keeps what the     *)
(* pairing of tool calls and results and the sanitizer of a request tell   *)
(* apart; a user message stands for every prompt, summary, steering or     *)
(* follow-up message.                                                      *)
(***************************************************************************)
EXTENDS Naturals, SequencesExt, FiniteSetsExt

\* The elements of s at the places, in order.
Picked(s, places) ==
    LET upTo[n \in 0..Len(s)] ==
            IF n = 0 THEN <<>>
            ELSE IF n \in places THEN Append(upTo[n - 1], s[n]) ELSE upTo[n - 1]
    IN  upTo[Len(s)]

\* kind; for an assistant message its stop reason, how many tool calls it makes
\* and whether it has visible text; for a tool result its call.
Message(kind, stop, calls, text, call) ==
    [kind |-> kind, stop |-> stop, calls |-> calls, text |-> text, call |-> call]
UserMessage == Message("user", "none", 0, TRUE, 0)
Assistant(stop, calls, text) == Message("assistant", stop, calls, text, 0)
ToolResult(call) == Message("result", "none", 0, TRUE, call)
ToolResults(n) == [call \in 1..n |-> ToolResult(call)]

Failed == {"Error", "Aborted"}

\* sanitize_context_for_request: failed assistant messages and those without
\* anything visible are not sent.
Sendable(m) ==
    m.kind = "assistant" => m.stop \notin Failed /\ (m.text \/ m.calls > 0)
Sanitize(messages) ==
    Picked(messages, {i \in DOMAIN messages : Sendable(messages[i])})

-----------------------------------------------------------------------------
\* Variant of CutFrom with a bug: tool results are not skipped.
BugCutAnywhere(messages, n) == n

\* The end of find_cut_point: how many messages are discarded when the walk over
\* the token estimates stopped at n; a tool result is not left at the front.
CutFrom(messages, n) ==
    Min({k \in n..Len(messages) :
            k < Len(messages) => messages[k + 1].kind # "result"})

\* The cuts there can be, whatever the estimates: at least one message is
\* discarded and one kept.
Cuts(messages) ==
    {CutFrom(messages, n) : n \in 1..Len(messages)} \ {Len(messages)}

\* compact_messages_inline: the summary, then what is kept.
Compacted(messages, cut) ==
    <<UserMessage>> \o SubSeq(messages, cut + 1, Len(messages))

-----------------------------------------------------------------------------
\* The results of message i's calls are right behind it, in order.
ResultsFollow(messages, i) ==
    \A call \in 1..messages[i].calls :
        i + call <= Len(messages) /\ messages[i + call] = ToolResult(call)

\* Message j made the call that message i is the result of.
AnswerTo(messages, i, j) ==
    /\ messages[j].kind = "assistant" /\ j + messages[i].call = i
    /\ messages[i].call <= messages[j].calls

\* Every tool call has its result right behind its message, in order, and every
\* result has its call: what providers demand of a request.
Paired(messages) ==
    \A i \in DOMAIN messages :
        /\ ResultsFollow(messages, i)
        /\ messages[i].kind = "result" =>
              \E j \in 1..(i - 1) : AnswerTo(messages, i, j)

\* The same of messages that are still to be sanitized: the calls of a message that
\* is not sent have no results.
Answered(messages) ==
    \A i \in DOMAIN messages :
        /\ Sendable(messages[i]) => ResultsFollow(messages, i)
        /\ messages[i].kind = "result" =>
              \E j \in 1..(i - 1) : Sendable(messages[j]) /\ AnswerTo(messages, i, j)
=============================================================================
