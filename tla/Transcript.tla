---------------------------- MODULE Transcript ----------------------------
(***************************************************************************)
(* The TUI's transcript (anie-tui/src/output.rs, fed by                    *)
(* handle_agent_event of app.rs): the blocks that a stream of events which *)
(* nests as AgentEvents says turns into, with the system messages that the *)
(* controller and the TUI add at any moment.                               *)
(*                                                                         *)
(* `conversation` is what the transcript should show, system messages left *)
(* out: there every event finds the entry it is about, where the code      *)
(* looks for the last block, or for a block with the call's id.  Call ids  *)
(* come back in later turns.                                               *)
(***************************************************************************)
EXTENDS AgentEvents, Compaction, FiniteSets

CONSTANTS
    MaxDeltas,    \* bound: text deltas of a message
    MaxBlocks     \* bound: blocks of the transcript

ASSUME TranscriptAssumption == {MaxCalls, MaxDeltas, MaxBlocks} \subseteq Nat

VARIABLES
    blocks,
    animated_block_count,
    message,         \* the open message: "none", "user" or "assistant"
    conversation,
    entry_of,        \* the entry of every call of the turn
    interrupted      \* history: a system message came inside an answer

transcriptVars == <<view, blocks, animated_block_count, message, conversation,
                    entry_of, interrupted>>

\* text: how much of it there is; live: is_streaming or is_executing.
Block(kind, text, live, call) ==
    [kind |-> kind, text |-> text, live |-> live, call |-> call]
UserBlock == Block("user", 0, FALSE, 0)
StreamingAssistant == Block("assistant", 0, TRUE, 0)
SystemBlock == Block("system", 0, FALSE, 0)
ToolBlock(call) == Block("tool", 0, TRUE, call)

TranscriptInit ==
    /\ EventsInit
    /\ blocks = <<>> /\ animated_block_count = 0
    /\ message = "none"
    /\ conversation = <<>> /\ entry_of = [call \in Calls |-> 0]
    /\ interrupted = FALSE

-----------------------------------------------------------------------------
Receive(e) == Legal(view, e) /\ view' = After(view, e)

\* add_block.
AddBlock(block) ==
    /\ Len(blocks) < MaxBlocks
    /\ blocks' = Append(blocks, block)
    /\ animated_block_count' = animated_block_count + (IF block.live THEN 1 ELSE 0)

LastIsAssistant == blocks # <<>> /\ Last(blocks).kind = "assistant"

\* A change of the entry at i, and of the same message's block.
Revise(s, i, text, live) == [s EXCEPT ![i].text = text, ![i].live = live]

MessageStarts(kind) ==
    /\ Receive(Event("MessageStart"))
    /\ message' = kind
    /\ LET block == IF kind = "user" THEN UserBlock ELSE StreamingAssistant
       IN  AddBlock(block) /\ conversation' = Append(conversation, block)
    /\ UNCHANGED <<entry_of, interrupted>>

\* append_to_last_assistant (thinking goes the same way), which wants the assistant block to be the last one.
TextArrives ==
    /\ message = "assistant" /\ Last(conversation).text < MaxDeltas
    /\ Receive(DeltaEvent("Delta", "text"))
    /\ LET text == Last(conversation).text + 1
       IN  /\ conversation' = Revise(conversation, Len(conversation), text, TRUE)
           /\ blocks' = IF LastIsAssistant
                        THEN [blocks EXCEPT ![Len(blocks)].text = @ + 1]
                        ELSE blocks
    /\ UNCHANGED <<animated_block_count, message, entry_of, interrupted>>

UserMessageEnds ==
    /\ message = "user" /\ Receive(Event("MessageEnd"))
    /\ message' = "none"
    /\ UNCHANGED <<blocks, animated_block_count, conversation, entry_of,
                   interrupted>>

\* finalize_last_assistant, which wants it to be the last one too.
AssistantMessageEnds ==
    /\ message = "assistant" /\ Receive(Event("MessageEnd"))
    /\ message' = "none"
    /\ LET text == Last(conversation).text
       IN  /\ conversation' = Revise(conversation, Len(conversation), text, FALSE)
           /\ IF LastIsAssistant
              THEN /\ blocks' = Revise(blocks, Len(blocks), text, FALSE)
                   /\ animated_block_count' = animated_block_count
                                 - (IF Last(blocks).live THEN 1 ELSE 0)
              ELSE UNCHANGED <<blocks, animated_block_count>>
    /\ UNCHANGED <<entry_of, interrupted>>

\* Variant of FindToolCall with a bug: the first block with the id is taken.
BugFindFirst(call) ==
    CHOOSE i \in DOMAIN blocks :
        /\ blocks[i].kind = "tool" /\ blocks[i].call = call
        /\ \A j \in 1..(i - 1) : blocks[j].kind = "tool" => blocks[j].call # call

\* find_tool_call_index: the first executing block with the id; only while it
\* executes is there an event about it.
FindToolCall(call) ==
    CHOOSE i \in DOMAIN blocks :
        /\ blocks[i].kind = "tool" /\ blocks[i].call = call /\ blocks[i].live
        /\ \A j \in 1..(i - 1) : ~(/\ blocks[j].kind = "tool"
                                   /\ blocks[j].call = call /\ blocks[j].live)

ToolExecStarts(call) ==
    /\ message = "none" /\ Receive(ToolEvent("ToolExecStart", call))
    /\ AddBlock(ToolBlock(call))
    /\ conversation' = Append(conversation, ToolBlock(call))
    /\ entry_of' = [entry_of EXCEPT ![call] = Len(conversation')]
    /\ UNCHANGED <<message, interrupted>>

\* update_tool_result: a partial result is text 1.
ToolExecUpdates(call) ==
    /\ Receive(ToolEvent("ToolExecUpdate", call))
    /\ LET i == FindToolCall(call)
       IN  blocks' = Revise(blocks, i, 1, blocks[i].live)
    /\ conversation' = Revise(conversation, entry_of[call], 1, TRUE)
    /\ UNCHANGED <<animated_block_count, message, entry_of, interrupted>>

\* finalize_tool_result: the result is text 2.
ToolExecEnds(call) ==
    /\ Receive(ToolEvent("ToolExecEnd", call))
    /\ LET i == FindToolCall(call)
       IN  /\ blocks' = Revise(blocks, i, 2, FALSE)
           /\ animated_block_count' = animated_block_count
                                      - (IF blocks[i].live THEN 1 ELSE 0)
    /\ conversation' = Revise(conversation, entry_of[call], 2, FALSE)
    /\ entry_of' = [entry_of EXCEPT ![call] = 0]
    /\ UNCHANGED <<message, interrupted>>

\* clear, then load_transcript: a summary and the end of the conversation.
TranscriptReplaced ==
    /\ Receive(Event("TranscriptReplace"))
    /\ \E n \in 1..(Len(conversation) + 1) :
          conversation' = <<UserBlock>>
                          \o SubSeq(conversation, n, Len(conversation))
    /\ Len(conversation') <= MaxBlocks
    /\ blocks' = conversation'
    /\ animated_block_count' = 0
    /\ interrupted' = FALSE
    /\ UNCHANGED <<message, entry_of>>

\* Ctrl+L and /clear, keys of an idle TUI.
Cleared ==
    /\ view.stage = "idle" /\ ~view.compacting
    /\ blocks' = <<>> /\ conversation' = <<>>
    /\ animated_block_count' = 0
    /\ interrupted' = FALSE
    /\ UNCHANGED <<view, message, entry_of>>

\* Events announced by a line of their own; the footer of a short run is left out.
Announced ==
    /\ \E type \in {"CompactionStart", "CompactionEnd", "AgentEnd"} :
          Receive(Event(type))
    /\ AddBlock(SystemBlock)
    /\ UNCHANGED <<message, conversation, entry_of, interrupted>>

\* Events the transcript makes nothing of.
Silent ==
    /\ \/ \E type \in {"AgentStart", "AgentEnd", "TurnStart"} :
             Receive(Event(type))
       \/ \E calls \in SUBSET Calls : Receive(TurnEnd(calls))
       \/ message = "assistant" /\ Receive(Event("ToolCallDelta"))
       \/ /\ message = "assistant"
          /\ \E type \in {"DeltaStart", "DeltaEnd"}, delta \in Deltas :
                Receive(DeltaEvent(type, delta))
    /\ UNCHANGED <<blocks, animated_block_count, message, conversation,
                   entry_of, interrupted>>

\* add_system_message: "Queued follow-up", "A run is already active", command
\* output, warnings.
SystemMessageArrives ==
    /\ AddBlock(SystemBlock)
    /\ interrupted' = (interrupted \/ message = "assistant")
    /\ UNCHANGED <<view, message, conversation, entry_of>>

TranscriptNext ==
    \/ MessageStarts("user") \/ MessageStarts("assistant")
    \/ TextArrives \/ UserMessageEnds \/ AssistantMessageEnds
    \/ \E call \in Calls :
          ToolExecStarts(call) \/ ToolExecUpdates(call) \/ ToolExecEnds(call)
    \/ TranscriptReplaced \/ Cleared \/ Announced \/ Silent \/ SystemMessageArrives

TranscriptSpec == TranscriptInit /\ [][TranscriptNext]_transcriptVars

-----------------------------------------------------------------------------
BlockType == [kind : {"user", "assistant", "tool", "system"},
              text : 0..(MaxDeltas + 2), live : BOOLEAN, call : 0..MaxCalls]

\* The type of every variable.
TranscriptTypeOK ==
    /\ ViewOK
    /\ blocks \in Seq(BlockType) /\ conversation \in Seq(BlockType)
    /\ animated_block_count \in Int
    /\ message \in {"none", "user", "assistant"}
    /\ entry_of \in [Calls -> 0..MaxBlocks]
    /\ interrupted \in BOOLEAN

\* The blocks of some kinds, in order.
OfKinds(s, kinds) == Picked(s, {i \in DOMAIN s : s[i].kind \in kinds})
Shown(kinds) == OfKinds(blocks, kinds)
Said(kinds) == OfKinds(conversation, kinds)

\* The count that decides whether the pane redraws its spinners is the number of
\* live blocks (the debug assertion in has_animated_blocks), also after an answer
\* whose block was never finalized.
AnimatedCountExact ==
    animated_block_count = Cardinality({i \in DOMAIN blocks : blocks[i].live})

\* Tool executions are shown as they went, whatever comes between their events,
\* several at once, and with call ids that a later turn uses again.
ToolsShown == Shown({"tool"}) = Said({"tool"})

\* The transcript shows the conversation, unless a system message interrupted an
\* answer.
ConversationShown ==
    ~interrupted => Shown({"user", "assistant", "tool"}) = conversation

\* An assistant message that has ended is finalized: its text, or its error, is
\* shown and no spinner is left.
AnswersFinalized ==
    message # "assistant" => Shown({"assistant"}) = Said({"assistant"})

\* The pane shows what the events said, and animates what is still going on.
TranscriptSound == TranscriptTypeOK /\ AnimatedCountExact /\ ToolsShown /\ ConversationShown
=============================================================================
