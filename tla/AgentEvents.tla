---------------------------- MODULE AgentEvents ----------------------------
(***************************************************************************)
(* What the stream of AgentEvents promises its readers (the TUI, print and *)
(* RPC mode): how the events of anie-protocol/src/events.rs nest.  A       *)
(* reader's view is where in a run the events have brought it.             *)
(*                                                                         *)
(* SystemMessage, StatusUpdate and RetryScheduled, which the controller    *)
(* sends whenever it likes, nest in nothing and are left out.              *)
(***************************************************************************)
EXTENDS Integers

CONSTANT MaxCalls    \* bound: tool calls of one assistant message

VARIABLE view

Calls == 1..MaxCalls
Deltas == {"text", "thinking"}

\* Events; a tool execution has its call, a text or thinking delta its kind, the
\* end of a turn the calls it has results for.
Event(type) == [type |-> type, calls |-> {}, delta |-> "none"]
ToolEvent(type, call) == [type |-> type, calls |-> {call}, delta |-> "none"]
DeltaEvent(type, delta) == [type |-> type, calls |-> {}, delta |-> delta]
TurnEnd(calls) == [type |-> "TurnEnd", calls |-> calls, delta |-> "none"]

PlainEvents == {"AgentStart", "AgentEnd", "TurnStart", "MessageStart",
                "MessageEnd", "ToolCallDelta", "TranscriptReplace",
                "CompactionStart", "CompactionEnd"}
AgentEvent ==
    {Event(type) : type \in PlainEvents}
    \cup {ToolEvent(type, call) :
             type \in {"ToolExecStart", "ToolExecUpdate", "ToolExecEnd"},
             call \in Calls}
    \cup {DeltaEvent(type, delta) :
             type \in {"DeltaStart", "Delta", "DeltaEnd"}, delta \in Deltas}
    \cup {TurnEnd(calls) : calls \in SUBSET Calls}

\* stage: outside a run ("idle"), between its turns, in a turn, in a message of
\* the turn; delta: the open text or thinking block of the message; executing,
\* executed: the turn's tool calls; compacting: CompactionStart without its end.
View == [stage : {"idle", "between", "turn", "message"},
         delta : Deltas \cup {"none"},
         executing : SUBSET Calls, executed : SUBSET Calls,
         compacting : BOOLEAN]

Outside == [stage |-> "idle", delta |-> "none", executing |-> {},
            executed |-> {}, compacting |-> FALSE]
At(stage) == [Outside EXCEPT !.stage = stage]

\* Event e may come next.
Legal(v, e) ==
    \/ e.type = "AgentStart" /\ v.stage = "idle"
    \/ e.type \in {"TurnStart", "AgentEnd"} /\ v.stage = "between"
    \/ e.type \in {"CompactionStart", "TranscriptReplace"}
          /\ v.stage \in {"idle", "between"}
    \/ e.type = "CompactionEnd" /\ v.compacting
    \/ /\ e.type = "MessageStart" /\ v.stage = "turn"
       /\ v.executing = {} /\ v.executed = {}
    \/ e.type \in {"DeltaStart", "ToolCallDelta", "MessageEnd"}
          /\ v.stage = "message" /\ (e.type # "ToolCallDelta" => v.delta = "none")
    \/ e.type \in {"Delta", "DeltaEnd"} /\ v.delta = e.delta
    \/ e.type = "ToolExecStart" /\ v.stage = "turn"
          /\ e.calls \cap (v.executing \cup v.executed) = {}
    \/ e.type \in {"ToolExecUpdate", "ToolExecEnd"} /\ e.calls \subseteq v.executing
    \/ e.type = "TurnEnd" /\ v.stage = "turn"
          /\ v.executing = {} /\ v.executed = e.calls

\* The view after it.
After(v, e) ==
    CASE e.type = "AgentEnd" -> Outside
      [] e.type \in {"AgentStart", "TurnEnd"} -> At("between")
      [] e.type \in {"TurnStart", "MessageEnd"} -> At("turn")
      [] e.type = "MessageStart" -> At("message")
      [] e.type = "DeltaStart" -> [v EXCEPT !.delta = e.delta]
      [] e.type = "DeltaEnd" -> [v EXCEPT !.delta = "none"]
      [] e.type = "CompactionStart" -> [v EXCEPT !.compacting = TRUE]
      [] e.type = "CompactionEnd" -> [v EXCEPT !.compacting = FALSE]
      [] e.type = "ToolExecStart" -> [v EXCEPT !.executing = @ \cup e.calls]
      [] e.type = "ToolExecEnd" -> [v EXCEPT !.executing = @ \ e.calls,
                                             !.executed = @ \cup e.calls]
      [] OTHER -> v

EventsInit == view = Outside
EventsNext == \E e \in AgentEvent : Legal(view, e) /\ view' = After(view, e)
EventsSpec == EventsInit /\ [][EventsNext]_view

\* A reader is where the protocol puts it; blocks and executions are open only
\* where they can be.
ViewOK ==
    /\ view \in View
    /\ view.delta # "none" => view.stage = "message"
    /\ view.executing \cup view.executed # {} => view.stage = "turn"
    /\ view.executing \cap view.executed = {}
    /\ view.compacting => view.stage \in {"idle", "between"}
=============================================================================
