--------------------------- MODULE AgentRunProofs ---------------------------
(***************************************************************************)
(* What the agent loop does, for any number of tool calls, turns and runs: *)
(* it implements AgentEvents, it tells what it keeps, and it stops when it *)
(* is cancelled.  And what shows a run: the pane paints what there is to   *)
(* paint, and the transcript is what the events said.                      *)
(***************************************************************************)
EXTENDS AgentRun, OutputView, Transcript, CompactionProofs,
        FiniteSetTheorems, TLAPS

-----------------------------------------------------------------------------
(***************************************************************************)
(* What a stream that nests keeps of its reader's view, whatever the calls *)
(* are: AgentEvents is used for the calls of a run and of a transcript.    *)
(***************************************************************************)
EventsOver(calls) ==
    {Event(type) : type \in PlainEvents}
    \cup {ToolEvent(type, call) :
             type \in {"ToolExecStart", "ToolExecUpdate", "ToolExecEnd"}, call \in calls}
    \cup {DeltaEvent(type, delta) :
             type \in {"DeltaStart", "Delta", "DeltaEnd"}, delta \in Deltas}
    \cup {TurnEnd(done) : done \in SUBSET calls}

\* What is known of an event, and of a view.
EventType(calls) ==
    [type : PlainEvents \cup {"ToolExecStart", "ToolExecUpdate", "ToolExecEnd",
                              "DeltaStart", "Delta", "DeltaEnd", "TurnEnd"},
     calls : SUBSET calls, delta : Deltas \cup {"none"}]
ViewsOver(calls) ==
    [stage : {"idle", "between", "turn", "message"}, delta : Deltas \cup {"none"},
     executing : SUBSET calls, executed : SUBSET calls, compacting : BOOLEAN]
SoundView(calls, v) ==
    /\ v \in ViewsOver(calls)
    /\ v.delta # "none" => v.stage = "message"
    /\ v.executing \cup v.executed # {} => v.stage = "turn"
    /\ v.executing \cap v.executed = {}
    /\ v.compacting => v.stage \in {"idle", "between"}

LEMMA EventTyped ==
    ASSUME NEW calls, NEW e \in EventsOver(calls)
    PROVE  /\ e \in EventType(calls)
           /\ e.type \in {"DeltaStart", "Delta", "DeltaEnd"} => e.delta \in Deltas
<1>1. CASE e \in {Event(type) : type \in PlainEvents}
  <2>1. PICK type \in PlainEvents : e = [type |-> type, calls |-> {}, delta |-> "none"]
    BY <1>1 DEF Event
  <2> QED BY <2>1 DEF EventType, PlainEvents
<1>2. CASE e \in {ToolEvent(type, call) :
                     type \in {"ToolExecStart", "ToolExecUpdate", "ToolExecEnd"}, call \in calls}
  <2>1. PICK type \in {"ToolExecStart", "ToolExecUpdate", "ToolExecEnd"}, call \in calls :
            e = [type |-> type, calls |-> {call}, delta |-> "none"]
    BY <1>2 DEF ToolEvent
  <2>2. {call} \in SUBSET calls
    OBVIOUS
  <2> QED BY <2>1, <2>2 DEF EventType
<1>3. CASE e \in {DeltaEvent(type, delta) :
                     type \in {"DeltaStart", "Delta", "DeltaEnd"}, delta \in Deltas}
  <2>1. PICK type \in {"DeltaStart", "Delta", "DeltaEnd"}, delta \in Deltas :
            e = [type |-> type, calls |-> {}, delta |-> delta]
    BY <1>3 DEF DeltaEvent
  <2> QED BY <2>1 DEF EventType
<1>4. CASE e \in {TurnEnd(done) : done \in SUBSET calls}
  <2>1. PICK done \in SUBSET calls : e = [type |-> "TurnEnd", calls |-> done, delta |-> "none"]
    BY <1>4 DEF TurnEnd
  <2> QED BY <2>1 DEF EventType
<1> QED BY <1>1, <1>2, <1>3, <1>4 DEF EventsOver

LEMMA AtSound ==
    ASSUME NEW calls, NEW stage \in {"idle", "between", "turn", "message"}
    PROVE  SoundView(calls, At(stage))
BY DEF SoundView, ViewsOver, At, Outside

LEMMA OutsideSound == ASSUME NEW calls PROVE SoundView(calls, Outside)
BY DEF SoundView, ViewsOver, Outside

\* Every legal event keeps a view sound.
LEMMA AfterSound ==
    ASSUME NEW calls, NEW v, SoundView(calls, v), NEW e \in EventsOver(calls), Legal(v, e)
    PROVE  SoundView(calls, After(v, e))
<1>1. PICK w : w = After(v, e)
  OBVIOUS
<1>2. /\ e \in EventType(calls)
      /\ e.type \in {"DeltaStart", "Delta", "DeltaEnd"} => e.delta \in Deltas
  BY EventTyped
<1>3. v \in ViewsOver(calls)
  BY DEF SoundView
<1>4. CASE e.type = "AgentEnd"
  <2>1. w = Outside
    BY <1>1, <1>4 DEF After
  <2> QED BY <1>1, <2>1, OutsideSound
<1>5. CASE e.type \in {"AgentStart", "TurnEnd", "TurnStart", "MessageEnd", "MessageStart"}
  <2>1. \E stage \in {"between", "turn", "message"} : w = At(stage)
    BY <1>1, <1>5 DEF After
  <2> QED BY <1>1, <2>1, AtSound
<1>6. CASE e.type \in {"DeltaStart", "DeltaEnd"}
  <2>1. w = [v EXCEPT !.delta = w.delta] /\ w.delta \in Deltas \cup {"none"}
    BY <1>1, <1>2, <1>3, <1>6 DEF After, ViewsOver
  <2>2. e.type = "DeltaStart" => v.stage = "message"
    BY DEF Legal
  <2>3. ASSUME e.type = "DeltaEnd" PROVE v.stage = "message"
    <3>1. v.delta = e.delta
      BY <2>3 DEF Legal
    <3>2. v.delta # "none"
      BY <1>2, <2>3, <3>1 DEF Deltas
    <3> QED BY <3>2 DEF SoundView
  <2>4. v.stage = "message"
    BY <1>6, <2>2, <2>3
  <2> QED BY <1>1, <1>3, <2>1, <2>4 DEF SoundView, ViewsOver
<1>7. CASE e.type \in {"CompactionStart", "CompactionEnd"}
  <2>1. w = [v EXCEPT !.compacting = (e.type = "CompactionStart")]
    BY <1>1, <1>7 DEF After
  <2>2. e.type = "CompactionStart" => v.stage \in {"idle", "between"}
    BY DEF Legal
  <2> QED BY <1>1, <1>3, <2>1, <2>2 DEF SoundView, ViewsOver
<1>8. CASE e.type \in {"ToolExecStart", "ToolExecEnd"}
  <2>1. e.calls \subseteq calls
    BY <1>2 DEF EventType
  <2>2. CASE e.type = "ToolExecStart"
    <3>1. w = [v EXCEPT !.executing = @ \cup e.calls]
      BY <1>1, <2>2 DEF After
    <3>2. v.stage = "turn" /\ e.calls \cap (v.executing \cup v.executed) = {}
      BY <2>2 DEF Legal
    <3>3. PICK a : a = v.executing \cup e.calls
      OBVIOUS
    <3>4. a \in SUBSET calls /\ a \cap v.executed = {}
      BY <1>3, <2>1, <3>2, <3>3 DEF SoundView, ViewsOver
    <3>5. w = [v EXCEPT !.executing = a]
      BY <3>1, <3>3
    <3>6. w \in ViewsOver(calls)
      BY <1>3, <3>4, <3>5 DEF ViewsOver
    <3>7. w.stage = v.stage /\ w.delta = v.delta /\ w.compacting = v.compacting
          /\ w.executing = a /\ w.executed = v.executed
      BY <1>3, <3>5 DEF ViewsOver
    <3> QED BY <1>1, <3>2, <3>4, <3>6, <3>7 DEF SoundView
  <2>3. CASE e.type = "ToolExecEnd"
    <3>1. w = [v EXCEPT !.executing = @ \ e.calls, !.executed = @ \cup e.calls]
      BY <1>1, <2>3 DEF After
    <3>2. e.calls \subseteq v.executing
      BY <2>3 DEF Legal
    <3>3. PICK a, b : a = v.executing \ e.calls /\ b = v.executed \cup e.calls
      OBVIOUS
    <3>4. a \in SUBSET calls /\ b \in SUBSET calls /\ a \cap b = {}
          /\ (a \cup b # {} => v.executing \cup v.executed # {})
      BY <1>3, <2>1, <3>2, <3>3 DEF SoundView, ViewsOver
    <3>5. w = [v EXCEPT !.executing = a, !.executed = b]
      BY <3>1, <3>3
    <3>6. w \in ViewsOver(calls)
      BY <1>3, <3>4, <3>5 DEF ViewsOver
    <3>7. w.stage = v.stage /\ w.delta = v.delta /\ w.compacting = v.compacting
          /\ w.executing = a /\ w.executed = b
      BY <1>3, <3>5 DEF ViewsOver
    <3> QED BY <1>1, <3>4, <3>6, <3>7 DEF SoundView
  <2> QED BY <1>8, <2>2, <2>3
<1>9. CASE e.type \in {"Delta", "ToolCallDelta", "TranscriptReplace", "ToolExecUpdate"}
  <2>1. w = v
    BY <1>1, <1>9 DEF After
  <2> QED BY <1>1, <2>1
<1> QED BY <1>2, <1>4, <1>5, <1>6, <1>7, <1>8, <1>9 DEF EventType, PlainEvents

LEMMA NextViewOK == ASSUME ViewOK, EventsNext PROVE ViewOK'
<1>1. PICK e \in EventsOver(Calls) : Legal(view, e) /\ view' = After(view, e)
  BY DEF EventsNext, AgentEvent, EventsOver
<1>2. SoundView(Calls, view)
  BY DEF ViewOK, View, SoundView, ViewsOver
<1>3. SoundView(Calls, view')
  BY <1>1, <1>2, AfterSound
<1> QED BY <1>3 DEF ViewOK, View, SoundView, ViewsOver, Calls

LEMMA OutsideOK == EventsInit => ViewOK
<1>1. SoundView(Calls, Outside)
  BY OutsideSound
<1> QED BY <1>1 DEF EventsInit, ViewOK, View, SoundView, ViewsOver

\* Wherever the events have brought a reader, open text blocks are in a message and
\* tool executions in a turn, and no execution is both running and done.
THEOREM ReadersViewSound == EventsSpec => []ViewOK
<1>1. EventsInit => ViewOK
  BY OutsideOK
<1>2. ViewOK /\ [EventsNext]_view => ViewOK'
  BY NextViewOK DEF ViewOK
<1> QED BY <1>1, <1>2, PTL DEF EventsSpec

-----------------------------------------------------------------------------
(***************************************************************************)
(* Where the reader of the events is.                                      *)
(***************************************************************************)
Phases == {"model", "streaming", "follow_ups", "tools", "decide", "gate", "summarizing",
           "finished", "returned"}
Places == {"none", "waiting", "started", "running", "returned", "ended"}

Executing == {call \in ToolCalls : tools[call] \in {"started", "running", "returned"}}
Ended == {call \in ToolCalls : tools[call] = "ended"}

TurnWith(executing, executed) ==
    [Events!At("turn") EXCEPT !.executing = executing, !.executed = executed]
InTurn == TurnWith(Executing, Ended)
MessageWith(delta) == [Events!At("message") EXCEPT !.delta = delta]
InMessage == MessageWith(active_delta)
Compacting(v) == [v EXCEPT !.compacting = TRUE]

\* The view that the events of a phase lead to once all of them are sent.  Between
\* runs a failed summarizer may have left its CompactionStart without an end.
ViewDue(v) ==
    \/ phase = "returned" /\ v \in {Events!Outside, Compacting(Events!Outside)}
    \/ phase = "finished" /\ v = Events!Outside
    \/ phase = "model" /\ v = Events!At("turn")
    \/ phase = "streaming" /\ v = InMessage
    \/ phase = "tools" /\ v = InTurn
    \/ phase \in {"follow_ups", "decide", "gate"} /\ v = Events!At("between")
    \/ phase = "summarizing" /\ v = Compacting(Events!At("between"))

Stops == {Events!Outside, Compacting(Events!Outside), Events!At("turn"), InMessage, InTurn,
          Events!At("between"), Compacting(Events!At("between"))}

\* The events q may be read from v on and lead to w; no step sends more than four.
Leads0(v, q, w) == q = <<>> /\ v = w
Leads1(v, q, w) ==
    \/ Leads0(v, q, w)
    \/ /\ q # <<>> /\ Events!Legal(v, Head(q))
       /\ Leads0(Events!After(v, Head(q)), Tail(q), w)
Leads2(v, q, w) ==
    \/ Leads0(v, q, w)
    \/ /\ q # <<>> /\ Events!Legal(v, Head(q))
       /\ Leads1(Events!After(v, Head(q)), Tail(q), w)
Leads3(v, q, w) ==
    \/ Leads0(v, q, w)
    \/ /\ q # <<>> /\ Events!Legal(v, Head(q))
       /\ Leads2(Events!After(v, Head(q)), Tail(q), w)
Leads(v, q, w) ==
    \/ Leads0(v, q, w)
    \/ /\ q # <<>> /\ Events!Legal(v, Head(q))
       /\ Leads3(Events!After(v, Head(q)), Tail(q), w)

\* A block is open only in a stream, a partial result only of a tool that has
\* started: what the protocol needs to know of the rest of the state.
Shape ==
    /\ phase \in Phases
    /\ out \in Seq(Events!AgentEvent)
    /\ active_delta \in Events!Deltas \cup {"none"}
    /\ phase # "streaming" => active_delta = "none"
    /\ tools \in [ToolCalls -> Places]
    /\ partials \subseteq {call \in ToolCalls : tools[call] \in {"running", "returned"}}
    /\ phase # "tools" => partials = {}

\* The reader is on its way to where the phase says, over events it may be sent.
OnItsWay == \E v \in Stops : ViewDue(v) /\ Leads(shown, out, v)

EventInv == Shape /\ OnItsWay

-----------------------------------------------------------------------------
(***************************************************************************)
(* Single moves of the reader.                                             *)
(***************************************************************************)
Goes(v, e, w) == Events!Legal(v, e) /\ w = Events!After(v, e)

\* What an event is called, and that it is one.
LEMMA PlainEvent ==
    ASSUME NEW type \in Events!PlainEvents
    PROVE  Events!Event(type) \in Events!AgentEvent /\ Events!Event(type).type = type
BY DEF Events!AgentEvent, Events!Event

LEMMA CallEvent ==
    ASSUME NEW type \in {"ToolExecStart", "ToolExecUpdate", "ToolExecEnd"},
           NEW call \in ToolCalls
    PROVE  /\ Events!ToolEvent(type, call) \in Events!AgentEvent
           /\ Events!ToolEvent(type, call).type = type
           /\ Events!ToolEvent(type, call).calls = {call}
<1>1. call \in Events!Calls
  BY DEF Events!Calls, ToolCalls
<1>2. Events!ToolEvent(type, call) \in Events!AgentEvent
  BY <1>1 DEF Events!AgentEvent
<1> QED BY <1>2 DEF Events!ToolEvent

LEMMA BlockEvent ==
    ASSUME NEW type \in {"DeltaStart", "Delta", "DeltaEnd"}, NEW delta \in Events!Deltas
    PROVE  /\ Events!DeltaEvent(type, delta) \in Events!AgentEvent
           /\ Events!DeltaEvent(type, delta).type = type
           /\ Events!DeltaEvent(type, delta).delta = delta
<1>1. Events!DeltaEvent(type, delta) \in Events!AgentEvent
  BY DEF Events!AgentEvent
<1> QED BY <1>1 DEF Events!DeltaEvent

LEMMA TurnEvent ==
    ASSUME NEW calls \in SUBSET ToolCalls
    PROVE  /\ Events!TurnEnd(calls) \in Events!AgentEvent
           /\ Events!TurnEnd(calls).type = "TurnEnd" /\ Events!TurnEnd(calls).calls = calls
BY DEF Events!AgentEvent, Events!TurnEnd, Events!Calls, ToolCalls

\* An event of a type leads where Legal and After say of that type.
LEMMA Started == ASSUME NEW v, v.stage = "idle"
                 PROVE  Goes(v, Events!Event("AgentStart"), Events!At("between"))
BY DEF Goes, Events!Legal, Events!After, Events!Event

LEMMA TurnBegun == ASSUME NEW v, v.stage = "between"
                   PROVE  Goes(v, Events!Event("TurnStart"), Events!At("turn"))
BY DEF Goes, Events!Legal, Events!After, Events!Event

LEMMA RunOver == ASSUME NEW v, v.stage = "between"
                 PROVE  Goes(v, Events!Event("AgentEnd"), Events!Outside)
BY DEF Goes, Events!Legal, Events!After, Events!Event

LEMMA MessageBegun == ASSUME NEW v, v.stage = "turn", v.executing = {}, v.executed = {}
                      PROVE  Goes(v, Events!Event("MessageStart"), Events!At("message"))
BY DEF Goes, Events!Legal, Events!After, Events!Event

LEMMA MessageOver == ASSUME NEW v, v.stage = "message", v.delta = "none"
                     PROVE  Goes(v, Events!Event("MessageEnd"), Events!At("turn"))
BY DEF Goes, Events!Legal, Events!After, Events!Event

LEMMA CompactionBegun == ASSUME NEW v, v.stage \in {"idle", "between"}
                         PROVE  Goes(v, Events!Event("CompactionStart"), Compacting(v))
BY DEF Goes, Events!Legal, Events!After, Events!Event, Compacting

LEMMA CompactionOver ==
    ASSUME NEW v, v.compacting
    PROVE  Goes(v, Events!Event("CompactionEnd"), [v EXCEPT !.compacting = FALSE])
BY DEF Goes, Events!Legal, Events!After, Events!Event

LEMMA Replaced == ASSUME NEW v, v.stage \in {"idle", "between"}
                  PROVE  Goes(v, Events!Event("TranscriptReplace"), v)
BY DEF Goes, Events!Legal, Events!After, Events!Event

LEMMA CallBuilt == ASSUME NEW v, v.stage = "message"
                   PROVE  Goes(v, Events!Event("ToolCallDelta"), v)
BY DEF Goes, Events!Legal, Events!After, Events!Event

\* The views, field by field.
LEMMA OutsideIs ==
    Events!Outside = [stage |-> "idle", delta |-> "none", executing |-> {},
                      executed |-> {}, compacting |-> FALSE]
BY DEF Events!Outside

LEMMA AtIs ==
    ASSUME NEW stage
    PROVE  Events!At(stage) = [stage |-> stage, delta |-> "none", executing |-> {},
                               executed |-> {}, compacting |-> FALSE]
<1>1. Events!At(stage) \in [stage : {stage}, delta : {"none"}, executing : {{}},
                            executed : {{}}, compacting : {FALSE}]
  BY DEF Events!At, Events!Outside
<1> QED BY <1>1

LEMMA CompactingIs ==
    ASSUME NEW stage
    PROVE  /\ Compacting(Events!At(stage)) =
                 [stage |-> stage, delta |-> "none", executing |-> {},
                  executed |-> {}, compacting |-> TRUE]
           /\ Compacting(Events!At(stage)) \in [stage : {stage}, delta : {"none"}, executing : {{}},
                                               executed : {{}}, compacting : {TRUE}]
<1>1. Compacting(Events!At(stage)) \in [stage : {stage}, delta : {"none"}, executing : {{}},
                                        executed : {{}}, compacting : {TRUE}]
  BY AtIs DEF Compacting
<1> QED BY <1>1

LEMMA CompactingOutsideIs ==
    Compacting(Events!Outside) = [stage |-> "idle", delta |-> "none", executing |-> {},
                                  executed |-> {}, compacting |-> TRUE]
<1>1. Compacting(Events!Outside) \in [stage : {"idle"}, delta : {"none"}, executing : {{}},
                                      executed : {{}}, compacting : {TRUE}]
  BY DEF Compacting, Events!Outside
<1> QED BY <1>1

LEMMA MessageIs ==
    ASSUME NEW delta
    PROVE  MessageWith(delta) = [stage |-> "message", delta |-> delta, executing |-> {},
                                 executed |-> {}, compacting |-> FALSE]
<1>1. MessageWith(delta) \in [stage : {"message"}, delta : {delta}, executing : {{}},
                              executed : {{}}, compacting : {FALSE}]
  BY AtIs DEF MessageWith
<1> QED BY <1>1

LEMMA TurnIs ==
    ASSUME NEW x, NEW y
    PROVE  /\ TurnWith(x, y).stage = "turn" /\ TurnWith(x, y).delta = "none"
           /\ TurnWith(x, y).executing = x /\ TurnWith(x, y).executed = y
BY AtIs DEF TurnWith

LEMMA NoCalls == TurnWith({}, {}) = Events!At("turn")
<1>1. TurnWith({}, {}) \in [stage : {"turn"}, delta : {"none"}, executing : {{}},
                            executed : {{}}, compacting : {FALSE}]
  BY AtIs DEF TurnWith
<1> QED BY <1>1, AtIs

\* What closing a block or a compaction leaves.
LEMMA NoBlock == MessageWith("none") = Events!At("message")
BY AtIs, MessageIs

LEMMA BlockClosed ==
    ASSUME NEW v, NEW x, NEW y
    PROVE  [[v EXCEPT !.delta = x] EXCEPT !.delta = y] = [v EXCEPT !.delta = y]
OBVIOUS

LEMMA CompactionClosed ==
    ASSUME NEW stage,
           NEW v \in [stage : {stage}, delta : {"none"}, executing : {{}}, executed : {{}},
                      compacting : {TRUE}]
    PROVE  [v EXCEPT !.compacting = FALSE] = Events!At(stage)
<1>1. [v EXCEPT !.compacting = FALSE] \in [stage : {stage}, delta : {"none"}, executing : {{}},
                                           executed : {{}}, compacting : {FALSE}]
  OBVIOUS
<1> QED BY <1>1, AtIs

\* The moves between turns and in a turn without tools.
LEMMA RunMoves ==
    /\ \A v \in {Events!Outside, Compacting(Events!Outside)} :
          /\ Goes(v, Events!Event("AgentStart"), Events!At("between"))
          /\ Goes(v, Events!Event("CompactionStart"), Compacting(Events!Outside))
    /\ \A v \in {Events!At("between"), Compacting(Events!At("between"))} :
          Goes(v, Events!Event("TurnStart"), Events!At("turn"))
    /\ Goes(Events!At("turn"), Events!Event("MessageStart"), Events!At("message"))
    /\ Goes(Events!At("message"), Events!Event("MessageEnd"), Events!At("turn"))
    /\ Goes(Events!At("turn"), Events!TurnEnd({}), Events!At("between"))
    /\ Goes(Events!At("between"), Events!Event("AgentEnd"), Events!Outside)
<1>1. ASSUME NEW v \in {Events!Outside, Compacting(Events!Outside)}
      PROVE  /\ Goes(v, Events!Event("AgentStart"), Events!At("between"))
             /\ Goes(v, Events!Event("CompactionStart"), Compacting(Events!Outside))
  <2>1. v.stage = "idle"
    BY OutsideIs, CompactingOutsideIs
  <2>2. Compacting(v) = Compacting(Events!Outside)
    BY OutsideIs, CompactingOutsideIs DEF Compacting
  <2> QED BY <2>1, <2>2, Started, CompactionBegun
<1>2. ASSUME NEW v \in {Events!At("between"), Compacting(Events!At("between"))}
      PROVE  Goes(v, Events!Event("TurnStart"), Events!At("turn"))
  <2>1. Events!At("between").stage = "between"
    BY AtIs
  <2>2. Compacting(Events!At("between")).stage = "between"
    BY CompactingIs
  <2> QED BY <2>1, <2>2, TurnBegun
<1>3. Goes(Events!At("turn"), Events!Event("MessageStart"), Events!At("message"))
  BY AtIs, MessageBegun
<1>4. Goes(Events!At("message"), Events!Event("MessageEnd"), Events!At("turn"))
  BY AtIs, MessageOver
<1>5. Goes(Events!At("turn"), Events!TurnEnd({}), Events!At("between"))
  BY AtIs DEF Goes, Events!Legal, Events!After, Events!TurnEnd
<1>6. Goes(Events!At("between"), Events!Event("AgentEnd"), Events!Outside)
  BY AtIs, RunOver
<1> QED BY <1>1, <1>2, <1>3, <1>4, <1>5, <1>6

LEMMA CompactionMoves ==
    /\ Goes(Events!At("between"), Events!Event("CompactionStart"),
            Compacting(Events!At("between")))
    /\ Goes(Compacting(Events!Outside), Events!Event("CompactionEnd"), Events!Outside)
    /\ Goes(Compacting(Events!At("between")), Events!Event("CompactionEnd"),
            Events!At("between"))
    /\ Goes(Events!At("between"), Events!Event("TranscriptReplace"), Events!At("between"))
<1>1. Goes(Events!At("between"), Events!Event("CompactionStart"),
           Compacting(Events!At("between")))
  BY AtIs, CompactionBegun
<1>2. Goes(Compacting(Events!Outside), Events!Event("CompactionEnd"), Events!Outside)
  <2>1. Compacting(Events!Outside) \in [stage : {"idle"}, delta : {"none"}, executing : {{}},
                                         executed : {{}}, compacting : {TRUE}]
    BY CompactingOutsideIs
  <2>2. [Compacting(Events!Outside) EXCEPT !.compacting = FALSE] = Events!Outside
    <3>1. Events!Outside = Events!At("idle")
      BY OutsideIs, AtIs
    <3> QED BY <2>1, <3>1, CompactionClosed
  <2> QED BY <2>2, CompactingOutsideIs, CompactionOver
<1>3. Goes(Compacting(Events!At("between")), Events!Event("CompactionEnd"),
           Events!At("between"))
  <2>1. [Compacting(Events!At("between")) EXCEPT !.compacting = FALSE] = Events!At("between")
    <3>1. Compacting(Events!At("between"))
             \in [stage : {"between"}, delta : {"none"}, executing : {{}}, executed : {{}},
                 compacting : {TRUE}]
      BY CompactingIs
    <3> QED BY <3>1, CompactionClosed
  <2>2. Compacting(Events!At("between")).compacting
    BY CompactingIs
  <2> QED BY <2>1, <2>2, CompactionOver
<1>4. Goes(Events!At("between"), Events!Event("TranscriptReplace"), Events!At("between"))
  BY AtIs, Replaced
<1> QED BY <1>1, <1>2, <1>3, <1>4

\* The moves inside a message.
LEMMA MessageMoves ==
    ASSUME NEW delta \in Events!Deltas
    PROVE  /\ Goes(Events!At("message"), Events!DeltaEvent("DeltaStart", delta),
                   MessageWith(delta))
           /\ Goes(MessageWith(delta), Events!DeltaEvent("Delta", delta), MessageWith(delta))
           /\ Goes(MessageWith(delta), Events!DeltaEvent("DeltaEnd", delta),
                   Events!At("message"))
<1>1. Goes(Events!At("message"), Events!DeltaEvent("DeltaStart", delta), MessageWith(delta))
  BY AtIs DEF Goes, Events!Legal, Events!After, MessageWith, Events!DeltaEvent
<1>2. Goes(MessageWith(delta), Events!DeltaEvent("Delta", delta), MessageWith(delta))
  BY MessageIs DEF Goes, Events!Legal, Events!After, Events!DeltaEvent
<1>3. [MessageWith(delta) EXCEPT !.delta = "none"] = Events!At("message")
  BY BlockClosed, NoBlock DEF MessageWith
<1>4. Goes(MessageWith(delta), Events!DeltaEvent("DeltaEnd", delta), Events!At("message"))
  BY <1>3, MessageIs DEF Goes, Events!Legal, Events!After, Events!DeltaEvent
<1> QED BY <1>1, <1>2, <1>4

LEMMA CallDeltaMoves ==
    ASSUME NEW delta
    PROVE  Goes(MessageWith(delta), Events!Event("ToolCallDelta"), MessageWith(delta))
<1>1. MessageWith(delta).stage = "message"
  BY MessageIs
<1> QED BY <1>1, CallBuilt

\* The moves of a turn's tool executions.
LEMMA Overwritten ==
    ASSUME NEW v, NEW x, NEW y, NEW z
    PROVE  [[[v EXCEPT !.executing = x] EXCEPT !.executed = y] EXCEPT !.executing = z]
              = [[v EXCEPT !.executing = z] EXCEPT !.executed = y]
OBVIOUS

LEMMA OverwrittenBoth ==
    ASSUME NEW v, NEW x, NEW y, NEW z, NEW w
    PROVE  [[[[v EXCEPT !.executing = x] EXCEPT !.executed = y] EXCEPT !.executing = z]
               EXCEPT !.executed = w]
              = [[v EXCEPT !.executing = z] EXCEPT !.executed = w]
OBVIOUS

LEMMA ToolMoves ==
    ASSUME NEW call \in ToolCalls, NEW x, NEW y
    PROVE  /\ call \notin x \cup y =>
                 Goes(TurnWith(x, y), Events!ToolEvent("ToolExecStart", call),
                      TurnWith(x \cup {call}, y))
           /\ call \in x =>
                 /\ Goes(TurnWith(x, y), Events!ToolEvent("ToolExecUpdate", call),
                         TurnWith(x, y))
                 /\ Goes(TurnWith(x, y), Events!ToolEvent("ToolExecEnd", call),
                         TurnWith(x \ {call}, y \cup {call}))
<1> DEFINE v == TurnWith(x, y)
<1>1. v.stage = "turn" /\ v.executing = x /\ v.executed = y
  BY TurnIs
<1>2. [v EXCEPT !.executing = x \cup {call}] = TurnWith(x \cup {call}, y)
  BY Overwritten DEF TurnWith
<1>3. [v EXCEPT !.executing = x \ {call}, !.executed = y \cup {call}]
         = TurnWith(x \ {call}, y \cup {call})
  BY OverwrittenBoth DEF TurnWith
<1> HIDE DEF v
<1>4. ASSUME call \notin x \cup y
      PROVE  Goes(v, Events!ToolEvent("ToolExecStart", call), TurnWith(x \cup {call}, y))
  <2> DEFINE e == Events!ToolEvent("ToolExecStart", call)
  <2>1. e.type = "ToolExecStart" /\ e.calls = {call}
    BY CallEvent
  <2> HIDE DEF e
  <2>2. Events!Legal(v, e)
    BY <1>1, <1>4, <2>1 DEF Events!Legal
  <2>3. Events!After(v, e) = [v EXCEPT !.executing = x \cup {call}]
    BY <1>1, <2>1 DEF Events!After
  <2>4. Goes(v, e, TurnWith(x \cup {call}, y))
    BY <1>2, <2>2, <2>3 DEF Goes
  <2> QED BY <2>4 DEF e
<1>5. ASSUME call \in x
      PROVE  Goes(v, Events!ToolEvent("ToolExecUpdate", call), v)
  <2> DEFINE e == Events!ToolEvent("ToolExecUpdate", call)
  <2>1. e.type = "ToolExecUpdate" /\ e.calls = {call}
    BY CallEvent
  <2> HIDE DEF e
  <2>2. Goes(v, e, v)
    BY <1>1, <1>5, <2>1 DEF Goes, Events!Legal, Events!After
  <2> QED BY <2>2 DEF e
<1>6. ASSUME call \in x
      PROVE  Goes(v, Events!ToolEvent("ToolExecEnd", call),
                  TurnWith(x \ {call}, y \cup {call}))
  <2> DEFINE e == Events!ToolEvent("ToolExecEnd", call)
  <2>1. e.type = "ToolExecEnd" /\ e.calls = {call}
    BY CallEvent
  <2> HIDE DEF e
  <2>2. Events!Legal(v, e)
    BY <1>1, <1>6, <2>1 DEF Events!Legal
  <2>3. Events!After(v, e) = [v EXCEPT !.executing = x \ {call}, !.executed = y \cup {call}]
    BY <1>1, <2>1 DEF Events!After
  <2>4. Goes(v, e, TurnWith(x \ {call}, y \cup {call}))
    BY <1>3, <2>2, <2>3 DEF Goes
  <2> QED BY <2>4 DEF e
<1> QED BY <1>4, <1>5, <1>6 DEF v

LEMMA TurnOver ==
    ASSUME NEW y \in SUBSET ToolCalls
    PROVE  Goes(TurnWith({}, y), Events!TurnEnd(y), Events!At("between"))
BY TurnIs, TurnEvent DEF Goes, Events!Legal, Events!After

-----------------------------------------------------------------------------
(***************************************************************************)
(* Several moves.                                                          *)
(***************************************************************************)
LEMMA LeadsNone == ASSUME NEW v PROVE Leads(v, <<>>, v)
BY DEF Leads, Leads0

LEMMA LeadsOne ==
    ASSUME NEW u, NEW a, NEW v, Goes(u, a, v) PROVE Leads(u, <<a>>, v)
BY DEF Leads, Leads3, Leads0, Goes

LEMMA LeadsTwo ==
    ASSUME NEW u, NEW a, NEW v, NEW b, NEW w, Goes(u, a, v), Goes(v, b, w)
    PROVE  Leads(u, <<a, b>>, w)
<1>1. Leads2(v, <<b>>, w) /\ Leads3(v, <<b>>, w)
  BY DEF Leads3, Leads2, Leads1, Leads0, Goes
<1> QED BY <1>1 DEF Leads, Goes

LEMMA LeadsThree ==
    ASSUME NEW u, NEW a, NEW v, NEW b, NEW w, NEW c, NEW x,
           Goes(u, a, v), Goes(v, b, w), Goes(w, c, x)
    PROVE  Leads(u, <<a, b, c>>, x)
<1>1. Leads2(w, <<c>>, x) /\ Leads1(w, <<c>>, x)
  BY DEF Leads2, Leads1, Leads0, Goes
<1>2. Leads3(v, <<b, c>>, x)
  BY <1>1 DEF Leads3, Goes
<1> QED BY <1>2 DEF Leads, Goes

LEMMA LeadsFour ==
    ASSUME NEW u, NEW a, NEW v, NEW b, NEW w, NEW c, NEW x, NEW d, NEW y,
           Goes(u, a, v), Goes(v, b, w), Goes(w, c, x), Goes(x, d, y)
    PROVE  Leads(u, <<a, b, c, d>>, y)
<1>1. Leads1(x, <<d>>, y)
  BY DEF Leads1, Leads0, Goes
<1>2. Leads2(w, <<c, d>>, y)
  BY <1>1 DEF Leads2, Goes
<1>3. Leads3(v, <<b, c, d>>, y)
  BY <1>2 DEF Leads3, Goes
<1> QED BY <1>3 DEF Leads, Goes

\* One event less to read.
LEMMA LeadsOn ==
    ASSUME NEW u, NEW q, q # <<>>, NEW w, Leads(u, q, w)
    PROVE  /\ Events!Legal(u, Head(q))
           /\ Leads(Events!After(u, Head(q)), Tail(q), w)
BY DEF Leads, Leads3, Leads2, Leads1, Leads0

\* When nothing is left to be read the reader has arrived.
LEMMA Arrived == ASSUME OnItsWay, out = <<>> PROVE ViewDue(shown)
BY DEF OnItsWay, Leads, Leads0

LEMMA Stands ==
    ASSUME OnItsWay, out = <<>>
    PROVE  /\ phase = "returned" => shown \in {Events!Outside, Compacting(Events!Outside)}
           /\ phase = "finished" => shown = Events!Outside
           /\ phase = "model" => shown = Events!At("turn")
           /\ phase = "streaming" => shown = InMessage
           /\ phase = "tools" => shown = InTurn
           /\ phase \in {"follow_ups", "decide", "gate"} => shown = Events!At("between")
           /\ phase = "summarizing" => shown = Compacting(Events!At("between"))
BY Arrived DEF ViewDue

-----------------------------------------------------------------------------
(***************************************************************************)
(* The steps.                                                              *)
(***************************************************************************)
\* Reading the next event is a move of the protocol, and on the way.
LEMMA SendMoves == ASSUME EventInv, Send PROVE EventInv' /\ Events!EventsNext
<1>1. PICK v \in Stops : ViewDue(v) /\ Leads(shown, out, v)
  BY DEF EventInv, OnItsWay
<1>2. out # <<>> /\ out \in Seq(Events!AgentEvent) /\ out' = Tail(out)
  BY DEF EventInv, Shape, Send
<1>3. Events!Legal(shown, Head(out)) /\ Leads(Events!After(shown, Head(out)), Tail(out), v)
  BY <1>1, <1>2, LeadsOn
<1>4. shown' = Events!After(shown, Head(out))
  BY <1>3 DEF Send, Read
<1>5. Head(out) \in Events!AgentEvent /\ Tail(out) \in Seq(Events!AgentEvent)
  BY <1>2
<1>6. Events!EventsNext
  BY <1>3, <1>4, <1>5 DEF Events!EventsNext
<1>7. UNCHANGED <<phase, active_delta, tools, partials>>
  BY DEF Send, streamVars, toolVars
<1>8. Shape'
  BY <1>2, <1>5, <1>7 DEF EventInv, Shape
<1>9. InMessage' = InMessage /\ InTurn' = InTurn
  BY <1>7 DEF InMessage, InTurn, Executing, Ended
<1>10. v \in Stops' /\ ViewDue(v)'
  BY <1>1, <1>7, <1>9 DEF Stops, ViewDue
<1>11. Leads(shown', out', v)
  BY <1>2, <1>3, <1>4
<1>12. OnItsWay'
  BY <1>10, <1>11 DEF OnItsWay
<1> QED BY <1>6, <1>8, <1>12 DEF EventInv

\* A phase whose view is always the same is a destination.
LEMMA Destination ==
    ASSUME NEW v, Leads(shown', out', v),
           \/ phase' = "model" /\ v = Events!At("turn")
           \/ phase' \in {"follow_ups", "decide", "gate"} /\ v = Events!At("between")
           \/ phase' = "summarizing" /\ v = Compacting(Events!At("between"))
           \/ phase' = "finished" /\ v = Events!Outside
           \/ phase' = "returned" /\ v \in {Events!Outside, Compacting(Events!Outside)}
    PROVE  OnItsWay'
BY DEF OnItsWay, Stops, ViewDue

\* A step that leaves blocks, tools and partial results alone keeps the shape.
LEMMA ShapeKept ==
    ASSUME Shape, UNCHANGED <<active_delta, tools, partials>>, active_delta = "none",
           partials = {}, phase' \in Phases, out' \in Seq(Events!AgentEvent)
    PROVE  Shape'
BY DEF Shape

LEMMA RunEvents ==
    {Events!Event("AgentStart"), Events!Event("AgentEnd"), Events!Event("TurnStart"),
     Events!Event("MessageStart"), Events!Event("MessageEnd"), Events!Event("ToolCallDelta"),
     Events!Event("TranscriptReplace"), Events!Event("CompactionStart"),
     Events!Event("CompactionEnd")} \subseteq Events!AgentEvent
BY PlainEvent DEF Events!PlainEvents

LEMMA SameSequence ==
    ASSUME NEW S, NEW s \in Seq(S), NEW t \in Seq(S), Len(s) = Len(t),
           \A i \in 1..Len(s) : s[i] = t[i]
    PROVE  s = t
OBVIOUS

LEMMA JoinTwoTwo == ASSUME NEW a, NEW b, NEW c, NEW d PROVE <<a, b>> \o <<c, d>> = <<a, b, c, d>>
<1> DEFINE l == <<a, b>> \o <<c, d>>
           r == <<a, b, c, d>>
<1>1. l \in Seq({a, b, c, d}) /\ r \in Seq({a, b, c, d}) /\ Len(l) = 4 /\ Len(r) = 4
  OBVIOUS
<1>2. l[1] = r[1] /\ l[2] = r[2] /\ l[3] = r[3] /\ l[4] = r[4]
  OBVIOUS
<1> HIDE DEF l, r
<1>3. l = r
  BY <1>1, <1>2, SameSequence
<1> QED BY <1>3 DEF l, r

LEMMA JoinTwoOne == ASSUME NEW a, NEW b, NEW c PROVE <<a, b>> \o <<c>> = <<a, b, c>>
<1> DEFINE l == <<a, b>> \o <<c>>
           r == <<a, b, c>>
<1>1. l \in Seq({a, b, c}) /\ r \in Seq({a, b, c}) /\ Len(l) = 3 /\ Len(r) = 3
  OBVIOUS
<1>2. l[1] = r[1] /\ l[2] = r[2] /\ l[3] = r[3]
  OBVIOUS
<1> HIDE DEF l, r
<1>3. l = r
  BY <1>1, <1>2, SameSequence
<1> QED BY <1>3 DEF l, r

LEMMA JoinOneTwo == ASSUME NEW a, NEW b, NEW c PROVE <<a>> \o <<b, c>> = <<a, b, c>>
<1> DEFINE l == <<a>> \o <<b, c>>
           r == <<a, b, c>>
<1>1. l \in Seq({a, b, c}) /\ r \in Seq({a, b, c}) /\ Len(l) = 3 /\ Len(r) = 3
  OBVIOUS
<1>2. l[1] = r[1] /\ l[2] = r[2] /\ l[3] = r[3]
  OBVIOUS
<1> HIDE DEF l, r
<1>3. l = r
  BY <1>1, <1>2, SameSequence
<1> QED BY <1>3 DEF l, r

LEMMA JoinOneThree == ASSUME NEW a, NEW b, NEW c, NEW d PROVE <<a>> \o <<b, c, d>> = <<a, b, c, d>>
<1> DEFINE l == <<a>> \o <<b, c, d>>
           r == <<a, b, c, d>>
<1>1. l \in Seq({a, b, c, d}) /\ r \in Seq({a, b, c, d}) /\ Len(l) = 4 /\ Len(r) = 4
  OBVIOUS
<1>2. l[1] = r[1] /\ l[2] = r[2] /\ l[3] = r[3] /\ l[4] = r[4]
  OBVIOUS
<1> HIDE DEF l, r
<1>3. l = r
  BY <1>1, <1>2, SameSequence
<1> QED BY <1>3 DEF l, r

LEMMA JoinOneOne == ASSUME NEW a, NEW b PROVE <<a>> \o <<b>> = <<a, b>>
<1> DEFINE l == <<a>> \o <<b>>
           r == <<a, b>>
<1>1. l \in Seq({a, b}) /\ r \in Seq({a, b}) /\ Len(l) = 2 /\ Len(r) = 2
  OBVIOUS
<1>2. l[1] = r[1] /\ l[2] = r[2]
  OBVIOUS
<1> HIDE DEF l, r
<1>3. l = r
  BY <1>1, <1>2, SameSequence
<1> QED BY <1>3 DEF l, r

LEMMA AppendToOne == ASSUME NEW a, NEW b PROVE Append(<<a>>, b) = <<a, b>>
<1> DEFINE l == Append(<<a>>, b)
           r == <<a, b>>
<1>1. l \in Seq({a, b}) /\ r \in Seq({a, b}) /\ Len(l) = 2 /\ Len(r) = 2
  OBVIOUS
<1>2. l[1] = r[1] /\ l[2] = r[2]
  OBVIOUS
<1> HIDE DEF l, r
<1>3. l = r
  BY <1>1, <1>2, SameSequence
<1> QED BY <1>3 DEF l, r

LEMMA ShortSequences ==
    ASSUME NEW S
    PROVE  /\ <<>> \in Seq(S) /\ \A a \in S : <<a>> \in Seq(S)
           /\ \A a, b \in S : <<a, b>> \in Seq(S)
           /\ \A a, b, c \in S : <<a, b, c>> \in Seq(S)
           /\ \A a, b, c, d \in S : <<a, b, c, d>> \in Seq(S)
OBVIOUS

LEMMA RunStarts ==
    ASSUME EventInv, NEW prompts, StartRun(prompts) PROVE EventInv' /\ shown' = shown
<1>1. shown \in {Events!Outside, Compacting(Events!Outside)} /\ shown' = shown
  BY Stands DEF EventInv, StartRun
<1>2. \/ out' = <<Events!Event("AgentStart"), Events!Event("TurnStart")>>
      \/ out' = <<Events!Event("AgentStart"), Events!Event("TurnStart"),
                  Events!Event("MessageStart"), Events!Event("MessageEnd")>>
  <2> DEFINE a == Events!Event("AgentStart")
             b == Events!Event("TurnStart")
             c == Events!Event("MessageStart")
             d == Events!Event("MessageEnd")
  <2>1. <<a, b>> \o <<>> = <<a, b>> /\ <<a, b>> \o <<c, d>> = <<a, b, c, d>>
    <3> HIDE DEF a, b, c, d
    <3>1. <<a, b>> \o <<>> = <<a, b>>
      OBVIOUS
    <3> QED BY <3>1, JoinTwoTwo
  <2>2. out' = <<a, b>> \o (IF prompts = <<>> THEN <<>> ELSE <<c, d>>)
    BY DEF StartRun
  <2> QED BY <2>1, <2>2
<1>3. /\ Goes(shown, Events!Event("AgentStart"), Events!At("between"))
      /\ Goes(Events!At("between"), Events!Event("TurnStart"), Events!At("turn"))
      /\ Goes(Events!At("turn"), Events!Event("MessageStart"), Events!At("message"))
      /\ Goes(Events!At("message"), Events!Event("MessageEnd"), Events!At("turn"))
  BY <1>1, RunMoves
<1>4. Leads(shown, out', Events!At("turn"))
  BY <1>2, <1>3, LeadsTwo, LeadsFour
<1>5. OnItsWay'
  BY <1>1, <1>4, Destination DEF StartRun
<1>6. out' \in Seq(Events!AgentEvent)
  <2>1. /\ Events!Event("AgentStart") \in Events!AgentEvent
        /\ Events!Event("TurnStart") \in Events!AgentEvent
        /\ Events!Event("MessageStart") \in Events!AgentEvent
        /\ Events!Event("MessageEnd") \in Events!AgentEvent
    BY RunEvents
  <2> QED BY <1>2, <2>1, ShortSequences
<1>7. Shape'
  BY <1>6, ShapeKept DEF EventInv, Shape, StartRun, Phases, streamVars, toolVars
<1> QED BY <1>1, <1>5, <1>7 DEF EventInv

LEMMA SessionCompactsMoves ==
    ASSUME EventInv, SessionCompacts PROVE EventInv' /\ shown' = shown
<1>1. /\ shown \in {Events!Outside, Compacting(Events!Outside)} /\ shown' = shown
      /\ phase = "returned" /\ phase' = "returned"
  BY Stands DEF EventInv, SessionCompacts, Step
<1>2. \/ out' = <<Events!Event("CompactionStart")>>
      \/ out' = <<Events!Event("CompactionStart"), Events!Event("CompactionEnd")>>
  BY DEF SessionCompacts
<1>3. /\ Goes(shown, Events!Event("CompactionStart"), Compacting(Events!Outside))
      /\ Goes(Compacting(Events!Outside), Events!Event("CompactionEnd"), Events!Outside)
  BY <1>1, RunMoves, CompactionMoves
<1>4. \/ Leads(shown', out', Events!Outside)
      \/ Leads(shown', out', Compacting(Events!Outside))
  BY <1>1, <1>2, <1>3, LeadsOne, LeadsTwo
<1>5. OnItsWay'
  BY <1>1, <1>4, Destination
<1>6. out' \in Seq(Events!AgentEvent)
  BY <1>2, RunEvents, ShortSequences
<1>7. Shape'
  BY <1>1, <1>6, ShapeKept DEF EventInv, Shape, SessionCompacts, streamVars, toolVars
<1> QED BY <1>1, <1>5, <1>7 DEF EventInv

\* Steps that queue nothing and change no view.
LEMMA ReturnMoves == ASSUME EventInv, Return PROVE EventInv' /\ shown' = shown
<1>1. /\ shown = Events!Outside /\ shown' = shown /\ out = <<>> /\ out' = out
      /\ phase' = "returned" /\ phase = "finished"
  BY Stands DEF EventInv, Return, Step
<1>2. OnItsWay'
  BY <1>1, LeadsNone, Destination
<1>3. Shape'
  BY <1>1, ShapeKept DEF EventInv, Shape, Return, Phases, streamVars, toolVars
<1> QED BY <1>1, <1>2, <1>3 DEF EventInv

LEMMA CancelMoves == ASSUME EventInv, Cancel PROVE EventInv' /\ shown' = shown
<1>1. UNCHANGED <<shown, phase, out, active_delta, tools, partials>>
  BY DEF Cancel, streamVars, toolVars
<1>2. InMessage' = InMessage /\ InTurn' = InTurn
  BY <1>1 DEF InMessage, InTurn, Executing, Ended
<1>3. PICK v \in Stops : ViewDue(v) /\ Leads(shown, out, v)
  BY DEF EventInv, OnItsWay
<1>4. OnItsWay'
  BY <1>1, <1>2, <1>3 DEF OnItsWay, Stops, ViewDue
<1>5. Shape'
  BY <1>1 DEF EventInv, Shape
<1> QED BY <1>1, <1>4, <1>5 DEF EventInv

-----------------------------------------------------------------------------
LEMMA PreflightMoves == ASSUME EventInv, PreflightFails PROVE EventInv' /\ shown' = shown
<1>1. /\ shown = Events!At("turn") /\ shown' = shown
      /\ phase' = "finished" /\ phase = "model"
  BY Stands DEF EventInv, PreflightFails, Step
<1>2. out' = <<Events!Event("MessageStart"), Events!Event("MessageEnd"),
               Events!TurnEnd({}), Events!Event("AgentEnd")>>
  BY DEF PreflightFails
<1>3. Leads(shown', out', Events!Outside)
  BY <1>1, <1>2, RunMoves, LeadsFour
<1>4. OnItsWay'
  BY <1>1, <1>3, Destination
<1>5. out' \in Seq(Events!AgentEvent)
  BY <1>2, RunEvents, TurnEvent
<1>6. Shape'
  BY <1>1, <1>5, ShapeKept DEF EventInv, Shape, PreflightFails, Phases, streamVars, toolVars
<1> QED BY <1>1, <1>4, <1>6 DEF EventInv

LEMMA StreamStartMoves == ASSUME EventInv, StreamStarts PROVE EventInv' /\ shown' = shown
<1>1. /\ shown = Events!At("turn") /\ shown' = shown
      /\ phase' = "streaming" /\ phase = "model"
  BY Stands DEF EventInv, StreamStarts, Step
<1>2. out' = <<Events!Event("MessageStart")>>
  BY DEF StreamStarts
<1>3. Leads(shown', out', Events!At("message"))
  BY <1>1, <1>2, RunMoves, LeadsOne
<1>4. active_delta' = "none" /\ active_delta = "none"
  BY <1>1 DEF EventInv, Shape, StreamStarts, streamVars
<1>5. InMessage' = Events!At("message")
  BY <1>4, NoBlock DEF InMessage
<1>6. OnItsWay'
  BY <1>1, <1>3, <1>5 DEF OnItsWay, Stops, ViewDue
<1>7. out' \in Seq(Events!AgentEvent)
  BY <1>2, RunEvents, ShortSequences
<1>8. Shape'
  BY <1>1, <1>4, <1>7, ShapeKept DEF EventInv, Shape, StreamStarts, Phases, streamVars, toolVars
<1> QED BY <1>1, <1>6, <1>8 DEF EventInv

LEMMA FollowUpMoves == ASSUME EventInv, FollowUpsAppended PROVE EventInv' /\ shown' = shown
<1>1. /\ shown = Events!At("between") /\ shown' = shown
      /\ phase' = "model" /\ phase = "follow_ups"
  BY Stands DEF EventInv, FollowUpsAppended, Step
<1>2. out' = <<Events!Event("TurnStart")>>
  BY DEF FollowUpsAppended
<1>3. Leads(shown', out', Events!At("turn"))
  BY <1>1, <1>2, RunMoves, LeadsOne
<1>4. OnItsWay'
  BY <1>1, <1>3, Destination
<1>5. out' \in Seq(Events!AgentEvent)
  BY <1>2, RunEvents, ShortSequences
<1>6. Shape'
  BY <1>1, <1>5, ShapeKept DEF EventInv, Shape, FollowUpsAppended, Phases, streamVars, toolVars
<1> QED BY <1>1, <1>4, <1>6 DEF EventInv

LEMMA DecideMoves == ASSUME EventInv, DecideAfterTools PROVE EventInv' /\ shown' = shown
<1>1. shown = Events!At("between") /\ shown' = shown /\ phase = "decide" /\ out = <<>>
  BY Stands DEF EventInv, DecideAfterTools, Step
<1>2. \/ phase' = "finished" /\ out' = <<Events!Event("AgentEnd")>>
      \/ phase' = "gate" /\ out' = <<>>
  BY <1>1 DEF DecideAfterTools
<1>3. OnItsWay'
  <2>1. CASE phase' = "finished" /\ out' = <<Events!Event("AgentEnd")>>
    <3>1. Leads(shown', out', Events!Outside)
      BY <1>1, <2>1, RunMoves, LeadsOne
    <3> QED BY <2>1, <3>1, Destination
  <2>2. CASE phase' = "gate" /\ out' = <<>>
    BY <1>1, <2>2, LeadsNone, Destination
  <2> QED BY <1>2, <2>1, <2>2
<1>4. out' \in Seq(Events!AgentEvent)
  BY <1>2, RunEvents, ShortSequences
<1>5. Shape'
  BY <1>1, <1>2, <1>4, ShapeKept
  DEF EventInv, Shape, DecideAfterTools, Phases, streamVars, toolVars
<1> QED BY <1>1, <1>3, <1>5 DEF EventInv

LEMMA GateMoves ==
    ASSUME EventInv, GateContinues \/ GateCompacts PROVE EventInv' /\ shown' = shown
<1>1. shown = Events!At("between") /\ shown' = shown /\ phase = "gate"
  BY Stands DEF EventInv, GateContinues, GateCompacts, Gate, Step
<1>2. \/ phase' = "model" /\ out' = <<Events!Event("TurnStart")>>
      \/ phase' = "summarizing" /\ out' = <<Events!Event("CompactionStart")>>
  BY DEF GateContinues, GateCompacts
<1>3. OnItsWay'
  <2>1. CASE phase' = "model" /\ out' = <<Events!Event("TurnStart")>>
    <3>1. Leads(shown', out', Events!At("turn"))
      BY <1>1, <2>1, RunMoves, LeadsOne
    <3> QED BY <2>1, <3>1, Destination
  <2>2. CASE phase' = "summarizing" /\ out' = <<Events!Event("CompactionStart")>>
    <3>1. Leads(shown', out', Compacting(Events!At("between")))
      BY <1>1, <2>2, CompactionMoves, LeadsOne
    <3> QED BY <2>2, <3>1, Destination
  <2> QED BY <1>2, <2>1, <2>2
<1>4. out' \in Seq(Events!AgentEvent)
  BY <1>2, RunEvents, ShortSequences
<1>5. Shape'
  BY <1>1, <1>2, <1>4, ShapeKept
  DEF EventInv, Shape, GateContinues, GateCompacts, Gate, Phases, streamVars, toolVars
<1> QED BY <1>1, <1>3, <1>5 DEF EventInv

LEMMA SummarizerMoves == ASSUME EventInv, SummarizerEnds PROVE EventInv' /\ shown' = shown
<1>1. /\ shown = Compacting(Events!At("between")) /\ shown' = shown
      /\ phase = "summarizing" /\ phase' = "model"
  BY Stands DEF EventInv, SummarizerEnds, Step
<1>2. \/ out' = <<Events!Event("CompactionEnd"), Events!Event("TranscriptReplace"),
                  Events!Event("TurnStart")>>
      \/ out' = <<Events!Event("TurnStart")>>
  BY DEF SummarizerEnds
<1>3. Leads(shown', out', Events!At("turn"))
  BY <1>1, <1>2, RunMoves, CompactionMoves, LeadsOne, LeadsThree
<1>4. OnItsWay'
  BY <1>1, <1>3, Destination
<1>5. out' \in Seq(Events!AgentEvent)
  <2>1. /\ Events!Event("CompactionEnd") \in Events!AgentEvent
        /\ Events!Event("TranscriptReplace") \in Events!AgentEvent
        /\ Events!Event("TurnStart") \in Events!AgentEvent
    BY RunEvents
  <2> QED BY <1>2, <2>1, ShortSequences
<1>6. Shape'
  BY <1>1, <1>5, ShapeKept DEF EventInv, Shape, SummarizerEnds, Phases, streamVars, toolVars
<1> QED BY <1>1, <1>4, <1>6 DEF EventInv

-----------------------------------------------------------------------------
(***************************************************************************)
(* The stream.                                                             *)
(***************************************************************************)
\* What finish_active_delta sends closes the block that is open.
LEMMA FinishedDelta ==
    ASSUME active_delta \in Events!Deltas \cup {"none"}
    PROVE  \/ /\ active_delta = "none" /\ FinishDelta = <<>>
              /\ InMessage = Events!At("message")
           \/ /\ active_delta \in Events!Deltas
              /\ FinishDelta = <<Events!DeltaEvent("DeltaEnd", active_delta)>>
              /\ Goes(InMessage, Events!DeltaEvent("DeltaEnd", active_delta),
                      Events!At("message"))
              /\ Events!DeltaEvent("DeltaEnd", active_delta) \in Events!AgentEvent
<1>1. CASE active_delta = "none"
  BY <1>1, NoBlock DEF FinishDelta, InMessage
<1>2. CASE active_delta \in Events!Deltas
  <2>1. active_delta # "none"
    BY <1>2 DEF Events!Deltas
  <2>2. FinishDelta = <<Events!DeltaEvent("DeltaEnd", active_delta)>>
    BY <2>1 DEF FinishDelta
  <2>3. Goes(InMessage, Events!DeltaEvent("DeltaEnd", active_delta), Events!At("message"))
    BY <1>2, MessageMoves DEF InMessage
  <2>4. Events!DeltaEvent("DeltaEnd", active_delta) \in Events!AgentEvent
    BY <1>2, BlockEvent
  <2> QED BY <1>2, <2>2, <2>3, <2>4
<1> QED BY <1>1, <1>2

\* With the block closed, one to three moves from the message on.
LEMMA FromMessage ==
    ASSUME active_delta \in Events!Deltas \cup {"none"}, NEW v, NEW a, NEW b, NEW c,
           a \in Events!AgentEvent, b \in Events!AgentEvent, c \in Events!AgentEvent,
           NEW w, NEW x, NEW y, Goes(Events!At("message"), a, w)
    PROVE  /\ Leads(InMessage, Append(FinishDelta, a), w)
           /\ Append(FinishDelta, a) \in Seq(Events!AgentEvent)
           /\ Goes(w, b, x) => Leads(InMessage, FinishDelta \o <<a, b>>, x)
           /\ FinishDelta \o <<a, b>> \in Seq(Events!AgentEvent)
           /\ Goes(w, b, x) /\ Goes(x, c, y) => Leads(InMessage, FinishDelta \o <<a, b, c>>, y)
           /\ FinishDelta \o <<a, b, c>> \in Seq(Events!AgentEvent)
<1>1. CASE active_delta = "none" /\ FinishDelta = <<>> /\ InMessage = Events!At("message")
  <2>1. /\ Append(FinishDelta, a) = <<a>> /\ FinishDelta \o <<a, b>> = <<a, b>>
        /\ FinishDelta \o <<a, b, c>> = <<a, b, c>>
    BY <1>1
  <2>2. Leads(InMessage, <<a>>, w)
    BY <1>1, LeadsOne
  <2>3. Goes(w, b, x) => Leads(InMessage, <<a, b>>, x)
    BY <1>1, LeadsTwo
  <2>4. Goes(w, b, x) /\ Goes(x, c, y) => Leads(InMessage, <<a, b, c>>, y)
    BY <1>1, LeadsThree
  <2>5. {<<a>>, <<a, b>>, <<a, b, c>>} \subseteq Seq(Events!AgentEvent)
    BY ShortSequences
  <2> QED BY <2>1, <2>2, <2>3, <2>4, <2>5
<1>2. CASE /\ FinishDelta = <<Events!DeltaEvent("DeltaEnd", active_delta)>>
           /\ Goes(InMessage, Events!DeltaEvent("DeltaEnd", active_delta), Events!At("message"))
           /\ Events!DeltaEvent("DeltaEnd", active_delta) \in Events!AgentEvent
  <2> DEFINE z == Events!DeltaEvent("DeltaEnd", active_delta)
  <2>1. /\ Append(FinishDelta, a) = <<z, a>> /\ FinishDelta \o <<a, b>> = <<z, a, b>>
        /\ FinishDelta \o <<a, b, c>> = <<z, a, b, c>>
    BY <1>2, AppendToOne, JoinOneTwo, JoinOneThree
  <2>2. z \in Events!AgentEvent /\ Goes(InMessage, z, Events!At("message"))
    BY <1>2
  <2> HIDE DEF z
  <2>3. Leads(InMessage, <<z, a>>, w)
    BY <2>2, LeadsTwo
  <2>4. Goes(w, b, x) => Leads(InMessage, <<z, a, b>>, x)
    BY <2>2, LeadsThree
  <2>5. Goes(w, b, x) /\ Goes(x, c, y) => Leads(InMessage, <<z, a, b, c>>, y)
    BY <2>2, LeadsFour
  <2>6. {<<z, a>>, <<z, a, b>>, <<z, a, b, c>>} \subseteq Seq(Events!AgentEvent)
    BY <2>2, ShortSequences
  <2> QED BY <2>1, <2>3, <2>4, <2>5, <2>6
<1> QED BY <1>1, <1>2, FinishedDelta

\* The stream goes on in the message whose open block is the new one.
LEMMA InStream ==
    ASSUME Shape, phase = "streaming", phase' = "streaming",
           UNCHANGED <<tools, partials>>, active_delta' \in Events!Deltas \cup {"none"},
           out' \in Seq(Events!AgentEvent), Leads(shown', out', MessageWith(active_delta'))
    PROVE  EventInv'
<1>1. InMessage' = MessageWith(active_delta')
  BY DEF InMessage
<1>2. OnItsWay'
  BY <1>1 DEF OnItsWay, Stops, ViewDue
<1>3. Shape'
  BY DEF Shape, Phases
<1> QED BY <1>2, <1>3 DEF EventInv

\* Where every step of the stream begins.
LEMMA StreamStands ==
    ASSUME EventInv, Streaming
    PROVE  /\ shown = InMessage /\ shown' = shown /\ phase = "streaming" /\ Shape
           /\ active_delta \in Events!Deltas \cup {"none"} /\ partials = {} /\ partials' = {}
BY Stands DEF EventInv, Streaming, Step, Shape

LEMMA DeltaMoves ==
    ASSUME EventInv, NEW kind \in Events!Deltas, StreamDelta(kind)
    PROVE  EventInv' /\ shown' = shown
<1>1. /\ shown = InMessage /\ shown' = shown /\ phase = "streaming" /\ Shape
      /\ active_delta \in Events!Deltas \cup {"none"}
  BY StreamStands DEF StreamDelta, StreamGoesOn
<1>2. /\ phase' = "streaming" /\ UNCHANGED <<tools, partials>> /\ active_delta' = kind
  BY <1>1 DEF StreamDelta, StreamGoesOn, Streaming
<1> DEFINE delta == Events!DeltaEvent("Delta", kind)
           start == Events!DeltaEvent("DeltaStart", kind)
<1>3. /\ Goes(Events!At("message"), start, MessageWith(kind))
      /\ Goes(MessageWith(kind), delta, MessageWith(kind))
      /\ {delta, start} \subseteq Events!AgentEvent
  BY MessageMoves, BlockEvent
<1>4. out' \in Seq(Events!AgentEvent) /\ Leads(shown', out', MessageWith(kind))
  <2>1. CASE active_delta = kind
    <3>1. out' = <<delta>>
      BY <2>1 DEF StreamDelta
    <3>2. shown' = MessageWith(kind)
      BY <1>1, <2>1 DEF InMessage
    <3> HIDE DEF delta, start
    <3> QED BY <1>3, <3>1, <3>2, LeadsOne
  <2>2. CASE active_delta # kind
    <3>1. out' = Append(FinishDelta, start) \o <<delta>>
      BY <2>2 DEF StreamDelta
    <3> HIDE DEF delta, start
    <3>2. Append(FinishDelta, start) \o <<delta>> = FinishDelta \o <<start, delta>>
      BY <1>1, FinishedDelta, JoinOneOne, AppendToOne, JoinTwoOne, JoinOneTwo
    <3>3. /\ Leads(InMessage, FinishDelta \o <<start, delta>>, MessageWith(kind))
          /\ FinishDelta \o <<start, delta>> \in Seq(Events!AgentEvent)
      BY <1>1, <1>3, FromMessage
    <3> QED BY <1>1, <3>1, <3>2, <3>3
  <2> QED BY <2>1, <2>2
<1>5. active_delta' \in Events!Deltas \cup {"none"}
  BY <1>2
<1> QED BY <1>1, <1>2, <1>4, <1>5, InStream

LEMMA ToolCallMoves ==
    ASSUME EventInv, StreamToolCall \/ StreamToolCallGoesOn
    PROVE  EventInv' /\ shown' = shown
<1>1. /\ shown = InMessage /\ shown' = shown /\ phase = "streaming" /\ Shape
      /\ active_delta \in Events!Deltas \cup {"none"}
  BY StreamStands DEF StreamToolCall, StreamToolCallGoesOn, StreamGoesOn
<1>2. phase' = "streaming" /\ UNCHANGED <<tools, partials>>
  BY <1>1 DEF StreamToolCall, StreamToolCallGoesOn, StreamGoesOn, Streaming
<1> DEFINE e == Events!Event("ToolCallDelta")
<1>3. e \in Events!AgentEvent
  BY RunEvents
<1>4. CASE StreamToolCall
  <2>1. out' = Append(FinishDelta, e) /\ active_delta' = "none"
    BY <1>4 DEF StreamToolCall
  <2>2. Goes(Events!At("message"), e, MessageWith("none"))
    BY NoBlock, CallDeltaMoves
  <2> HIDE DEF e
  <2>3. Leads(shown', out', MessageWith(active_delta')) /\ out' \in Seq(Events!AgentEvent)
    BY <1>1, <1>3, <2>1, <2>2, FromMessage
  <2> QED BY <1>1, <1>2, <2>1, <2>3, InStream
<1>5. CASE StreamToolCallGoesOn
  <2>1. out' = <<e>> /\ active_delta' = active_delta
    BY <1>5 DEF StreamToolCallGoesOn, streamVars
  <2>2. Goes(shown', e, MessageWith(active_delta'))
    BY <1>1, <2>1, CallDeltaMoves DEF InMessage
  <2> HIDE DEF e
  <2>3. Leads(shown', out', MessageWith(active_delta')) /\ out' \in Seq(Events!AgentEvent)
    BY <1>3, <2>1, <2>2, LeadsOne
  <2> QED BY <1>1, <1>2, <2>1, <2>3, InStream
<1> QED BY <1>4, <1>5

\* The message and its turn end; what then follows is the caller's.
LEMMA MessageEnds ==
    ASSUME active_delta \in Events!Deltas \cup {"none"}
    PROVE  /\ Leads(InMessage, FinishDelta \o <<Events!Event("MessageEnd"), Events!TurnEnd({}),
                                               Events!Event("AgentEnd")>>, Events!Outside)
           /\ FinishDelta \o <<Events!Event("MessageEnd"), Events!TurnEnd({}),
                               Events!Event("AgentEnd")>> \in Seq(Events!AgentEvent)
           /\ Leads(InMessage, FinishDelta \o <<Events!Event("MessageEnd"), Events!TurnEnd({})>>,
                    Events!At("between"))
           /\ FinishDelta \o <<Events!Event("MessageEnd"), Events!TurnEnd({})>>
                 \in Seq(Events!AgentEvent)
           /\ Leads(InMessage, Append(FinishDelta, Events!Event("MessageEnd")),
                    Events!At("turn"))
           /\ Append(FinishDelta, Events!Event("MessageEnd")) \in Seq(Events!AgentEvent)
<1> DEFINE a == Events!Event("MessageEnd")
           b == Events!TurnEnd({})
           c == Events!Event("AgentEnd")
<1>1. /\ a \in Events!AgentEvent /\ b \in Events!AgentEvent /\ c \in Events!AgentEvent
  BY RunEvents, TurnEvent
<1>2. /\ Goes(Events!At("message"), a, Events!At("turn"))
      /\ Goes(Events!At("turn"), b, Events!At("between"))
      /\ Goes(Events!At("between"), c, Events!Outside)
  BY RunMoves
<1> HIDE DEF a, b, c
<1>3. /\ Leads(InMessage, FinishDelta \o <<a, b, c>>, Events!Outside)
      /\ FinishDelta \o <<a, b, c>> \in Seq(Events!AgentEvent)
      /\ Leads(InMessage, FinishDelta \o <<a, b>>, Events!At("between"))
      /\ FinishDelta \o <<a, b>> \in Seq(Events!AgentEvent)
      /\ Leads(InMessage, Append(FinishDelta, a), Events!At("turn"))
      /\ Append(FinishDelta, a) \in Seq(Events!AgentEvent)
  BY <1>1, <1>2, FromMessage
<1> QED BY <1>3 DEF a, b, c

\* A stream that ends the run, whatever the reason.
LEMMA FinishMoves ==
    ASSUME EventInv, StreamEnds, NEW assistant, FinishWith(assistant)
    PROVE  EventInv' /\ shown' = shown
<1>1. /\ shown = InMessage /\ shown' = shown /\ phase = "streaming" /\ Shape
      /\ active_delta \in Events!Deltas \cup {"none"} /\ partials = {} /\ partials' = {}
  BY StreamStands DEF StreamEnds
<1>2. /\ active_delta' = "none" /\ phase' = "finished" /\ tools' = tools
      /\ out' = FinishDelta \o <<Events!Event("MessageEnd"), Events!TurnEnd({}),
                                 Events!Event("AgentEnd")>>
  BY DEF StreamEnds, FinishWith
<1>3. Leads(shown', out', Events!Outside) /\ out' \in Seq(Events!AgentEvent)
  BY <1>1, <1>2, MessageEnds
<1>4. OnItsWay'
  BY <1>2, <1>3, Destination
<1>5. Shape'
  BY <1>1, <1>2, <1>3 DEF Shape, Phases
<1> QED BY <1>1, <1>4, <1>5 DEF EventInv

LEMMA StopMoves == ASSUME EventInv, StreamStops PROVE EventInv' /\ shown' = shown
<1>1. CASE FinishWith([building EXCEPT !.stop = "Stop"])
  BY <1>1, FinishMoves DEF StreamStops
<1>2. CASE ~FinishWith([building EXCEPT !.stop = "Stop"])
  <2>1. /\ shown = InMessage /\ shown' = shown /\ phase = "streaming" /\ Shape
        /\ active_delta \in Events!Deltas \cup {"none"} /\ partials = {} /\ partials' = {}
    BY StreamStands DEF StreamStops, StreamEnds
  <2>2. /\ active_delta' = "none" /\ phase' = "follow_ups" /\ tools' = tools
        /\ out' = FinishDelta \o <<Events!Event("MessageEnd"), Events!TurnEnd({})>>
    BY <1>2 DEF StreamStops, StreamEnds
  <2>3. Leads(shown', out', Events!At("between")) /\ out' \in Seq(Events!AgentEvent)
    BY <2>1, <2>2, MessageEnds
  <2>4. OnItsWay'
    BY <2>2, <2>3, Destination
  <2>5. Shape'
    BY <2>1, <2>2, <2>3 DEF Shape, Phases
  <2> QED BY <2>1, <2>4, <2>5 DEF EventInv
<1> QED BY <1>1, <1>2

\* No call of the new batch has started, so the reader is only in the turn.
LEMMA AskMoves == ASSUME EventInv, StreamAsksForTools PROVE EventInv' /\ shown' = shown
<1>1. /\ shown = InMessage /\ shown' = shown /\ phase = "streaming" /\ Shape
      /\ active_delta \in Events!Deltas \cup {"none"} /\ partials = {} /\ partials' = {}
  BY StreamStands DEF StreamAsksForTools, StreamEnds
<1>2. /\ active_delta' = "none" /\ phase' = "tools"
      /\ out' = Append(FinishDelta, Events!Event("MessageEnd"))
      /\ tools' = [call \in ToolCalls |-> IF call <= building.calls THEN "waiting" ELSE "none"]
  BY DEF StreamAsksForTools, StreamEnds
<1>3. Leads(shown', out', Events!At("turn")) /\ out' \in Seq(Events!AgentEvent)
  BY <1>1, <1>2, MessageEnds
<1>4. tools' \in [ToolCalls -> Places] /\ \A call \in ToolCalls : tools'[call] \in {"waiting", "none"}
  BY <1>2 DEF Places
<1>5. Executing' = {} /\ Ended' = {}
  BY <1>4 DEF Executing, Ended
<1>6. InTurn' = Events!At("turn")
  BY <1>5, NoCalls DEF InTurn
<1>7. OnItsWay'
  BY <1>2, <1>3, <1>6 DEF OnItsWay, Stops, ViewDue
<1>8. Shape'
  BY <1>1, <1>2, <1>3, <1>4 DEF Shape, Phases
<1> QED BY <1>1, <1>7, <1>8 DEF EventInv

-----------------------------------------------------------------------------
(***************************************************************************)
(* The tools.                                                              *)
(***************************************************************************)
\* What a tool's step does to the sets the reader knows.
LEMMA ToolSets ==
    ASSUME Shape, NEW call \in ToolCalls, NEW from \in Places, NEW to \in Places,
           ToolStep(call, from, to)
    PROVE  /\ from = "waiting" /\ to = "started" =>
                 /\ call \notin Executing \cup Ended
                 /\ Executing' = Executing \cup {call} /\ Ended' = Ended
           /\ from \in {"started", "running"} /\ to \in {"running", "returned"} =>
                 Executing' = Executing /\ Ended' = Ended
           /\ from \in {"started", "returned"} /\ to = "ended" =>
                 /\ call \in Executing
                 /\ Executing' = Executing \ {call} /\ Ended' = Ended \cup {call}
<1>1. /\ tools \in [ToolCalls -> Places] /\ tools[call] = from
      /\ tools' = [tools EXCEPT ![call] = to]
  BY DEF Shape, ToolStep
<1>2. tools'[call] = to /\ \A other \in ToolCalls \ {call} : tools'[other] = tools[other]
  BY <1>1
<1>3. CASE from = "waiting" /\ to = "started"
  BY <1>1, <1>2, <1>3 DEF Executing, Ended
<1>4. CASE from \in {"started", "running"} /\ to \in {"running", "returned"}
  BY <1>1, <1>2, <1>4 DEF Executing, Ended
<1>5. CASE from \in {"started", "returned"} /\ to = "ended"
  BY <1>1, <1>2, <1>5 DEF Executing, Ended
<1> QED BY <1>3, <1>4, <1>5

\* A tool's step leaves the reader where the batch then is.
LEMMA InBatch ==
    ASSUME EventInv, phase = "tools", phase' = "tools", out = <<>>, out' = <<>>,
           active_delta' = active_delta, shown' = InTurn',
           tools' \in [ToolCalls -> Places],
           partials' \subseteq {call \in ToolCalls : tools'[call] \in {"running", "returned"}}
    PROVE  EventInv'
<1>1. OnItsWay'
  BY LeadsNone DEF OnItsWay, Stops, ViewDue
<1>2. Shape'
  BY DEF EventInv, Shape
<1> QED BY <1>1, <1>2 DEF EventInv

\* An event the reader may be sent.
LEMMA Reads ==
    ASSUME NEW e \in Events!AgentEvent, NEW w, Goes(shown, e, w), Read(e)
    PROVE  shown' = w /\ Events!EventsNext
BY DEF Goes, Read, Events!EventsNext

LEMMA ToolStepStands ==
    ASSUME EventInv, NEW call \in ToolCalls, NEW from, NEW to \in Places,
           ToolStep(call, from, to)
    PROVE  /\ shown = TurnWith(Executing, Ended) /\ phase = "tools" /\ phase' = "tools"
           /\ out = <<>> /\ out' = <<>> /\ active_delta' = active_delta /\ Shape
           /\ tools' \in [ToolCalls -> Places]
           /\ tools[call] = from /\ tools' = [tools EXCEPT ![call] = to]
           /\ InTurn' = TurnWith(Executing', Ended')
BY Stands DEF EventInv, ToolStep, Shape, InTurn, streamVars

LEMMA StartMoves ==
    ASSUME EventInv, NEW call \in ToolCalls, ToolStarts(call)
    PROVE  EventInv' /\ Events!EventsNext
<1>1. ToolStep(call, "waiting", "started") /\ partials' = partials
  BY DEF ToolStarts
<1>2. "waiting" \in Places /\ "started" \in Places
  BY DEF Places
<1>3. /\ shown = TurnWith(Executing, Ended) /\ phase = "tools" /\ phase' = "tools"
      /\ out = <<>> /\ out' = <<>> /\ active_delta' = active_delta /\ Shape
      /\ tools' \in [ToolCalls -> Places]
      /\ tools[call] = "waiting" /\ tools' = [tools EXCEPT ![call] = "started"]
      /\ InTurn' = TurnWith(Executing', Ended')
  BY <1>1, <1>2, ToolStepStands
<1>4. /\ call \notin Executing \cup Ended
      /\ Executing' = Executing \cup {call} /\ Ended' = Ended
  BY <1>1, <1>2, <1>3, ToolSets
<1> DEFINE e == Events!ToolEvent("ToolExecStart", call)
<1>5. /\ Goes(shown, e, InTurn') /\ e \in Events!AgentEvent /\ Read(e)
  BY <1>3, <1>4, ToolMoves, CallEvent DEF ToolStarts
<1> HIDE DEF e
<1>6. shown' = InTurn' /\ Events!EventsNext
  BY <1>5, Reads
<1>7. partials' \subseteq {other \in ToolCalls : tools'[other] \in {"running", "returned"}}
  BY <1>1, <1>3 DEF Shape
<1> QED BY <1>3, <1>6, <1>7, InBatch

\* A tool call ends once, and with nothing left to be forwarded.
LEMMA EndMoves ==
    ASSUME EventInv, NEW call \in ToolCalls, ToolRefused(call) \/ ToolEnds(call)
    PROVE  EventInv' /\ Events!EventsNext
<1>1. PICK from \in {"started", "returned"} :
         ToolStep(call, from, "ended") /\ (from = "returned" => call \notin partials)
  BY DEF ToolRefused, ToolEnds
<1>2. from \in Places /\ "ended" \in Places
  BY DEF Places
<1>3. /\ shown = TurnWith(Executing, Ended) /\ phase = "tools" /\ phase' = "tools"
      /\ out = <<>> /\ out' = <<>> /\ active_delta' = active_delta /\ Shape
      /\ tools' \in [ToolCalls -> Places]
      /\ tools[call] = from /\ tools' = [tools EXCEPT ![call] = "ended"]
      /\ InTurn' = TurnWith(Executing', Ended')
  BY <1>1, <1>2, ToolStepStands
<1>4. /\ call \in Executing
      /\ Executing' = Executing \ {call} /\ Ended' = Ended \cup {call}
  BY <1>1, <1>2, <1>3, ToolSets
<1> DEFINE e == Events!ToolEvent("ToolExecEnd", call)
<1>5. /\ Goes(shown, e, InTurn') /\ e \in Events!AgentEvent /\ Read(e)
  BY <1>3, <1>4, ToolMoves, CallEvent DEF ToolRefused, ToolEnds
<1> HIDE DEF e
<1>6. shown' = InTurn' /\ Events!EventsNext
  BY <1>5, Reads
<1>7. partials' = partials /\ call \notin partials
  BY <1>1, <1>3 DEF ToolRefused, ToolEnds, Shape
<1>8. partials' \subseteq {other \in ToolCalls : tools'[other] \in {"running", "returned"}}
  BY <1>3, <1>7 DEF Shape
<1> QED BY <1>3, <1>6, <1>8, InBatch

\* Steps of a tool of which the reader learns nothing.
LEMMA SilentMoves ==
    ASSUME EventInv, NEW call \in ToolCalls,
           ToolRuns(call) \/ ToolUpdates(call) \/ ToolReturns(call)
    PROVE  EventInv' /\ shown' = shown
<1>1. PICK from \in {"started", "running"}, to \in {"running", "returned"} :
         /\ ToolStep(call, from, to) /\ shown' = shown
         /\ partials' \subseteq partials \cup {call}
  BY DEF ToolRuns, ToolUpdates, ToolReturns
<1>2. from \in Places /\ to \in Places
  BY DEF Places
<1>3. /\ shown = TurnWith(Executing, Ended) /\ phase = "tools" /\ phase' = "tools"
      /\ out = <<>> /\ out' = <<>> /\ active_delta' = active_delta /\ Shape
      /\ tools' \in [ToolCalls -> Places]
      /\ tools[call] = from /\ tools' = [tools EXCEPT ![call] = to]
      /\ InTurn' = TurnWith(Executing', Ended')
  BY <1>1, <1>2, ToolStepStands
<1>4. Executing' = Executing /\ Ended' = Ended
  BY <1>1, <1>2, <1>3, ToolSets
<1>5. shown' = InTurn'
  BY <1>1, <1>3, <1>4
<1>6. partials' \subseteq {other \in ToolCalls : tools'[other] \in {"running", "returned"}}
  BY <1>1, <1>3 DEF Shape
<1> QED BY <1>1, <1>3, <1>5, <1>6, InBatch

\* A partial result is forwarded while its tool is still executing.
LEMMA ForwardMoves ==
    ASSUME EventInv, NEW call \in ToolCalls, ForwardUpdate(call)
    PROVE  EventInv' /\ Events!EventsNext
<1>1. /\ call \in partials /\ partials' = partials \ {call} /\ out = <<>>
      /\ UNCHANGED <<phase, out, tools, active_delta>>
  BY DEF ForwardUpdate, streamVars
<1>2. phase = "tools" /\ tools[call] \in {"running", "returned"} /\ Shape
  BY <1>1 DEF EventInv, Shape
<1>3. shown = TurnWith(Executing, Ended) /\ call \in Executing
  BY <1>1, <1>2, Stands DEF EventInv, InTurn, Executing
<1>4. InTurn' = TurnWith(Executing, Ended)
  BY <1>1 DEF InTurn, Executing, Ended
<1> DEFINE e == Events!ToolEvent("ToolExecUpdate", call)
<1>5. /\ Goes(shown, e, InTurn') /\ e \in Events!AgentEvent /\ Read(e)
  BY <1>3, <1>4, ToolMoves, CallEvent DEF ForwardUpdate
<1> HIDE DEF e
<1>6. shown' = InTurn' /\ Events!EventsNext
  BY <1>5, Reads
<1>7. /\ tools' \in [ToolCalls -> Places]
      /\ partials' \subseteq {other \in ToolCalls : tools'[other] \in {"running", "returned"}}
  BY <1>1, <1>2 DEF Shape
<1> QED BY <1>1, <1>2, <1>6, <1>7, InBatch

\* The batch is over when every call is, so that its TurnEnd may come.
LEMMA BatchMoves ==
    ASSUME EventInv, ToolResultsAppended PROVE EventInv' /\ shown' = shown
<1>1. /\ shown = TurnWith(Executing, Ended) /\ shown' = shown /\ phase = "tools"
      /\ phase' = "decide" /\ out' = <<Events!TurnEnd(Ended)>>
      /\ tools' = NoTools /\ active_delta' = active_delta /\ partials' = partials
      /\ \A call \in ToolCalls : tools[call] \in {"none", "ended"}
  BY Stands DEF EventInv, ToolResultsAppended, Step, InTurn, Ended, streamVars
<1>2. Executing = {} /\ Ended \in SUBSET ToolCalls
  BY <1>1 DEF Executing, Ended
<1>3. /\ Goes(shown', Events!TurnEnd(Ended), Events!At("between"))
      /\ Events!TurnEnd(Ended) \in Events!AgentEvent
  BY <1>1, <1>2, TurnOver, TurnEvent
<1>4. Leads(shown', out', Events!At("between")) /\ out' \in Seq(Events!AgentEvent)
  BY <1>1, <1>3, LeadsOne, ShortSequences
<1>5. OnItsWay'
  BY <1>1, <1>4, Destination
<1>6. Shape'
  BY <1>1, <1>4 DEF EventInv, Shape, NoTools, Phases, Places
<1> QED BY <1>1, <1>5, <1>6 DEF EventInv

-----------------------------------------------------------------------------
(***************************************************************************)
(* The run implements AgentEvents.                                         *)
(***************************************************************************)
LEMMA EventInit == Init => EventInv /\ Events!EventsInit
<1> SUFFICES ASSUME Init PROVE EventInv /\ Events!EventsInit
  OBVIOUS
<1>1. shown = Events!Outside /\ phase = "returned" /\ out = <<>>
  BY DEF Init
<1>2. OnItsWay
  BY <1>1, LeadsNone DEF OnItsWay, Stops, ViewDue
<1>3. Shape
  BY DEF Init, Shape, Phases, Places, NoTools
<1> QED BY <1>1, <1>2, <1>3 DEF EventInv, Events!EventsInit

\* Every step keeps the invariant, and is a move of the reader or none.
LEMMA EventStep ==
    EventInv /\ [Next]_agentVars => EventInv' /\ (Events!EventsNext \/ shown' = shown)
<1> SUFFICES ASSUME EventInv, [Next]_agentVars
             PROVE  EventInv' /\ (Events!EventsNext \/ shown' = shown)
  OBVIOUS
<1>1. CASE Send
  BY <1>1, SendMoves
<1>2. CASE Controller
  BY <1>2, RunStarts, SessionCompactsMoves, CancelMoves DEF Controller, NewPrompt, Continuation
<1>3. CASE Stream
  BY <1>3, DeltaMoves, ToolCallMoves, FinishMoves, StopMoves, AskMoves
  DEF Stream, StreamFails, StreamCancelled
<1>4. CASE Loop
  BY <1>4, StreamStartMoves, PreflightMoves, FollowUpMoves, BatchMoves, DecideMoves, GateMoves,
     SummarizerMoves, ReturnMoves DEF Loop
<1>5. CASE \E call \in ToolCalls : Tool(call)
  BY <1>5, StartMoves, EndMoves, SilentMoves, ForwardMoves DEF Tool, ToolProgresses
<1>6. CASE UNCHANGED agentVars
  <2>1. UNCHANGED <<shown, phase, out, active_delta, tools, partials>>
    BY <1>6 DEF agentVars
  <2>2. InMessage' = InMessage /\ InTurn' = InTurn
    BY <2>1 DEF InMessage, InTurn, Executing, Ended
  <2> QED BY <2>1, <2>2 DEF EventInv, Shape, OnItsWay, Stops, ViewDue
<1> QED BY <1>1, <1>2, <1>3, <1>4, <1>5, <1>6 DEF Next

\* The events the readers get nest as AgentEvents says, whatever ends the run and
\* however many tools run at once: agent_loop.rs implements the protocol.
THEOREM EventsImplemented == Spec => EventProtocol
<1>1. Init => EventInv /\ Events!EventsInit
  BY EventInit
<1>2. EventInv /\ [Next]_agentVars => EventInv' /\ [Events!EventsNext]_shown
  BY EventStep
<1> QED BY <1>1, <1>2, PTL DEF Spec, EventProtocol, Events!EventsSpec

-----------------------------------------------------------------------------
(***************************************************************************)
(* What a run keeps, and what it does once it is cancelled.                *)
(***************************************************************************)
Buildings == {Assistant("none", calls, text) : calls \in 0..MaxToolCalls, text \in BOOLEAN}

MessagesInv ==
    /\ session \in Seq(MessageType) /\ context \in Seq(MessageType)
    /\ generated_messages \in Seq(MessageType) /\ told \in Seq(MessageType)
    /\ building \in Buildings

\* A summarizer runs on a budget that is not used up.
CountersInv ==
    /\ tool_execution \in ToolExecutionModes
    /\ terminal_error \in BOOLEAN /\ cancelled \in BOOLEAN
    /\ budget \in 0..max_per_turn
    /\ phase = "summarizing" => budget > 0
    /\ turns \in 0..MaxTurns /\ runs \in 0..MaxRuns

\* The TurnEnd events have told what is generated, but for the message whose tools
\* are running.
ToldInv ==
    /\ phase # "tools" => told = generated_messages
    /\ phase = "tools" =>
          /\ generated_messages # <<>>
          /\ generated_messages = Append(told, Last(generated_messages))
    /\ phase = "returned" => generated_messages = <<>>

\* What a cancelled run may still do: in a phase that leads to a request it has made
\* none for which no follow-up stands, and before a batch it has begun none.
CancelInv ==
    /\ after_cancel \in [requests : Nat, follow_ups : Nat, batches : Nat]
    /\ ~cancelled => after_cancel = Zero
    /\ after_cancel.requests <= 1 + after_cancel.follow_ups
    /\ phase \in {"model", "gate", "summarizing"} =>
          after_cancel.requests <= after_cancel.follow_ups
    /\ after_cancel.batches <= 1
    /\ phase \in {"model", "streaming", "follow_ups", "gate", "summarizing"} =>
          after_cancel.batches = 0

RunInv == MessagesInv /\ CountersInv /\ ToldInv /\ CancelInv

-----------------------------------------------------------------------------
(***************************************************************************)
(* The data of a run.                                                      *)
(***************************************************************************)
LEMMA Bounds == MaxToolCalls \in Nat /\ MaxTurns \in Nat /\ MaxRuns \in Nat /\ max_per_turn \in Nat
BY RunAssumption

\* The messages a run makes are messages.
LEMMA MessageTypes ==
    /\ UserMessage \in MessageType
    /\ \A call \in ToolCalls : ToolResult(call) \in MessageType
    /\ \A stop \in Failed \cup {"Stop", "ToolUse"}, calls \in 0..MaxToolCalls, text \in BOOLEAN :
          Assistant(stop, calls, text) \in MessageType
    /\ \A m \in MessageType : m.calls \in 0..MaxToolCalls
<1>1. UserMessage \in MessageType
  BY DEF MessageType
<1>2. ASSUME NEW call \in ToolCalls PROVE ToolResult(call) \in MessageType
  BY DEF MessageType
<1>3. ASSUME NEW stop \in Failed \cup {"Stop", "ToolUse"}, NEW calls \in 0..MaxToolCalls,
             NEW text \in BOOLEAN
      PROVE  Assistant(stop, calls, text) \in MessageType
  BY DEF MessageType
<1>4. ASSUME NEW m \in MessageType PROVE m.calls \in 0..MaxToolCalls
  <2>1. 0 \in 0..MaxToolCalls
    BY RunAssumption
  <2>2. CASE m = UserMessage
    BY <2>1, <2>2 DEF UserMessage, Message
  <2>3. CASE m \in {ToolResult(call) : call \in ToolCalls}
    BY <2>1, <2>3 DEF ToolResult, Message
  <2>4. CASE m \in {Assistant(stop, calls, text) :
                       stop \in Failed \cup {"Stop", "ToolUse"},
                       calls \in 0..MaxToolCalls, text \in BOOLEAN}
    BY <2>4 DEF Assistant, Message
  <2> QED BY <2>2, <2>3, <2>4 DEF MessageType
<1> QED BY <1>1, <1>2, <1>3, <1>4

\* An assistant message under construction, and the one it becomes.
LEMMA Built ==
    ASSUME building \in Buildings
    PROVE  /\ building.calls \in 0..MaxToolCalls
           /\ \A stop \in Failed \cup {"Stop", "ToolUse"} :
                 [building EXCEPT !.stop = stop] \in MessageType
           /\ building.calls < MaxToolCalls => [building EXCEPT !.calls = @ + 1] \in Buildings
           /\ \A kind : [building EXCEPT !.text = @ \/ kind = "text"] \in Buildings
<1>1. PICK calls \in 0..MaxToolCalls, text \in BOOLEAN :
         building = Message("assistant", "none", calls, text, 0)
  BY DEF Buildings, Assistant
<1>2. building.calls = calls /\ building.text = text
  BY <1>1 DEF Message
<1>3. ASSUME NEW stop \in Failed \cup {"Stop", "ToolUse"}
      PROVE  [building EXCEPT !.stop = stop] \in MessageType
  <2>1. [building EXCEPT !.stop = stop] = Assistant(stop, calls, text)
    BY <1>1 DEF Message, Assistant
  <2> QED BY <2>1, MessageTypes
<1>4. ASSUME building.calls < MaxToolCalls
      PROVE  [building EXCEPT !.calls = @ + 1] \in Buildings
  <2>1. [building EXCEPT !.calls = calls + 1] = Assistant("none", calls + 1, text)
    BY <1>1 DEF Message, Assistant
  <2>2. calls + 1 \in 0..MaxToolCalls
    BY <1>2, <1>4, RunAssumption
  <2> QED BY <1>2, <2>1, <2>2 DEF Buildings
<1>5. ASSUME NEW kind
      PROVE  [building EXCEPT !.text = @ \/ kind = "text"] \in Buildings
  <2> DEFINE shows == text \/ kind = "text"
  <2>1. [building EXCEPT !.text = @ \/ kind = "text"] = [building EXCEPT !.text = shows]
    BY <1>2
  <2>2. shows \in BOOLEAN
    OBVIOUS
  <2> HIDE DEF shows
  <2>3. [building EXCEPT !.text = shows] = Assistant("none", calls, shows)
    BY <1>1 DEF Message, Assistant
  <2> QED BY <2>1, <2>2, <2>3 DEF Buildings
<1> QED BY <1>1, <1>2, <1>3, <1>4, <1>5

LEMMA NothingIsBuilding == NothingBuilt \in Buildings
<1>1. 0 \in 0..MaxToolCalls
  BY Bounds
<1>2. \E calls \in 0..MaxToolCalls : \E text \in BOOLEAN :
         NothingBuilt = Assistant("none", calls, text)
  <2>1. NothingBuilt = Assistant("none", 0, FALSE) /\ FALSE \in BOOLEAN
    BY DEF NothingBuilt
  <2> QED BY <1>1, <2>1, Zenon
<1> QED BY <1>2 DEF Buildings

LEMMA Results ==
    ASSUME NEW n \in 0..MaxToolCalls PROVE ToolResults(n) \in Seq(MessageType)
<1>1. \A call \in 1..n : ToolResult(call) \in MessageType
  BY MessageTypes, RunAssumption DEF ToolCalls
<1>2. n \in Nat /\ ToolResults(n) \in [1..n -> MessageType]
  BY <1>1, RunAssumption DEF ToolResults
<1> QED BY <1>2

\* So are those of a compacted context.
LEMMA CompactedTyped ==
    ASSUME NEW messages \in Seq(MessageType), NEW cut \in Cuts(messages)
    PROVE  Compacted(messages, cut) \in Seq(MessageType)
<1>1. cut \in 1..Len(messages)
  BY CutPlace
<1>2. SubSeq(messages, cut + 1, Len(messages)) \in Seq(MessageType)
  BY <1>1
<1>3. <<UserMessage>> \in Seq(MessageType)
  BY MessageTypes
<1> QED BY <1>2, <1>3 DEF Compacted

-----------------------------------------------------------------------------
(***************************************************************************)
(* The steps keep the messages' types.                                     *)
(***************************************************************************)
LEMMA Policies ==
    /\ \A policy \in PolicyAppends : policy \in Seq(MessageType)
    /\ \A steering \in SteeringMessages : steering \in Seq(MessageType)
<1>1. <<UserMessage>> \in Seq(MessageType) /\ <<>> \in Seq(MessageType)
  BY MessageTypes
<1> QED BY <1>1 DEF PolicyAppends, SteeringMessages

LEMMA ControllerMessages == ASSUME MessagesInv, Controller PROVE MessagesInv'
<1>1. ASSUME NEW prompts \in Seq(MessageType), StartRun(prompts) PROVE MessagesInv'
  <2>1. session' \in Seq(MessageType) /\ context' = session'
    BY <1>1 DEF StartRun, MessagesInv
  <2>2. UNCHANGED <<generated_messages, told, building>>
    BY <1>1 DEF StartRun, streamVars
  <2> QED BY <2>1, <2>2 DEF MessagesInv, Buildings
<1>2. CASE NewPrompt \/ Continuation
  <2>1. <<UserMessage>> \in Seq(MessageType) /\ <<>> \in Seq(MessageType)
    BY MessageTypes
  <2> QED BY <1>1, <1>2, <2>1 DEF NewPrompt, Continuation
<1>3. CASE SessionCompacts
  <2>1. UNCHANGED <<context, generated_messages, told, building>>
    BY <1>3 DEF SessionCompacts, stateVars, streamVars
  <2>2. session' = session \/ \E cut \in Cuts(session) : session' = Compacted(session, cut)
    BY <1>3 DEF SessionCompacts
  <2>3. session' \in Seq(MessageType)
    BY <2>2, CompactedTyped DEF MessagesInv
  <2> QED BY <2>1, <2>3 DEF MessagesInv, Buildings
<1>4. CASE Cancel
  BY <1>4 DEF Cancel, MessagesInv, Buildings, stateVars, streamVars, runVars
<1> QED BY <1>2, <1>3, <1>4 DEF Controller

LEMMA FinishMessages ==
    ASSUME MessagesInv, StreamEnds, NEW assistant \in MessageType,
           context' = Append(context, assistant),
           generated_messages' = Append(generated_messages, assistant),
           told' \in {told, Append(told, assistant)}
    PROVE  MessagesInv'
<1>1. session' = session /\ building' = NothingBuilt
  BY DEF StreamEnds, Streaming, runVars
<1>2. /\ context' \in Seq(MessageType) /\ generated_messages' \in Seq(MessageType)
      /\ told' \in Seq(MessageType)
  <2>1. context' \in Seq(MessageType) /\ generated_messages' \in Seq(MessageType)
    BY DEF MessagesInv
  <2>2. CASE told' = told
    BY <2>1, <2>2 DEF MessagesInv
  <2>3. CASE told' = Append(told, assistant)
    BY <2>1, <2>3 DEF MessagesInv
  <2> QED BY <2>2, <2>3
<1>3. building' \in Buildings
  BY <1>1, NothingIsBuilding
<1> QED BY <1>1, <1>2, <1>3 DEF MessagesInv, Buildings

LEMMA StreamMessages == ASSUME MessagesInv, Stream PROVE MessagesInv'
<1>1. /\ building.calls \in 0..MaxToolCalls
      /\ \A stop \in Failed \cup {"Stop", "ToolUse"} :
            [building EXCEPT !.stop = stop] \in MessageType
      /\ building.calls < MaxToolCalls => [building EXCEPT !.calls = @ + 1] \in Buildings
      /\ \A kind : [building EXCEPT !.text = @ \/ kind = "text"] \in Buildings
  BY Built DEF MessagesInv
<1>2. ASSUME StreamGoesOn, building' \in Buildings PROVE MessagesInv'
  <2>1. UNCHANGED <<session, context, generated_messages, told>>
    BY <1>2 DEF StreamGoesOn, Streaming, runVars, stateVars
  <2> QED BY <1>2, <2>1 DEF MessagesInv, Buildings
<1>3. ASSUME NEW kind, StreamDelta(kind) PROVE MessagesInv'
  BY <1>1, <1>2, <1>3 DEF StreamDelta
<1>4. CASE StreamToolCall
  BY <1>1, <1>2, <1>4 DEF StreamToolCall
<1>5. CASE StreamToolCallGoesOn
  <2>1. building' \in Buildings
    BY <1>5 DEF StreamToolCallGoesOn, MessagesInv, streamVars
  <2> QED BY <1>2, <1>5, <2>1 DEF StreamToolCallGoesOn
<1>6. ASSUME StreamEnds, NEW stop \in Failed \cup {"Stop"},
             FinishWith([building EXCEPT !.stop = stop])
      PROVE  MessagesInv'
  BY <1>1, <1>6, FinishMessages DEF FinishWith
<1>7. CASE StreamFails
  BY <1>6, <1>7 DEF StreamFails, Failed
<1>8. CASE StreamCancelled
  BY <1>6, <1>8 DEF StreamCancelled, Failed
<1>9. CASE StreamStops
  <2>1. CASE FinishWith([building EXCEPT !.stop = "Stop"])
    BY <1>6, <1>9, <2>1 DEF StreamStops
  <2>2. CASE ~FinishWith([building EXCEPT !.stop = "Stop"])
    <3> DEFINE assistant == [building EXCEPT !.stop = "Stop"]
    <3>1. /\ context' = Append(context, assistant)
          /\ generated_messages' = Append(generated_messages, assistant)
          /\ told' = Append(told, assistant) /\ StreamEnds
      BY <1>9, <2>2 DEF StreamStops
    <3>2. assistant \in MessageType
      BY <1>1
    <3> HIDE DEF assistant
    <3> QED BY <3>1, <3>2, FinishMessages
  <2> QED BY <2>1, <2>2
<1>10. CASE StreamAsksForTools
  <2> DEFINE assistant == [building EXCEPT !.stop = "ToolUse"]
  <2>1. /\ context' = Append(context, assistant)
        /\ generated_messages' = Append(generated_messages, assistant)
        /\ told' = told /\ StreamEnds
    BY <1>10 DEF StreamAsksForTools
  <2>2. assistant \in MessageType
    BY <1>1
  <2> HIDE DEF assistant
  <2> QED BY <2>1, <2>2, FinishMessages
<1> QED BY <1>3, <1>4, <1>5, <1>7, <1>8, <1>9, <1>10 DEF Stream

LEMMA LoopMessages == ASSUME MessagesInv, ToldInv, Loop PROVE MessagesInv'
<1>1. CASE StreamStarts
  <2>1. UNCHANGED <<session, generated_messages, told, building>>
    BY <1>1 DEF StreamStarts, runVars, streamVars
  <2>2. context' \in Seq(MessageType)
    BY <1>1, Policies DEF StreamStarts, MessagesInv
  <2> QED BY <2>1, <2>2 DEF MessagesInv, Buildings
<1>2. CASE PreflightFails
  <2> DEFINE assistant == Assistant("Error", 0, TRUE)
  <2>1. assistant \in MessageType
    <3>1. 0 \in 0..MaxToolCalls /\ TRUE \in BOOLEAN /\ "Error" \in Failed \cup {"Stop", "ToolUse"}
      BY Bounds DEF Failed
    <3> QED BY <3>1, MessageTypes
  <2>2. /\ \E policy \in PolicyAppends : context' = context \o policy \o <<assistant>>
        /\ generated_messages' = generated_messages \o <<assistant>>
        /\ told' = told \o <<assistant>> /\ UNCHANGED <<session, building>>
    BY <1>2 DEF PreflightFails, runVars, streamVars
  <2> HIDE DEF assistant
  <2>3. <<assistant>> \in Seq(MessageType)
    BY <2>1
  <2>4. context' \in Seq(MessageType)
    BY <2>2, <2>3, Policies DEF MessagesInv
  <2>5. generated_messages' \in Seq(MessageType) /\ told' \in Seq(MessageType)
    BY <2>2, <2>3 DEF MessagesInv
  <2> QED BY <2>2, <2>4, <2>5 DEF MessagesInv, Buildings
<1>3. CASE FollowUpsAppended
  <2>1. UNCHANGED <<session, generated_messages, told, building>>
    BY <1>3 DEF FollowUpsAppended, runVars, streamVars
  <2>2. context' \in Seq(MessageType)
    BY <1>3, MessageTypes DEF FollowUpsAppended, MessagesInv
  <2> QED BY <2>1, <2>2 DEF MessagesInv, Buildings
<1>4. CASE ToolResultsAppended
  <2> DEFINE assistant == Last(generated_messages)
             results == ToolResults(assistant.calls)
  <2>1. assistant \in MessageType
    BY <1>4 DEF ToolResultsAppended, Step, MessagesInv, ToldInv, Last
  <2>2. results \in Seq(MessageType)
    BY <2>1, MessageTypes, Results
  <2>3. /\ \E steering \in SteeringMessages : context' = context \o results \o steering
        /\ generated_messages' = generated_messages \o results
        /\ told' = Append(told, assistant) \o results
        /\ UNCHANGED <<session, building>>
    BY <1>4 DEF ToolResultsAppended, runVars, streamVars
  <2> HIDE DEF assistant, results
  <2>4. context' \in Seq(MessageType)
    BY <2>2, <2>3, Policies DEF MessagesInv
  <2>5. generated_messages' \in Seq(MessageType) /\ told' \in Seq(MessageType)
    BY <2>1, <2>2, <2>3 DEF MessagesInv
  <2> QED BY <2>3, <2>4, <2>5 DEF MessagesInv, Buildings
<1>5. CASE DecideAfterTools
  BY <1>5 DEF DecideAfterTools, MessagesInv, Buildings, stateVars, streamVars, runVars
<1>6. CASE GateContinues \/ GateCompacts
  BY <1>6 DEF GateContinues, GateCompacts, Gate, MessagesInv, Buildings, streamVars, runVars
<1>7. CASE SummarizerEnds
  <2>1. UNCHANGED <<session, generated_messages, told, building>>
    BY <1>7 DEF SummarizerEnds, runVars, streamVars
  <2>2. context' = context \/ \E cut \in Cuts(context) : context' = Compacted(context, cut)
    BY <1>7 DEF SummarizerEnds
  <2>3. context' \in Seq(MessageType)
    BY <2>2, CompactedTyped DEF MessagesInv
  <2> QED BY <2>1, <2>3 DEF MessagesInv, Buildings
<1>8. CASE Return
  <2>1. /\ session' \in {session, session \o generated_messages} /\ context' = <<>>
        /\ generated_messages' = <<>> /\ told' = <<>> /\ building' = building
    BY <1>8 DEF Return, streamVars
  <2>2. session' \in Seq(MessageType)
    <3>1. CASE session' = session
      BY <3>1 DEF MessagesInv
    <3>2. CASE session' = session \o generated_messages
      BY <3>2 DEF MessagesInv
    <3> QED BY <2>1, <3>1, <3>2
  <2> QED BY <2>1, <2>2 DEF MessagesInv, Buildings
<1> QED BY <1>1, <1>2, <1>3, <1>4, <1>5, <1>6, <1>7, <1>8 DEF Loop

\* Sending an event and a tool's step change nothing that is kept or counted.
LEMMA Asides ==
    ASSUME Send \/ (\E call \in ToolCalls : Tool(call)) \/ UNCHANGED agentVars
    PROVE  UNCHANGED <<phase, context, generated_messages, terminal_error, told, session, runs,
                       tool_execution, building, cancelled, budget, turns, after_cancel>>
<1>1. CASE Send
  BY <1>1 DEF Send, stateVars, streamVars, runVars
<1>2. ASSUME NEW call \in ToolCalls, NEW from, NEW to, ToolStep(call, from, to)
      PROVE  UNCHANGED <<phase, context, generated_messages, terminal_error, told, session, runs,
                         tool_execution, building, cancelled, budget, turns, after_cancel>>
  BY <1>2 DEF ToolStep, stateVars, streamVars, runVars
<1>3. ASSUME NEW call \in ToolCalls, ForwardUpdate(call)
      PROVE  UNCHANGED <<phase, context, generated_messages, terminal_error, told, session, runs,
                         tool_execution, building, cancelled, budget, turns, after_cancel>>
  BY <1>3 DEF ForwardUpdate, stateVars, streamVars, runVars
<1>4. CASE \E call \in ToolCalls : Tool(call)
  BY <1>2, <1>3, <1>4
  DEF Tool, ToolProgresses, ToolStarts, ToolRefused, ToolRuns, ToolEnds, ToolUpdates, ToolReturns
<1>5. CASE UNCHANGED agentVars
  BY <1>5 DEF agentVars
<1> QED BY <1>1, <1>4, <1>5

LEMMA MessagesStep == ASSUME MessagesInv, ToldInv, [Next]_agentVars PROVE MessagesInv'
<1>1. CASE Send \/ (\E call \in ToolCalls : Tool(call)) \/ UNCHANGED agentVars
  <2>1. UNCHANGED <<session, context, generated_messages, told, building>>
    BY <1>1, Asides
  <2> QED BY <2>1 DEF MessagesInv, Buildings
<1> QED BY <1>1, ControllerMessages, StreamMessages, LoopMessages DEF Next

-----------------------------------------------------------------------------
(***************************************************************************)
(* The steps keep the counters in their bounds.                            *)
(***************************************************************************)
LEMMA CountersStep == ASSUME CountersInv, [Next]_agentVars PROVE CountersInv'
<1>1. CASE Send \/ (\E call \in ToolCalls : Tool(call)) \/ UNCHANGED agentVars
  <2>1. UNCHANGED <<tool_execution, terminal_error, cancelled, budget, phase, turns, runs>>
    BY <1>1, Asides
  <2> QED BY <2>1 DEF CountersInv
<1>2. CASE NewPrompt \/ Continuation
  <2>1. /\ cancelled' = FALSE /\ runs' = runs + 1 /\ runs < MaxRuns /\ phase' = "model"
        /\ UNCHANGED <<terminal_error, tool_execution, turns>>
        /\ budget' \in {budget, max_per_turn}
    BY <1>2 DEF NewPrompt, Continuation, StartRun
  <2>2. budget' \in 0..max_per_turn /\ runs' \in 0..MaxRuns
    BY <2>1, Bounds DEF CountersInv
  <2> QED BY <2>1, <2>2 DEF CountersInv
<1>3. CASE SessionCompacts
  BY <1>3 DEF SessionCompacts, Step, CountersInv, stateVars
<1>4. CASE Cancel
  BY <1>4 DEF Cancel, CountersInv, stateVars, runVars
<1>5. CASE Stream
  <2>1. Streaming /\ phase' # "summarizing" /\ terminal_error' \in {terminal_error, TRUE}
    BY <1>5 DEF Stream, StreamDelta, StreamToolCall, StreamToolCallGoesOn, StreamFails,
       StreamCancelled, StreamStops, StreamAsksForTools, StreamGoesOn, StreamEnds, FinishWith,
       Streaming, Step, stateVars
  <2>2. UNCHANGED <<tool_execution, cancelled, budget, turns, runs>>
    BY <2>1 DEF Streaming, Step, runVars
  <2> QED BY <2>1, <2>2 DEF CountersInv
<1>6. CASE StreamStarts
  <2>1. /\ turns < MaxTurns /\ turns' = turns + 1 /\ phase' = "streaming"
        /\ UNCHANGED <<tool_execution, terminal_error, cancelled, budget, runs>>
    BY <1>6 DEF StreamStarts, Step, runVars
  <2>2. turns' \in 0..MaxTurns
    BY <2>1, Bounds DEF CountersInv
  <2> QED BY <2>1, <2>2 DEF CountersInv
<1>7. CASE PreflightFails
  BY <1>7 DEF PreflightFails, Step, CountersInv, runVars
<1>8. CASE FollowUpsAppended
  BY <1>8 DEF FollowUpsAppended, Step, CountersInv, runVars
<1>9. CASE ToolResultsAppended
  BY <1>9 DEF ToolResultsAppended, Step, CountersInv, runVars
<1>10. CASE DecideAfterTools
  BY <1>10 DEF DecideAfterTools, Step, CountersInv, runVars, stateVars
<1>11. CASE GateContinues \/ GateCompacts
  BY <1>11 DEF GateContinues, GateCompacts, Gate, Step, CountersInv, runVars
<1>12. CASE SummarizerEnds
  <2>1. /\ phase = "summarizing" /\ phase' = "model" /\ budget' \in {budget, budget - 1}
        /\ UNCHANGED <<tool_execution, terminal_error, cancelled, turns, runs>>
    BY <1>12 DEF SummarizerEnds, Step, runVars
  <2>2. budget' \in 0..max_per_turn
    BY <2>1, Bounds DEF CountersInv
  <2> QED BY <2>1, <2>2 DEF CountersInv
<1>13. CASE Return
  BY <1>13 DEF Return, Step, CountersInv
<1> QED BY <1>1, <1>2, <1>3, <1>4, <1>5, <1>6, <1>7, <1>8, <1>9, <1>10, <1>11, <1>12, <1>13
    DEF Next, Controller, Loop

-----------------------------------------------------------------------------
(***************************************************************************)
(* What is told is what is generated.                                      *)
(***************************************************************************)
LEMMA LastAppended ==
    ASSUME NEW S, NEW s \in Seq(S), NEW e \in S
    PROVE  Append(s, e) # <<>> /\ Last(Append(s, e)) = e
BY DEF Last

LEMMA ToldStep ==
    ASSUME MessagesInv, ToldInv, phase \in Phases, [Next]_agentVars PROVE ToldInv'
<1>1. CASE UNCHANGED <<phase, generated_messages, told>>
  BY <1>1 DEF ToldInv
<1>2. CASE Send \/ Cancel \/ SessionCompacts \/ (\E call \in ToolCalls : Tool(call))
             \/ UNCHANGED agentVars
  <2>1. CASE Cancel \/ SessionCompacts
    BY <1>1, <2>1 DEF Cancel, SessionCompacts, Step, stateVars
  <2> QED BY <1>1, <1>2, <2>1, Asides
<1>3. CASE NewPrompt \/ Continuation
  BY <1>3 DEF NewPrompt, Continuation, StartRun, ToldInv
<1>4. CASE StreamStarts \/ FollowUpsAppended \/ DecideAfterTools \/ GateContinues
             \/ GateCompacts \/ SummarizerEnds
  <2>1. /\ phase \notin {"tools", "returned"} /\ phase' \notin {"tools", "returned"}
        /\ UNCHANGED <<generated_messages, told>>
    BY <1>4 DEF StreamStarts, FollowUpsAppended, DecideAfterTools, GateContinues, GateCompacts,
       SummarizerEnds, Gate, Step, stateVars
  <2> QED BY <2>1 DEF ToldInv
<1>5. CASE PreflightFails
  <2>1. /\ phase = "model" /\ phase' = "finished"
        /\ generated_messages' = generated_messages \o <<Assistant("Error", 0, TRUE)>>
        /\ told' = told \o <<Assistant("Error", 0, TRUE)>>
    BY <1>5 DEF PreflightFails, Step
  <2> QED BY <2>1 DEF ToldInv
<1>6. CASE Stream
  <2>1. CASE StreamGoesOn
    BY <1>1, <2>1 DEF StreamGoesOn, stateVars
  <2>2. ASSUME NEW assistant, Streaming, phase' \in {"finished", "follow_ups"},
               generated_messages' = Append(generated_messages, assistant),
               told' = Append(told, assistant)
        PROVE  ToldInv'
    BY <2>2 DEF ToldInv, Streaming, Step
  <2>3. CASE StreamFails
    BY <2>2, <2>3 DEF StreamFails, StreamEnds, FinishWith
  <2>4. CASE StreamCancelled
    BY <2>2, <2>4 DEF StreamCancelled, StreamEnds, FinishWith
  <2>5. CASE StreamStops
    BY <2>2, <2>5 DEF StreamStops, StreamEnds, FinishWith
  <2>6. CASE StreamAsksForTools
    <3> DEFINE assistant == [building EXCEPT !.stop = "ToolUse"]
    <3>1. /\ generated_messages' = Append(generated_messages, assistant)
          /\ told' = told /\ phase' = "tools" /\ phase = "streaming"
      BY <2>6 DEF StreamAsksForTools, StreamEnds, Streaming, Step
    <3>2. assistant \in MessageType /\ generated_messages \in Seq(MessageType)
      BY Built DEF MessagesInv
    <3> HIDE DEF assistant
    <3>3. /\ generated_messages' # <<>> /\ Last(generated_messages') = assistant
          /\ told = generated_messages
      BY <3>1, <3>2, LastAppended DEF ToldInv
    <3>4. Last(generated_messages)' = assistant
      BY <3>3 DEF Last
    <3> QED BY <3>1, <3>3, <3>4 DEF ToldInv
  <2> QED BY <1>6, <2>1, <2>3, <2>4, <2>5, <2>6
      DEF Stream, StreamDelta, StreamToolCall, StreamToolCallGoesOn
<1>7. CASE ToolResultsAppended
  <2> DEFINE assistant == Last(generated_messages)
             results == ToolResults(assistant.calls)
  <2>1. /\ phase = "tools" /\ phase' = "decide"
        /\ generated_messages' = generated_messages \o results
        /\ told' = Append(told, assistant) \o results
    BY <1>7 DEF ToolResultsAppended, Step
  <2>2. generated_messages = Append(told, assistant)
    BY <2>1 DEF ToldInv
  <2> HIDE DEF assistant, results
  <2> QED BY <2>1, <2>2 DEF ToldInv
<1>8. CASE Return
  BY <1>8 DEF Return, ToldInv
<1> QED BY <1>2, <1>3, <1>4, <1>5, <1>6, <1>7, <1>8 DEF Next, Controller, Loop

-----------------------------------------------------------------------------
(***************************************************************************)
(* What follows a cancellation.                                            *)
(***************************************************************************)
Since == [requests : Nat, follow_ups : Nat, batches : Nat]

LEMMA Counted ==
    ASSUME after_cancel \in Since
    PROVE  /\ CountAfterCancel("requests") \in Since
           /\ CountAfterCancel("follow_ups") \in Since
           /\ CountAfterCancel("batches") \in Since
           /\ cancelled =>
                 /\ CountAfterCancel("requests").requests = after_cancel.requests + 1
                 /\ CountAfterCancel("requests").follow_ups = after_cancel.follow_ups
                 /\ CountAfterCancel("requests").batches = after_cancel.batches
                 /\ CountAfterCancel("follow_ups").requests = after_cancel.requests
                 /\ CountAfterCancel("follow_ups").follow_ups = after_cancel.follow_ups + 1
                 /\ CountAfterCancel("follow_ups").batches = after_cancel.batches
                 /\ CountAfterCancel("batches").requests = after_cancel.requests
                 /\ CountAfterCancel("batches").follow_ups = after_cancel.follow_ups
                 /\ CountAfterCancel("batches").batches = after_cancel.batches + 1
           /\ ~cancelled => \A what : CountAfterCancel(what) = after_cancel
<1>1. CASE cancelled
  BY <1>1 DEF CountAfterCancel, Since
<1>2. CASE ~cancelled
  BY <1>2 DEF CountAfterCancel
<1> QED BY <1>1, <1>2

LEMMA ZeroSince ==
    Zero \in Since /\ Zero.requests = 0 /\ Zero.follow_ups = 0 /\ Zero.batches = 0
BY DEF Zero, Since

LEMMA CancelStep ==
    ASSUME CancelInv, phase \in Phases, [Next]_agentVars PROVE CancelInv'
<1>1. after_cancel \in Since
  BY DEF CancelInv, Since
<1>2. CASE UNCHANGED <<phase, cancelled, after_cancel>>
  BY <1>2 DEF CancelInv
<1>3. CASE Send \/ (\E call \in ToolCalls : Tool(call)) \/ UNCHANGED agentVars
  BY <1>2, <1>3, Asides
<1>4. CASE NewPrompt \/ Continuation
  <2>1. after_cancel' = Zero
    BY <1>4 DEF NewPrompt, Continuation, StartRun
  <2> QED BY <2>1, ZeroSince DEF CancelInv, Since
<1>5. CASE SessionCompacts
  BY <1>2, <1>5 DEF SessionCompacts, Step
<1>6. CASE Cancel
  BY <1>6 DEF Cancel, CancelInv
<1>7. CASE StreamStarts
  <2>1. /\ phase = "model" /\ phase' = "streaming" /\ cancelled' = cancelled
        /\ after_cancel' = CountAfterCancel("requests")
    BY <1>7 DEF StreamStarts, Step
  <2>2. CASE cancelled
    BY <1>1, <2>1, <2>2, Counted DEF CancelInv, Since
  <2>3. CASE ~cancelled
    BY <1>1, <2>1, <2>3, Counted, ZeroSince DEF CancelInv, Since
  <2> QED BY <2>2, <2>3
<1>8. CASE FollowUpsAppended
  <2>1. /\ phase = "follow_ups" /\ phase' = "model" /\ cancelled' = cancelled
        /\ after_cancel' = CountAfterCancel("follow_ups")
    BY <1>8 DEF FollowUpsAppended, Step
  <2>2. CASE cancelled
    BY <1>1, <2>1, <2>2, Counted DEF CancelInv, Since
  <2>3. CASE ~cancelled
    BY <1>1, <2>1, <2>3, Counted, ZeroSince DEF CancelInv, Since
  <2> QED BY <2>2, <2>3
<1>9. CASE StreamAsksForTools
  <2>1. /\ phase = "streaming" /\ phase' = "tools" /\ cancelled' = cancelled
        /\ after_cancel' = CountAfterCancel("batches")
    BY <1>9 DEF StreamAsksForTools, StreamEnds, Streaming, Step
  <2>2. CASE cancelled
    BY <1>1, <2>1, <2>2, Counted DEF CancelInv, Since
  <2>3. CASE ~cancelled
    BY <1>1, <2>1, <2>3, Counted, ZeroSince DEF CancelInv, Since
  <2> QED BY <2>2, <2>3
<1>10. CASE Stream /\ ~StreamAsksForTools
  <2>1. /\ phase = "streaming" /\ phase' \in {"streaming", "finished", "follow_ups"}
        /\ UNCHANGED <<cancelled, after_cancel>>
    BY <1>10 DEF Stream, StreamDelta, StreamToolCall, StreamToolCallGoesOn, StreamFails,
       StreamCancelled, StreamStops, StreamGoesOn, StreamEnds, FinishWith, Streaming, Step
  <2> QED BY <2>1 DEF CancelInv
<1>11. CASE DecideAfterTools
  <2>1. /\ phase' \in {"finished", "gate"} /\ (phase' = "gate" => ~cancelled)
        /\ UNCHANGED <<cancelled, after_cancel>>
    BY <1>11 DEF DecideAfterTools, Step
  <2>2. phase' = "gate" => after_cancel = Zero
    BY <2>1 DEF CancelInv
  <2> QED BY <2>1, <2>2, ZeroSince DEF CancelInv
<1>12. CASE GateContinues \/ GateCompacts \/ SummarizerEnds
  <2>1. /\ phase \in {"gate", "summarizing"} /\ phase' \in {"model", "summarizing"}
        /\ UNCHANGED <<cancelled, after_cancel>>
    BY <1>12 DEF GateContinues, GateCompacts, SummarizerEnds, Gate, Step
  <2> QED BY <2>1 DEF CancelInv
<1>13. CASE PreflightFails \/ ToolResultsAppended \/ Return
  <2>1. phase' \in {"finished", "decide", "returned"} /\ UNCHANGED <<cancelled, after_cancel>>
    BY <1>13 DEF PreflightFails, ToolResultsAppended, Return, Step
  <2> QED BY <2>1 DEF CancelInv
<1> QED BY <1>3, <1>4, <1>5, <1>6, <1>7, <1>8, <1>9, <1>10, <1>11, <1>12, <1>13
    DEF Next, Controller, Loop

-----------------------------------------------------------------------------
(***************************************************************************)
(* The invariants together.                                                *)
(***************************************************************************)
\* Whoever reads a run's events finds blocks open only in messages and executions
\* only in turns: what AgentEvents promises of its views holds of this run's.
THEOREM ReadersServed == Spec => []Events!ViewOK
<1>1. /\ \A v, e : Events!Legal(v, e) <=> Legal(v, e)
      /\ \A v, e : Events!After(v, e) = After(v, e)
      /\ Events!Outside = Outside
  <2>1. Events!Outside = Outside
    BY DEF Events!Outside, Outside
  <2>2. \A stage : Events!At(stage) = At(stage)
    BY <2>1 DEF Events!At, At
  <2>3. \A v, e : Events!Legal(v, e) <=> Legal(v, e)
    BY DEF Events!Legal, Legal
  <2>4. \A v, e : Events!After(v, e) = After(v, e)
    BY <2>1, <2>2 DEF Events!After, After
  <2> QED BY <2>1, <2>3, <2>4
<1>2. Events!AgentEvent = EventsOver(Events!Calls)
  BY DEF Events!AgentEvent, EventsOver, Events!Event, Event, Events!ToolEvent, ToolEvent,
         Events!DeltaEvent, DeltaEvent, Events!TurnEnd, TurnEnd, Events!PlainEvents,
         PlainEvents, Events!Deltas, Deltas
<1>3. Events!ViewOK <=> SoundView(Events!Calls, shown)
  BY DEF Events!ViewOK, Events!View, SoundView, ViewsOver, Events!Deltas, Deltas
<1>4. Events!EventsInit => Events!ViewOK
  BY <1>1, <1>3, OutsideSound DEF Events!EventsInit
<1>5. Events!ViewOK /\ [Events!EventsNext]_shown => Events!ViewOK'
  <2>1. ASSUME Events!ViewOK, Events!EventsNext PROVE Events!ViewOK'
    <3>1. PICK e \in EventsOver(Events!Calls) : Legal(shown, e) /\ shown' = After(shown, e)
      BY <1>1, <1>2, <2>1 DEF Events!EventsNext
    <3>2. SoundView(Events!Calls, shown')
      BY <1>3, <2>1, <3>1, AfterSound
    <3> QED BY <3>2 DEF Events!ViewOK, Events!View, SoundView, ViewsOver, Events!Deltas, Deltas,
                        Events!Calls
  <2>2. ASSUME Events!ViewOK, UNCHANGED shown PROVE Events!ViewOK'
    BY <2>2 DEF Events!ViewOK, Events!View, Events!Calls
  <2> QED BY <2>1, <2>2
<1>6. Spec => Events!EventsInit /\ [][Events!EventsNext]_shown
  BY EventsImplemented DEF EventProtocol, Events!EventsSpec
<1> QED BY <1>4, <1>5, <1>6, PTL

LEMMA RunInit == Init => RunInv
<1> SUFFICES ASSUME Init PROVE RunInv
  OBVIOUS
<1>1. MessagesInv
  BY NothingIsBuilding DEF Init, MessagesInv
<1>2. CountersInv
  <2>1. /\ terminal_error = FALSE /\ cancelled = FALSE /\ budget = max_per_turn
        /\ phase = "returned" /\ turns = 0 /\ runs = 0 /\ tool_execution \in ToolExecutionModes
    BY DEF Init
  <2>2. budget \in 0..max_per_turn /\ turns \in 0..MaxTurns /\ runs \in 0..MaxRuns
    BY <2>1, Bounds
  <2> QED BY <2>1, <2>2 DEF CountersInv
<1>3. ToldInv
  BY DEF Init, ToldInv
<1>4. CancelInv
  BY ZeroSince DEF Init, CancelInv, Since
<1> QED BY <1>1, <1>2, <1>3, <1>4 DEF RunInv

LEMMA RunStep == EventInv /\ RunInv /\ [Next]_agentVars => RunInv'
BY MessagesStep, CountersStep, ToldStep, CancelStep DEF RunInv, EventInv, Shape

LEMMA RunImplies == EventInv /\ RunInv /\ Events!ViewOK => RunSound
<1> SUFFICES ASSUME EventInv, RunInv, Events!ViewOK PROVE RunSound
  OBVIOUS
<1>1. TypeOK
  BY DEF TypeOK, EventInv, Shape, Phases, Places, RunInv, MessagesInv, Buildings, CountersInv,
     Events!ViewOK
<1>2. ToldIsKept
  BY DEF RunInv, ToldInv, ToldIsKept
<1>3. CancelStopsSoon
  BY DEF RunInv, CancelInv, CancelStopsSoon
<1> QED BY <1>1, <1>2, <1>3 DEF RunSound

\* Every run keeps what its TurnEnd events told, whatever ended it, and a cancelled
\* run begins at most one more batch and makes at most one more request besides
\* those for follow-ups.
THEOREM RunsSound == Spec => []RunSound
<1>1. Init => EventInv /\ RunInv
  BY EventInit, RunInit
<1>2. EventInv /\ RunInv /\ [Next]_agentVars => (EventInv /\ RunInv)'
  BY EventStep, RunStep
<1> QED BY <1>1, <1>2, ReadersServed, RunImplies, PTL DEF Spec

-----------------------------------------------------------------------------
(***************************************************************************)
(* What a request carries is paired: every tool call in the session, the   *)
(* context and what is generated has its results, but for the batch that   *)
(* is running, whose results are still to come.                            *)
(***************************************************************************)
Batch == ToolResults(Last(generated_messages).calls)

PairInv ==
    /\ Answered(session)
    /\ phase # "tools" => Answered(context) /\ Answered(generated_messages)
    /\ phase = "tools" => Answered(context \o Batch) /\ Answered(generated_messages \o Batch)

LEMMA MessagesShaped == Shaped(MessageType)
<1>1. ASSUME NEW m \in MessageType PROVE m.calls \in Nat /\ m.call \in Nat
  <2>1. CASE m = UserMessage
    BY <2>1 DEF UserMessage, Message
  <2>2. CASE m \in {ToolResult(call) : call \in ToolCalls}
    BY <2>2, Bounds DEF ToolResult, Message, ToolCalls
  <2>3. CASE m \in {Assistant(stop, calls, text) :
                       stop \in Failed \cup {"Stop", "ToolUse"},
                       calls \in 0..MaxToolCalls, text \in BOOLEAN}
    BY <2>3, Bounds DEF Assistant, Message
  <2> QED BY <1>1, <2>1, <2>2, <2>3 DEF MessageType
<1> QED BY <1>1 DEF Shaped

\* Answered messages stay so with answered ones behind them.
LEMMA Joined ==
    ASSUME NEW s \in Seq(MessageType), NEW t \in Seq(MessageType), Answered(s), Answered(t)
    PROVE  Answered(s \o t)
BY MessagesShaped, AnsweredJoined

LEMMA PromptsAnswered ==
    /\ \A policy \in PolicyAppends : policy \in Seq(MessageType) /\ Answered(policy)
    /\ \A steering \in SteeringMessages : steering \in Seq(MessageType) /\ Answered(steering)
    /\ <<UserMessage>> \in Seq(MessageType) /\ Answered(<<UserMessage>>)
    /\ <<>> \in Seq(MessageType) /\ Answered(<<>>)
<1>1. <<UserMessage>> \in Seq(MessageType) /\ <<>> \in Seq(MessageType)
  BY MessageTypes
<1>2. Answered(<<UserMessage>>)
  <2>1. UserMessage.kind # "result" /\ UserMessage.calls = 0
    BY DEF UserMessage, Message
  <2> QED BY <2>1, AnsweredOne
<1> QED BY <1>1, <1>2, AnsweredNone DEF PolicyAppends, SteeringMessages

\* The assistant message a stream leaves: one that failed is not sent.
LEMMA AnswerStreamed ==
    ASSUME building \in Buildings, NEW stop \in Failed \cup {"Stop", "ToolUse"},
           NEW m, m = [building EXCEPT !.stop = stop]
    PROVE  /\ m \in MessageType /\ m.kind = "assistant" /\ m.calls = building.calls
           /\ m.calls \in 0..MaxToolCalls
           /\ stop \in Failed => ~Sendable(m)
           /\ stop \notin Failed /\ m.calls > 0 => Sendable(m)
<1>1. PICK calls \in 0..MaxToolCalls, text \in BOOLEAN :
         building = Message("assistant", "none", calls, text, 0)
  BY DEF Buildings, Assistant
<1>2. m = Assistant(stop, calls, text)
  BY <1>1 DEF Message, Assistant
<1>3. m \in MessageType
  BY <1>2, MessageTypes
<1>4. m.kind = "assistant" /\ m.stop = stop /\ m.calls = calls /\ building.calls = calls
  BY <1>1, <1>2 DEF Assistant, Message
<1> QED BY <1>3, <1>4 DEF Sendable

\* A message without calls that are answered, at the end of the context and of what
\* is generated.
LEMMA MessageAdded ==
    ASSUME MessagesInv, PairInv, phase # "tools", phase' # "tools", session' = session,
           NEW m \in MessageType, m.kind = "assistant", m.calls = 0 \/ ~Sendable(m),
           NEW before \in Seq(MessageType), Answered(before),
           context' = context \o before \o <<m>>,
           generated_messages' = generated_messages \o <<m>>
    PROVE  PairInv'
<1>1. <<m>> \in Seq(MessageType) /\ Answered(<<m>>)
  BY AnsweredOne
<1>2. context \o before \in Seq(MessageType) /\ Answered(context \o before)
  BY Joined DEF MessagesInv, PairInv
<1>3. Answered(context') /\ Answered(generated_messages')
  BY <1>1, <1>2, Joined DEF MessagesInv, PairInv
<1> QED BY <1>3 DEF PairInv

LEMMA ControllerPairs == ASSUME MessagesInv, PairInv, Controller PROVE PairInv'
<1>1. ASSUME NEW prompts \in Seq(MessageType), Answered(prompts), StartRun(prompts) PROVE PairInv'
  <2>1. /\ session' = session \o prompts /\ context' = session' /\ phase' = "model"
        /\ phase = "returned" /\ generated_messages' = generated_messages
    BY <1>1 DEF StartRun
  <2>2. Answered(session \o prompts)
    BY <1>1, Joined DEF MessagesInv, PairInv
  <2> QED BY <2>1, <2>2 DEF PairInv
<1>2. CASE NewPrompt \/ Continuation
  BY <1>1, <1>2, PromptsAnswered DEF NewPrompt, Continuation
<1>3. CASE SessionCompacts
  <2>1. phase # "tools" /\ UNCHANGED <<phase, context, generated_messages>>
    BY <1>3 DEF SessionCompacts, Step, stateVars
  <2>2. session' = session \/ \E cut \in Cuts(session) : session' = Compacted(session, cut)
    BY <1>3 DEF SessionCompacts
  <2>3. Answered(session')
    BY <2>2, CompactedAnswered, MessagesShaped, MessageTypes DEF MessagesInv, PairInv
  <2> QED BY <2>1, <2>3 DEF PairInv
<1>4. CASE Cancel
  BY <1>4 DEF Cancel, PairInv, Batch, Last, stateVars, runVars
<1> QED BY <1>2, <1>3, <1>4 DEF Controller

LEMMA StreamPairs == ASSUME MessagesInv, PairInv, Stream PROVE PairInv'
<1>1. building \in Buildings
  BY DEF MessagesInv
<1>2. ASSUME StreamGoesOn PROVE PairInv'
  BY <1>2 DEF StreamGoesOn, Streaming, PairInv, Batch, Last, stateVars, runVars
<1>3. ASSUME StreamEnds, NEW stop \in Failed \cup {"Stop"}, stop \in Failed \/ building.calls = 0,
             NEW m, m = [building EXCEPT !.stop = stop],
             context' = Append(context, m), generated_messages' = Append(generated_messages, m),
             phase' # "tools"
      PROVE  PairInv'
  <2>1. m \in MessageType /\ m.kind = "assistant" /\ (m.calls = 0 \/ ~Sendable(m))
    BY <1>1, <1>3, AnswerStreamed
  <2>2. phase # "tools" /\ session' = session
    BY <1>3 DEF StreamEnds, Streaming, Step, runVars
  <2>3. /\ context' = context \o <<>> \o <<m>>
        /\ generated_messages' = generated_messages \o <<m>>
    <3>1. context \in Seq(MessageType) /\ generated_messages \in Seq(MessageType)
      BY DEF MessagesInv
    <3>2. /\ Append(context, m) = context \o <<m>> /\ context \o <<>> = context
          /\ Append(generated_messages, m) = generated_messages \o <<m>>
      BY <2>1, <3>1, AppendIsConcat, ConcatEmptySeq
    <3> QED BY <1>3, <3>2
  <2> QED BY <1>3, <2>1, <2>2, <2>3, PromptsAnswered, MessageAdded
<1>4. CASE StreamFails
  BY <1>3, <1>4 DEF StreamFails, FinishWith, Failed
<1>5. CASE StreamCancelled
  BY <1>3, <1>5 DEF StreamCancelled, FinishWith, Failed
<1>6. CASE StreamStops
  <2> DEFINE m == [building EXCEPT !.stop = "Stop"]
  <2>1. /\ context' = Append(context, m) /\ generated_messages' = Append(generated_messages, m)
        /\ phase' # "tools" /\ StreamEnds /\ building.calls = 0
    BY <1>6 DEF StreamStops, FinishWith
  <2> HIDE DEF m
  <2> QED BY <1>3, <2>1 DEF m
<1>7. CASE StreamAsksForTools
  <2> DEFINE m == [building EXCEPT !.stop = "ToolUse"]
             results == ToolResults(m.calls)
  <2>1. /\ context' = Append(context, m) /\ generated_messages' = Append(generated_messages, m)
        /\ phase' = "tools" /\ phase = "streaming" /\ session' = session /\ building.calls > 0
    BY <1>7 DEF StreamAsksForTools, StreamEnds, Streaming, Step, runVars
  <2>2. /\ m \in MessageType /\ m.kind = "assistant" /\ m.calls \in 0..MaxToolCalls /\ Sendable(m)
    BY <1>1, <2>1, AnswerStreamed DEF Failed
  <2> HIDE DEF m
  <2>3. results \in Seq(MessageType) /\ m.calls \in Nat
    BY <2>2, Results, Bounds
  <2>4. <<m>> \o results \in Seq(MessageType) /\ Answered(<<m>> \o results)
    BY <2>2, <2>3, AnsweredBatch
  <2>5. ASSUME NEW s \in Seq(MessageType), Answered(s)
        PROVE  Answered(Append(s, m) \o results)
    <3> HIDE DEF results
    <3>1. Append(s, m) \o results = s \o (<<m>> \o results)
      <4>1. <<m>> \in Seq(MessageType) /\ Append(s, m) = s \o <<m>>
        BY <2>2, AppendIsConcat
      <4> QED BY <2>3, <4>1, ConcatAssociative
    <3> QED BY <2>4, <2>5, <3>1, Joined
  <2>6. Last(generated_messages)' = m
    <3>1. Last(Append(generated_messages, m)) = m
      BY <2>2, LastAppended DEF MessagesInv
    <3> QED BY <2>1, <3>1 DEF Last
  <2>7. Batch' = results
    BY <2>6 DEF Batch
  <2>8. Answered(context) /\ Answered(generated_messages) /\ Answered(session)
    BY <2>1 DEF PairInv
  <2>9. Answered(Append(context, m) \o results) /\ Answered(Append(generated_messages, m) \o results)
    BY <2>5, <2>8 DEF MessagesInv
  <2> HIDE DEF results
  <2> QED BY <2>1, <2>7, <2>8, <2>9 DEF PairInv
<1> QED BY <1>2, <1>4, <1>5, <1>6, <1>7
    DEF Stream, StreamDelta, StreamToolCall, StreamToolCallGoesOn

LEMMA LoopPairs == ASSUME MessagesInv, ToldInv, PairInv, Loop PROVE PairInv'
<1>1. CASE StreamStarts
  <2>1. /\ phase = "model" /\ phase' = "streaming"
        /\ UNCHANGED <<session, generated_messages>>
        /\ \E policy \in PolicyAppends : context' = context \o policy
    BY <1>1 DEF StreamStarts, Step, runVars
  <2>2. Answered(context')
    BY <2>1, PromptsAnswered, Joined DEF MessagesInv, PairInv
  <2> QED BY <2>1, <2>2 DEF PairInv
<1>2. CASE PreflightFails
  <2> DEFINE m == Assistant("Error", 0, TRUE)
  <2>1. /\ phase = "model" /\ phase' = "finished" /\ session' = session
        /\ generated_messages' = generated_messages \o <<m>>
        /\ \E policy \in PolicyAppends : context' = context \o policy \o <<m>>
    BY <1>2 DEF PreflightFails, Step, runVars
  <2>2. m \in MessageType /\ m.kind = "assistant" /\ m.calls = 0
    <3>1. 0 \in 0..MaxToolCalls /\ TRUE \in BOOLEAN /\ "Error" \in Failed \cup {"Stop", "ToolUse"}
      BY Bounds DEF Failed
    <3>2. m.kind = "assistant" /\ m.calls = 0
      BY DEF Assistant, Message
    <3> QED BY <3>1, <3>2, MessageTypes
  <2> HIDE DEF m
  <2>3. PICK policy \in PolicyAppends : context' = context \o policy \o <<m>>
    BY <2>1
  <2>4. policy \in Seq(MessageType) /\ Answered(policy)
    BY PromptsAnswered
  <2> QED BY <2>1, <2>2, <2>3, <2>4, MessageAdded
<1>3. CASE FollowUpsAppended
  <2>1. /\ phase = "follow_ups" /\ phase' = "model"
        /\ UNCHANGED <<session, generated_messages>>
        /\ context' = Append(context, UserMessage)
    BY <1>3 DEF FollowUpsAppended, Step, runVars
  <2>2. Append(context, UserMessage) = context \o <<UserMessage>>
    BY MessageTypes, AppendIsConcat DEF MessagesInv
  <2>3. Answered(context')
    BY <2>1, <2>2, PromptsAnswered, Joined DEF MessagesInv, PairInv
  <2> QED BY <2>1, <2>3 DEF PairInv
<1>4. CASE ToolResultsAppended
  <2>1. /\ phase = "tools" /\ phase' = "decide" /\ session' = session
        /\ generated_messages' = generated_messages \o Batch
        /\ \E steering \in SteeringMessages : context' = context \o Batch \o steering
    BY <1>4 DEF ToolResultsAppended, Step, runVars, Batch
  <2>2. Batch \in Seq(MessageType)
    <3>1. generated_messages # <<>> /\ generated_messages \in Seq(MessageType)
      BY <2>1 DEF ToldInv, MessagesInv
    <3>2. Last(generated_messages) \in MessageType
      BY <3>1 DEF Last
    <3> QED BY <3>2, MessageTypes, Results DEF Batch
  <2>3. context \o Batch \in Seq(MessageType) /\ Answered(context \o Batch)
    BY <2>1, <2>2 DEF PairInv, MessagesInv
  <2>4. Answered(context')
    BY <2>1, <2>3, PromptsAnswered, Joined
  <2> QED BY <2>1, <2>4 DEF PairInv
<1>5. CASE DecideAfterTools \/ GateContinues \/ GateCompacts
  <2>1. phase # "tools" /\ phase' # "tools" /\ UNCHANGED <<session, context, generated_messages>>
    BY <1>5 DEF DecideAfterTools, GateContinues, GateCompacts, Gate, Step, stateVars, runVars
  <2> QED BY <2>1 DEF PairInv
<1>6. CASE SummarizerEnds
  <2>1. /\ phase = "summarizing" /\ phase' = "model" /\ UNCHANGED <<session, generated_messages>>
        /\ context' = context \/ \E cut \in Cuts(context) : context' = Compacted(context, cut)
    BY <1>6 DEF SummarizerEnds, Step, runVars
  <2>2. Answered(context')
    BY <2>1, CompactedAnswered, MessagesShaped, MessageTypes DEF MessagesInv, PairInv
  <2> QED BY <2>1, <2>2 DEF PairInv
<1>7. CASE Return
  <2>1. /\ phase = "finished" /\ phase' = "returned" /\ context' = <<>> /\ generated_messages' = <<>>
        /\ session' \in {session, session \o generated_messages}
    BY <1>7 DEF Return, Step
  <2>2. Answered(session \o generated_messages)
    BY <2>1, Joined DEF MessagesInv, PairInv
  <2> QED BY <2>1, <2>2, AnsweredNone DEF PairInv
<1> QED BY <1>1, <1>2, <1>3, <1>4, <1>5, <1>6, <1>7 DEF Loop

LEMMA PairStep == ASSUME MessagesInv, ToldInv, PairInv, [Next]_agentVars PROVE PairInv'
<1>1. CASE Send \/ (\E call \in ToolCalls : Tool(call)) \/ UNCHANGED agentVars
  <2>1. UNCHANGED <<phase, session, context, generated_messages>>
    BY <1>1, Asides
  <2> QED BY <2>1 DEF PairInv, Batch, Last
<1> QED BY <1>1, ControllerPairs, StreamPairs, LoopPairs DEF Next

\* What is answered is paired once it is sanitized.
LEMMA PairImplies == ASSUME MessagesInv, PairInv PROVE RequestsPaired
<1>1. Paired(Sanitize(session))
  BY MessagesShaped, AnsweredIsPaired DEF MessagesInv, PairInv
<1>2. ASSUME phase = "model" PROVE Paired(Sanitize(context))
  BY <1>2, MessagesShaped, AnsweredIsPaired DEF MessagesInv, PairInv
<1> QED BY <1>1, <1>2 DEF RequestsPaired

LEMMA PairAlways == Spec => [](EventInv /\ RunInv /\ PairInv)
<1>1. Init => EventInv /\ RunInv /\ PairInv
  <2>1. Init => PairInv
    BY AnsweredNone DEF Init, PairInv
  <2> QED BY <2>1, EventInit, RunInit
<1>2. EventInv /\ RunInv /\ PairInv /\ [Next]_agentVars => (EventInv /\ RunInv /\ PairInv)'
  BY EventStep, RunStep, PairStep DEF RunInv
<1> QED BY <1>1, <1>2, PTL DEF Spec

\* Whatever a run is given, refused, cancelled, failed or compacted on the way: what it
\* asks a provider, and what it leaves in the session, pairs every call with its result.
THEOREM RequestsArePaired == Spec => []RequestsPaired
<1>1. EventInv /\ RunInv /\ PairInv => RequestsPaired
  BY PairImplies DEF RunInv
<1> QED BY <1>1, PairAlways, PTL

\* What a finished run hands to the session answers its own calls: what SessionLog
\* assumes of the runs it is given.
RunAnswered == phase = "finished" => Answered(generated_messages)

THEOREM RunsAnswerTheirCalls == Spec => []RunAnswered
<1>1. PairInv => RunAnswered
  BY DEF PairInv, RunAnswered
<1> QED BY <1>1, PairAlways, PTL

-----------------------------------------------------------------------------
(* The pane: ViewSound of OutputView.tla.                                      *)

\* A sequence of whatever it holds.
Row(x) == x \in Seq(Range(x))

FlatInv ==
    /\ flat = [lines |-> flat.lines, width |-> flat.width, valid |-> flat.valid]
    /\ Row(flat.lines) /\ flat.valid \in BOOLEAN
    /\ flat.valid => flat.lines = DrawnFresh(flat.width)

\* Only an answer that is being streamed has a rendering of its own, which is of its text.
AnswerKept(c) == c # <<>> => c[1].lines = AnswerLines(c[1].key[1], c[1].key[2], c[1].key[3])

RenderOf(r, b) ==
    r # NoRender =>
        /\ b.kind = "assistant" /\ b.live
        /\ r = << [text |-> b.text, cache |-> r[1].cache] >> /\ AnswerKept(r[1].cache)

CacheOf(cache, b) ==
    Row(cache) /\ \A e \in Range(cache) : e.lines = BlockLines(b, e.width, render_context)

BlocksInv ==
    /\ entries \in Seq(OutBlocks) /\ Row(caches) /\ Row(renders)
    /\ DOMAIN caches = DOMAIN entries /\ DOMAIN renders = DOMAIN entries
    /\ \A i \in DOMAIN entries : CacheOf(caches[i], entries[i]) /\ RenderOf(renders[i], entries[i])

ScrollStates == [offset : Nat, auto : BOOLEAN, total : Nat, height : Nat]
ScrollInv ==
    /\ scroll \in ScrollStates
    /\ scroll.offset <= MaxScroll(scroll) /\ (scroll.auto <=> scroll.offset = MaxScroll(scroll))

PaneInv ==
    /\ BlocksInv /\ FlatInv /\ ScrollInv
    /\ size \in [width : PaneWidths, height : PaneHeights]
    /\ dirty \in [composer : BOOLEAN, full : BOOLEAN] /\ urgent \in BOOLEAN
    /\ StaleIsDue

LEMMA RowIs ==
    ASSUME NEW s, Row(s)
    PROVE  Len(s) \in Nat /\ DOMAIN s = 1..Len(s) /\ s \in Seq(Range(s))
BY DEF Row

LEMMA RowOf ==
    ASSUME NEW s, NEW n \in Nat, s = [k \in 1..n |-> s[k]]
    PROVE  Row(s) /\ Len(s) = n /\ DOMAIN s = 1..n
<1>1. DOMAIN s = 1..n /\ \A k \in 1..n : s[k] \in Range(s)
    BY DEF Range
<1>2. s \in [1..n -> Range(s)]
    BY <1>1
<1> QED BY <1>1, <1>2 DEF Row

LEMMA RowAppend ==
    ASSUME NEW s, Row(s), NEW x
    PROVE  /\ Row(Append(s, x)) /\ Len(Append(s, x)) = Len(s) + 1
           /\ DOMAIN Append(s, x) = 1..Len(s) + 1
           /\ Append(s, x)[Len(s) + 1] = x /\ \A k \in 1..Len(s) : Append(s, x)[k] = s[k]
<1>1. Len(s) \in Nat /\ DOMAIN s = 1..Len(s) /\ s \in Seq(Range(s))
    BY RowIs
<1>2. s \in Seq(Range(s) \cup {x}) /\ x \in Range(s) \cup {x}
    BY <1>1
<1>3. PICK t : t = Append(s, x)
    OBVIOUS
<1>4. t \in Seq(Range(s) \cup {x}) /\ Len(t) = Len(s) + 1 /\ t[Len(s) + 1] = x
      /\ \A k \in 1..Len(s) : t[k] = s[k]
    BY <1>1, <1>2, <1>3
<1>5. PICK n \in Nat : n = Len(s) + 1
    BY <1>1
<1>6. t = [k \in 1..n |-> t[k]]
    BY <1>4, <1>5
<1>7. Row(t) /\ DOMAIN t = 1..n
    BY <1>6, RowOf
<1> QED BY <1>3, <1>4, <1>5, <1>7

LEMMA RowExcept ==
    ASSUME NEW s, Row(s), NEW i \in DOMAIN s, NEW x
    PROVE  /\ Row([s EXCEPT ![i] = x]) /\ DOMAIN [s EXCEPT ![i] = x] = DOMAIN s
           /\ [s EXCEPT ![i] = x][i] = x
           /\ \A k \in DOMAIN s : k # i => [s EXCEPT ![i] = x][k] = s[k]
<1>1. Len(s) \in Nat /\ DOMAIN s = 1..Len(s)
    BY RowIs
<1>2. PICK n \in Nat : n = Len(s)
    BY <1>1
<1>3. PICK t : t = [s EXCEPT ![i] = x]
    OBVIOUS
<1>4. DOMAIN t = 1..n /\ t = [k \in 1..n |-> t[k]]
    BY <1>1, <1>2, <1>3
<1>5. Row(t)
    BY <1>4, RowOf
<1> QED BY <1>1, <1>3, <1>5

LEMMA RowConcat ==
    ASSUME NEW s, Row(s), NEW t, Row(t)
    PROVE  Row(s \o t)
<1>1. s \in Seq(Range(s) \cup Range(t)) /\ t \in Seq(Range(s) \cup Range(t))
    BY RowIs
<1>2. PICK u : u = s \o t
    OBVIOUS
<1>3. u \in Seq(Range(s) \cup Range(t))
    BY <1>1, <1>2
<1>4. Len(u) \in Nat /\ u = [k \in 1..Len(u) |-> u[k]]
    BY <1>3
<1>5. Row(u)
    BY <1>4, RowOf
<1> QED BY <1>2, <1>5

LEMMA NothingRow == Row(<<>>) /\ Range(<<>>) = {} /\ DOMAIN <<>> = {}
BY DEF Row, Range

LEMMA OneRow == ASSUME NEW x PROVE Row(<<x>>) /\ Len(<<x>>) = 1 /\ <<x>>[1] = x
BY DEF Row, Range

-----------------------------------------------------------------------------
(* Lines *)
LEMMA WrappedIs ==
    ASSUME NEW words \in Nat, NEW width \in Nat \ {0}
    PROVE  Wrapped(words, width) \in Nat
<1>1. words + width - 1 \in Nat
    OBVIOUS
<1>2. \A x \in Nat, y \in Nat \ {0} : x \div y \in Nat
    OBVIOUS
<1> QED BY <1>1, <1>2 DEF Wrapped

LEMMA LinesRow ==
    ASSUME NEW part, NEW of, NEW rows \in Nat, NEW width, NEW c
    PROVE  Row(Lines(part, of, rows, width, c))
<1>1. PICK s : s = Lines(part, of, rows, width, c)
    OBVIOUS
<1>2. s = [k \in 1..rows |-> s[k]]
    BY <1>1 DEF Lines
<1>3. Row(s)
    BY <1>2, RowOf
<1> QED BY <1>1, <1>3

LEMMA BlockLinesRow ==
    ASSUME NEW b \in OutBlocks, NEW width \in Nat \ {0}, NEW c
    PROVE  Row(BlockLines(b, width, c))
<1>1. b.text \in Nat /\ b.thinking \in Nat
    BY DEF OutBlocks
<1>2. Wrapped(b.text, width) \in Nat /\ Wrapped(b.thinking, width) \in Nat
    BY <1>1, WrappedIs
<1>3. CASE b.kind = "tool"
    <2> DEFINE body == IF b.text = 0 THEN (IF b.live THEN 1 ELSE 0)
                       ELSE IF "compact" \in c THEN 0 ELSE Wrapped(b.text, width)
    <2>1. 1 + body \in Nat
        BY <1>2
    <2>2. Row(Lines("tool", <<b.text, b.live>>, 1 + body, width, c))
        BY <2>1, LinesRow
    <2> QED BY <1>3, <2>2 DEF BlockLines, ToolLines
<1>4. CASE b.kind = "assistant"
    <2> DEFINE answer == AnswerLines(b.text, width, c)
               thinking == IF b.thinking = 0 THEN <<>>
                           ELSE Lines("thinking", b.thinking, 1 + Wrapped(b.thinking, width), width, c)
    <2>1. Row(answer)
        BY <1>2, LinesRow DEF AnswerLines
    <2>2. Row(thinking)
        <3>1. 1 + Wrapped(b.thinking, width) \in Nat
            BY <1>2
        <3>2. Row(Lines("thinking", b.thinking, 1 + Wrapped(b.thinking, width), width, c))
            BY <3>1, LinesRow
        <3> QED BY <3>2, NothingRow
    <2>3. Row(<<EmptyLine>>)
        BY OneRow
    <2> HIDE DEF answer, thinking
    <2>4. Row(thinking \o <<EmptyLine>>)
        BY <2>2, <2>3, RowConcat
    <2>5. Row(thinking \o <<EmptyLine>> \o answer)
        BY <2>1, <2>4, RowConcat
    <2> QED BY <1>3, <1>4, <2>1, <2>2, <2>3, <2>5 DEF BlockLines, AssistantLines, answer, thinking
<1>5. CASE b.kind # "tool" /\ b.kind # "assistant"
    BY <1>2, <1>5, LinesRow DEF BlockLines
<1> QED BY <1>3, <1>4, <1>5

IsJoining(f, parts, m) ==
    f = [n \in 1..m |-> IF n = 1 THEN parts[1] ELSE f[n - 1] \o <<EmptyLine>> \o parts[n]]

LEMMA JoiningExists ==
    ASSUME NEW parts, NEW m \in Nat \ {0}
    PROVE  \E f : IsJoining(f, parts, m)
<1> DEFINE P == {n \in Nat : n = 0 \/ \E f : IsJoining(f, parts, n)}
<1>1. 0 \in P
    OBVIOUS
<1>2. ASSUME NEW k \in Nat, k \in P PROVE k + 1 \in P
    <2>1. CASE k = 0
        <3>1. IsJoining([n \in 1..1 |-> parts[1]], parts, 1)
            BY DEF IsJoining
        <3> QED BY <2>1, <3>1
    <2>2. CASE k # 0
        <3>1. PICK f : IsJoining(f, parts, k)
            BY <1>2, <2>2
        <3>6. PICK last : last = f[k] \o <<EmptyLine>> \o parts[k + 1]
            OBVIOUS
        <3> DEFINE g == [n \in 1..k + 1 |-> IF n = k + 1 THEN last ELSE f[n]]
        <3>2. g[k + 1] = last /\ (\A n \in 1..k : g[n] = f[n]) /\ g = [n \in 1..k + 1 |-> g[n]]
            OBVIOUS
        <3>3. \A n \in 1..k : f[n] = IF n = 1 THEN parts[1] ELSE f[n - 1] \o <<EmptyLine>> \o parts[n]
            BY <3>1 DEF IsJoining
        <3> HIDE DEF g
        <3>4. ASSUME NEW n \in 1..k + 1
              PROVE  g[n] = IF n = 1 THEN parts[1] ELSE g[n - 1] \o <<EmptyLine>> \o parts[n]
            <4>1. CASE n = k + 1
                <5>1. n # 1 /\ n - 1 = k /\ k \in 1..k
                    BY <2>2, <4>1
                <5>2. g[n - 1] = f[k]
                    BY <3>2, <5>1
                <5> QED BY <3>6, <3>2, <4>1, <5>1, <5>2
            <4>2. CASE n \in 1..k
                <5>1. n = 1 \/ (n # 1 /\ n - 1 \in 1..k)
                    BY <4>2
                <5>2. n # 1 => g[n - 1] = f[n - 1]
                    BY <3>2, <5>1
                <5>3. g[n] = f[n]
                    BY <3>2, <4>2
                <5> QED BY <3>3, <4>2, <5>2, <5>3
            <4> QED BY <4>1, <4>2
        <3>5. IsJoining(g, parts, k + 1)
            BY <3>2, <3>4 DEF IsJoining
        <3> QED BY <3>5
    <2> QED BY <2>1, <2>2
<1> HIDE DEF P
<1>3. Nat \subseteq P
    BY <1>1, <1>2, InductionOnNat
<1> QED BY <1>3 DEF P

LEMMA FlattenRow ==
    ASSUME NEW parts, Row(parts), \A i \in DOMAIN parts : Row(parts[i])
    PROVE  Row(Flatten(parts))
<1>1. Len(parts) \in Nat /\ DOMAIN parts = 1..Len(parts)
    BY RowIs
<1>2. CASE parts = <<>>
    BY <1>2, OneRow DEF Flatten
<1>3. CASE parts # <<>>
    <2>1. PICK m \in Nat \ {0} : m = Len(parts)
        <3>1. parts \in Seq(Range(parts))
            BY RowIs
        <3>2. Len(parts) # 0
            BY <1>3, <3>1
        <3> QED BY <1>1, <3>2
    <2>2. PICK f : IsJoining(f, parts, m) /\ Flatten(parts) = f[m]
        <3>1. \E f : IsJoining(f, parts, m)
            BY JoiningExists
        <3> QED BY <1>3, <2>1, <3>1 DEF Flatten, IsJoining
    <2>3. \A n \in 1..m : f[n] = IF n = 1 THEN parts[1] ELSE f[n - 1] \o <<EmptyLine>> \o parts[n]
        BY <2>2 DEF IsJoining
    <2> DEFINE P == {n \in Nat : n \in 1..m => Row(f[n])}
    <2>4. 0 \in P
        OBVIOUS
    <2>5. ASSUME NEW k \in Nat, k \in P PROVE k + 1 \in P
        <3> SUFFICES ASSUME k + 1 \in 1..m PROVE Row(f[k + 1])
            OBVIOUS
        <3>1. k + 1 \in DOMAIN parts /\ 1 \in DOMAIN parts
            BY <1>1, <2>1
        <3>2. CASE k = 0
            <4>1. f[k + 1] = parts[1]
                BY <2>3, <3>2
            <4> QED BY <3>1, <4>1
        <3>3. CASE k # 0
            <4>1. k \in 1..m /\ k + 1 # 1 /\ (k + 1) - 1 = k
                BY <3>3
            <4>2. f[k + 1] = f[k] \o <<EmptyLine>> \o parts[k + 1]
                BY <2>3, <4>1
            <4>3. Row(f[k]) /\ Row(parts[k + 1]) /\ Row(<<EmptyLine>>)
                BY <2>5, <3>1, <4>1, OneRow
            <4>4. Row(f[k] \o <<EmptyLine>>)
                BY <4>3, RowConcat
            <4> QED BY <4>2, <4>3, <4>4, RowConcat
        <3> QED BY <3>2, <3>3
    <2> HIDE DEF P
    <2>6. Nat \subseteq P
        BY <2>4, <2>5, InductionOnNat
    <2>7. m \in 1..m
        OBVIOUS
    <2> QED BY <2>2, <2>6, <2>7 DEF P
<1> QED BY <1>2, <1>3

-----------------------------------------------------------------------------
(* What is drawn of a block, from its cache or its streamed text *)
LEMMA EntryAtIs ==
    ASSUME NEW cache, NEW b, CacheOf(cache, b), NEW width, HasEntry(cache, width)
    PROVE  EntryAt(cache, width).lines = BlockLines(b, width, render_context)
<1>1. \E k \in DOMAIN cache : cache[k].width = width
    BY DEF HasEntry
<1>2. PICK k \in DOMAIN cache : EntryAt(cache, width) = cache[k] /\ cache[k].width = width
    BY <1>1 DEF EntryAt
<1>3. cache[k] \in Range(cache)
    BY DEF Range
<1> QED BY <1>2, <1>3 DEF CacheOf

LEMMA EmptyCache == ASSUME NEW b PROVE CacheOf(<<>>, b)
BY NothingRow DEF CacheOf

LEMMA InsertKeeps ==
    ASSUME NEW cache, NEW b, CacheOf(cache, b), NEW entry,
           entry.lines = BlockLines(b, entry.width, render_context)
    PROVE  CacheOf(InsertEntry(cache, entry), b)
<1> DEFINE S == Range(cache) \cup {entry}
           rest == IF cache = <<>> THEN <<>>
                   ELSE IF cache[1].width = entry.width THEN Tail(cache) ELSE <<cache[1]>>
<1>1. cache \in Seq(Range(cache)) /\ Len(cache) \in Nat /\ DOMAIN cache = 1..Len(cache)
    BY RowIs DEF CacheOf
<1>2. cache \in Seq(S) /\ entry \in S
    BY <1>1
<1>3. rest \in Seq(S)
    <2>1. CASE cache = <<>>
        BY <2>1
    <2>2. CASE cache # <<>>
        <3>1. Tail(cache) \in Seq(S)
            BY <1>2, <2>2
        <3>2. cache[1] \in S
            BY <1>2, <2>2
        <3>3. <<cache[1]>> \in Seq(S)
            BY <3>2
        <3>4. CASE cache[1].width = entry.width
            BY <2>2, <3>1, <3>4
        <3>5. CASE cache[1].width # entry.width
            BY <2>2, <3>3, <3>5
        <3> QED BY <3>4, <3>5
    <2> QED BY <2>1, <2>2
<1>4. \A e \in S : e.lines = BlockLines(b, e.width, render_context)
    BY DEF CacheOf
<1>5. InsertEntry(cache, entry) = <<entry>> \o rest
    BY DEF InsertEntry
<1> HIDE DEF rest, S
<1>6. PICK new : new = <<entry>> \o rest
    OBVIOUS
<1>7. new \in Seq(S)
    BY <1>2, <1>3, <1>6
<1>8. Len(new) \in Nat /\ new = [k \in 1..Len(new) |-> new[k]] /\ \A k \in 1..Len(new) : new[k] \in S
    BY <1>7
<1>9. Row(new) /\ DOMAIN new = 1..Len(new)
    BY <1>8, RowOf
<1>10. Range(new) \subseteq S
    BY <1>8, <1>9 DEF Range
<1> QED BY <1>4, <1>5, <1>6, <1>9, <1>10 DEF CacheOf

LEMMA StreamedAnswerIs ==
    ASSUME NEW i, NEW b, renders[i] # NoRender, RenderOf(renders[i], b), NEW width
    PROVE  StreamedAnswer(i, width) = AnswerLines(b.text, width, render_context)
<1> DEFINE r == renders[i][1]
<1>1. PICK c : r = [text |-> b.text, cache |-> c] /\ AnswerKept(c)
    BY DEF RenderOf
<1>2. r.text = b.text /\ r.cache = c
    BY <1>1
<1>3. StreamedAnswer(i, width) = IF c # <<>> /\ c[1].key = <<b.text, width, render_context>>
                                 THEN c[1].lines ELSE AnswerLines(b.text, width, render_context)
    BY <1>2 DEF StreamedAnswer
<1>4. ASSUME c # <<>>, c[1].key = <<b.text, width, render_context>>
      PROVE  c[1].lines = AnswerLines(b.text, width, render_context)
    <2>1. c[1].key[1] = b.text /\ c[1].key[2] = width /\ c[1].key[3] = render_context
        BY <1>4
    <2> QED BY <1>1, <1>4, <2>1 DEF AnswerKept
<1> QED BY <1>3, <1>4

LEMMA LinesOfIs ==
    ASSUME BlocksInv, NEW i \in DOMAIN entries, NEW width
    PROVE  LinesOf(i, width) = BlockLines(entries[i], width, render_context)
<1>1. CacheOf(caches[i], entries[i]) /\ RenderOf(renders[i], entries[i])
    BY DEF BlocksInv
<1>2. CASE ~entries[i].live /\ HasEntry(caches[i], width)
    BY <1>1, <1>2, EntryAtIs DEF LinesOf
<1>3. CASE ~(~entries[i].live /\ HasEntry(caches[i], width)) /\ entries[i].live /\ renders[i] # NoRender
    <2>1. StreamedAnswer(i, width) = AnswerLines(entries[i].text, width, render_context)
        BY <1>1, <1>3, StreamedAnswerIs
    <2>2. entries[i].kind = "assistant"
        BY <1>1, <1>3 DEF RenderOf
    <2> QED BY <1>3, <2>1, <2>2 DEF LinesOf, BlockLines
<1>4. CASE ~(~entries[i].live /\ HasEntry(caches[i], width)) /\ ~(entries[i].live /\ renders[i] # NoRender)
    BY <1>4 DEF LinesOf
<1> QED BY <1>2, <1>3, <1>4

LEMMA SameLength == ASSUME NEW m \in Nat, NEW n \in Nat, 1..m = 1..n PROVE m = n
<1>1. m > n => m \in 1..m /\ ~(m \in 1..n)
    OBVIOUS
<1>2. n > m => n \in 1..n /\ ~(n \in 1..m)
    OBVIOUS
<1> QED BY <1>1, <1>2

LEMMA EntriesTyped ==
    ASSUME BlocksInv
    PROVE  /\ Len(entries) \in Nat /\ DOMAIN entries = 1..Len(entries)
           /\ \A i \in DOMAIN entries : entries[i] \in OutBlocks
           /\ Len(caches) = Len(entries) /\ Len(renders) = Len(entries)
<1>1. Len(entries) \in Nat /\ DOMAIN entries = 1..Len(entries)
      /\ \A i \in DOMAIN entries : entries[i] \in OutBlocks
    BY DEF BlocksInv
<1>2. /\ Len(caches) \in Nat /\ DOMAIN caches = 1..Len(caches)
      /\ Len(renders) \in Nat /\ DOMAIN renders = 1..Len(renders)
    BY RowIs DEF BlocksInv
<1>3. DOMAIN caches = DOMAIN entries /\ DOMAIN renders = DOMAIN entries
    BY DEF BlocksInv
<1>4. 1..Len(caches) = 1..Len(entries) /\ 1..Len(renders) = 1..Len(entries)
    BY <1>1, <1>2, <1>3
<1>5. Len(caches) = Len(entries) /\ Len(renders) = Len(entries)
    BY <1>1, <1>2, <1>4, SameLength
<1> QED BY <1>1, <1>5

LEMMA DrawnRow ==
    ASSUME BlocksInv, NEW width \in Nat \ {0} PROVE Row(DrawnFresh(width))
<1> DEFINE parts == [i \in DOMAIN entries |-> BlockLines(entries[i], width, render_context)]
<1>1. Len(entries) \in Nat /\ DOMAIN entries = 1..Len(entries)
      /\ \A i \in DOMAIN entries : entries[i] \in OutBlocks
    BY EntriesTyped
<1>2. PICK n \in Nat : n = Len(entries)
    BY <1>1
<1>3. DOMAIN parts = 1..n /\ parts = [i \in 1..n |-> parts[i]]
    BY <1>1, <1>2
<1>4. \A i \in DOMAIN parts : Row(parts[i])
    BY <1>1, BlockLinesRow
<1> HIDE DEF parts
<1>5. Row(parts)
    BY <1>3, RowOf
<1>6. Row(Flatten(parts))
    BY <1>4, <1>5, FlattenRow
<1> QED BY <1>6 DEF DrawnFresh, parts

\* Building draws what a pane without caches would, and what it keeps is what it drew.
LEMMA BuildDraws ==
    ASSUME BlocksInv, NEW width \in Nat \ {0}, BuildFlat(width), entries' = entries,
           render_context' = render_context
    PROVE  BlocksInv' /\ flat' = [lines |-> DrawnFresh(width), width |-> width, valid |-> ~Animated]
<1> DEFINE parts == [i \in DOMAIN entries |-> LinesOf(i, width)]
<1>1. parts = [i \in DOMAIN entries |-> BlockLines(entries[i], width, render_context)]
    BY LinesOfIs
<1>2. flat' = [lines |-> Flatten(parts), width |-> width, valid |-> ~Animated]
    BY DEF BuildFlat
<1>3. flat' = [lines |-> DrawnFresh(width), width |-> width, valid |-> ~Animated]
    BY <1>1, <1>2 DEF DrawnFresh
<1>4. PICK n \in Nat : n = Len(entries) /\ DOMAIN entries = 1..n
    BY EntriesTyped
<1>5. caches' = [i \in 1..n |->
                    IF entries[i].live \/ HasEntry(caches[i], width) THEN caches[i]
                    ELSE InsertEntry(caches[i], [width |-> width, lines |-> parts[i]])]
    BY <1>4 DEF BuildFlat
<1>6. renders' = [i \in 1..n |->
                    IF ~entries[i].live \/ renders[i] = NoRender THEN renders[i]
                    ELSE << [text |-> renders[i][1].text,
                             cache |-> << [key |-> <<renders[i][1].text, width, render_context>>,
                                           lines |-> StreamedAnswer(i, width)] >>] >>]
    BY <1>4 DEF BuildFlat
<1>7. DOMAIN caches' = 1..n /\ caches' = [i \in 1..n |-> caches'[i]]
    BY <1>5
<1>8. DOMAIN renders' = 1..n /\ renders' = [i \in 1..n |-> renders'[i]]
    BY <1>6
<1>9. Row(caches') /\ Row(renders')
    BY <1>7, <1>8, RowOf
<1>10. ASSUME NEW i \in 1..n PROVE CacheOf(caches'[i], entries[i])
    <2>1. CacheOf(caches[i], entries[i])
        BY <1>4 DEF BlocksInv
    <2>2. CASE entries[i].live \/ HasEntry(caches[i], width)
        BY <1>5, <2>1, <2>2
    <2>3. CASE ~(entries[i].live \/ HasEntry(caches[i], width))
        <3>1. PICK e : e = [width |-> width, lines |-> parts[i]]
            OBVIOUS
        <3>2. e.lines = BlockLines(entries[i], e.width, render_context)
            BY <1>1, <1>4, <3>1
        <3>3. CacheOf(InsertEntry(caches[i], e), entries[i])
            BY <2>1, <3>2, InsertKeeps
        <3>4. caches'[i] = InsertEntry(caches[i], e)
            BY <1>5, <2>3, <3>1
        <3> QED BY <3>3, <3>4
    <2> QED BY <2>2, <2>3
<1>11. ASSUME NEW i \in 1..n PROVE RenderOf(renders'[i], entries[i])
    <2>1. RenderOf(renders[i], entries[i])
        BY <1>4 DEF BlocksInv
    <2>2. CASE ~entries[i].live \/ renders[i] = NoRender
        BY <1>6, <2>1, <2>2
    <2>3. CASE ~(~entries[i].live \/ renders[i] = NoRender)
        <3>1. renders[i][1].text = entries[i].text /\ entries[i].kind = "assistant" /\ entries[i].live
            BY <2>1, <2>3 DEF RenderOf
        <3>2. StreamedAnswer(i, width) = AnswerLines(entries[i].text, width, render_context)
            BY <2>1, <2>3, StreamedAnswerIs
        <3>3. PICK c : c = << [key |-> <<entries[i].text, width, render_context>>,
                               lines |-> AnswerLines(entries[i].text, width, render_context)] >>
            OBVIOUS
        <3>4. renders'[i] = << [text |-> entries[i].text, cache |-> c] >>
            BY <1>6, <2>3, <3>1, <3>2, <3>3
        <3>5. AnswerKept(c)
            <4>1. c[1].key = <<entries[i].text, width, render_context>>
                  /\ c[1].lines = AnswerLines(entries[i].text, width, render_context)
                BY <3>3
            <4>2. c[1].key[1] = entries[i].text /\ c[1].key[2] = width /\ c[1].key[3] = render_context
                BY <4>1
            <4> QED BY <4>1, <4>2 DEF AnswerKept
        <3>6. renders'[i][1].cache = c
            BY <3>4
        <3> QED BY <3>1, <3>4, <3>5, <3>6 DEF RenderOf
    <2> QED BY <2>2, <2>3
<1>12. BlocksInv'
    <2>1. entries' \in Seq(OutBlocks) /\ DOMAIN entries' = 1..n
        BY <1>4 DEF BlocksInv
    <2> QED BY <1>7, <1>8, <1>9, <1>10, <1>11, <2>1 DEF BlocksInv, CacheOf
<1> QED BY <1>3, <1>12

-----------------------------------------------------------------------------
(* The steps *)
LEMMA OneBlockChanges ==
    ASSUME BlocksInv, NEW i \in DOMAIN entries, NEW b \in OutBlocks, NEW r, RenderOf(r, b),
           entries' = [entries EXCEPT ![i] = b], caches' = [caches EXCEPT ![i] = <<>>],
           renders' = [renders EXCEPT ![i] = r], render_context' = render_context
    PROVE  BlocksInv'
<1>1. /\ Row(caches) /\ Row(renders) /\ DOMAIN caches = DOMAIN entries
      /\ DOMAIN renders = DOMAIN entries /\ entries \in Seq(OutBlocks)
    BY DEF BlocksInv
<1>2. Row(caches') /\ DOMAIN caches' = DOMAIN entries /\ caches'[i] = <<>>
      /\ \A k \in DOMAIN entries : k # i => caches'[k] = caches[k]
    BY <1>1, RowExcept
<1>3. Row(renders') /\ DOMAIN renders' = DOMAIN entries /\ renders'[i] = r
      /\ \A k \in DOMAIN entries : k # i => renders'[k] = renders[k]
    BY <1>1, RowExcept
<1>4. entries' \in Seq(OutBlocks) /\ DOMAIN entries' = DOMAIN entries /\ entries'[i] = b
      /\ \A k \in DOMAIN entries : k # i => entries'[k] = entries[k]
    BY <1>1
<1>5. ASSUME NEW k \in DOMAIN entries
      PROVE  CacheOf(caches'[k], entries'[k]) /\ RenderOf(renders'[k], entries'[k])
    <2>1. CASE k = i
        BY <1>2, <1>3, <1>4, <2>1, EmptyCache
    <2>2. CASE k # i
        BY <1>2, <1>3, <1>4, <2>2 DEF BlocksInv
    <2> QED BY <2>1, <2>2
<1> QED BY <1>2, <1>3, <1>4, <1>5 DEF BlocksInv, CacheOf

LEMMA OutdatedKeeps == ASSUME FlatInv, Outdated PROVE FlatInv'
<1>1. flat' = [lines |-> flat.lines, width |-> flat.width, valid |-> FALSE]
    BY DEF FlatInv, Outdated
<1>2. flat'.lines = flat.lines /\ flat'.width = flat.width /\ flat'.valid = FALSE
    BY <1>1
<1> QED BY <1>1, <1>2 DEF FlatInv

LEMMA DueKeeps == ASSUME PaneInv, BlocksInv', FlatInv', Due PROVE PaneInv'
<1>1. /\ dirty' = [dirty EXCEPT !.full = TRUE] /\ size' = size /\ scroll' = scroll
      /\ urgent' = urgent
    BY DEF Due
<1>2. dirty' \in [composer : BOOLEAN, full : BOOLEAN] /\ dirty'.full
    BY <1>1 DEF PaneInv
<1>3. ScrollInv'
    BY <1>1 DEF PaneInv, ScrollInv, MaxScroll
<1> QED BY <1>1, <1>2, <1>3 DEF PaneInv, StaleIsDue

LEMMA PushKeeps ==
    ASSUME PaneInv, NEW kind \in {"user", "assistant", "tool"}, NEW text \in Nat,
           NEW live \in BOOLEAN, PushBlock(kind, text, live)
    PROVE  PaneInv'
<1>1. BlocksInv /\ FlatInv
    BY DEF PaneInv
<1>2. PICK b : b = OutBlock(kind, text, live)
    OBVIOUS
<1>3. b \in OutBlocks /\ b.text = text /\ b.kind = kind /\ b.live = live
    BY <1>2 DEF OutBlock, OutBlocks
<1>4. PICK r : r = IF kind = "assistant" /\ live THEN Streamed(text) ELSE NoRender
    OBVIOUS
<1>5. RenderOf(r, b)
    <2>1. CASE kind = "assistant" /\ live
        <3>1. r = << [text |-> text, cache |-> <<>>] >>
            BY <1>4, <2>1 DEF Streamed
        <3>2. r[1].cache = <<>>
            BY <3>1
        <3> QED BY <1>3, <2>1, <3>1, <3>2 DEF RenderOf, AnswerKept
    <2>2. CASE ~(kind = "assistant" /\ live)
        BY <1>4, <2>2 DEF RenderOf
    <2> QED BY <2>1, <2>2
<1>6. /\ entries' = Append(entries, b) /\ caches' = Append(caches, <<>>)
      /\ renders' = Append(renders, r) /\ Outdated /\ Due
    BY <1>2, <1>4 DEF PushBlock
<1>7. PICK n \in Nat : /\ n = Len(entries) /\ n = Len(caches) /\ n = Len(renders)
                       /\ DOMAIN entries = 1..n
    BY <1>1, EntriesTyped
<1>8. Row(caches) /\ Row(renders) /\ entries \in Seq(OutBlocks)
    BY <1>1 DEF BlocksInv
<1>9. /\ entries' \in Seq(OutBlocks) /\ DOMAIN entries' = 1..n + 1 /\ entries'[n + 1] = b
      /\ \A k \in 1..n : entries'[k] = entries[k]
    BY <1>3, <1>6, <1>7, <1>8
<1>10. /\ Row(caches') /\ DOMAIN caches' = 1..n + 1 /\ caches'[n + 1] = <<>>
       /\ \A k \in 1..n : caches'[k] = caches[k]
    <2>1. PICK none : none = <<>>
        OBVIOUS
    <2>2. caches' = Append(caches, none)
        BY <1>6, <2>1
    <2>3. /\ Row(Append(caches, none)) /\ Len(Append(caches, none)) = Len(caches) + 1
          /\ DOMAIN Append(caches, none) = 1..Len(caches) + 1
          /\ Append(caches, none)[Len(caches) + 1] = none
          /\ \A k \in 1..Len(caches) : Append(caches, none)[k] = caches[k]
        BY <1>8, RowAppend
    <2>4. PICK t : t = Append(caches, none)
        OBVIOUS
    <2>5. /\ Row(t) /\ DOMAIN t = 1..n + 1 /\ t[n + 1] = none
          /\ \A k \in 1..n : t[k] = caches[k]
        BY <1>7, <2>3, <2>4
    <2>6. caches' = t
        BY <2>2, <2>4
    <2> QED BY <2>1, <2>5, <2>6
<1>11. /\ Row(renders') /\ DOMAIN renders' = 1..n + 1 /\ renders'[n + 1] = r
       /\ \A k \in 1..n : renders'[k] = renders[k]
    BY <1>6, <1>7, <1>8, RowAppend
<1>12. ASSUME NEW k \in 1..n + 1
       PROVE  CacheOf(caches'[k], entries'[k]) /\ RenderOf(renders'[k], entries'[k])
    <2>1. CASE k = n + 1
        BY <1>5, <1>9, <1>10, <1>11, <2>1, EmptyCache
    <2>2. CASE k \in 1..n
        BY <1>1, <1>7, <1>9, <1>10, <1>11, <2>2 DEF BlocksInv
    <2> QED BY <2>1, <2>2
<1>13. render_context' = render_context
    BY <1>6 DEF Due
<1>14. BlocksInv'
    BY <1>9, <1>10, <1>11, <1>12, <1>13 DEF BlocksInv, CacheOf
<1> QED BY <1>1, <1>6, <1>14, OutdatedKeeps, DueKeeps

LEMMA LastIsOne ==
    ASSUME BlocksInv, NEW kind, LastIs(kind)
    PROVE  /\ Len(entries) \in DOMAIN entries /\ Len(entries) \in DOMAIN renders
           /\ entries[Len(entries)].kind = kind
           /\ entries[Len(entries)] \in OutBlocks
           /\ RenderOf(renders[Len(entries)], entries[Len(entries)])
<1>1. entries \in Seq(OutBlocks) /\ entries # <<>>
    BY DEF BlocksInv, LastIs
<1>2. Len(entries) \in DOMAIN entries
    BY <1>1
<1>3. entries[Len(entries)].kind = kind
    BY DEF LastIs, Last
<1> QED BY <1>1, <1>2, <1>3 DEF BlocksInv

LEMMA TextKeeps == ASSUME PaneInv, AppendText PROVE PaneInv'
<1>1. BlocksInv /\ FlatInv
    BY DEF PaneInv
<1>2. PICK i : i = Len(entries)
    OBVIOUS
<1>3. i \in DOMAIN entries /\ i \in DOMAIN renders /\ entries[i] \in OutBlocks
      /\ entries[i].kind = "assistant" /\ RenderOf(renders[i], entries[i])
    BY <1>1, <1>2, LastIsOne DEF AppendText
<1>4. PICK b : b = [entries[i] EXCEPT !.text = @ + 1]
    OBVIOUS
<1>5. b \in OutBlocks /\ b.text = entries[i].text + 1 /\ b.kind = entries[i].kind
      /\ b.live = entries[i].live
    BY <1>3, <1>4 DEF OutBlocks
<1>6. PICK r : r = IF renders[i] = NoRender THEN renders[i] ELSE Streamed(renders[i][1].text + 1)
    OBVIOUS
<1>7. RenderOf(r, b)
    <2>1. CASE renders[i] = NoRender
        BY <1>6, <2>1 DEF RenderOf
    <2>2. CASE renders[i] # NoRender
        <3>1. renders[i][1].text = entries[i].text /\ entries[i].live
            BY <1>3, <2>2 DEF RenderOf
        <3>2. r = << [text |-> b.text, cache |-> <<>>] >>
            BY <1>5, <1>6, <2>2, <3>1 DEF Streamed
        <3>3. r[1].cache = <<>>
            BY <3>2
        <3> QED BY <1>3, <1>5, <3>1, <3>2, <3>3 DEF RenderOf, AnswerKept
    <2> QED BY <2>1, <2>2
<1>8. /\ entries' = [entries EXCEPT ![i] = b] /\ renders' = [renders EXCEPT ![i] = r]
      /\ caches' = [caches EXCEPT ![i] = <<>>] /\ Outdated /\ Due
    BY <1>2, <1>4, <1>6 DEF AppendText, InvalidateAt
<1>9. render_context' = render_context
    BY <1>8 DEF Due
<1>10. BlocksInv'
    BY <1>1, <1>3, <1>5, <1>7, <1>8, <1>9, OneBlockChanges
<1> QED BY <1>1, <1>8, <1>10, OutdatedKeeps, DueKeeps

LEMMA RendersSame ==
    ASSUME BlocksInv, NEW i PROVE renders = [renders EXCEPT ![i] = renders[i]]
<1>1. renders = [k \in DOMAIN renders |-> renders[k]]
    BY RowIs DEF BlocksInv
<1> QED BY <1>1

LEMMA ThinkingKeeps == ASSUME PaneInv, AppendThinking PROVE PaneInv'
<1>1. BlocksInv /\ FlatInv
    BY DEF PaneInv
<1>2. PICK i : i = Len(entries)
    OBVIOUS
<1>3. i \in DOMAIN entries /\ i \in DOMAIN renders /\ entries[i] \in OutBlocks
      /\ RenderOf(renders[i], entries[i])
    BY <1>1, <1>2, LastIsOne DEF AppendThinking
<1>4. PICK b : b = [entries[i] EXCEPT !.thinking = @ + 1]
    OBVIOUS
<1>5. b \in OutBlocks /\ b.text = entries[i].text /\ b.kind = entries[i].kind
      /\ b.live = entries[i].live
    BY <1>3, <1>4 DEF OutBlocks
<1>6. RenderOf(renders[i], b)
    BY <1>3, <1>5 DEF RenderOf
<1>7. /\ entries' = [entries EXCEPT ![i] = b] /\ renders' = renders
      /\ caches' = [caches EXCEPT ![i] = <<>>] /\ Outdated /\ Due
    BY <1>2, <1>4 DEF AppendThinking, InvalidateAt
<1>8. render_context' = render_context /\ renders' = [renders EXCEPT ![i] = renders[i]]
    BY <1>1, <1>7, RendersSame DEF Due
<1>9. BlocksInv'
    BY <1>1, <1>3, <1>5, <1>6, <1>7, <1>8, OneBlockChanges
<1> QED BY <1>1, <1>7, <1>9, OutdatedKeeps, DueKeeps

LEMMA FinalKeeps == ASSUME PaneInv, FinalizeAnswer PROVE PaneInv'
<1>1. BlocksInv /\ FlatInv
    BY DEF PaneInv
<1>2. PICK i : i = Len(entries)
    OBVIOUS
<1>3. i \in DOMAIN entries /\ entries[i] \in OutBlocks
    BY <1>1, <1>2, LastIsOne DEF FinalizeAnswer
<1>4. PICK text \in 0..MaxWords : entries' = [entries EXCEPT ![i].text = text, ![i].live = FALSE]
    BY <1>2 DEF FinalizeAnswer
<1>5. PICK b : b = [entries[i] EXCEPT !.text = text, !.live = FALSE]
    OBVIOUS
<1>6. b \in OutBlocks
    BY <1>3, <1>4, <1>5, OutputViewAssumption DEF OutBlocks
<1>7. RenderOf(NoRender, b)
    BY DEF RenderOf
<1>8. entries' = [entries EXCEPT ![i] = b]
    BY <1>1, <1>3, <1>4, <1>5 DEF BlocksInv
<1>9. /\ renders' = [renders EXCEPT ![i] = NoRender]
      /\ caches' = [caches EXCEPT ![i] = <<>>] /\ Outdated /\ Due
    BY <1>2 DEF FinalizeAnswer, InvalidateAt
<1>10. render_context' = render_context
    BY <1>9 DEF Due
<1>11. BlocksInv'
    BY <1>1, <1>3, <1>6, <1>7, <1>8, <1>9, <1>10, OneBlockChanges
<1> QED BY <1>1, <1>9, <1>11, OutdatedKeeps, DueKeeps

LEMMA ReportKeeps ==
    ASSUME PaneInv, NEW i \in DOMAIN entries, NEW over \in BOOLEAN, ToolReports(i, over)
    PROVE  PaneInv'
<1>1. BlocksInv /\ FlatInv
    BY DEF PaneInv
<1>2. entries[i] \in OutBlocks /\ entries[i].kind = "tool" /\ RenderOf(renders[i], entries[i])
    BY <1>1, EntriesTyped DEF BlocksInv, ToolReports
<1>3. PICK text \in 1..MaxWords :
          entries' = [entries EXCEPT ![i].text = text, ![i].live = @ /\ ~over]
    BY DEF ToolReports
<1>4. PICK live \in BOOLEAN : live = (entries[i].live /\ ~over)
    OBVIOUS
<1>5. PICK b : b = [entries[i] EXCEPT !.text = text, !.live = live]
    OBVIOUS
<1>6. b \in OutBlocks
    <2>1. text \in Nat
        BY <1>3, OutputViewAssumption
    <2>2. b = [kind |-> entries[i].kind, text |-> text, thinking |-> entries[i].thinking,
               live |-> live]
        BY <1>2, <1>5 DEF OutBlocks
    <2>3. entries[i].kind \in {"user", "assistant", "tool"} /\ entries[i].thinking \in Nat
        BY <1>2 DEF OutBlocks
    <2> QED BY <1>4, <2>1, <2>2, <2>3 DEF OutBlocks
<1>7. renders[i] = NoRender
    BY <1>2 DEF RenderOf
<1>8. RenderOf(renders[i], b)
    BY <1>7 DEF RenderOf
<1>9. entries' = [entries EXCEPT ![i] = b]
    BY <1>1, <1>3, <1>4, <1>5 DEF BlocksInv
<1>10. renders' = renders /\ caches' = [caches EXCEPT ![i] = <<>>] /\ Outdated /\ Due
    BY DEF ToolReports, InvalidateAt
<1>11. render_context' = render_context /\ renders' = [renders EXCEPT ![i] = renders[i]]
    BY <1>1, <1>10, RendersSame DEF Due
<1>12. BlocksInv'
    BY <1>1, <1>6, <1>8, <1>9, <1>10, <1>11, OneBlockChanges
<1> QED BY <1>1, <1>10, <1>12, OutdatedKeeps, DueKeeps

LEMMA ClearKeeps == ASSUME PaneInv, ClearPane PROVE PaneInv'
<1>1. /\ entries' = <<>> /\ caches' = <<>> /\ renders' = <<>>
      /\ flat' = [lines |-> <<>>, width |-> 0, valid |-> FALSE]
      /\ scroll' = [offset |-> 0, auto |-> TRUE, total |-> 0, height |-> 1]
      /\ dirty' = [dirty EXCEPT !.full = TRUE] /\ size' = size /\ urgent' = urgent
    BY DEF ClearPane
<1>2. BlocksInv'
    <2>1. <<>> \in Seq(OutBlocks)
        OBVIOUS
    <2> QED BY <1>1, <2>1, NothingRow DEF BlocksInv
<1>3. FlatInv'
    BY <1>1, NothingRow DEF FlatInv
<1>4. ScrollInv'
    BY <1>1 DEF ScrollInv, ScrollStates, MaxScroll
<1>5. dirty' \in [composer : BOOLEAN, full : BOOLEAN] /\ dirty'.full
    BY <1>1 DEF PaneInv
<1> QED BY <1>1, <1>2, <1>3, <1>4, <1>5 DEF PaneInv, StaleIsDue

LEMMA ContextKeeps == ASSUME PaneInv, NEW c, SetContext(c) PROVE PaneInv'
<1>1. BlocksInv /\ FlatInv
    BY DEF PaneInv
<1>2. /\ render_context' = c /\ Outdated /\ dirty' = [dirty EXCEPT !.full = TRUE]
      /\ entries' = entries /\ scroll' = scroll /\ size' = size /\ urgent' = urgent
    BY DEF SetContext
<1>3. PICK n \in Nat : n = Len(entries) /\ DOMAIN entries = 1..n
    BY <1>1, EntriesTyped
<1>4. DOMAIN caches = 1..n /\ DOMAIN renders = 1..n
    BY <1>1, <1>3 DEF BlocksInv
<1>5. caches' = [i \in 1..n |-> <<>>]
    BY <1>4 DEF SetContext
<1>6. renders' = [i \in 1..n |-> IF renders[i] = NoRender THEN NoRender ELSE Streamed(renders[i][1].text)]
    BY <1>4 DEF SetContext
<1>7. DOMAIN caches' = 1..n /\ caches' = [i \in 1..n |-> caches'[i]] /\ \A i \in 1..n : caches'[i] = <<>>
    BY <1>5
<1>8. DOMAIN renders' = 1..n /\ renders' = [i \in 1..n |-> renders'[i]]
    BY <1>6
<1>9. Row(caches') /\ Row(renders')
    BY <1>7, <1>8, RowOf
<1>10. ASSUME NEW i \in 1..n PROVE RenderOf(renders'[i], entries[i])
    <2>1. RenderOf(renders[i], entries[i])
        BY <1>1, <1>3 DEF BlocksInv
    <2>2. CASE renders[i] = NoRender
        BY <1>6, <2>2 DEF RenderOf
    <2>3. CASE renders[i] # NoRender
        <3>1. renders[i][1].text = entries[i].text /\ entries[i].kind = "assistant" /\ entries[i].live
            BY <2>1, <2>3 DEF RenderOf
        <3>2. renders'[i] = << [text |-> entries[i].text, cache |-> <<>>] >>
            BY <1>6, <2>3, <3>1 DEF Streamed
        <3>3. renders'[i][1].cache = <<>>
            BY <3>2
        <3> QED BY <3>1, <3>2, <3>3 DEF RenderOf, AnswerKept
    <2> QED BY <2>2, <2>3
<1>11. ASSUME NEW i \in 1..n
       PROVE  Row(caches'[i]) /\ \A e \in Range(caches'[i]) : e.lines = BlockLines(entries[i], e.width, c)
    BY <1>7, NothingRow
<1>12. BlocksInv'
    <2>1. entries' \in Seq(OutBlocks) /\ DOMAIN entries' = 1..n
        BY <1>1, <1>2, <1>3 DEF BlocksInv
    <2> QED BY <1>2, <1>7, <1>8, <1>9, <1>10, <1>11, <2>1 DEF BlocksInv, CacheOf
<1>13. FlatInv'
    BY <1>1, <1>2, OutdatedKeeps
<1>14. ScrollInv'
    BY <1>2 DEF PaneInv, ScrollInv, MaxScroll
<1>15. dirty' \in [composer : BOOLEAN, full : BOOLEAN] /\ dirty'.full
    BY <1>2 DEF PaneInv
<1> QED BY <1>2, <1>12, <1>13, <1>14, <1>15 DEF PaneInv, StaleIsDue

LEMMA Unmoved ==
    ASSUME BlocksInv, FlatInv, UNCHANGED <<entries, caches, renders, render_context, flat>>
    PROVE  BlocksInv' /\ FlatInv' /\ \A width : DrawnFresh(width)' = DrawnFresh(width)
<1>1. entries' = entries /\ caches' = caches /\ renders' = renders
      /\ render_context' = render_context /\ flat' = flat
    OBVIOUS
<1>2. BlocksInv'
    BY <1>1 DEF BlocksInv, CacheOf
<1>3. FlatInv'
    BY <1>1 DEF FlatInv, DrawnFresh
<1> QED BY <1>1, <1>2, <1>3 DEF DrawnFresh

LEMMA Bottom ==
    ASSUME NEW s \in ScrollStates
    PROVE  MaxScroll(s) \in Nat /\ CurrentScroll(s) \in Nat /\ CurrentScroll(s) <= MaxScroll(s)
<1>1. s.total \in Nat /\ s.height \in Nat /\ s.offset \in Nat
    BY DEF ScrollStates
<1>2. MaxScroll(s) \in Nat
    BY <1>1 DEF MaxScroll
<1> QED BY <1>1, <1>2 DEF CurrentScroll

\* Wherever the reader asks to be, he is not past the end, and follows when he is there.
LEMMA SetScrollIs ==
    ASSUME NEW s \in ScrollStates, NEW offset \in Nat, NEW t, t = SetScroll(s, offset)
    PROVE  t \in ScrollStates /\ t.offset <= MaxScroll(t) /\ (t.auto <=> t.offset = MaxScroll(t))
<1>1. MaxScroll(s) \in Nat /\ s.total \in Nat /\ s.height \in Nat
    BY Bottom DEF ScrollStates
<1> DEFINE o == IF offset > MaxScroll(s) THEN MaxScroll(s) ELSE offset
<1>2. o \in Nat /\ o <= MaxScroll(s)
    BY <1>1
<1>3. t = [s EXCEPT !.offset = o, !.auto = (o >= MaxScroll(s))]
    BY DEF SetScroll
<1> HIDE DEF o
<1>4. t = [offset |-> o, auto |-> (o >= MaxScroll(s)), total |-> s.total, height |-> s.height]
    BY <1>3 DEF ScrollStates
<1>5. t \in ScrollStates /\ t.offset = o /\ t.total = s.total /\ t.height = s.height
      /\ t.auto = (o >= MaxScroll(s))
    BY <1>1, <1>2, <1>4 DEF ScrollStates
<1>6. MaxScroll(t) = MaxScroll(s)
    BY <1>5 DEF MaxScroll
<1>7. (o >= MaxScroll(s)) <=> (o = MaxScroll(s))
    BY <1>1, <1>2
<1>8. t.auto <=> t.offset = MaxScroll(t)
    BY <1>5, <1>6, <1>7, Zenon
<1> QED BY <1>2, <1>5, <1>6, <1>8

LEMMA ScrollToKeeps ==
    ASSUME PaneInv, NEW s \in ScrollStates, s.offset <= MaxScroll(s),
           s.auto <=> s.offset = MaxScroll(s), ScrollTo(s)
    PROVE  PaneInv'
<1>1. /\ scroll' = s /\ dirty' = [dirty EXCEPT !.full = TRUE] /\ size' = size /\ urgent' = urgent
      /\ UNCHANGED <<entries, caches, renders, render_context, flat>>
    BY DEF ScrollTo
<1>2. BlocksInv' /\ FlatInv'
    BY <1>1, Unmoved DEF PaneInv
<1>3. ScrollInv'
    BY <1>1 DEF ScrollInv, MaxScroll
<1>4. dirty' \in [composer : BOOLEAN, full : BOOLEAN] /\ dirty'.full
    BY <1>1 DEF PaneInv
<1> QED BY <1>1, <1>2, <1>3, <1>4 DEF PaneInv, StaleIsDue

LEMMA ScrollsKeep == ASSUME PaneInv, Scrolls PROVE PaneInv'
<1>1. scroll \in ScrollStates
    BY DEF PaneInv, ScrollInv
<1>2. /\ CurrentScroll(scroll) \in Nat /\ MaxScroll(scroll) \in Nat
      /\ CurrentScroll(scroll) <= MaxScroll(scroll) /\ scroll.height \in Nat
    BY <1>1, Bottom DEF ScrollStates
<1>3. ASSUME NEW offset \in Nat, ScrollTo(SetScroll(scroll, offset)) PROVE PaneInv'
    <2>1. PICK t : t = SetScroll(scroll, offset)
        OBVIOUS
    <2>2. t \in ScrollStates /\ t.offset <= MaxScroll(t) /\ (t.auto <=> t.offset = MaxScroll(t))
        BY <1>1, <2>1, SetScrollIs
    <2>3. ScrollTo(t)
        BY <1>3, <2>1
    <2> QED BY <2>2, <2>3, ScrollToKeeps
<1>4. ASSUME ScrollTo([scroll EXCEPT !.offset = MaxScroll(scroll), !.auto = TRUE]) PROVE PaneInv'
    <2>1. PICK t : t = [scroll EXCEPT !.offset = MaxScroll(scroll), !.auto = TRUE]
        OBVIOUS
    <2>2. t \in ScrollStates /\ t.offset = MaxScroll(scroll) /\ t.auto = TRUE
          /\ t.total = scroll.total /\ t.height = scroll.height
        BY <1>1, <1>2, <2>1 DEF ScrollStates
    <2>3. MaxScroll(t) = MaxScroll(scroll)
        BY <2>2 DEF MaxScroll
    <2>4. ScrollTo(t)
        BY <1>4, <2>1
    <2>5. t.offset <= MaxScroll(t) /\ (t.auto <=> t.offset = MaxScroll(t))
        BY <1>2, <2>2, <2>3
    <2> QED BY <2>2, <2>4, <2>5, ScrollToKeeps
<1>5. PICK amount \in {3, scroll.height} :
      \/ ScrollTo(SetScroll(scroll, IF CurrentScroll(scroll) > amount
                                    THEN CurrentScroll(scroll) - amount ELSE 0))
      \/ ScrollTo(SetScroll(scroll, CurrentScroll(scroll) + amount))
      \/ ScrollTo(SetScroll(scroll, 0))
      \/ ScrollTo([scroll EXCEPT !.offset = MaxScroll(scroll), !.auto = TRUE])
    BY DEF Scrolls
<1>6. amount \in Nat
    BY <1>2
<1>7. PICK up \in Nat : up = IF CurrentScroll(scroll) > amount
                             THEN CurrentScroll(scroll) - amount ELSE 0
    BY <1>2, <1>6
<1>8. PICK down \in Nat : down = CurrentScroll(scroll) + amount
    BY <1>2, <1>6
<1>9. CASE ScrollTo(SetScroll(scroll, up))
    BY <1>3, <1>9
<1>10. CASE ScrollTo(SetScroll(scroll, down))
    BY <1>3, <1>10
<1>11. CASE ScrollTo(SetScroll(scroll, 0))
    BY <1>3, <1>11
<1>12. CASE ScrollTo([scroll EXCEPT !.offset = MaxScroll(scroll), !.auto = TRUE])
    BY <1>4, <1>12
<1> QED BY <1>5, <1>7, <1>8, <1>9, <1>10, <1>11, <1>12

LEMMA ResizedKeeps == ASSUME PaneInv, Resized PROVE PaneInv'
<1>1. /\ size' \in [width : PaneWidths, height : PaneHeights]
      /\ dirty' = [dirty EXCEPT !.full = TRUE] /\ scroll' = scroll /\ urgent' = urgent
      /\ UNCHANGED <<entries, caches, renders, render_context, flat>>
    BY DEF Resized
<1>2. BlocksInv' /\ FlatInv'
    BY <1>1, Unmoved DEF PaneInv
<1>3. ScrollInv'
    BY <1>1 DEF PaneInv, ScrollInv, MaxScroll
<1>4. dirty' \in [composer : BOOLEAN, full : BOOLEAN] /\ dirty'.full
    BY <1>1 DEF PaneInv
<1> QED BY <1>1, <1>2, <1>3, <1>4 DEF PaneInv, StaleIsDue

LEMMA TickKeeps ==
    ASSUME PaneInv, dirty' \in [composer : BOOLEAN, full : BOOLEAN], dirty.full => dirty'.full,
           urgent' \in BOOLEAN, scroll' = scroll, size' = size,
           UNCHANGED <<entries, caches, renders, render_context, flat>>
    PROVE  PaneInv'
<1>1. BlocksInv' /\ FlatInv' /\ \A width : DrawnFresh(width)' = DrawnFresh(width)
    BY Unmoved DEF PaneInv
<1>2. ScrollInv'
    BY DEF PaneInv, ScrollInv, MaxScroll
<1>3. StaleIsDue'
    <2>1. DrawnFresh(size.width)' = DrawnFresh(size.width)
        BY DEF DrawnFresh
    <2> QED BY <2>1 DEF PaneInv, StaleIsDue
<1> QED BY <1>1, <1>2, <1>3 DEF PaneInv

LEMMA PaintKeeps == ASSUME PaneInv, Paint PROVE PaneInv'
<1>1. /\ BlocksInv /\ FlatInv /\ ScrollInv /\ StaleIsDue /\ urgent \in BOOLEAN
      /\ size \in [width : PaneWidths, height : PaneHeights]
      /\ dirty \in [composer : BOOLEAN, full : BOOLEAN]
    BY DEF PaneInv
<1>2. /\ dirty' = [composer |-> FALSE, full |-> urgent /\ dirty.full] /\ urgent' = FALSE
      /\ entries' = entries /\ render_context' = render_context /\ size' = size
    BY DEF Paint
<1>3. PICK width \in Nat \ {0} : width = size.width
    BY <1>1, OutputViewAssumption
<1>4. /\ BlocksInv' /\ FlatInv'
      /\ (dirty.full /\ urgent) \/ flat'.lines = DrawnFresh(width)
    <2>1. CASE Current(width) \/ (urgent /\ CanReuse(width))
        <3>1. UNCHANGED <<entries, caches, renders, render_context, flat>>
            BY <1>2, <1>3, <2>1 DEF Paint
        <3>2. BlocksInv' /\ FlatInv' /\ flat' = flat
            BY <1>1, <3>1, Unmoved
        <3>3. CASE Current(width)
            BY <1>1, <3>2, <3>3 DEF Current, FlatInv
        <3>4. CASE urgent
            BY <1>1, <1>3, <3>2, <3>4 DEF StaleIsDue
        <3> QED BY <2>1, <3>2, <3>3, <3>4
    <2>2. CASE ~(Current(width) \/ (urgent /\ CanReuse(width)))
        <3>1. BuildFlat(width)
            BY <1>3, <2>2 DEF Paint
        <3>2. BlocksInv'
              /\ flat' = [lines |-> DrawnFresh(width), width |-> width, valid |-> ~Animated]
            BY <1>1, <1>2, <3>1, BuildDraws
        <3>3. flat'.lines = DrawnFresh(width) /\ flat'.width = width /\ flat'.valid = ~Animated
            BY <3>2
        <3>4. Row(DrawnFresh(width))
            BY <1>1, DrawnRow
        <3>5. DrawnFresh(width)' = DrawnFresh(width)
            BY <1>2 DEF DrawnFresh
        <3>6. flat'.valid \in BOOLEAN
            BY <3>3 DEF Animated
        <3>7. flat' = [lines |-> flat'.lines, width |-> flat'.width, valid |-> flat'.valid]
            BY <3>2
        <3>8. flat'.valid => flat'.lines = DrawnFresh(flat.width)'
            BY <1>2, <3>3 DEF DrawnFresh
        <3>9. FlatInv'
            BY <3>3, <3>4, <3>6, <3>7, <3>8 DEF FlatInv
        <3> QED BY <3>2, <3>3, <3>9
    <2> QED BY <2>1, <2>2
<1>5. ScrollInv'
    <2>1. PICK n \in Nat : n = Len(flat'.lines)
        BY <1>4, RowIs DEF FlatInv
    <2>2. PICK total \in Nat : total = IF n > LineMax THEN LineMax ELSE n
        BY OutputViewAssumption
    <2>3. PICK s : s = [scroll EXCEPT !.total = total, !.height = size.height]
        OBVIOUS
    <2>4. size.height \in Nat
        BY <1>1, OutputViewAssumption
    <2>5. s \in ScrollStates /\ scroll \in ScrollStates
        BY <1>1, <2>3, <2>4 DEF ScrollInv, ScrollStates
    <2>6. CurrentScroll(scroll) \in Nat /\ CurrentScroll(s) \in Nat
        BY <2>5, Bottom
    <2>7. scroll' = SetScroll(s, CurrentScroll(s))
        BY <2>1, <2>2, <2>3 DEF Paint
    <2> QED BY <2>5, <2>6, <2>7, SetScrollIs DEF ScrollInv, MaxScroll
<1>6. dirty' \in [composer : BOOLEAN, full : BOOLEAN] /\ dirty'.full = (urgent /\ dirty.full)
    BY <1>1, <1>2
<1>7. StaleIsDue'
    <2>1. flat'.lines = DrawnFresh(width) => flat'.lines = DrawnFresh(size.width)'
        BY <1>2, <1>3 DEF DrawnFresh
    <2> QED BY <1>4, <1>6, <2>1 DEF StaleIsDue
<1> QED BY <1>1, <1>2, <1>4, <1>5, <1>6, <1>7 DEF PaneInv

LEMMA PaneStarts == OutputInit => PaneInv
<1> SUFFICES ASSUME OutputInit PROVE PaneInv
    OBVIOUS
<1>1. entries \in Seq(OutBlocks)
    BY OutputViewAssumption DEF OutputInit
<1>2. PICK n \in Nat : n = Len(entries) /\ DOMAIN entries = 1..n
    BY <1>1
<1>3. caches = [i \in 1..n |-> <<>>] /\ renders = [i \in 1..n |-> NoRender]
    BY <1>2 DEF OutputInit
<1>4. /\ DOMAIN caches = 1..n /\ caches = [i \in 1..n |-> caches[i]]
      /\ DOMAIN renders = 1..n /\ renders = [i \in 1..n |-> renders[i]]
    BY <1>3
<1>5. Row(caches) /\ Row(renders)
    BY <1>4, RowOf
<1>6. ASSUME NEW i \in 1..n PROVE CacheOf(caches[i], entries[i]) /\ RenderOf(renders[i], entries[i])
    BY <1>3, EmptyCache DEF RenderOf
<1>7. BlocksInv
    BY <1>1, <1>2, <1>4, <1>5, <1>6 DEF BlocksInv
<1>8. flat = [lines |-> <<>>, width |-> 0, valid |-> FALSE]
    BY DEF OutputInit
<1>9. FlatInv
    BY <1>8, NothingRow DEF FlatInv
<1>10. ScrollInv
    <2>1. scroll = [offset |-> 0, auto |-> TRUE, total |-> 0, height |-> 1]
        BY DEF OutputInit
    <2> QED BY <2>1 DEF ScrollInv, ScrollStates, MaxScroll
<1>11. /\ size \in [width : PaneWidths, height : PaneHeights]
       /\ dirty = [composer |-> FALSE, full |-> TRUE] /\ urgent = FALSE
    BY DEF OutputInit
<1> QED BY <1>7, <1>9, <1>10, <1>11 DEF PaneInv, StaleIsDue

LEMMA PaneKeeps == PaneInv /\ [OutputNext]_outputVars => PaneInv'
<1> SUFFICES ASSUME PaneInv, [OutputNext]_outputVars PROVE PaneInv'
    OBVIOUS
<1>1. CASE BlockArrives
    <2>1. CASE PushBlock("user", 1, FALSE)
        BY <2>1, PushKeeps
    <2>2. CASE PushBlock("assistant", 0, TRUE)
        BY <2>2, PushKeeps
    <2>3. CASE PushBlock("tool", 0, TRUE)
        BY <2>3, PushKeeps
    <2> QED BY <1>1, <2>1, <2>2, <2>3 DEF BlockArrives
<1>2. CASE AppendText
    BY <1>2, TextKeeps
<1>3. CASE AppendThinking
    BY <1>3, ThinkingKeeps
<1>4. CASE FinalizeAnswer
    BY <1>4, FinalKeeps
<1>5. CASE \E i \in DOMAIN entries, over \in BOOLEAN : ToolReports(i, over)
    BY <1>5, ReportKeeps
<1>6. CASE ClearPane
    BY <1>6, ClearKeeps
<1>7. CASE \E c \in Contexts : SetContext(c)
    BY <1>7, ContextKeeps
<1>8. CASE Scrolls
    BY <1>8, ScrollsKeep
<1>9. CASE Resized
    BY <1>9, ResizedKeeps
<1>10. CASE Typed
    <2>1. dirty' \in [composer : BOOLEAN, full : BOOLEAN] /\ (dirty.full => dirty'.full)
          /\ urgent' \in BOOLEAN /\ scroll' = scroll /\ size' = size
        BY <1>10 DEF Typed, PaneInv
    <2>2. UNCHANGED <<entries, caches, renders, render_context, flat>>
        BY <1>10 DEF Typed
    <2> QED BY <2>1, <2>2, TickKeeps
<1>11. CASE SpinnerTicks
    <2>1. dirty' \in [composer : BOOLEAN, full : BOOLEAN] /\ (dirty.full => dirty'.full)
          /\ urgent' \in BOOLEAN /\ scroll' = scroll /\ size' = size
        BY <1>11 DEF SpinnerTicks, PaneInv
    <2>2. UNCHANGED <<entries, caches, renders, render_context, flat>>
        BY <1>11 DEF SpinnerTicks
    <2> QED BY <2>1, <2>2, TickKeeps
<1>12. CASE Paint
    BY <1>12, PaintKeeps
<1>13. CASE UNCHANGED outputVars
    <2>1. dirty' \in [composer : BOOLEAN, full : BOOLEAN] /\ (dirty.full => dirty'.full)
          /\ urgent' \in BOOLEAN /\ scroll' = scroll /\ size' = size
        BY <1>13 DEF outputVars, PaneInv
    <2>2. UNCHANGED <<entries, caches, renders, render_context, flat>>
        BY <1>13 DEF outputVars
    <2> QED BY <2>1, <2>2, TickKeeps
<1> QED BY <1>1, <1>2, <1>3, <1>4, <1>5, <1>6, <1>7, <1>8, <1>9, <1>10, <1>11, <1>12, <1>13
        DEF OutputNext

LEMMA PaneHolds == PaneInv => ViewSound
<1> SUFFICES ASSUME PaneInv PROVE ViewSound
    OBVIOUS
<1>1. CachesFresh
    <2>1. ASSUME NEW i \in DOMAIN entries, renders[i] # NoRender
          PROVE  entries[i].live /\ renders[i][1].text = entries[i].text
        <3>1. RenderOf(renders[i], entries[i])
            BY DEF PaneInv, BlocksInv
        <3> QED BY <2>1, <3>1 DEF RenderOf
    <2> QED BY <2>1 DEF PaneInv, BlocksInv, CachesFresh, CacheOf
<1>2. StaleIsDue
    BY DEF PaneInv
<1>3. FollowsEnd
    BY DEF PaneInv, ScrollInv, FollowsEnd
<1> QED BY <1>1, <1>2, <1>3 DEF ViewSound

\* Whatever is kept of a block is what it would be drawn as, what is on screen is what the
\* transcript says unless a paint is due, and nobody is past the end: output.rs and the
\* frames of app.rs.
THEOREM PaneShown == OutputSpec => []ViewSound
<1>1. OutputInit => PaneInv
    BY PaneStarts
<1>2. PaneInv /\ [OutputNext]_outputVars => PaneInv'
    BY PaneKeeps
<1>3. PaneInv => ViewSound
    BY PaneHolds
<1> QED BY <1>1, <1>2, <1>3, PTL DEF OutputSpec

-----------------------------------------------------------------------------
(***************************************************************************)
(* The transcript: TranscriptSound of Transcript.tla.                      *)
(***************************************************************************)
\* What the conversation is made of, and what an event about an open answer or an
\* execution is looking for.
Spoken == {"user", "assistant", "tool"}
LiveAnswers == {b \in BlockType : b.kind = "assistant" /\ b.live}
LiveCalls(call) == {b \in BlockType : b.kind = "tool" /\ b.call = call /\ b.live}

SameShown(kinds) == Shown(kinds) = Said(kinds)
ShownInv == SameShown({"tool"}) /\ (~interrupted => SameShown(Spoken))

BlocksTyped ==
    /\ blocks \in Seq(BlockType) /\ conversation \in Seq(BlockType)
    /\ Len(blocks) <= MaxBlocks /\ Len(conversation) <= Len(blocks)
    /\ message \in {"none", "user", "assistant"}
    /\ entry_of \in [Calls -> 0..MaxBlocks]
    /\ interrupted \in BOOLEAN
    /\ \A i \in DOMAIN conversation : conversation[i].kind \in Spoken

MessageInv == message # "none" <=> view.stage = "message"

\* The open answer is the end of the conversation, and the last block unless a system
\* message has come in between.
AnswerInv ==
    message = "assistant" =>
        /\ conversation # <<>> /\ Last(conversation) \in LiveAnswers
        /\ LastIsAssistant => Last(blocks) = Last(conversation)
        /\ ~interrupted => LastIsAssistant

\* What of the conversation is live is the open answer, or the entry of a call that
\* is executing.
LiveAt(i) ==
    conversation[i].live =>
        \/ conversation[i].kind = "assistant" /\ i = Len(conversation) /\ message = "assistant"
        \/ /\ conversation[i].kind = "tool" /\ conversation[i].call \in view.executing
           /\ entry_of[conversation[i].call] = i
OpenAt(call) == entry_of[call] \in DOMAIN conversation /\ conversation[entry_of[call]] \in LiveCalls(call)
LiveInv == \A i \in DOMAIN conversation : LiveAt(i)
ToolsInv == \A call \in view.executing : OpenAt(call)

TranscriptInv ==
    /\ ViewOK /\ BlocksTyped /\ MessageInv /\ AnswerInv /\ LiveInv /\ ToolsInv
    /\ AnimatedCountExact /\ ShownInv

\* The blocks of some kinds, when one is added and when one changes.
LEMMA OfKindsAppended ==
    ASSUME NEW s \in Seq(BlockType), NEW b \in BlockType, NEW kinds
    PROVE  OfKinds(Append(s, b), kinds) =
               IF b.kind \in kinds THEN Append(OfKinds(s, kinds), b) ELSE OfKinds(s, kinds)
<1>1. PICK t : t = Append(s, b)
    OBVIOUS
<1>2. /\ t \in Seq(BlockType) /\ Len(t) = Len(s) + 1 /\ t[Len(s) + 1] = b
      /\ \A i \in 1..Len(s) : t[i] = s[i]
    BY <1>1, AppendProperties
<1>3. PICK K : K = {i \in DOMAIN s : s[i].kind \in kinds}
    OBVIOUS
<1>4. PICK L : L = {i \in DOMAIN t : t[i].kind \in kinds}
    OBVIOUS
<1>5. Len(s) \in Nat /\ DOMAIN s = 1..Len(s) /\ DOMAIN t = 1..Len(s) + 1
    BY <1>2
<1>6. SamePlaces(Len(s), K, L)
    BY <1>2, <1>3, <1>4, <1>5 DEF SamePlaces
<1>7. Len(s) + 1 \in L <=> b.kind \in kinds
    BY <1>2, <1>4, <1>5
<1>8. Picked(Append(s, b), L) = IF Len(s) + 1 \in L THEN Append(Picked(s, K), b) ELSE Picked(s, K)
    BY <1>6, PickedAppend
<1>9. OfKinds(s, kinds) = Picked(s, K) /\ OfKinds(t, kinds) = Picked(t, L)
    BY <1>3, <1>4 DEF OfKinds
<1> QED BY <1>1, <1>7, <1>8, <1>9

LEMMA OfKindsElsewhere ==
    ASSUME NEW s \in Seq(BlockType), NEW i \in 1..Len(s), NEW x \in BlockType, NEW kinds,
           s[i].kind \notin kinds, x.kind \notin kinds, NEW t, Changes(s, t, i, x)
    PROVE  OfKinds(t, kinds) = OfKinds(s, kinds)
<1>2. /\ t \in Seq(BlockType) /\ Len(t) = Len(s)
      /\ \A j \in 1..Len(s) : t[j] = IF j = i THEN x ELSE s[j]
    BY ExceptSeq DEF Changes
<1>3. PICK K : K = {j \in DOMAIN s : s[j].kind \in kinds}
    OBVIOUS
<1>4. PICK L : L = {j \in DOMAIN t : t[j].kind \in kinds}
    OBVIOUS
<1>5. DOMAIN s = 1..Len(s) /\ DOMAIN t = 1..Len(s)
    BY <1>2
<1>6. PickAlike(Len(s), s, K, t, L)
    BY <1>2, <1>3, <1>4, <1>5 DEF PickAlike, SamePlaces
<1>7. Picked(t, L) = Picked(s, K)
    BY <1>2, <1>6, PickedElsewhere
<1> QED BY <1>3, <1>4, <1>7 DEF OfKinds

LEMMA OfKindsRevised ==
    ASSUME NEW s \in Seq(BlockType), NEW i \in 1..Len(s), NEW x \in BlockType, NEW kinds,
           s[i].kind \in kinds, x.kind \in kinds, NEW t, Changes(s, t, i, x)
    PROVE  \E k \in 1..Len(OfKinds(s, kinds)) :
              Revised(OfKinds(s, kinds), OfKinds(t, kinds), k, s[i], x)
<1>2. /\ t \in Seq(BlockType) /\ Len(t) = Len(s)
      /\ \A j \in 1..Len(s) : t[j] = IF j = i THEN x ELSE s[j]
    BY ExceptSeq DEF Changes
<1>3. PICK K : K = {j \in DOMAIN s : s[j].kind \in kinds}
    OBVIOUS
<1>4. DOMAIN s = 1..Len(s) /\ DOMAIN t = 1..Len(s)
    BY <1>2
<1>5. K = {j \in DOMAIN t : t[j].kind \in kinds} /\ i \in K
    BY <1>2, <1>3, <1>4
<1>6. OfKinds(s, kinds) = Picked(s, K) /\ OfKinds(t, kinds) = Picked(t, K)
    BY <1>3, <1>5 DEF OfKinds
<1>7. \E k \in 1..Len(Picked(s, K)) : Revised(Picked(s, K), Picked(t, K), k, s[i], x)
    BY <1>5, PickedRevised
<1> QED BY <1>6, <1>7

LEMMA OfKindsFrom ==
    ASSUME NEW s \in Seq(BlockType), NEW kinds, NEW k \in 1..Len(OfKinds(s, kinds))
    PROVE  \E n \in 1..Len(s) : s[n] = OfKinds(s, kinds)[k]
<1>1. PICK K : K = {i \in DOMAIN s : s[i].kind \in kinds}
    OBVIOUS
<1>2. PICK h : Mapped(h, Picked(s, K), s, K)
    BY PickedMapped
<1>3. OfKinds(s, kinds) = Picked(s, K)
    BY <1>1 DEF OfKinds
<1> QED BY <1>2, <1>3 DEF Mapped

\* Two sequences that show the same, where in the second only j is one of Q: what is
\* one of Q in the first is that entry, and the same change keeps them the same.
LEMMA SameRevised ==
    ASSUME NEW s \in Seq(BlockType), NEW u \in Seq(BlockType), NEW kinds,
           OfKinds(s, kinds) = OfKinds(u, kinds),
           NEW i \in 1..Len(s), NEW j \in 1..Len(u), NEW Q, s[i] \in Q, u[j] \in Q,
           \A n \in 1..Len(u) : u[n] \in Q => n = j,
           s[i].kind \in kinds, u[j].kind \in kinds, NEW x \in BlockType, x.kind \in kinds,
           NEW t, Changes(s, t, i, x), NEW v, Changes(u, v, j, x)
    PROVE  s[i] = u[j] /\ OfKinds(t, kinds) = OfKinds(v, kinds)
<1>1. PICK r : r = OfKinds(s, kinds) /\ r = OfKinds(u, kinds)
    OBVIOUS
<1>2. PICK K : K = {n \in DOMAIN u : u[n].kind \in kinds}
    OBVIOUS
<1>3. r = Picked(u, K) /\ j \in K
    BY <1>1, <1>2 DEF OfKinds
<1>4. PICK h : Mapped(h, r, u, K)
    BY <1>3, PickedMapped
<1>5. ASSUME NEW k \in 1..Len(r), r[k] \in Q PROVE k = h[j] /\ r[k] = u[j]
    <2>1. PICK n \in 1..Len(u) : n \in K /\ h[n] = k /\ r[h[n]] = u[n]
        BY <1>4 DEF Mapped
    <2> QED BY <1>5, <2>1
<1>6. PICK k \in 1..Len(r) : Revised(r, OfKinds(t, kinds), k, s[i], x)
    BY <1>1, OfKindsRevised
<1>7. PICK l \in 1..Len(r) : Revised(r, OfKinds(v, kinds), l, u[j], x)
    BY <1>1, OfKindsRevised
<1>8. k = l /\ s[i] = u[j]
    BY <1>5, <1>6, <1>7 DEF Revised
<1> QED BY <1>6, <1>7, <1>8 DEF Revised, Changes

\* And something of Q in the second is in the first.
LEMMA SameFound ==
    ASSUME NEW s \in Seq(BlockType), NEW u \in Seq(BlockType), NEW kinds,
           OfKinds(s, kinds) = OfKinds(u, kinds), NEW j \in 1..Len(u), u[j].kind \in kinds
    PROVE  \E n \in 1..Len(s) : s[n] = u[j]
<1>1. PICK k \in 1..Len(OfKinds(u, kinds)) : OfKinds(u, kinds)[k] = u[j]
    <2>1. PICK x \in BlockType : x = u[j]
        OBVIOUS
    <2>3. PICK t : Changes(u, t, j, x)
        BY DEF Changes
    <2>2. \E k \in 1..Len(OfKinds(u, kinds)) : Revised(OfKinds(u, kinds), OfKinds(t, kinds), k, u[j], x)
        BY <2>1, <2>3, OfKindsRevised
    <2> QED BY <2>2 DEF Revised
<1>2. PICK n \in 1..Len(s) : s[n] = OfKinds(s, kinds)[k]
    BY <1>1, OfKindsFrom
<1> QED BY <1>1, <1>2

LEMMA OfKindsWhole ==
    ASSUME NEW s \in Seq(BlockType), NEW kinds, \A i \in DOMAIN s : s[i].kind \in kinds
    PROVE  OfKinds(s, kinds) = s
<1>1. {i \in DOMAIN s : s[i].kind \in kinds} = DOMAIN s
    OBVIOUS
<1> QED BY <1>1, PickedWhole DEF OfKinds

\* A block after Revise.
Now(b, text, live) == [b EXCEPT !.text = text, !.live = live]

LEMMA RevisedBlock ==
    ASSUME NEW s \in Seq(BlockType), NEW i \in 1..Len(s),
           NEW text \in 0..(MaxDeltas + 2), NEW live \in BOOLEAN
    PROVE  /\ Now(s[i], text, live) \in BlockType
           /\ Now(s[i], text, live).kind = s[i].kind /\ Now(s[i], text, live).call = s[i].call
           /\ Now(s[i], text, live).text = text /\ Now(s[i], text, live).live = live
           /\ Changes(s, Revise(s, i, text, live), i, Now(s[i], text, live))
<1>1. s[i] \in BlockType
    OBVIOUS
<1>2. /\ Now(s[i], text, live) \in BlockType
      /\ Now(s[i], text, live).kind = s[i].kind /\ Now(s[i], text, live).call = s[i].call
      /\ Now(s[i], text, live).text = text /\ Now(s[i], text, live).live = live
    BY <1>1 DEF Now, BlockType
<1>3. Revise(s, i, text, live) = [s EXCEPT ![i] = Now(s[i], text, live)]
    BY <1>1 DEF Now, Revise, BlockType
<1> QED BY <1>2, <1>3 DEF Changes

LEMMA ChangedSeq ==
    ASSUME NEW s \in Seq(BlockType), NEW i \in 1..Len(s), NEW x \in BlockType,
           NEW t, Changes(s, t, i, x)
    PROVE  /\ t \in Seq(BlockType) /\ Len(t) = Len(s) /\ DOMAIN t = DOMAIN s
           /\ t[i] = x /\ \A j \in DOMAIN s : j # i => t[j] = s[j]
<1>1. /\ t \in Seq(BlockType) /\ Len(t) = Len(s)
      /\ \A j \in 1..Len(s) : t[j] = IF j = i THEN x ELSE s[j]
    BY ExceptSeq DEF Changes
<1> QED BY <1>1

LEMMA BlocksAre ==
    /\ UserBlock \in BlockType /\ UserBlock.kind = "user" /\ ~UserBlock.live
    /\ StreamingAssistant \in LiveAnswers
    /\ SystemBlock \in BlockType /\ SystemBlock.kind = "system" /\ ~SystemBlock.live
    /\ \A call \in Calls : ToolBlock(call) \in LiveCalls(call)
<1>1. MaxDeltas \in Nat /\ MaxCalls \in Nat /\ 0 \in 0..(MaxDeltas + 2) /\ 0 \in 0..MaxCalls
    BY TranscriptAssumption
<1>2. \A call \in Calls : call \in 0..MaxCalls
    BY <1>1 DEF Calls
<1> QED BY <1>1, <1>2 DEF UserBlock, StreamingAssistant, SystemBlock, ToolBlock, Block, BlockType,
       LiveAnswers, LiveCalls

\* How many blocks are live.
LiveIn(s) == {i \in DOMAIN s : s[i].live}

LEMMA LiveFinite ==
    ASSUME NEW s \in Seq(BlockType)
    PROVE  IsFiniteSet(LiveIn(s)) /\ Cardinality(LiveIn(s)) \in Nat
<1>1. Len(s) \in Int /\ 1 \in Int
    OBVIOUS
<1>2. IsFiniteSet(1..Len(s))
    BY <1>1, FS_Interval
<1>3. LiveIn(s) \in SUBSET (1..Len(s))
    BY DEF LiveIn
<1>4. IsFiniteSet(LiveIn(s))
    BY <1>2, <1>3, FS_Subset
<1> QED BY <1>4, FS_CardinalityType

LEMMA LiveAppended ==
    ASSUME NEW s \in Seq(BlockType), NEW b \in BlockType
    PROVE  Cardinality(LiveIn(Append(s, b))) =
               Cardinality(LiveIn(s)) + (IF b.live THEN 1 ELSE 0)
<1>1. PICK t : t = Append(s, b)
    OBVIOUS
<1>2. /\ t \in Seq(BlockType) /\ Len(t) = Len(s) + 1 /\ t[Len(s) + 1] = b
      /\ \A i \in 1..Len(s) : t[i] = s[i]
    BY <1>1, AppendProperties
<1>3. PICK n \in Nat : n = Len(s) + 1
    OBVIOUS
<1>4. DOMAIN s = 1..Len(s) /\ DOMAIN t = 1..n /\ Len(s) \in Nat
    BY <1>2, <1>3
<1>5. n \notin LiveIn(s) /\ n \in DOMAIN t /\ \A i \in DOMAIN t : i = n \/ i \in DOMAIN s
    BY <1>3, <1>4 DEF LiveIn
<1>6. CASE b.live
    <2>1. LiveIn(t) = LiveIn(s) \cup {n}
        BY <1>2, <1>3, <1>4, <1>5, <1>6 DEF LiveIn
    <2>2. Cardinality(LiveIn(s) \cup {n}) = Cardinality(LiveIn(s)) + 1
        BY <1>5, LiveFinite, FS_AddElement
    <2> QED BY <1>1, <1>6, <2>1, <2>2
<1>7. CASE ~b.live
    <2>1. LiveIn(t) = LiveIn(s)
        BY <1>2, <1>3, <1>4, <1>5, <1>7 DEF LiveIn
    <2>2. Cardinality(LiveIn(s)) \in Nat
        BY LiveFinite
    <2> QED BY <1>1, <1>7, <2>1, <2>2
<1> QED BY <1>6, <1>7

LEMMA LiveKept ==
    ASSUME NEW s \in Seq(BlockType), NEW i \in 1..Len(s), NEW x \in BlockType,
           NEW t, Changes(s, t, i, x), x.live = s[i].live
    PROVE  LiveIn(t) = LiveIn(s)
<1>1. /\ DOMAIN t = DOMAIN s /\ t[i] = x /\ \A j \in DOMAIN s : j # i => t[j] = s[j]
    BY ChangedSeq
<1>2. \A j \in DOMAIN s : t[j].live = s[j].live
    BY <1>1
<1> QED BY <1>1, <1>2 DEF LiveIn

LEMMA LiveEnded ==
    ASSUME NEW s \in Seq(BlockType), NEW i \in 1..Len(s), NEW x \in BlockType,
           NEW t, Changes(s, t, i, x), ~x.live
    PROVE  Cardinality(LiveIn(t)) = Cardinality(LiveIn(s)) - (IF s[i].live THEN 1 ELSE 0)
<1>1. /\ DOMAIN t = DOMAIN s /\ t[i] = x /\ \A j \in DOMAIN s : j # i => t[j] = s[j]
    BY ChangedSeq
<1>2. i \in DOMAIN s
    OBVIOUS
<1>3. LiveIn(t) = LiveIn(s) \ {i}
    BY <1>1, <1>2 DEF LiveIn
<1>4. i \in LiveIn(s) <=> s[i].live
    BY <1>2 DEF LiveIn
<1>5. Cardinality(LiveIn(s) \ {i}) = IF i \in LiveIn(s) THEN Cardinality(LiveIn(s)) - 1
                                      ELSE Cardinality(LiveIn(s))
    BY LiveFinite, FS_RemoveElement
<1>6. Cardinality(LiveIn(s)) \in Nat
    BY LiveFinite
<1> QED BY <1>3, <1>4, <1>5, <1>6

\* Where the events are received.
LEMMA ReceivedOK ==
    ASSUME ViewOK, NEW e \in AgentEvent, Receive(e)
    PROVE  ViewOK' /\ Legal(view, e) /\ view' = After(view, e)
<1>1. Legal(view, e) /\ view' = After(view, e)
    BY DEF Receive
<1>2. EventsNext
    BY <1>1 DEF EventsNext
<1> QED BY <1>1, <1>2, NextViewOK

LEMMA EventsAre ==
    /\ \A type \in PlainEvents : Event(type) \in AgentEvent
    /\ \A type \in {"ToolExecStart", "ToolExecUpdate", "ToolExecEnd"}, call \in Calls :
          ToolEvent(type, call) \in AgentEvent
    /\ \A type \in {"DeltaStart", "Delta", "DeltaEnd"}, delta \in Deltas :
          DeltaEvent(type, delta) \in AgentEvent
    /\ \A calls \in SUBSET Calls : TurnEnd(calls) \in AgentEvent
BY DEF AgentEvent

LEMMA MessageStartReceived ==
    ASSUME ViewOK, Receive(Event("MessageStart"))
    PROVE  /\ ViewOK' /\ view.stage = "turn" /\ view.executing = {}
           /\ view'.stage = "message" /\ view'.executing = {}
<1>1. PICK e \in AgentEvent : e = Event("MessageStart")
    BY EventsAre DEF PlainEvents
<1>2. e.type = "MessageStart"
    BY <1>1 DEF Event
<1>3. ViewOK' /\ Legal(view, e) /\ view' = After(view, e)
    BY <1>1, ReceivedOK
<1>4. view.stage = "turn" /\ view.executing = {}
    BY <1>2, <1>3 DEF Legal
<1>5. view' = At("message")
    BY <1>2, <1>3 DEF After
<1> QED BY <1>3, <1>4, <1>5 DEF At, Outside

LEMMA MessageEndReceived ==
    ASSUME ViewOK, Receive(Event("MessageEnd"))
    PROVE  /\ ViewOK' /\ view.stage = "message" /\ view.executing = {}
           /\ view'.stage = "turn" /\ view'.executing = {}
<1>1. PICK e \in AgentEvent : e = Event("MessageEnd")
    BY EventsAre DEF PlainEvents
<1>2. e.type = "MessageEnd"
    BY <1>1 DEF Event
<1>3. ViewOK' /\ Legal(view, e) /\ view' = After(view, e)
    BY <1>1, ReceivedOK
<1>4. view.stage = "message"
    BY <1>2, <1>3 DEF Legal
<1>5. view' = At("turn")
    BY <1>2, <1>3 DEF After
<1> QED BY <1>3, <1>4, <1>5 DEF At, Outside, ViewOK

LEMMA TextReceived ==
    ASSUME ViewOK, Receive(DeltaEvent("Delta", "text"))
    PROVE  ViewOK' /\ view' = view
<1>1. PICK e \in AgentEvent : e = DeltaEvent("Delta", "text")
    BY EventsAre DEF Deltas
<1>2. e.type = "Delta"
    BY <1>1 DEF DeltaEvent
<1>3. ViewOK' /\ view' = After(view, e)
    BY <1>1, ReceivedOK
<1> QED BY <1>2, <1>3 DEF After

LEMMA ToolReceived ==
    ASSUME ViewOK, NEW call \in Calls,
           NEW type \in {"ToolExecStart", "ToolExecUpdate", "ToolExecEnd"},
           Receive(ToolEvent(type, call))
    PROVE  /\ ViewOK' /\ view.stage = "turn" /\ view'.stage = "turn"
           /\ call \in view.executing <=> type # "ToolExecStart"
           /\ view'.executing = CASE type = "ToolExecStart" -> view.executing \cup {call}
                                  [] type = "ToolExecUpdate" -> view.executing
                                  [] OTHER -> view.executing \ {call}
<1>1. PICK e \in AgentEvent : e = ToolEvent(type, call)
    BY EventsAre
<1>2. e.type = type /\ e.calls = {call}
    BY <1>1 DEF ToolEvent
<1>3. ViewOK' /\ Legal(view, e) /\ view' = After(view, e) /\ view \in View
    BY <1>1, ReceivedOK DEF ViewOK
<1>4. CASE type = "ToolExecStart"
    <2>1. view.stage = "turn" /\ call \notin view.executing
        BY <1>2, <1>3, <1>4 DEF Legal
    <2>2. view' = [view EXCEPT !.executing = @ \cup {call}]
        BY <1>2, <1>3, <1>4 DEF After
    <2> QED BY <1>3, <1>4, <2>1, <2>2 DEF View
<1>5. CASE type = "ToolExecUpdate"
    <2>1. call \in view.executing /\ view' = view
        BY <1>2, <1>3, <1>5 DEF Legal, After
    <2>2. view.stage = "turn"
        BY <2>1 DEF ViewOK
    <2> QED BY <1>3, <1>5, <2>1, <2>2
<1>6. CASE type = "ToolExecEnd"
    <2>1. call \in view.executing
        BY <1>2, <1>3, <1>6 DEF Legal
    <2>2. view' = [view EXCEPT !.executing = @ \ {call}, !.executed = @ \cup {call}]
        BY <1>2, <1>3, <1>6 DEF After
    <2>3. view.stage = "turn"
        BY <2>1 DEF ViewOK
    <2> QED BY <1>3, <1>6, <2>1, <2>2, <2>3 DEF View
<1> QED BY <1>4, <1>5, <1>6

\* Events that open or close no message and no execution.
QuietEvents == {"AgentStart", "AgentEnd", "TurnStart", "TurnEnd", "ToolCallDelta", "DeltaStart",
                "DeltaEnd", "CompactionStart", "CompactionEnd", "TranscriptReplace"}

LEMMA QuietReceived ==
    ASSUME ViewOK, NEW e \in AgentEvent, e.type \in QuietEvents, Receive(e)
    PROVE  /\ ViewOK' /\ view'.executing = view.executing
           /\ view'.stage = "message" <=> view.stage = "message"
           /\ e.type \in {"AgentEnd", "CompactionStart", "CompactionEnd", "TranscriptReplace"} =>
                 view.stage # "message" /\ view.executing = {}
<1>1. ViewOK' /\ Legal(view, e) /\ view' = After(view, e) /\ view \in View
    BY ReceivedOK DEF ViewOK
<1>2. CASE e.type \in {"AgentStart", "AgentEnd", "TurnStart"}
    <2>1. view.stage \in {"idle", "between"}
        BY <1>1, <1>2 DEF Legal
    <2>2. view' \in {Outside, At("between"), At("turn")}
        BY <1>1, <1>2 DEF After
    <2>3. view.executing = {} /\ view'.executing = {} /\ view'.stage # "message"
        BY <2>1, <2>2 DEF ViewOK, At, Outside
    <2> QED BY <1>1, <1>2, <2>1, <2>3
<1>3. CASE e.type = "TurnEnd"
    <2>1. view.stage = "turn" /\ view.executing = {}
        BY <1>1, <1>3 DEF Legal
    <2>2. view' = At("between")
        BY <1>1, <1>3 DEF After
    <2> QED BY <1>1, <1>3, <2>1, <2>2 DEF At, Outside
<1>4. CASE e.type \in {"ToolCallDelta", "TranscriptReplace"}
    <2>1. view' = view
        BY <1>1, <1>4 DEF After
    <2>2. e.type = "TranscriptReplace" => view.stage \in {"idle", "between"}
        BY <1>1 DEF Legal
    <2> QED BY <1>1, <1>4, <2>1, <2>2 DEF ViewOK
<1>5. CASE e.type \in {"DeltaStart", "DeltaEnd"}
    <2>1. view'.executing = view.executing /\ view'.stage = view.stage
        BY <1>1, <1>5 DEF After, View
    <2> QED BY <1>1, <1>5, <2>1
<1>6. CASE e.type \in {"CompactionStart", "CompactionEnd"}
    <2>1. view'.executing = view.executing /\ view'.stage = view.stage
        BY <1>1, <1>6 DEF After, View
    <2>2. e.type = "CompactionStart" => view.stage \in {"idle", "between"}
        BY <1>1 DEF Legal
    <2>3. e.type = "CompactionEnd" => view.compacting
        BY <1>1 DEF Legal
    <2>4. view.stage \in {"idle", "between"}
        BY <1>6, <2>2, <2>3 DEF ViewOK
    <2> QED BY <1>1, <1>6, <2>1, <2>4 DEF ViewOK
<1> QED BY <1>2, <1>3, <1>4, <1>5, <1>6 DEF QuietEvents

\* The block and the entry that an event about an execution changes.
LEMMA ExecutionFound ==
    ASSUME TranscriptInv, NEW call \in view.executing
    PROVE  /\ FindToolCall(call) \in 1..Len(blocks) /\ blocks[FindToolCall(call)] \in LiveCalls(call)
           /\ entry_of[call] \in 1..Len(conversation)
           /\ conversation[entry_of[call]] \in LiveCalls(call)
           /\ \A n \in 1..Len(conversation) : conversation[n] \in LiveCalls(call) => n = entry_of[call]
           /\ blocks[FindToolCall(call)] = conversation[entry_of[call]]
<1>1. PICK j \in 1..Len(conversation) : j = entry_of[call] /\ conversation[j] \in LiveCalls(call)
    BY DEF TranscriptInv, BlocksTyped, ToolsInv, OpenAt
<1>2. ASSUME NEW n \in 1..Len(conversation), conversation[n] \in LiveCalls(call)
      PROVE  n = entry_of[call]
    <2>1. n \in DOMAIN conversation /\ LiveAt(n)
        BY DEF TranscriptInv, BlocksTyped, LiveInv
    <2> QED BY <1>2, <2>1 DEF LiveCalls, LiveAt
<1>3. /\ blocks \in Seq(BlockType) /\ conversation \in Seq(BlockType)
      /\ OfKinds(blocks, {"tool"}) = OfKinds(conversation, {"tool"})
    BY DEF TranscriptInv, BlocksTyped, ShownInv, SameShown, Shown, Said
<1>4. conversation[j].kind \in {"tool"}
    BY <1>1 DEF LiveCalls
<1>5. PICK n \in 1..Len(blocks) : blocks[n] = conversation[j]
    BY <1>3, <1>4, SameFound
<1>6. PICK S : S = {i \in 1..Len(blocks) : blocks[i] \in LiveCalls(call)}
    OBVIOUS
<1>7. S \in SUBSET Nat /\ n \in S
    BY <1>1, <1>5, <1>6
<1>8. PICK least \in S : \A k \in S : least <= k
    <2>1. Min(S) \in S /\ \A k \in S : Min(S) <= k
        BY <1>7, LeastNumber
    <2> QED BY <2>1
<1>9. \A i \in 1..Len(blocks) : blocks[i] \in LiveCalls(call) <=>
          blocks[i].kind = "tool" /\ blocks[i].call = call /\ blocks[i].live
    BY <1>3 DEF LiveCalls
<1>10. least \in 1..Len(blocks) /\ DOMAIN blocks = 1..Len(blocks) /\ Len(blocks) \in Nat
    BY <1>3, <1>6
<1>11. \A k \in 1..(least - 1) : k \in 1..Len(blocks) /\ k \notin S
    <2>1. \A k \in 1..(least - 1) : k \in 1..Len(blocks) /\ ~(least <= k)
        BY <1>10
    <2> QED BY <1>8, <2>1
<1>12. \E i \in DOMAIN blocks :
          /\ blocks[i].kind = "tool" /\ blocks[i].call = call /\ blocks[i].live
          /\ \A k \in 1..(i - 1) : ~(/\ blocks[k].kind = "tool"
                                     /\ blocks[k].call = call /\ blocks[k].live)
    BY <1>6, <1>9, <1>10, <1>11
<1>13. PICK i : i = FindToolCall(call)
    OBVIOUS
<1>14. i \in DOMAIN blocks /\ blocks[i].kind = "tool" /\ blocks[i].call = call /\ blocks[i].live
    BY <1>12, <1>13 DEF FindToolCall
<1>15. i \in 1..Len(blocks) /\ blocks[i] \in LiveCalls(call) /\ blocks[i].kind \in {"tool"}
    BY <1>9, <1>10, <1>14
<1>16. blocks[i] = conversation[j]
    <2>1. PICK x \in BlockType : x = blocks[i]
        BY <1>3, <1>15
    <2>2. PICK t, v : Changes(blocks, t, i, x) /\ Changes(conversation, v, j, x)
        BY DEF Changes
    <2>3. \A m \in 1..Len(conversation) : conversation[m] \in LiveCalls(call) => m = j
        BY <1>1, <1>2
    <2>4. x.kind \in {"tool"}
        BY <1>15, <2>1
    <2>5. PICK s, u, Q, kinds : s = blocks /\ u = conversation /\ Q = LiveCalls(call)
                                 /\ kinds = {"tool"}
        OBVIOUS
    <2>6. /\ s \in Seq(BlockType) /\ u \in Seq(BlockType) /\ OfKinds(s, kinds) = OfKinds(u, kinds)
          /\ i \in 1..Len(s) /\ j \in 1..Len(u)
        BY <1>3, <1>15, <2>5
    <2>7. s[i] \in Q /\ u[j] \in Q /\ \A m \in 1..Len(u) : u[m] \in Q => m = j
        BY <1>1, <1>15, <2>3, <2>5
    <2>8. s[i].kind \in kinds /\ u[j].kind \in kinds /\ x.kind \in kinds
        BY <1>4, <1>15, <2>4, <2>5
    <2>9. Changes(s, t, i, x) /\ Changes(u, v, j, x)
        BY <2>2, <2>5
    <2>10. s[i] = u[j]
        BY <2>1, <2>6, <2>7, <2>8, <2>9, SameRevised
    <2> QED BY <2>5, <2>10
<1> QED BY <1>1, <1>2, <1>13, <1>15, <1>16

LEMMA NothingLive ==
    ASSUME TranscriptInv, message # "assistant", view.executing = {}
    PROVE  \A i \in DOMAIN conversation : ~conversation[i].live
BY DEF TranscriptInv, LiveInv, LiveAt

LEMMA CountIs == AnimatedCountExact <=> animated_block_count = Cardinality(LiveIn(blocks))
BY DEF AnimatedCountExact, LiveIn

LEMMA CountIsNext == AnimatedCountExact' <=> animated_block_count' = Cardinality(LiveIn(blocks'))
BY DEF AnimatedCountExact, LiveIn

\* A block that is added to both, to the pane alone, and one that changes.
LEMMA BothAppended ==
    ASSUME TranscriptInv, NEW b \in BlockType, b.kind \in Spoken,
           AddBlock(b), conversation' = Append(conversation, b),
           message' \in {"none", "user", "assistant"}, entry_of' \in [Calls -> 0..MaxBlocks],
           interrupted' = interrupted
    PROVE  BlocksTyped' /\ AnimatedCountExact' /\ ShownInv'
<1>1. /\ blocks \in Seq(BlockType) /\ conversation \in Seq(BlockType)
      /\ blocks' = Append(blocks, b) /\ Len(blocks) < MaxBlocks
      /\ animated_block_count' = animated_block_count + (IF b.live THEN 1 ELSE 0)
    BY DEF TranscriptInv, BlocksTyped, AddBlock
<1>2. BlocksTyped'
    <2>1. /\ blocks' \in Seq(BlockType) /\ Len(blocks') = Len(blocks) + 1
          /\ conversation' \in Seq(BlockType) /\ Len(conversation') = Len(conversation) + 1
          /\ conversation'[Len(conversation) + 1] = b
          /\ \A i \in 1..Len(conversation) : conversation'[i] = conversation[i]
        BY <1>1, AppendProperties
    <2>2. MaxBlocks \in Nat /\ Len(blocks) \in Nat /\ Len(conversation) \in Nat
        BY <1>1, TranscriptAssumption
    <2>3. \A i \in DOMAIN conversation' : conversation'[i].kind \in Spoken
        <3>1. \A i \in DOMAIN conversation' : i \in 1..Len(conversation) \/ i = Len(conversation) + 1
            BY <2>1, <2>2
        <3>2. \A i \in 1..Len(conversation) : conversation[i].kind \in Spoken
            BY <1>1 DEF TranscriptInv, BlocksTyped
        <3> QED BY <2>1, <3>1, <3>2
    <2>4. Len(blocks') <= MaxBlocks /\ Len(conversation') <= Len(blocks')
        BY <1>1, <2>1, <2>2 DEF TranscriptInv, BlocksTyped
    <2> QED BY <2>1, <2>3, <2>4 DEF TranscriptInv, BlocksTyped
<1>3. AnimatedCountExact'
    BY <1>1, CountIs, CountIsNext, LiveAppended DEF TranscriptInv
<1>4. ASSUME NEW kinds, SameShown(kinds) PROVE SameShown(kinds)'
    <2>1. OfKinds(blocks', kinds) = OfKinds(conversation', kinds)
        <3>1. OfKinds(blocks, kinds) = OfKinds(conversation, kinds)
            BY <1>4 DEF SameShown, Shown, Said
        <3>2. OfKinds(blocks', kinds) =
                  IF b.kind \in kinds THEN Append(OfKinds(blocks, kinds), b) ELSE OfKinds(blocks, kinds)
            BY <1>1, OfKindsAppended
        <3>3. OfKinds(conversation', kinds) =
                  IF b.kind \in kinds THEN Append(OfKinds(conversation, kinds), b)
                  ELSE OfKinds(conversation, kinds)
            BY <1>1, OfKindsAppended
        <3> QED BY <3>1, <3>2, <3>3
    <2> QED BY <2>1 DEF SameShown, Shown, Said
<1>5. ShownInv'
    <2>1. SameShown({"tool"})'
        BY <1>4 DEF TranscriptInv, ShownInv
    <2>2. ~interrupted' => SameShown(Spoken)'
        BY <1>4 DEF TranscriptInv, ShownInv
    <2> QED BY <2>1, <2>2 DEF ShownInv
<1> QED BY <1>2, <1>3, <1>5

LEMMA SystemAppended ==
    ASSUME TranscriptInv, AddBlock(SystemBlock), conversation' = conversation,
           message' = message, entry_of' = entry_of,
           interrupted' \in BOOLEAN, interrupted => interrupted'
    PROVE  BlocksTyped' /\ AnimatedCountExact' /\ ShownInv' /\ ~LastIsAssistant'
<1>1. PICK b \in BlockType : b = SystemBlock /\ b.kind = "system" /\ ~b.live
    BY BlocksAre
<1>2. /\ blocks \in Seq(BlockType) /\ conversation \in Seq(BlockType)
      /\ blocks' = Append(blocks, b) /\ Len(blocks) < MaxBlocks
      /\ animated_block_count' = animated_block_count + (IF b.live THEN 1 ELSE 0)
    BY <1>1 DEF TranscriptInv, BlocksTyped, AddBlock
<1>3. /\ blocks' \in Seq(BlockType) /\ Len(blocks') = Len(blocks) + 1 /\ blocks'[Len(blocks) + 1] = b
    BY <1>2, AppendProperties
<1>4. BlocksTyped'
    <2>1. MaxBlocks \in Nat /\ Len(blocks) \in Nat /\ Len(conversation) \in Nat
        BY <1>2, TranscriptAssumption
    <2>2. Len(blocks') <= MaxBlocks /\ Len(conversation') <= Len(blocks')
        BY <1>2, <1>3, <2>1 DEF TranscriptInv, BlocksTyped
    <2> QED BY <1>3, <2>2 DEF TranscriptInv, BlocksTyped
<1>5. AnimatedCountExact'
    BY <1>2, CountIs, CountIsNext, LiveAppended DEF TranscriptInv
<1>6. ASSUME NEW kinds, "system" \notin kinds, SameShown(kinds) PROVE SameShown(kinds)'
    <2>1. OfKinds(blocks', kinds) = OfKinds(blocks, kinds)
        BY <1>1, <1>2, <1>6, OfKindsAppended
    <2> QED BY <1>6, <2>1 DEF SameShown, Shown, Said
<1>7. ShownInv'
    <2>1. SameShown({"tool"})'
        BY <1>6 DEF TranscriptInv, ShownInv
    <2>2. ~interrupted' => SameShown(Spoken)'
        <3>1. "system" \notin Spoken
            BY DEF Spoken
        <3> QED BY <1>6, <3>1 DEF TranscriptInv, ShownInv
    <2> QED BY <2>1, <2>2 DEF ShownInv
<1>8. ~LastIsAssistant'
    <2>1. Last(blocks') = b
        BY <1>3 DEF Last
    <2> QED BY <1>1, <2>1 DEF LastIsAssistant
<1> QED BY <1>4, <1>5, <1>7, <1>8

LEMMA ConversationTyped ==
    ASSUME TranscriptInv, NEW j \in 1..Len(conversation), NEW x \in BlockType,
           x.kind = conversation[j].kind, Changes(conversation, conversation', j, x)
    PROVE  /\ conversation' \in Seq(BlockType) /\ Len(conversation') = Len(conversation)
           /\ DOMAIN conversation' = DOMAIN conversation
           /\ conversation'[j] = x
           /\ \A i \in DOMAIN conversation : i # j => conversation'[i] = conversation[i]
           /\ \A i \in DOMAIN conversation' : conversation'[i].kind \in Spoken
<1>1. conversation \in Seq(BlockType) /\ \A i \in DOMAIN conversation : conversation[i].kind \in Spoken
    BY DEF TranscriptInv, BlocksTyped
<1>2. /\ conversation' \in Seq(BlockType) /\ Len(conversation') = Len(conversation)
      /\ DOMAIN conversation' = DOMAIN conversation /\ conversation'[j] = x
      /\ \A i \in DOMAIN conversation : i # j => conversation'[i] = conversation[i]
    BY <1>1, ChangedSeq
<1>3. j \in DOMAIN conversation
    BY <1>1
<1> QED BY <1>1, <1>2, <1>3

LEMMA BothRevised ==
    ASSUME TranscriptInv, NEW i \in 1..Len(blocks), NEW j \in 1..Len(conversation),
           NEW Q, blocks[i] \in Q, blocks[i] = conversation[j],
           \A n \in 1..Len(conversation) : conversation[n] \in Q => n = j,
           NEW x \in BlockType, x.kind = conversation[j].kind,
           Changes(blocks, blocks', i, x), Changes(conversation, conversation', j, x),
           message' \in {"none", "user", "assistant"}, entry_of' \in [Calls -> 0..MaxBlocks],
           interrupted' = interrupted
    PROVE  BlocksTyped' /\ ShownInv'
<1>1. /\ blocks \in Seq(BlockType) /\ conversation \in Seq(BlockType)
      /\ conversation[j].kind \in Spoken
    BY DEF TranscriptInv, BlocksTyped
<1>2. BlocksTyped'
    <2>1. blocks' \in Seq(BlockType) /\ Len(blocks') = Len(blocks)
        BY <1>1, ChangedSeq
    <2>2. /\ conversation' \in Seq(BlockType) /\ Len(conversation') = Len(conversation)
          /\ \A n \in DOMAIN conversation' : conversation'[n].kind \in Spoken
        BY ConversationTyped
    <2> QED BY <2>1, <2>2 DEF TranscriptInv, BlocksTyped
<1>3. ASSUME NEW kinds, SameShown(kinds) PROVE SameShown(kinds)'
    <2>1. OfKinds(blocks, kinds) = OfKinds(conversation, kinds)
        BY <1>3 DEF SameShown, Shown, Said
    <2>2. OfKinds(blocks', kinds) = OfKinds(conversation', kinds)
        <3>1. CASE x.kind \in kinds
            <4>1. conversation[j] \in Q /\ blocks[i].kind \in kinds /\ conversation[j].kind \in kinds
                BY <3>1
            <4> QED BY <1>1, <2>1, <3>1, <4>1, SameRevised
        <3>2. CASE x.kind \notin kinds
            <4>1. blocks[i].kind \notin kinds /\ conversation[j].kind \notin kinds
                BY <3>2
            <4>2. OfKinds(blocks', kinds) = OfKinds(blocks, kinds)
                BY <1>1, <3>2, <4>1, OfKindsElsewhere
            <4>3. OfKinds(conversation', kinds) = OfKinds(conversation, kinds)
                BY <1>1, <3>2, <4>1, OfKindsElsewhere
            <4> QED BY <2>1, <4>2, <4>3
        <3> QED BY <3>1, <3>2
    <2> QED BY <2>2 DEF SameShown, Shown, Said
<1>4. ShownInv'
    <2>1. SameShown({"tool"})'
        BY <1>3 DEF TranscriptInv, ShownInv
    <2>2. ~interrupted' => SameShown(Spoken)'
        BY <1>3 DEF TranscriptInv, ShownInv
    <2> QED BY <2>1, <2>2 DEF ShownInv
<1> QED BY <1>2, <1>4

\* An answer that has been interrupted goes on unseen.
LEMMA AnswerUnseen ==
    ASSUME TranscriptInv, NEW j \in 1..Len(conversation), conversation[j].kind = "assistant",
           NEW x \in BlockType, x.kind = "assistant", Changes(conversation, conversation', j, x),
           interrupted, interrupted' = interrupted, blocks' = blocks,
           message' \in {"none", "user", "assistant"}, entry_of' = entry_of
    PROVE  BlocksTyped' /\ ShownInv'
<1>1. /\ conversation \in Seq(BlockType)
    BY DEF TranscriptInv, BlocksTyped
<1>2. /\ conversation' \in Seq(BlockType) /\ Len(conversation') = Len(conversation)
      /\ \A n \in DOMAIN conversation' : conversation'[n].kind \in Spoken
    BY ConversationTyped
<1>3. BlocksTyped'
    BY <1>2 DEF TranscriptInv, BlocksTyped
<1>4. OfKinds(conversation', {"tool"}) = OfKinds(conversation, {"tool"})
    <2>1. x.kind \notin {"tool"} /\ conversation[j].kind \notin {"tool"}
        OBVIOUS
    <2> QED BY <1>1, <2>1, OfKindsElsewhere
<1>5. SameShown({"tool"})'
    BY <1>4 DEF TranscriptInv, ShownInv, SameShown, Shown, Said
<1> QED BY <1>3, <1>5 DEF ShownInv

LEMMA EntriesStay ==
    ASSUME TranscriptInv, conversation' = conversation, entry_of' = entry_of, message' = message,
           view'.executing = view.executing
    PROVE  LiveInv' /\ ToolsInv'
<1>1. LiveInv'
    BY DEF TranscriptInv, LiveInv, LiveAt
<1>2. ToolsInv'
    BY DEF TranscriptInv, ToolsInv, OpenAt
<1> QED BY <1>1, <1>2

LEMMA TranscriptStarts == TranscriptInit => TranscriptInv
<1> SUFFICES ASSUME TranscriptInit PROVE TranscriptInv
    OBVIOUS
<1>1. ViewOK /\ view.executing = {} /\ view.stage = "idle"
    BY OutsideOK DEF TranscriptInit, EventsInit, Outside
<1>2. PICK none : none = <<>>
    OBVIOUS
<1>3. blocks = none /\ conversation = none /\ none \in Seq(BlockType) /\ Len(none) = 0 /\ DOMAIN none = {}
    BY <1>2 DEF TranscriptInit
<1>4. MaxBlocks \in Nat /\ entry_of = [call \in Calls |-> 0] /\ message = "none" /\ interrupted = FALSE
      /\ animated_block_count = 0
    BY TranscriptAssumption DEF TranscriptInit
<1>5. entry_of \in [Calls -> 0..MaxBlocks]
    BY <1>4
<1>6. BlocksTyped
    <2>1. /\ blocks \in Seq(BlockType) /\ conversation \in Seq(BlockType)
          /\ Len(blocks) = 0 /\ Len(conversation) = 0 /\ DOMAIN conversation = {}
        BY <1>3
    <2>2. Len(blocks) <= MaxBlocks /\ Len(conversation) <= Len(blocks)
        BY <1>4, <2>1
    <2>3. message \in {"none", "user", "assistant"} /\ interrupted \in BOOLEAN
        BY <1>4
    <2> QED BY <1>5, <2>1, <2>2, <2>3 DEF BlocksTyped
<1>7. AnimatedCountExact
    <2>1. LiveIn(blocks) = {}
        BY <1>3 DEF LiveIn
    <2> QED BY <1>4, <2>1, CountIs, FS_EmptySet
<1>8. ShownInv
    BY <1>3 DEF ShownInv, SameShown, Shown, Said
<1>9. MessageInv /\ AnswerInv /\ LiveInv /\ ToolsInv
    BY <1>1, <1>3, <1>4 DEF MessageInv, AnswerInv, LiveInv, ToolsInv
<1> QED BY <1>1, <1>6, <1>7, <1>8, <1>9 DEF TranscriptInv

LEMMA StartKeeps ==
    ASSUME TranscriptInv, NEW kind \in {"user", "assistant"}, MessageStarts(kind)
    PROVE  TranscriptInv'
<1>1. PICK b \in BlockType : b = IF kind = "user" THEN UserBlock ELSE StreamingAssistant
    BY BlocksAre DEF LiveAnswers
<1>2. /\ Receive(Event("MessageStart")) /\ message' = kind /\ AddBlock(b)
      /\ conversation' = Append(conversation, b)
      /\ entry_of' = entry_of /\ interrupted' = interrupted
    BY <1>1 DEF MessageStarts
<1>3. /\ kind = "user" => b.kind = "user" /\ ~b.live
      /\ kind = "assistant" => b \in LiveAnswers
    BY <1>1, BlocksAre
<1>4. b.kind \in Spoken
    BY <1>3 DEF Spoken, LiveAnswers
<1>5. /\ ViewOK' /\ view.stage = "turn" /\ view.executing = {}
      /\ view'.stage = "message" /\ view'.executing = {}
    BY <1>2, MessageStartReceived DEF TranscriptInv
<1>6. message = "none"
    BY <1>5 DEF TranscriptInv, MessageInv
<1>7. BlocksTyped' /\ AnimatedCountExact' /\ ShownInv'
    BY <1>2, <1>4, BothAppended DEF TranscriptInv, BlocksTyped
<1>8. /\ blocks \in Seq(BlockType) /\ conversation \in Seq(BlockType)
      /\ blocks' = Append(blocks, b)
    BY <1>2 DEF TranscriptInv, BlocksTyped, AddBlock
<1>9. /\ Last(blocks') = b /\ Last(conversation') = b /\ blocks' # <<>> /\ conversation' # <<>>
      /\ conversation'[Len(conversation')] = b /\ Len(conversation') = Len(conversation) + 1
      /\ \A i \in DOMAIN conversation' : i = Len(conversation') \/ i \in DOMAIN conversation
      /\ \A i \in DOMAIN conversation : conversation'[i] = conversation[i]
    BY <1>2, <1>8, AppendProperties DEF Last
<1>10. MessageInv'
    BY <1>2, <1>5 DEF MessageInv
<1>11. AnswerInv'
    BY <1>2, <1>3, <1>9 DEF AnswerInv, LastIsAssistant, LiveAnswers
<1>12. LiveInv'
    <2>1. \A i \in DOMAIN conversation : ~conversation[i].live
        BY <1>5, <1>6, NothingLive
    <2>2. ASSUME NEW i \in DOMAIN conversation' PROVE LiveAt(i)'
        <3>1. CASE i \in DOMAIN conversation
            BY <1>9, <2>1, <3>1 DEF LiveAt
        <3>2. CASE i = Len(conversation')
            BY <1>2, <1>3, <1>9, <3>2 DEF LiveAt, LiveAnswers
        <3> QED BY <1>9, <3>1, <3>2
    <2> QED BY <2>2 DEF LiveInv
<1>13. ToolsInv'
    BY <1>5 DEF ToolsInv
<1> QED BY <1>5, <1>7, <1>10, <1>11, <1>12, <1>13 DEF TranscriptInv

\* What an open answer is in the conversation, and in the pane when it is the last.
LEMMA OpenAnswer ==
    ASSUME TranscriptInv, message = "assistant"
    PROVE  /\ Len(conversation) \in 1..Len(conversation)
           /\ Last(conversation) = conversation[Len(conversation)]
           /\ conversation[Len(conversation)] \in LiveAnswers
           /\ conversation[Len(conversation)].kind = "assistant"
           /\ \A n \in 1..Len(conversation) : conversation[n] \in LiveAnswers => n = Len(conversation)
           /\ LastIsAssistant =>
                 /\ Len(blocks) \in 1..Len(blocks) /\ Last(blocks) = blocks[Len(blocks)]
                 /\ blocks[Len(blocks)] = conversation[Len(conversation)]
           /\ ~interrupted => LastIsAssistant
           /\ view.stage = "message" /\ view.executing = {}
<1>1. /\ blocks \in Seq(BlockType) /\ conversation \in Seq(BlockType)
      /\ conversation # <<>> /\ Last(conversation) \in LiveAnswers
      /\ LastIsAssistant => Last(blocks) = Last(conversation)
      /\ ~interrupted => LastIsAssistant
    BY DEF TranscriptInv, BlocksTyped, AnswerInv
<1>2. Len(conversation) \in 1..Len(conversation) /\ Last(conversation) = conversation[Len(conversation)]
    BY <1>1 DEF Last
<1>3. ASSUME NEW n \in 1..Len(conversation), conversation[n] \in LiveAnswers
      PROVE  n = Len(conversation)
    <2>1. n \in DOMAIN conversation
        BY <1>1
    <2>2. LiveAt(n)
        BY <2>1 DEF TranscriptInv, LiveInv
    <2> QED BY <1>3, <2>2 DEF LiveAt, LiveAnswers
<1>4. LastIsAssistant => Len(blocks) \in 1..Len(blocks) /\ Last(blocks) = blocks[Len(blocks)]
    BY <1>1 DEF LastIsAssistant, Last
<1>5. view.stage = "message" /\ view.executing = {}
    BY DEF TranscriptInv, MessageInv, ViewOK
<1>6. conversation[Len(conversation)].kind = "assistant"
    BY <1>1, <1>2 DEF LiveAnswers
<1> QED BY <1>1, <1>2, <1>3, <1>4, <1>5, <1>6

\* What the entries of an answer that changes lead to.
LEMMA AnswerChanged ==
    ASSUME TranscriptInv, message = "assistant", NEW x \in BlockType, x.kind = "assistant",
           Changes(conversation, conversation', Len(conversation), x), entry_of' = entry_of,
           view'.executing = {}, x.live => message' = "assistant"
    PROVE  LiveInv' /\ ToolsInv'
<1>1. /\ Len(conversation) \in 1..Len(conversation)
      /\ conversation[Len(conversation)].kind = "assistant" /\ view.executing = {}
    BY OpenAnswer
<1>2. /\ Len(conversation') = Len(conversation) /\ DOMAIN conversation' = DOMAIN conversation
      /\ conversation'[Len(conversation)] = x
      /\ \A i \in DOMAIN conversation : i # Len(conversation) => conversation'[i] = conversation[i]
    BY <1>1, ConversationTyped
<1>3. ASSUME NEW i \in DOMAIN conversation' PROVE LiveAt(i)'
    <2>1. CASE i = Len(conversation)
        BY <1>2, <2>1 DEF LiveAt
    <2>2. CASE i # Len(conversation)
        <3>1. conversation'[i] = conversation[i] /\ LiveAt(i)
            BY <1>2, <2>2 DEF TranscriptInv, LiveInv
        <3> QED BY <1>1, <2>2, <3>1 DEF LiveAt
    <2> QED BY <2>1, <2>2
<1>4. LiveInv'
    BY <1>3 DEF LiveInv
<1>5. ToolsInv'
    BY DEF ToolsInv
<1> QED BY <1>4, <1>5

LEMMA TextArrivesKeeps == ASSUME TranscriptInv, TextArrives PROVE TranscriptInv'
<1>1. /\ message = "assistant" /\ Receive(DeltaEvent("Delta", "text"))
      /\ UNCHANGED <<animated_block_count, message, entry_of, interrupted>>
    BY DEF TextArrives
<1>2. ViewOK' /\ view' = view
    BY <1>1, TextReceived DEF TranscriptInv
<1>3. /\ blocks \in Seq(BlockType) /\ conversation \in Seq(BlockType)
    BY DEF TranscriptInv, BlocksTyped
<1>4. PICK j \in 1..Len(conversation) : j = Len(conversation)
    BY <1>1, OpenAnswer
<1>5. /\ Last(conversation) = conversation[j] /\ conversation[j] \in LiveAnswers
      /\ conversation[j].kind = "assistant"
      /\ \A n \in 1..Len(conversation) : conversation[n] \in LiveAnswers => n = j
    BY <1>1, <1>4, OpenAnswer
<1>6. conversation[j].text < MaxDeltas
    BY <1>5 DEF TextArrives
<1>7. PICK text \in 0..(MaxDeltas + 2) : text = conversation[j].text + 1
    <2>1. MaxDeltas \in Nat /\ conversation[j].text \in Nat
        BY <1>5, TranscriptAssumption DEF LiveAnswers, BlockType
    <2>2. conversation[j].text + 1 \in 0..(MaxDeltas + 2)
        BY <1>6, <2>1
    <2> QED BY <2>2
<1>8. PICK x : x = Now(conversation[j], text, TRUE)
    OBVIOUS
<1>9. /\ x \in BlockType /\ x.kind = "assistant" /\ x.live
      /\ Changes(conversation, conversation', j, x)
    <2>1. conversation' = Revise(conversation, j, text, TRUE)
        BY <1>4, <1>5, <1>7 DEF TextArrives
    <2> QED BY <1>3, <1>5, <1>8, <2>1, RevisedBlock
<1>10. x \in LiveAnswers
    BY <1>9 DEF LiveAnswers
<1>11. LiveInv' /\ ToolsInv'
    <2>1. view'.executing = {}
        BY <1>1, <1>2, OpenAnswer
    <2> QED BY <1>1, <1>4, <1>9, <2>1, AnswerChanged
<1>12. Last(conversation') = x /\ conversation' # <<>>
    <2>1. conversation' \in Seq(BlockType) /\ Len(conversation') = Len(conversation) /\ conversation'[j] = x
        BY <1>3, <1>9, ChangedSeq
    <2> QED BY <1>4, <2>1 DEF Last
<1>13. MessageInv'
    BY <1>1, <1>2 DEF TranscriptInv, MessageInv
<1>14. CASE LastIsAssistant
    <2>1. PICK i \in 1..Len(blocks) : i = Len(blocks)
        BY <1>1, <1>14, OpenAnswer
    <2>2. Last(blocks) = blocks[i] /\ blocks[i] = conversation[j]
        BY <1>1, <1>4, <1>14, <2>1, OpenAnswer
    <2>3. Changes(blocks, blocks', i, x)
        <3>1. blocks' = [blocks EXCEPT ![i].text = @ + 1]
            BY <1>14, <2>1 DEF TextArrives
        <3>2. PICK y \in BlockType : y = blocks[i] /\ y.live
            BY <1>5, <2>2 DEF LiveAnswers
        <3>3. blocks' = [blocks EXCEPT ![i] = [y EXCEPT !.text = text]]
            BY <1>7, <2>2, <3>1, <3>2
        <3>4. x = [y EXCEPT !.text = text]
            BY <1>8, <2>2, <3>2 DEF Now, BlockType
        <3> QED BY <3>3, <3>4 DEF Changes
    <2>4. BlocksTyped' /\ ShownInv'
        <3>1. blocks[i] \in LiveAnswers /\ x.kind = conversation[j].kind
            BY <1>5, <1>9, <2>2
        <3>2. message' \in {"none", "user", "assistant"} /\ entry_of' \in [Calls -> 0..MaxBlocks]
              /\ interrupted' = interrupted
            BY <1>1 DEF TranscriptInv, BlocksTyped
        <3> QED BY <1>5, <1>9, <2>2, <2>3, <3>1, <3>2, BothRevised
    <2>5. AnimatedCountExact'
        <3>1. x.live = blocks[i].live
            BY <1>5, <1>9, <2>2 DEF LiveAnswers, BlockType
        <3>2. LiveIn(blocks') = LiveIn(blocks)
            BY <1>3, <1>9, <2>3, <3>1, LiveKept
        <3> QED BY <1>1, <3>2, CountIs, CountIsNext DEF TranscriptInv
    <2>6. Last(blocks') = x /\ blocks' # <<>>
        <3>1. blocks' \in Seq(BlockType) /\ Len(blocks') = Len(blocks) /\ blocks'[i] = x
            BY <1>3, <1>9, <2>3, ChangedSeq
        <3> QED BY <2>1, <3>1 DEF Last
    <2>7. AnswerInv'
        BY <1>9, <1>10, <1>12, <2>6 DEF AnswerInv, LastIsAssistant
    <2> QED BY <1>2, <1>11, <1>13, <2>4, <2>5, <2>7 DEF TranscriptInv
<1>15. CASE ~LastIsAssistant
    <2>1. interrupted /\ blocks' = blocks
        BY <1>1, <1>15, OpenAnswer DEF TextArrives
    <2>2. BlocksTyped' /\ ShownInv'
        BY <1>1, <1>5, <1>9, <2>1, AnswerUnseen DEF TranscriptInv, BlocksTyped
    <2>3. AnimatedCountExact'
        BY <1>1, <2>1, CountIs, CountIsNext DEF TranscriptInv
    <2>4. AnswerInv'
        BY <1>1, <1>10, <1>12, <1>15, <2>1 DEF AnswerInv, LastIsAssistant
    <2> QED BY <1>2, <1>11, <1>13, <2>2, <2>3, <2>4 DEF TranscriptInv
<1> QED BY <1>14, <1>15

LEMMA AnswerEndKeeps == ASSUME TranscriptInv, AssistantMessageEnds PROVE TranscriptInv'
<1>1. /\ message = "assistant" /\ Receive(Event("MessageEnd")) /\ message' = "none"
      /\ entry_of' = entry_of /\ interrupted' = interrupted
    BY DEF AssistantMessageEnds
<1>2. ViewOK' /\ view'.stage = "turn" /\ view'.executing = {}
    BY <1>1, MessageEndReceived DEF TranscriptInv
<1>3. /\ blocks \in Seq(BlockType) /\ conversation \in Seq(BlockType)
    BY DEF TranscriptInv, BlocksTyped
<1>4. PICK j \in 1..Len(conversation) : j = Len(conversation)
    BY <1>1, OpenAnswer
<1>5. /\ Last(conversation) = conversation[j] /\ conversation[j] \in LiveAnswers
      /\ conversation[j].kind = "assistant"
      /\ \A n \in 1..Len(conversation) : conversation[n] \in LiveAnswers => n = j
    BY <1>1, <1>4, OpenAnswer
<1>6. PICK text \in 0..(MaxDeltas + 2) : text = conversation[j].text
    BY <1>5 DEF LiveAnswers, BlockType
<1>7. PICK x : x = Now(conversation[j], text, FALSE)
    OBVIOUS
<1>8. /\ x \in BlockType /\ x.kind = "assistant" /\ ~x.live
      /\ Changes(conversation, conversation', j, x)
    <2>1. conversation' = Revise(conversation, j, text, FALSE)
        BY <1>4, <1>5, <1>6 DEF AssistantMessageEnds
    <2> QED BY <1>3, <1>5, <1>7, <2>1, RevisedBlock
<1>9. LiveInv' /\ ToolsInv'
    BY <1>1, <1>2, <1>4, <1>8, AnswerChanged
<1>10. MessageInv' /\ AnswerInv'
    BY <1>1, <1>2 DEF MessageInv, AnswerInv
<1>11. CASE LastIsAssistant
    <2>1. PICK i \in 1..Len(blocks) : i = Len(blocks)
        BY <1>1, <1>11, OpenAnswer
    <2>2. Last(blocks) = blocks[i] /\ blocks[i] = conversation[j]
        BY <1>1, <1>4, <1>11, <2>1, OpenAnswer
    <2>3. Changes(blocks, blocks', i, x)
        <3>1. blocks' = Revise(blocks, i, text, FALSE)
            BY <1>5, <1>6, <1>11, <2>1 DEF AssistantMessageEnds
        <3>2. Changes(blocks, Revise(blocks, i, text, FALSE), i, Now(blocks[i], text, FALSE))
            BY <1>3, RevisedBlock
        <3> QED BY <1>7, <2>2, <3>1, <3>2
    <2>4. BlocksTyped' /\ ShownInv'
        <3>1. blocks[i] \in LiveAnswers /\ x.kind = conversation[j].kind
            BY <1>5, <1>8, <2>2
        <3>2. message' \in {"none", "user", "assistant"} /\ entry_of' \in [Calls -> 0..MaxBlocks]
            BY <1>1 DEF TranscriptInv, BlocksTyped
        <3> QED BY <1>1, <1>5, <1>8, <2>2, <2>3, <3>1, <3>2, BothRevised
    <2>5. AnimatedCountExact'
        <3>1. animated_block_count' = animated_block_count - (IF blocks[i].live THEN 1 ELSE 0)
            BY <1>11, <2>2 DEF AssistantMessageEnds
        <3>2. Cardinality(LiveIn(blocks')) =
                  Cardinality(LiveIn(blocks)) - (IF blocks[i].live THEN 1 ELSE 0)
            BY <1>3, <1>8, <2>3, LiveEnded
        <3> QED BY <3>1, <3>2, CountIs, CountIsNext DEF TranscriptInv
    <2> QED BY <1>2, <1>9, <1>10, <2>4, <2>5 DEF TranscriptInv
<1>12. CASE ~LastIsAssistant
    <2>1. interrupted /\ blocks' = blocks /\ animated_block_count' = animated_block_count
        BY <1>1, <1>12, OpenAnswer DEF AssistantMessageEnds
    <2>2. BlocksTyped' /\ ShownInv'
        <3>1. message' \in {"none", "user", "assistant"}
            BY <1>1
        <3> QED BY <1>1, <1>5, <1>8, <2>1, <3>1, AnswerUnseen
    <2>3. AnimatedCountExact'
        BY <2>1, CountIs, CountIsNext DEF TranscriptInv
    <2> QED BY <1>2, <1>9, <1>10, <2>2, <2>3 DEF TranscriptInv
<1> QED BY <1>11, <1>12

LEMMA ToolStartKeeps ==
    ASSUME TranscriptInv, NEW call \in Calls, ToolExecStarts(call)
    PROVE  TranscriptInv'
<1>1. PICK b \in BlockType : b = ToolBlock(call) /\ b \in LiveCalls(call)
    BY BlocksAre DEF LiveCalls
<1>2. /\ message = "none" /\ message' = "none" /\ Receive(ToolEvent("ToolExecStart", call))
      /\ AddBlock(b) /\ conversation' = Append(conversation, b) /\ interrupted' = interrupted
      /\ entry_of' = [entry_of EXCEPT ![call] = Len(conversation')]
    BY <1>1 DEF ToolExecStarts
<1>3. /\ ViewOK' /\ view.stage = "turn" /\ view'.stage = "turn" /\ call \notin view.executing
      /\ view'.executing = view.executing \cup {call}
    BY <1>2, ToolReceived DEF TranscriptInv
<1>4. /\ blocks \in Seq(BlockType) /\ conversation \in Seq(BlockType)
      /\ Len(blocks) < MaxBlocks /\ Len(conversation) <= Len(blocks) /\ entry_of \in [Calls -> 0..MaxBlocks]
    BY <1>2 DEF TranscriptInv, BlocksTyped, AddBlock
<1>5. /\ conversation' \in Seq(BlockType) /\ Len(conversation') = Len(conversation) + 1
      /\ conversation'[Len(conversation) + 1] = b
      /\ \A i \in 1..Len(conversation) : conversation'[i] = conversation[i]
    BY <1>2, <1>4, AppendProperties
<1>6. PICK n \in Nat : n = Len(conversation')
    BY <1>5
<1>7. /\ n \in 0..MaxBlocks /\ n \in DOMAIN conversation' /\ conversation'[n] = b
      /\ n \notin DOMAIN conversation
      /\ \A i \in DOMAIN conversation' : i = n \/ i \in DOMAIN conversation
      /\ \A i \in DOMAIN conversation : i \in DOMAIN conversation' /\ conversation'[i] = conversation[i]
    <2>1. MaxBlocks \in Nat /\ Len(conversation) \in Nat /\ Len(blocks) \in Nat
        BY <1>4, TranscriptAssumption
    <2>2. n = Len(conversation) + 1 /\ n <= MaxBlocks
        BY <1>4, <1>5, <1>6, <2>1
    <2>3. DOMAIN conversation = 1..Len(conversation) /\ DOMAIN conversation' = 1..n
        BY <1>4, <1>5, <1>6
    <2> QED BY <1>5, <2>1, <2>2, <2>3
<1>8. /\ entry_of' \in [Calls -> 0..MaxBlocks] /\ entry_of'[call] = n
      /\ \A c \in Calls : c # call => entry_of'[c] = entry_of[c]
    BY <1>2, <1>4, <1>6, <1>7
<1>9. BlocksTyped' /\ AnimatedCountExact' /\ ShownInv'
    <2>1. b.kind \in Spoken
        BY <1>1 DEF LiveCalls, Spoken
    <2> QED BY <1>2, <1>8, <2>1, BothAppended
<1>10. MessageInv' /\ AnswerInv'
    BY <1>2, <1>3 DEF MessageInv, AnswerInv
<1>11. view.executing \subseteq Calls
    BY DEF TranscriptInv, ViewOK, View
<1>12. ASSUME NEW i \in DOMAIN conversation' PROVE LiveAt(i)'
    <2>1. CASE i = n
        BY <1>1, <1>3, <1>7, <1>8, <2>1 DEF LiveAt, LiveCalls
    <2>2. CASE i \in DOMAIN conversation
        <3>1. LiveAt(i) /\ conversation'[i] = conversation[i]
            BY <1>7, <2>2 DEF TranscriptInv, LiveInv
        <3> QED BY <1>2, <1>3, <1>8, <1>11, <3>1 DEF LiveAt
    <2> QED BY <1>7, <2>1, <2>2
<1>13. ASSUME NEW c \in view'.executing PROVE OpenAt(c)'
    <2>1. CASE c = call
        BY <1>1, <1>7, <1>8, <2>1 DEF OpenAt
    <2>2. CASE c # call
        <3>1. c \in view.executing /\ OpenAt(c)
            BY <1>3, <2>2 DEF TranscriptInv, ToolsInv
        <3> QED BY <1>7, <1>8, <1>11, <2>2, <3>1 DEF OpenAt
    <2> QED BY <2>1, <2>2
<1> QED BY <1>3, <1>9, <1>10, <1>12, <1>13 DEF TranscriptInv, LiveInv, ToolsInv

\* What an update and an end of an execution have in common.
LEMMA ExecutionRevised ==
    ASSUME TranscriptInv, NEW call \in view.executing, NEW text \in 1..2, NEW live \in BOOLEAN,
           message' = message, interrupted' = interrupted, entry_of' \in [Calls -> 0..MaxBlocks],
           blocks' = Revise(blocks, FindToolCall(call), text, live),
           conversation' = Revise(conversation, entry_of[call], text, live)
    PROVE  /\ BlocksTyped' /\ ShownInv'
           /\ blocks[FindToolCall(call)].live
           /\ entry_of[call] \in DOMAIN conversation
           /\ DOMAIN conversation' = DOMAIN conversation /\ Len(conversation') = Len(conversation)
           /\ conversation'[entry_of[call]] \in BlockType
           /\ conversation'[entry_of[call]].kind = "tool"
           /\ conversation'[entry_of[call]].call = call
           /\ conversation'[entry_of[call]].live = live
           /\ \A i \in DOMAIN conversation : i # entry_of[call] => conversation'[i] = conversation[i]
           /\ live => LiveIn(blocks') = LiveIn(blocks)
           /\ ~live => Cardinality(LiveIn(blocks')) = Cardinality(LiveIn(blocks)) - 1
<1>1. PICK i \in 1..Len(blocks) : i = FindToolCall(call)
    BY ExecutionFound
<1>2. PICK j \in 1..Len(conversation) : j = entry_of[call]
    BY ExecutionFound
<1>3. /\ blocks[i] \in LiveCalls(call) /\ conversation[j] \in LiveCalls(call)
      /\ blocks[i] = conversation[j]
      /\ \A n \in 1..Len(conversation) : conversation[n] \in LiveCalls(call) => n = j
    BY <1>1, <1>2, ExecutionFound
<1>4. /\ blocks \in Seq(BlockType) /\ conversation \in Seq(BlockType)
      /\ message \in {"none", "user", "assistant"}
    BY DEF TranscriptInv, BlocksTyped
<1>5. text \in 0..(MaxDeltas + 2)
    BY TranscriptAssumption
<1>6. PICK x : x = Now(conversation[j], text, live)
    OBVIOUS
<1>7. /\ x \in BlockType /\ x.kind = conversation[j].kind /\ x.call = conversation[j].call /\ x.live = live
      /\ Changes(conversation, conversation', j, x)
    BY <1>2, <1>4, <1>5, <1>6, RevisedBlock
<1>8. Changes(blocks, blocks', i, x)
    <2>1. Changes(blocks, Revise(blocks, i, text, live), i, Now(blocks[i], text, live))
        BY <1>4, <1>5, RevisedBlock
    <2> QED BY <1>1, <1>3, <1>6, <2>1
<1>9. BlocksTyped' /\ ShownInv'
    <2>1. message' \in {"none", "user", "assistant"}
        BY <1>4
    <2> QED BY <1>3, <1>7, <1>8, <2>1, BothRevised
<1>10. blocks[i].live /\ conversation[j].kind = "tool" /\ conversation[j].call = call
    BY <1>3 DEF LiveCalls
<1>11. /\ DOMAIN conversation' = DOMAIN conversation /\ Len(conversation') = Len(conversation)
       /\ conversation'[j] = x /\ j \in DOMAIN conversation
       /\ \A n \in DOMAIN conversation : n # j => conversation'[n] = conversation[n]
    BY <1>4, <1>7, ConversationTyped
<1>12. ASSUME live PROVE LiveIn(blocks') = LiveIn(blocks)
    <2>1. x.live = blocks[i].live
        BY <1>4, <1>7, <1>10, <1>12 DEF BlockType
    <2> QED BY <1>4, <1>7, <1>8, <2>1, LiveKept
<1>13. ASSUME ~live PROVE Cardinality(LiveIn(blocks')) = Cardinality(LiveIn(blocks)) - 1
    <2>1. Cardinality(LiveIn(blocks')) =
              Cardinality(LiveIn(blocks)) - (IF blocks[i].live THEN 1 ELSE 0)
        BY <1>4, <1>7, <1>8, <1>13, LiveEnded
    <2> QED BY <1>10, <2>1
<1> QED BY <1>1, <1>2, <1>7, <1>9, <1>10, <1>11, <1>12, <1>13

LEMMA ToolUpdateKeeps ==
    ASSUME TranscriptInv, NEW call \in Calls, ToolExecUpdates(call)
    PROVE  TranscriptInv'
<1>1. /\ Receive(ToolEvent("ToolExecUpdate", call))
      /\ conversation' = Revise(conversation, entry_of[call], 1, TRUE)
      /\ blocks' = Revise(blocks, FindToolCall(call), 1, blocks[FindToolCall(call)].live)
      /\ UNCHANGED <<animated_block_count, message, entry_of, interrupted>>
    BY DEF ToolExecUpdates
<1>2. /\ ViewOK' /\ view.stage = "turn" /\ view'.stage = "turn" /\ call \in view.executing
      /\ view'.executing = view.executing
    BY <1>1, ToolReceived DEF TranscriptInv
<1>3. PICK one, live : one = 1 /\ one \in 1..2 /\ live = TRUE /\ live \in BOOLEAN
    <2>1. 1 \in 1..2 /\ TRUE \in BOOLEAN
        OBVIOUS
    <2> QED BY <2>1
<1>4. /\ blocks' = Revise(blocks, FindToolCall(call), one, live)
      /\ conversation' = Revise(conversation, entry_of[call], one, live)
    <2>1. blocks[FindToolCall(call)].live = TRUE
        BY <1>2, ExecutionFound DEF LiveCalls, BlockType
    <2> QED BY <1>1, <1>3, <2>1
<1>5. entry_of' \in [Calls -> 0..MaxBlocks]
    BY <1>1 DEF TranscriptInv, BlocksTyped
<1>6. PICK j : j = entry_of[call]
    OBVIOUS
<1>7. /\ BlocksTyped' /\ ShownInv'
      /\ j \in DOMAIN conversation
      /\ DOMAIN conversation' = DOMAIN conversation /\ Len(conversation') = Len(conversation)
      /\ conversation'[j] \in BlockType /\ conversation'[j].kind = "tool"
      /\ conversation'[j].call = call /\ conversation'[j].live = live
      /\ \A i \in DOMAIN conversation : i # j => conversation'[i] = conversation[i]
      /\ live => LiveIn(blocks') = LiveIn(blocks)
    <2>1. message' = message /\ interrupted' = interrupted
        BY <1>1
    <2>2. one \in 1..2 /\ live \in BOOLEAN
        BY <1>3
    <2> QED BY <1>2, <1>4, <1>5, <1>6, <2>1, <2>2, ExecutionRevised
<1>8. AnimatedCountExact'
    BY <1>1, <1>3, <1>7, CountIs, CountIsNext DEF TranscriptInv
<1>9. message = "none" /\ MessageInv' /\ AnswerInv'
    BY <1>1, <1>2 DEF TranscriptInv, MessageInv, AnswerInv
<1>10. ASSUME NEW i \in DOMAIN conversation' PROVE LiveAt(i)'
    <2>1. CASE i = j
        BY <1>1, <1>2, <1>6, <1>7, <2>1 DEF LiveAt
    <2>2. CASE i # j
        <3>1. LiveAt(i) /\ conversation'[i] = conversation[i]
            BY <1>7, <2>2 DEF TranscriptInv, LiveInv
        <3> QED BY <1>1, <1>2, <1>7, <3>1 DEF LiveAt
    <2> QED BY <2>1, <2>2
<1>11. ASSUME NEW c \in view'.executing PROVE OpenAt(c)'
    <2>1. c \in view.executing /\ OpenAt(c)
        BY <1>2 DEF TranscriptInv, ToolsInv
    <2>2. CASE entry_of[c] = j
        <3>1. conversation[j] \in LiveCalls(c) /\ conversation[j] \in LiveCalls(call)
            BY <1>2, <1>6, <2>1, <2>2, ExecutionFound DEF OpenAt
        <3>2. c = call
            BY <3>1 DEF LiveCalls
        <3> QED BY <1>1, <1>3, <1>6, <1>7, <3>2 DEF OpenAt, LiveCalls
    <2>3. CASE entry_of[c] # j
        BY <1>1, <1>7, <2>1, <2>3 DEF OpenAt
    <2> QED BY <2>2, <2>3
<1> QED BY <1>2, <1>7, <1>8, <1>9, <1>10, <1>11 DEF TranscriptInv, LiveInv, ToolsInv

LEMMA ToolEndKeeps ==
    ASSUME TranscriptInv, NEW call \in Calls, ToolExecEnds(call)
    PROVE  TranscriptInv'
<1>1. /\ Receive(ToolEvent("ToolExecEnd", call))
      /\ conversation' = Revise(conversation, entry_of[call], 2, FALSE)
      /\ blocks' = Revise(blocks, FindToolCall(call), 2, FALSE)
      /\ animated_block_count' = animated_block_count
                                 - (IF blocks[FindToolCall(call)].live THEN 1 ELSE 0)
      /\ entry_of' = [entry_of EXCEPT ![call] = 0]
      /\ UNCHANGED <<message, interrupted>>
    BY DEF ToolExecEnds
<1>2. /\ ViewOK' /\ view.stage = "turn" /\ view'.stage = "turn" /\ call \in view.executing
      /\ view'.executing = view.executing \ {call}
    BY <1>1, ToolReceived DEF TranscriptInv
<1>3. PICK two, live : two = 2 /\ two \in 1..2 /\ live = FALSE /\ live \in BOOLEAN
    <2>1. 2 \in 1..2 /\ FALSE \in BOOLEAN
        OBVIOUS
    <2> QED BY <2>1
<1>4. /\ blocks' = Revise(blocks, FindToolCall(call), two, live)
      /\ conversation' = Revise(conversation, entry_of[call], two, live)
    BY <1>1, <1>3
<1>5. /\ entry_of' \in [Calls -> 0..MaxBlocks]
      /\ \A c \in Calls : c # call => entry_of'[c] = entry_of[c]
    <2>1. 0 \in 0..MaxBlocks /\ entry_of \in [Calls -> 0..MaxBlocks]
        BY TranscriptAssumption DEF TranscriptInv, BlocksTyped
    <2> QED BY <1>1, <2>1
<1>6. PICK j : j = entry_of[call]
    OBVIOUS
<1>7. /\ BlocksTyped' /\ ShownInv' /\ blocks[FindToolCall(call)].live
      /\ j \in DOMAIN conversation
      /\ DOMAIN conversation' = DOMAIN conversation /\ Len(conversation') = Len(conversation)
      /\ conversation'[j].live = live
      /\ \A i \in DOMAIN conversation : i # j => conversation'[i] = conversation[i]
      /\ ~live => Cardinality(LiveIn(blocks')) = Cardinality(LiveIn(blocks)) - 1
    <2>1. message' = message /\ interrupted' = interrupted
        BY <1>1
    <2>2. two \in 1..2 /\ live \in BOOLEAN
        BY <1>3
    <2> QED BY <1>2, <1>4, <1>5, <1>6, <2>1, <2>2, ExecutionRevised
<1>8. AnimatedCountExact'
    BY <1>1, <1>3, <1>7, CountIs, CountIsNext DEF TranscriptInv
<1>9. message = "none" /\ MessageInv' /\ AnswerInv'
    BY <1>1, <1>2 DEF TranscriptInv, MessageInv, AnswerInv
<1>10. view.executing \subseteq Calls
    BY DEF TranscriptInv, ViewOK, View
<1>11. ASSUME NEW i \in DOMAIN conversation' PROVE LiveAt(i)'
    <2>1. CASE i = j
        BY <1>3, <1>7, <2>1 DEF LiveAt
    <2>2. CASE i # j
        <3>1. LiveAt(i) /\ conversation'[i] = conversation[i]
            BY <1>7, <2>2 DEF TranscriptInv, LiveInv
        <3>2. ASSUME conversation[i].live
              PROVE  /\ conversation[i].kind = "tool" /\ conversation[i].call \in view.executing
                     /\ entry_of[conversation[i].call] = i
            BY <1>9, <3>1, <3>2 DEF LiveAt
        <3>3. conversation[i].live => conversation[i].call # call
            BY <1>6, <2>2, <3>2
        <3> QED BY <1>2, <1>5, <1>10, <3>1, <3>2, <3>3 DEF LiveAt
    <2> QED BY <2>1, <2>2
<1>12. ASSUME NEW c \in view'.executing PROVE OpenAt(c)'
    <2>1. c \in view.executing /\ c # call /\ OpenAt(c) /\ c \in Calls
        BY <1>2, <1>10 DEF TranscriptInv, ToolsInv
    <2>2. entry_of[c] # j
        <3>1. entry_of[c] = j => conversation[j] \in LiveCalls(c) /\ conversation[j] \in LiveCalls(call)
            BY <1>2, <1>6, <2>1, ExecutionFound DEF OpenAt
        <3> QED BY <2>1, <3>1 DEF LiveCalls
    <2> QED BY <1>5, <1>7, <2>1, <2>2 DEF OpenAt
<1> QED BY <1>2, <1>7, <1>8, <1>9, <1>11, <1>12 DEF TranscriptInv, LiveInv, ToolsInv

LEMMA ReplacedKeeps == ASSUME TranscriptInv, TranscriptReplaced PROVE TranscriptInv'
<1>1. /\ Receive(Event("TranscriptReplace")) /\ blocks' = conversation'
      /\ Len(conversation') <= MaxBlocks /\ animated_block_count' = 0 /\ interrupted' = FALSE
      /\ message' = message /\ entry_of' = entry_of
    BY DEF TranscriptReplaced
<1>2. PICK n \in 1..(Len(conversation) + 1) :
          conversation' = <<UserBlock>> \o SubSeq(conversation, n, Len(conversation))
    BY DEF TranscriptReplaced
<1>3. /\ ViewOK' /\ view'.executing = view.executing /\ view.executing = {}
      /\ view'.stage = "message" <=> view.stage = "message"
      /\ view.stage # "message"
    <2>1. PICK e \in AgentEvent : e = Event("TranscriptReplace") /\ e.type = "TranscriptReplace"
        BY EventsAre DEF PlainEvents, Event
    <2> QED BY <1>1, <2>1, QuietReceived DEF TranscriptInv, QuietEvents
<1>4. message = "none"
    BY <1>3 DEF TranscriptInv, MessageInv
<1>5. /\ conversation \in Seq(BlockType) /\ Len(conversation) \in Nat
      /\ \A i \in DOMAIN conversation : conversation[i].kind \in Spoken /\ ~conversation[i].live
    BY <1>3, <1>4, NothingLive DEF TranscriptInv, BlocksTyped
<1>6. PICK b \in BlockType : b = UserBlock /\ b.kind = "user" /\ ~b.live
    BY BlocksAre
<1>7. PICK kept : kept = SubSeq(conversation, n, Len(conversation))
    OBVIOUS
<1>8. /\ kept \in Seq(BlockType)
      /\ \A i \in 1..Len(kept) : \E k \in DOMAIN conversation : kept[i] = conversation[k]
    <2>1. kept \in Seq(BlockType) /\ Len(kept) = (Len(conversation) + 1) - n
        BY <1>5, <1>7
    <2>2. \A i \in 1..Len(kept) : (n + i) - 1 \in DOMAIN conversation /\ kept[i] = conversation[(n + i) - 1]
        BY <1>5, <1>7, <2>1
    <2> QED BY <2>1, <2>2
<1>9. PICK first : first = <<b>>
    OBVIOUS
<1>10. /\ first \in Seq(BlockType) /\ Len(first) = 1 /\ first[1] = b
    BY <1>9
<1>11. /\ conversation' = first \o kept /\ conversation' \in Seq(BlockType)
       /\ Len(conversation') = 1 + Len(kept)
       /\ \A i \in 1..1 + Len(kept) : conversation'[i] = IF i <= 1 THEN first[i] ELSE kept[i - 1]
    BY <1>2, <1>6, <1>7, <1>8, <1>9, <1>10, ConcatProperties
<1>12. ASSUME NEW i \in DOMAIN conversation'
       PROVE  conversation'[i].kind \in Spoken /\ ~conversation'[i].live
    <2>1. i \in 1..1 + Len(kept) /\ Len(kept) \in Nat
        BY <1>8, <1>11
    <2>2. CASE i = 1
        BY <1>6, <1>10, <1>11, <2>1, <2>2 DEF Spoken
    <2>3. CASE i # 1
        <3>1. i - 1 \in 1..Len(kept) /\ conversation'[i] = kept[i - 1]
            BY <1>11, <2>1, <2>3
        <3> QED BY <1>5, <1>8, <3>1
    <2> QED BY <2>2, <2>3
<1>13. BlocksTyped'
    <2>1. Len(conversation') <= Len(blocks') /\ Len(blocks') <= MaxBlocks
        BY <1>1, <1>11
    <2>2. FALSE \in BOOLEAN /\ \A i \in DOMAIN conversation' : conversation'[i].kind \in Spoken
        BY <1>12
    <2> QED BY <1>1, <1>11, <2>1, <2>2 DEF TranscriptInv, BlocksTyped
<1>14. AnimatedCountExact'
    <2>1. LiveIn(blocks') = {}
        BY <1>1, <1>12 DEF LiveIn
    <2> QED BY <1>1, <2>1, CountIsNext, FS_EmptySet
<1>15. ShownInv'
    BY <1>1 DEF ShownInv, SameShown, Shown, Said
<1>16. LiveInv'
    BY <1>12 DEF LiveInv, LiveAt
<1>17. ToolsInv' /\ MessageInv' /\ AnswerInv'
    BY <1>1, <1>3, <1>4 DEF ToolsInv, MessageInv, AnswerInv
<1> QED BY <1>3, <1>13, <1>14, <1>15, <1>16, <1>17 DEF TranscriptInv

LEMMA ClearedKeeps == ASSUME TranscriptInv, Cleared PROVE TranscriptInv'
<1>1. PICK none : none = <<>>
    OBVIOUS
<1>2. /\ view.stage = "idle" /\ view' = view /\ blocks' = none /\ conversation' = none
      /\ animated_block_count' = 0 /\ interrupted' = FALSE
      /\ message' = message /\ entry_of' = entry_of
    BY <1>1 DEF Cleared
<1>3. none \in Seq(BlockType) /\ Len(none) = 0 /\ DOMAIN none = {} /\ MaxBlocks \in Nat
    BY <1>1, TranscriptAssumption
<1>4. message = "none" /\ view.executing = {} /\ ViewOK'
    BY <1>2 DEF TranscriptInv, MessageInv, ViewOK
<1>5. BlocksTyped'
    <2>1. /\ blocks' \in Seq(BlockType) /\ conversation' \in Seq(BlockType)
          /\ Len(blocks') = 0 /\ Len(conversation') = 0 /\ DOMAIN conversation' = {}
        BY <1>2, <1>3
    <2>2. Len(blocks') <= MaxBlocks /\ Len(conversation') <= Len(blocks')
        BY <1>3, <2>1
    <2>3. interrupted' \in BOOLEAN
        BY <1>2
    <2> QED BY <1>2, <2>1, <2>2, <2>3 DEF TranscriptInv, BlocksTyped
<1>6. AnimatedCountExact'
    <2>1. LiveIn(blocks') = {}
        BY <1>2, <1>3 DEF LiveIn
    <2> QED BY <1>2, <2>1, CountIsNext, FS_EmptySet
<1>7. ShownInv'
    BY <1>2 DEF ShownInv, SameShown, Shown, Said
<1>8. LiveInv' /\ ToolsInv' /\ MessageInv' /\ AnswerInv'
    BY <1>2, <1>3, <1>4 DEF LiveInv, ToolsInv, MessageInv, AnswerInv
<1> QED BY <1>4, <1>5, <1>6, <1>7, <1>8 DEF TranscriptInv

LEMMA AnnouncedKeeps == ASSUME TranscriptInv, Announced PROVE TranscriptInv'
<1>1. PICK type \in {"CompactionStart", "CompactionEnd", "AgentEnd"} : Receive(Event(type))
    BY DEF Announced
<1>2. /\ AddBlock(SystemBlock)
      /\ UNCHANGED <<message, conversation, entry_of, interrupted>>
    BY DEF Announced
<1>3. /\ ViewOK' /\ view'.executing = view.executing
      /\ view'.stage = "message" <=> view.stage = "message"
      /\ view.stage # "message"
    <2>1. PICK e \in AgentEvent : e = Event(type) /\ e.type = type
        BY EventsAre DEF PlainEvents, Event
    <2> QED BY <1>1, <2>1, QuietReceived DEF TranscriptInv, QuietEvents
<1>4. message = "none"
    BY <1>3 DEF TranscriptInv, MessageInv
<1>5. BlocksTyped' /\ AnimatedCountExact' /\ ShownInv'
    BY <1>2, SystemAppended DEF TranscriptInv, BlocksTyped
<1>6. LiveInv' /\ ToolsInv'
    BY <1>2, <1>3, EntriesStay
<1>7. MessageInv' /\ AnswerInv'
    BY <1>2, <1>3, <1>4 DEF MessageInv, AnswerInv
<1> QED BY <1>3, <1>5, <1>6, <1>7 DEF TranscriptInv

LEMMA SystemMessageKeeps == ASSUME TranscriptInv, SystemMessageArrives PROVE TranscriptInv'
<1>1. /\ AddBlock(SystemBlock) /\ interrupted' = (interrupted \/ message = "assistant")
      /\ UNCHANGED <<view, message, conversation, entry_of>>
    BY DEF SystemMessageArrives
<1>2. BlocksTyped' /\ AnimatedCountExact' /\ ShownInv' /\ ~LastIsAssistant'
    <2>1. interrupted' \in BOOLEAN /\ (interrupted => interrupted')
        BY <1>1 DEF TranscriptInv, BlocksTyped
    <2> QED BY <1>1, <2>1, SystemAppended
<1>3. LiveInv' /\ ToolsInv'
    BY <1>1, EntriesStay
<1>4. ViewOK' /\ MessageInv'
    BY <1>1 DEF TranscriptInv, ViewOK, MessageInv
<1>5. AnswerInv'
    BY <1>1, <1>2 DEF TranscriptInv, AnswerInv
<1> QED BY <1>2, <1>3, <1>4, <1>5 DEF TranscriptInv

\* Steps that change nothing of the transcript.
LEMMA PaneStays ==
    ASSUME TranscriptInv, ViewOK', view'.executing = view.executing,
           view'.stage = "message" <=> view.stage = "message",
           UNCHANGED <<blocks, animated_block_count, message, conversation, entry_of, interrupted>>
    PROVE  TranscriptInv'
<1>1. LiveInv' /\ ToolsInv'
    BY EntriesStay
<1>2. BlocksTyped'
    BY DEF TranscriptInv, BlocksTyped
<1>3. AnimatedCountExact' /\ ShownInv'
    BY DEF TranscriptInv, AnimatedCountExact, ShownInv, SameShown, Shown, Said
<1>4. MessageInv'
    BY DEF TranscriptInv, MessageInv
<1>5. AnswerInv'
    BY DEF TranscriptInv, AnswerInv, LastIsAssistant
<1> QED BY <1>1, <1>2, <1>3, <1>4, <1>5 DEF TranscriptInv

LEMMA SilentKeeps == ASSUME TranscriptInv, Silent PROVE TranscriptInv'
<1>1. PICK e \in AgentEvent : Receive(e) /\ e.type \in QuietEvents
    <2>1. CASE \E type \in {"AgentStart", "AgentEnd", "TurnStart"} : Receive(Event(type))
        BY <2>1, EventsAre DEF PlainEvents, Event, QuietEvents
    <2>2. CASE \E calls \in SUBSET Calls : Receive(TurnEnd(calls))
        BY <2>2, EventsAre DEF TurnEnd, QuietEvents
    <2>3. CASE Receive(Event("ToolCallDelta"))
        BY <2>3, EventsAre DEF PlainEvents, Event, QuietEvents
    <2>4. CASE \E type \in {"DeltaStart", "DeltaEnd"}, delta \in Deltas : Receive(DeltaEvent(type, delta))
        BY <2>4, EventsAre DEF DeltaEvent, QuietEvents
    <2> QED BY <2>1, <2>2, <2>3, <2>4 DEF Silent
<1>2. UNCHANGED <<blocks, animated_block_count, message, conversation, entry_of, interrupted>>
    BY DEF Silent
<1>3. /\ ViewOK' /\ view'.executing = view.executing
      /\ view'.stage = "message" <=> view.stage = "message"
    BY <1>1, QuietReceived DEF TranscriptInv
<1> QED BY <1>2, <1>3, PaneStays

LEMMA UserEndKeeps == ASSUME TranscriptInv, UserMessageEnds PROVE TranscriptInv'
<1>1. /\ message = "user" /\ Receive(Event("MessageEnd")) /\ message' = "none"
      /\ UNCHANGED <<blocks, animated_block_count, conversation, entry_of, interrupted>>
    BY DEF UserMessageEnds
<1>2. /\ ViewOK' /\ view.executing = {} /\ view'.stage = "turn" /\ view'.executing = {}
    BY <1>1, MessageEndReceived DEF TranscriptInv
<1>3. BlocksTyped'
    BY <1>1 DEF TranscriptInv, BlocksTyped
<1>4. AnimatedCountExact' /\ ShownInv'
    BY <1>1 DEF TranscriptInv, AnimatedCountExact, ShownInv, SameShown, Shown, Said
<1>5. \A i \in DOMAIN conversation : ~conversation[i].live
    BY <1>1, <1>2, NothingLive
<1>6. LiveInv' /\ ToolsInv' /\ MessageInv' /\ AnswerInv'
    BY <1>1, <1>2, <1>5 DEF LiveInv, LiveAt, ToolsInv, MessageInv, AnswerInv
<1> QED BY <1>2, <1>3, <1>4, <1>6 DEF TranscriptInv

LEMMA TranscriptKeeps == TranscriptInv /\ [TranscriptNext]_transcriptVars => TranscriptInv'
<1> SUFFICES ASSUME TranscriptInv, [TranscriptNext]_transcriptVars PROVE TranscriptInv'
    OBVIOUS
<1>1. CASE MessageStarts("user") \/ MessageStarts("assistant")
    BY <1>1, StartKeeps
<1>2. CASE TextArrives
    BY <1>2, TextArrivesKeeps
<1>3. CASE UserMessageEnds
    BY <1>3, UserEndKeeps
<1>4. CASE AssistantMessageEnds
    BY <1>4, AnswerEndKeeps
<1>5. CASE \E call \in Calls : ToolExecStarts(call) \/ ToolExecUpdates(call) \/ ToolExecEnds(call)
    BY <1>5, ToolStartKeeps, ToolUpdateKeeps, ToolEndKeeps
<1>6. CASE TranscriptReplaced
    BY <1>6, ReplacedKeeps
<1>7. CASE Cleared
    BY <1>7, ClearedKeeps
<1>8. CASE Announced
    BY <1>8, AnnouncedKeeps
<1>9. CASE Silent
    BY <1>9, SilentKeeps
<1>10. CASE SystemMessageArrives
    BY <1>10, SystemMessageKeeps
<1>11. CASE UNCHANGED transcriptVars
    <2>1. UNCHANGED <<blocks, animated_block_count, message, conversation, entry_of, interrupted>>
        BY <1>11 DEF transcriptVars
    <2>2. view' = view
        BY <1>11 DEF transcriptVars
    <2>3. ViewOK'
        BY <2>2 DEF TranscriptInv, ViewOK
    <2> QED BY <2>1, <2>2, <2>3, PaneStays
<1> QED BY <1>1, <1>2, <1>3, <1>4, <1>5, <1>6, <1>7, <1>8, <1>9, <1>10, <1>11 DEF TranscriptNext

LEMMA TranscriptHolds == TranscriptInv => TranscriptSound
<1> SUFFICES ASSUME TranscriptInv PROVE TranscriptSound
    OBVIOUS
<1>1. /\ blocks \in Seq(BlockType) /\ conversation \in Seq(BlockType)
      /\ \A i \in DOMAIN conversation : conversation[i].kind \in Spoken
    BY DEF TranscriptInv, BlocksTyped
<1>2. animated_block_count \in Int
    <2>1. animated_block_count = Cardinality(LiveIn(blocks))
        BY CountIs DEF TranscriptInv
    <2>2. Cardinality(LiveIn(blocks)) \in Nat
        BY <1>1, LiveFinite
    <2> QED BY <2>1, <2>2
<1>3. TranscriptTypeOK
    BY <1>2 DEF TranscriptInv, BlocksTyped, TranscriptTypeOK
<1>4. ToolsShown
    BY DEF TranscriptInv, ShownInv, SameShown, ToolsShown
<1>5. ConversationShown
    <2>1. OfKinds(conversation, Spoken) = conversation
        BY <1>1, OfKindsWhole
    <2>2. ~interrupted => Shown(Spoken) = conversation
        BY <2>1 DEF TranscriptInv, ShownInv, SameShown, Said
    <2> QED BY <2>2 DEF ConversationShown, Spoken
<1> QED BY <1>3, <1>4, <1>5 DEF TranscriptInv, TranscriptSound

\* Whatever the events are and whenever the controller and the TUI put a message of their
\* own between them, the pane shows every tool execution as it went and counts what is
\* still going on, and shows the whole conversation unless an answer was interrupted:
\* add_block, the append_* and finalize_* functions and find_tool_call_index of output.rs.
THEOREM TranscriptShown == TranscriptSpec => []TranscriptSound
<1>1. TranscriptInit => TranscriptInv
    BY TranscriptStarts
<1>2. TranscriptInv /\ [TranscriptNext]_transcriptVars => TranscriptInv'
    BY TranscriptKeeps
<1>3. TranscriptInv => TranscriptSound
    BY TranscriptHolds
<1> QED BY <1>1, <1>2, <1>3, PTL DEF TranscriptSpec
=============================================================================
