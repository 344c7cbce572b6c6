------------------------------ MODULE RpcMode ------------------------------
(* RPC mode (anie-cli/src/rpc.rs): a task that turns the lines of stdin into  *)
(* actions, the controller, and a printer that writes its events to stdout as *)
(* one JSON message a line.  The reading task writes to stdout too, the       *)
(* answers to lines it does not understand.                                   *)
(*                                                                            *)
(* The controller is reduced to what it does to the two channels; Controller  *)
(* has the rest of it.                                                        *)
EXTENDS Naturals, Sequences

CONSTANTS
    MaxHostLines,   \* bound: lines the host writes
    MaxRpcEvents,   \* bound: events sent
    EventRoom       \* capacity of the event channel, 256

ASSUME RpcAssumption == {MaxHostLines, MaxRpcEvents} \subseteq Nat /\ EventRoom \in Nat \ {0}

VARIABLES
    host,      \* lines written so far, whether stdin and stdout are open
    lines_in,  \* lines of stdin not read yet
    rpc,       \* run_rpc_mode: reading, joining a task, or over
    actions,   \* ui_action_tx
    core,      \* the controller: idle, running, cancelled, ended or failed
    events,    \* agent_event_tx
    printer,   \* between two events, behind a long one, ended or failed
    output,    \* [lines, open]: lines written whole, the messages of the last one
    sent,      \* history: events the printer is to write
    raced      \* history: an error was written into the line of an event

rpcVars == <<host, lines_in, rpc, actions, core, events, printer, output, sent, raced>>

RpcCommands == {"prompt", "abort", "other"}   \* other: get_state, set_model, set_thinking
Hello == [id |-> 0, size |-> "hello"]
ErrorLine == [id |-> 0, size |-> "error"]
Over == rpc \in {"ended", "error"}

RpcInit ==
    /\ host = [lines |-> 0, stdin |-> "open", stdout |-> "open"]
    /\ lines_in = <<>> /\ rpc = "reading"
    /\ actions = <<>> /\ core = "idle" /\ events = <<>> /\ printer = "waiting"
    /\ output = [lines |-> << <<Hello>> >>, open |-> <<>>]
    /\ sent = <<>> /\ raced = FALSE

------------------------------------------------------------------------------
HostWrites ==
    /\ host.stdin = "open" /\ host.lines < MaxHostLines
    /\ \E line \in RpcCommands \cup {"blank", "garbage"} :
         /\ lines_in' = Append(lines_in, line)
         /\ host' = [host EXCEPT !.lines = @ + 1]
    /\ UNCHANGED <<rpc, actions, core, events, printer, output, sent, raced>>

\* The end of stdin, or bytes that are not UTF-8.
HostStops ==
    /\ host.stdin = "open"
    /\ \E how \in {"closed", "unreadable"} : host' = [host EXCEPT !.stdin = how]
    /\ UNCHANGED <<lines_in, rpc, actions, core, events, printer, output, sent, raced>>

HostGoesDeaf ==
    /\ host.stdout = "open" /\ host' = [host EXCEPT !.stdout = "broken"]
    /\ UNCHANGED <<lines_in, rpc, actions, core, events, printer, output, sent, raced>>

\* write_rpc_error: a short line, written and flushed at once.
ErrorWritten ==
    IF host.stdout = "open"
    THEN /\ output' = [lines |-> Append(output.lines, Append(output.open, ErrorLine)), open |-> <<>>]
         /\ raced' = (raced \/ output.open # <<>>)
         /\ rpc' = "reading"
    ELSE rpc' = "error" /\ UNCHANGED <<output, raced>>

\* One turn of the reading loop; a send fails once the controller is gone.
ReadLine ==
    /\ rpc = "reading" /\ lines_in # <<>>
    /\ lines_in' = Tail(lines_in)
    /\ LET line == Head(lines_in) IN
       \/ line = "blank" /\ UNCHANGED <<rpc, actions, output, raced>>
       \/ line = "garbage" /\ ErrorWritten /\ UNCHANGED actions
       \/ /\ line \in RpcCommands
          /\ IF core \in {"ended", "failed"} THEN rpc' = "controller" /\ UNCHANGED actions
             ELSE actions' = Append(actions, line) /\ UNCHANGED rpc
          /\ UNCHANGED <<output, raced>>
    /\ UNCHANGED <<host, core, events, printer, sent>>

\* Behind the last line: ui_action_tx is dropped, or the error is returned.
ReadEnd ==
    /\ rpc = "reading" /\ lines_in = <<>> /\ host.stdin # "open"
    /\ rpc' = IF host.stdin = "closed" THEN "controller" ELSE "error"
    /\ UNCHANGED <<host, lines_in, actions, core, events, printer, output, sent, raced>>

JoinController ==
    /\ rpc = "controller" /\ core \in {"ended", "failed"}
    /\ rpc' = IF core = "ended" THEN "printer" ELSE "error"
    /\ UNCHANGED <<host, lines_in, actions, core, events, printer, output, sent, raced>>

JoinPrinter ==
    /\ rpc = "printer" /\ printer \in {"ended", "failed"}
    /\ rpc' = IF printer = "ended" THEN "ended" ELSE "error"
    /\ UNCHANGED <<host, lines_in, actions, core, events, printer, output, sent, raced>>

------------------------------------------------------------------------------
\* A send waits for room, and is for nobody once the printer has failed.
SendEvent(size) ==
    /\ printer = "failed" \/ (Len(events) < EventRoom /\ Len(sent) < MaxRpcEvents)
    /\ IF printer = "failed" THEN UNCHANGED <<events, sent>>
       ELSE LET e == [id |-> Len(sent) + 1, size |-> size]
            IN events' = Append(events, e) /\ sent' = Append(sent, e)

Alone == UNCHANGED <<host, lines_in, rpc, printer, output, raced>>

\* An action is taken: a prompt starts a run or is told off, the others
\* may have an answer.
TakeAction ==
    /\ ~Over /\ core \in {"idle", "running", "cancelled"} /\ actions # <<>>
    /\ actions' = Tail(actions)
    /\ LET action == Head(actions) IN
       core' = CASE action = "prompt" /\ core = "idle" -> "running"
                 [] action = "abort" /\ core = "running" -> "cancelled"
                 [] OTHER -> core
    /\ SendEvent("short") \/ UNCHANGED <<events, sent>>
    /\ Alone

\* A run tells of its deltas, tools, and the transcript after a compaction.
RunTells ==
    /\ ~Over /\ core \in {"running", "cancelled"}
    /\ \E size \in {"short", "long"} : SendEvent(size)
    /\ UNCHANGED <<actions, core>> /\ Alone

RunIsOver ==
    /\ ~Over /\ core \in {"running", "cancelled"}
    /\ core' = "idle"
    /\ SendEvent("short") \/ UNCHANGED <<events, sent>>
    /\ UNCHANGED actions /\ Alone

\* An internal error ends the controller at any moment.
CoreFails ==
    /\ ~Over /\ core \in {"idle", "running", "cancelled"}
    /\ core' = "failed" /\ UNCHANGED <<actions, events, sent>> /\ Alone

\* Behind the last action: a run is cancelled, an idle controller ends.
SeeNoSender ==
    /\ ~Over /\ rpc # "reading" /\ actions = <<>> /\ core \in {"idle", "running"}
    /\ core' = IF core = "running" THEN "cancelled" ELSE "ended"
    /\ UNCHANGED <<actions, events, sent>> /\ Alone

------------------------------------------------------------------------------
PrinterOnly == UNCHANGED <<host, lines_in, rpc, actions, core, sent, raced>>

\* A message that fits the buffer leaves it together with its newline; a longer one
\* is written at once and its newline after it.
PrintEvent ==
    /\ ~Over /\ printer = "waiting" /\ events # <<>>
    /\ events' = Tail(events)
    /\ IF host.stdout # "open" THEN printer' = "failed" /\ UNCHANGED output
       ELSE LET e == Head(events) IN
            IF e.size = "short"
            THEN /\ output' = [lines |-> Append(output.lines, Append(output.open, e)), open |-> <<>>]
                 /\ UNCHANGED printer
            ELSE printer' = "newline" /\ output' = [output EXCEPT !.open = Append(@, e)]
    /\ PrinterOnly

\* Nothing but the newline is left, of a line of its own if an error ended that one.
PrintNewline ==
    /\ ~Over /\ printer = "newline"
    /\ IF host.stdout # "open" THEN printer' = "failed" /\ UNCHANGED output
       ELSE printer' = "waiting" /\ output' = [lines |-> Append(output.lines, output.open), open |-> <<>>]
    /\ UNCHANGED events /\ PrinterOnly

\* Every sender is gone and the channel is empty.
PrinterIsDone ==
    /\ ~Over /\ printer = "waiting" /\ events = <<>> /\ core \in {"ended", "failed"}
    /\ printer' = "ended" /\ UNCHANGED <<events, output>> /\ PrinterOnly

RpcMain == ReadLine \/ ReadEnd \/ JoinController \/ JoinPrinter
Printer == PrintEvent \/ PrintNewline \/ PrinterIsDone

RpcNext ==
    \/ HostWrites \/ HostStops \/ HostGoesDeaf \/ RpcMain
    \/ TakeAction \/ RunTells \/ RunIsOver \/ CoreFails \/ SeeNoSender
    \/ Printer

RpcSpec ==
    /\ RpcInit /\ [][RpcNext]_rpcVars
    /\ WF_rpcVars(RpcMain) /\ WF_rpcVars(Printer)
    /\ WF_rpcVars(TakeAction \/ SeeNoSender) /\ WF_rpcVars(core = "cancelled" /\ RunIsOver)

------------------------------------------------------------------------------
\* What stdout holds, the last line of it not ended yet, and the places where it
\* tells of an event: a line, and a message of the line.
Lines == Append(output.lines, output.open)
Message(lines, p) == lines[p[1]][p[2]]
Places(lines) == UNION {{i} \X DOMAIN lines[i] : i \in DOMAIN lines}
Told(lines) == {p \in Places(lines) : Message(lines, p).id > 0}
Earlier(p, q) == p[1] < q[1] \/ (p[1] = q[1] /\ p[2] < q[2])

\* A host gets every event once and in order, and before an orderly exit all of
\* them: the printer is joined after the controller, and outlives it until the
\* channel is drained.
EventsDelivered ==
    /\ \A p, q \in Told(Lines) : Earlier(p, q) => Message(Lines, p).id < Message(Lines, q).id
    /\ \E n \in 0..Len(sent) :
          /\ {Message(Lines, p) : p \in Told(Lines)} = {sent[i] : i \in 1..n}
          /\ rpc = "ended" => n = Len(sent)

\* One message a line, but for an error written while a long event is on its way.
LinesWhole == raced \/ \A i \in DOMAIN output.lines : Len(output.lines[i]) = 1

\* No action sent before the end of stdin is passed over.
ActionsDrained == core = "ended" => actions = <<>>

RpcSound == EventsDelivered /\ LinesWhole /\ ActionsDrained

\* A host that has closed stdin waits for the process to end.
HostWaits == host.stdin # "open" /\ ~Over
=============================================================================
