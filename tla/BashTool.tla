------------------------------ MODULE BashTool ------------------------------
(* One call of the bash tool: the shell it spawns in a process group of its   *)
(* own, a background process the command may leave in that group, the tasks    *)
(* that forward the two pipes, the select loop with its biased order, the      *)
(* drain after it, and the collector that keeps the tail of the output.        *)
(* Output comes in chunks of one byte and one line: 1 when the shell wrote it,  *)
(* 0 when a background process did.                                             *)
EXTENDS Naturals, FiniteSets, SequencesExt

CONSTANTS
    Commands,           \* [names, matches]: its command words and the deny patterns it matches
    PolicyEnabled, DenyCommands, DenyPatterns, ValidPatterns,
    Budget,             \* the call's byte budget
    MaxLines,           \* MAX_READ_LINES
    ChunkCap,           \* capacity of the chunk channel
    UpdateCap,          \* capacity of the agent's update channel
    MaxWrites,          \* how many chunks the shell writes (bound)
    Timeouts            \* whether the call has a timeout, a subset of BOOLEAN

ASSUME BashAssumption ==
    {Budget, MaxLines, ChunkCap, UpdateCap, MaxWrites} \subseteq Nat

Streams == {"stdout", "stderr"}

VARIABLES
    command,        \* the command asked for
    timed,          \* whether the call has a timeout
    bash,           \* where the call is
    shell,          \* the shell: "none", "running", "exited", "failed", "killed"
    background,     \* "none", "writing", "quiet": a process left in the group, pipes open
    written,        \* how many chunks the shell wrote
    pipe,           \* per stream, what was written and not read yet
    forwarder,      \* per stream: "none", "reading", "done"
    chunks,         \* the chunk channel
    tail, cutTail,  \* OutputCollector: its tail, and whether it was cut
    total,          \* total_bytes (and total_lines), counted up to one past the caps
    updates,        \* how many updates wait in the agent's update channel
    bashCancelled,
    bashOutcome     \* "none", or what the call returned

bashVars == <<command, timed, bash, shell, background, written, pipe, forwarder, chunks,
              tail, cutTail, total, updates, bashCancelled, bashOutcome>>

processVars == <<shell, background, written>>
collectorVars == <<tail, cutTail, total>>

----------------------------------------------------------------------------
(* BashPolicy::check: denied words first, then the patterns in order; a pattern *)
(* that does not compile refuses the call.                                      *)
PolicyVerdict(c) ==
    LET Bad == {i \in DOMAIN DenyPatterns : DenyPatterns[i] \notin ValidPatterns
                                            \/ DenyPatterns[i] \in c.matches}
        first == CHOOSE i \in Bad : \A j \in Bad : i <= j
    IN IF ~PolicyEnabled THEN "allowed"
       ELSE IF c.names \cap DenyCommands # {} THEN "denied"
       ELSE IF Bad = {} THEN "allowed"
       ELSE IF DenyPatterns[first] \in ValidPatterns THEN "denied" ELSE "bad_pattern"

(* OutputCollector::push: past four budgets the tail is cut to two.             *)
Pushed(chunk) ==
    LET longer == Append(tail, chunk)
    IN IF Len(longer) > 4 * Budget
       THEN SubSeq(longer, Len(longer) - 2 * Budget + 1, Len(longer))
       ELSE longer

Push(chunk) ==
    /\ tail' = Pushed(chunk)
    /\ cutTail' = (cutTail \/ Len(tail) + 1 > 4 * Budget)
    /\ total' = IF total > Budget + MaxLines THEN total ELSE total + 1

(* OutputCollector::render: the last bytes of the budget, the last lines of      *)
(* those, and a marker when something was left out.                              *)
LastOf(s, n) == IF Len(s) > n THEN SubSeq(s, Len(s) - n + 1, Len(s)) ELSE s
Rendered == LastOf(LastOf(tail, Budget), MaxLines)

WasTruncated == cutTail \/ total > Budget \/ total > MaxLines

----------------------------------------------------------------------------
BashToolInit ==
    /\ command \in Commands
    /\ timed \in Timeouts
    /\ bash = "asked"
    /\ shell = "none" /\ background = "none" /\ written = 0
    /\ pipe = [s \in Streams |-> <<>>]
    /\ forwarder = [s \in Streams |-> "none"]
    /\ chunks = <<>>
    /\ tail = <<>> /\ cutTail = FALSE /\ total = 0
    /\ updates = 0
    /\ bashCancelled = FALSE
    /\ bashOutcome = "none"

Return(outcome) == bash' = "answered" /\ bashOutcome' = outcome

(* execute up to the loop: policy, spawn, one forwarder per pipe.                *)
Spawn ==
    /\ bash = "asked"
    /\ IF PolicyVerdict(command) # "allowed"
       THEN Return(PolicyVerdict(command)) /\ UNCHANGED <<shell, forwarder>>
       ELSE \/ Return("spawn_failed") /\ UNCHANGED <<shell, forwarder>>
            \/ /\ bash' = "loop"
               /\ shell' = "running"
               /\ forwarder' = [s \in Streams |-> "reading"]
               /\ UNCHANGED bashOutcome
    /\ UNCHANGED <<command, timed, background, written, pipe, chunks, collectorVars,
                   updates, bashCancelled>>

(* The shell and the process it leaves behind (followed until the call answers). *)
ShellWrites(s) ==
    /\ shell = "running" /\ written < MaxWrites /\ Len(pipe[s]) < 2
    /\ written' = written + 1
    /\ pipe' = [pipe EXCEPT ![s] = Append(@, 1)]
    /\ UNCHANGED <<command, timed, bash, shell, background, forwarder, chunks,
                   collectorVars, updates, bashCancelled, bashOutcome>>

ShellExits ==
    /\ shell = "running"
    /\ shell' \in {"exited", "failed"}
    /\ background' \in {"none", "quiet", "writing"}
    /\ UNCHANGED <<command, timed, bash, written, pipe, forwarder, chunks,
                   collectorVars, updates, bashCancelled, bashOutcome>>

BackgroundWrites(s) ==
    /\ background = "writing" /\ pipe[s] = <<>> /\ forwarder[s] = "reading"
    /\ pipe' = [pipe EXCEPT ![s] = <<0>>]
    /\ UNCHANGED <<command, timed, bash, processVars, forwarder, chunks,
                   collectorVars, updates, bashCancelled, bashOutcome>>

BackgroundEnds ==
    /\ background # "none" /\ bash # "answered"
    /\ background' = IF background = "writing" THEN "quiet" ELSE "none"
    /\ UNCHANGED <<command, timed, bash, shell, written, pipe, forwarder, chunks,
                   collectorVars, updates, bashCancelled, bashOutcome>>

Writers == shell = "running" \/ background # "none"

(* forward_pipe: a chunk at a time, waiting while the channel is full; it ends at *)
(* the end of the pipe or when the call has dropped the receiver.                 *)
Forward(s) ==
    /\ forwarder[s] = "reading"
    /\ \/ /\ pipe[s] # <<>> /\ bash # "answered" /\ Len(chunks) < ChunkCap
          /\ chunks' = Append(chunks, Head(pipe[s]))
          /\ pipe' = [pipe EXCEPT ![s] = Tail(@)]
          /\ UNCHANGED forwarder
       \/ /\ (pipe[s] = <<>> /\ ~Writers) \/ (pipe[s] # <<>> /\ bash = "answered")
          /\ forwarder' = [forwarder EXCEPT ![s] = "done"]
          /\ UNCHANGED <<chunks, pipe>>
    /\ UNCHANGED <<command, timed, bash, processVars, collectorVars, updates,
                   bashCancelled, bashOutcome>>

CancelCall ==
    /\ ~bashCancelled /\ bash # "answered"
    /\ bashCancelled' = TRUE
    /\ UNCHANGED <<command, timed, bash, processVars, pipe, forwarder, chunks,
                   collectorVars, updates, bashOutcome>>

(* kill_process_tree: SIGKILL to the whole group.                                *)
KillTree ==
    /\ shell' = IF shell = "running" THEN "killed" ELSE shell
    /\ background' = "none"
    /\ UNCHANGED written

(* The select loop, in its biased order: cancel, timeout, a chunk, the exit.     *)
SeeCancel ==
    /\ bash = "loop" /\ bashCancelled
    /\ KillTree
    /\ bash' = "drain" /\ bashOutcome' = "aborted"
    /\ UNCHANGED <<command, timed, pipe, forwarder, chunks, collectorVars, updates, bashCancelled>>

SeeTimeout ==
    /\ bash = "loop" /\ ~bashCancelled /\ timed
    /\ KillTree
    /\ bash' = "drain" /\ bashOutcome' = "timeout"
    /\ UNCHANGED <<command, timed, pipe, forwarder, chunks, collectorVars, updates, bashCancelled>>

SeeChunk ==
    /\ bash = "loop" /\ ~bashCancelled /\ chunks # <<>>
    /\ Push(Head(chunks))
    /\ chunks' = Tail(chunks)
    /\ bash' = "updating"
    /\ UNCHANGED <<command, timed, processVars, pipe, forwarder, updates, bashCancelled, bashOutcome>>

(* update_tx.send(..).await: the loop waits while the agent's channel is full,   *)
(* deaf to cancel and timeout meanwhile.                                         *)
SendUpdate ==
    /\ bash = "updating" /\ updates < UpdateCap
    /\ updates' = updates + 1
    /\ bash' = "loop"
    /\ UNCHANGED <<command, timed, processVars, pipe, forwarder, chunks, collectorVars,
                   bashCancelled, bashOutcome>>

AgentTakesUpdate ==
    /\ updates > 0
    /\ updates' = updates - 1
    /\ UNCHANGED <<command, timed, bash, processVars, pipe, forwarder, chunks, collectorVars,
                   bashCancelled, bashOutcome>>

\* Variant of SeeExit with a bug: the call answers at the exit, without the drain.
BugSeeExitAtOnce ==
    /\ bash = "loop" /\ ~bashCancelled /\ chunks = <<>>
    /\ shell \in {"exited", "failed"}
    /\ bash' = "answered" /\ bashOutcome' = shell
    /\ UNCHANGED <<command, timed, processVars, pipe, forwarder, chunks, collectorVars,
                   updates, bashCancelled>>

SeeExit ==
    /\ bash = "loop" /\ ~bashCancelled /\ chunks = <<>>
    /\ shell \in {"exited", "failed"}
    /\ bash' = "drain" /\ bashOutcome' = shell
    /\ UNCHANGED <<command, timed, processVars, pipe, forwarder, chunks, collectorVars,
                   updates, bashCancelled>>

(* The drain: chunks are taken until the channel closes, stays empty for 50 ms,   *)
(* or two seconds have passed.  A forwarder with something to read moves it well   *)
(* within the 50 ms; only a process that keeps writing lasts the two seconds.      *)
DrainChunk ==
    /\ bash = "drain" /\ chunks # <<>>
    /\ Push(Head(chunks))
    /\ chunks' = Tail(chunks)
    /\ UNCHANGED <<command, timed, bash, processVars, pipe, forwarder, updates,
                   bashCancelled, bashOutcome>>

\* Variant of DrainEnds with a bug: the drain waits for the pipes to be closed.
BugDrainEnds ==
    /\ bash = "drain"
    /\ \/ chunks = <<>> /\ \A s \in Streams : forwarder[s] = "done"
       \/ background = "writing"
    /\ bash' = "answered"
    /\ UNCHANGED <<command, timed, processVars, pipe, forwarder, chunks, collectorVars, updates,
                   bashCancelled, bashOutcome>>

DrainEnds ==
    /\ bash = "drain"
    /\ \/ chunks = <<>> /\ \A s \in Streams : pipe[s] = <<>>
       \/ background = "writing"
    /\ bash' = "answered"
    /\ UNCHANGED <<command, timed, processVars, pipe, forwarder, chunks, collectorVars, updates,
                   bashCancelled, bashOutcome>>

LoopStep == SeeCancel \/ SeeTimeout \/ SeeChunk \/ SendUpdate \/ SeeExit \/ DrainChunk \/ DrainEnds

BashToolNext ==
    \/ Spawn \/ ShellExits \/ BackgroundEnds \/ CancelCall \/ AgentTakesUpdate
    \/ SeeCancel \/ SeeTimeout \/ SeeChunk \/ SendUpdate \/ SeeExit \/ DrainChunk \/ DrainEnds
    \/ \E s \in Streams : ShellWrites(s) \/ BackgroundWrites(s) \/ Forward(s)

(* The call's own task, the forwarders and the agent's reader of updates run as    *)
(* tasks of the runtime; nothing obliges the shell to exit or to stop writing.      *)
BashToolFairness ==
    /\ WF_bashVars(Spawn) /\ WF_bashVars(SeeCancel) /\ WF_bashVars(SeeTimeout)
    /\ WF_bashVars(SeeChunk \/ SendUpdate \/ SeeExit \/ DrainChunk)
    /\ WF_bashVars(DrainEnds)
    /\ WF_bashVars(AgentTakesUpdate)
    /\ \A s \in Streams : WF_bashVars(Forward(s))

BashToolSpec == BashToolInit /\ [][BashToolNext]_bashVars /\ BashToolFairness

----------------------------------------------------------------------------
(* PROPERTIES                                                                  *)

BashToolTypeOK ==
    /\ bash \in {"asked", "loop", "updating", "drain", "answered"}
    /\ shell \in {"none", "running", "exited", "failed", "killed"}
    /\ background \in {"none", "writing", "quiet"}
    /\ written \in 0..MaxWrites
    /\ Len(chunks) <= ChunkCap /\ updates \in 0..UpdateCap
    /\ Len(tail) <= 4 * Budget
    /\ bashOutcome \in {"none", "denied", "bad_pattern", "spawn_failed", "aborted", "timeout",
                        "exited", "failed"}

(* How many of these chunks the shell wrote, not a background process.             *)
OwnPlaces(s) == {i \in DOMAIN s : s[i] # 0}
OwnOf(s) == Cardinality(OwnPlaces(s))

(* A call that returned because the shell exited collected everything the shell    *)
(* wrote before it exited, even when a quiet background process holds the pipes     *)
(* open: what is shown is all of it, or the marker says that some was left out.     *)
ExitOutputKept ==
    bash = "answered" /\ bashOutcome \in {"exited", "failed"} /\ background # "writing" =>
        WasTruncated \/ OwnOf(Rendered) = written

(* What is shown fits the budget and the line cap, and is never less than the caps  *)
(* allow without the marker.                                                        *)
NothingCutSilently ==
    /\ Len(Rendered) <= Budget /\ Len(Rendered) <= MaxLines
    /\ Len(Rendered) < total => WasTruncated

(* When the call has answered that it was aborted or timed out, nothing it started   *)
(* is left running in its process group.                                             *)
StoppedMeansStopped ==
    bash = "answered" /\ bashOutcome \in {"aborted", "timeout"} => ~Writers

(* A call whose token was cancelled before the shell had exited is answered as        *)
(* aborted unless its timeout came first: a late exit status never turns a cancelled  *)
(* command into a success.                                                            *)
CancelDecides ==
    [][bash' = "drain" /\ bash # "drain" /\ bashCancelled => bashOutcome' = "aborted"]_bashVars

(* A command's answer is the whole of its output or says that it is not, and its      *)
(* ending is the one that happened.                                                   *)
BashSound ==
    [](BashToolTypeOK /\ ExitOutputKept /\ NothingCutSilently /\ StoppedMeansStopped) /\ CancelDecides

(* What obliges a call to answer: its token, whatever its processes do, and the exit  *)
(* of its shell, once no background process writes any more, even if one keeps the    *)
(* pipes open for ever.  The agent is assumed to keep taking updates.                 *)
BashDue == bashCancelled \/ (shell \in {"exited", "failed"} /\ background # "writing")
=============================================================================
