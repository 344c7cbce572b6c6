----------------------------- MODULE SessionLog -----------------------------
(***************************************************************************)
(* Session files (anie-session/src/lib.rs): append-only logs of entries    *)
(* linked to their parents, written line by line by the process that holds *)
(* the file's lock, read back by a resume, copied by a fork; with crashes  *)
(* and failing writes between the steps.                                   *)
(*                                                                         *)
(* A line is an entry and whether its newline was written: writeln! to a   *)
(* File is one write for each.  `damage` names what the design does not    *)
(* defend against, where it happened.                                      *)
(***************************************************************************)
EXTENDS Compaction

CONSTANTS
    Processes,
    Sessions,     \* the files of sessions_dir
    Runs,         \* the messages a run may generate
    MaxEntries,   \* bound: entries ever written anew
    MaxAdds,      \* bound: calls that append
    MaxFaults     \* bound: crashes and failing writes

Messages == {UserMessage} \cup UNION {{run[i] : i \in DOMAIN run} : run \in Runs}

ASSUME SessionLogAssumption ==
    /\ Runs \subseteq Seq(Messages)
    /\ {MaxEntries, MaxAdds, MaxFaults} \subseteq Nat
    /\ Processes # {} /\ Sessions # {}

\* AgentRunProofs, RunsAnswerTheirCalls: what a finished run hands over answers its own calls.
ASSUME RunsAnswered ==
    \A run \in Runs :
        /\ Answered(run)
        /\ \A i \in DOMAIN run : run[i].calls \in Nat /\ run[i].call \in Nat

VARIABLES
    created,   \* the sessions whose file exists
    files,     \* the lines of each session file
    handles,   \* the SessionManager of each process for each session
    writing,   \* the add_entries call of each process that is under way
    ids,       \* entries made anew so far; the last id given out
    adds,      \* calls so far
    faults,
    damage     \* history: what happened to each session

logVars == <<created, files, handles, writing, ids, adds, faults, damage>>

-----------------------------------------------------------------------------
(***************************************************************************)
(* Entries, and what a log of them says.                                   *)
(***************************************************************************)
NoEntry == 0
\* A message entry, a compaction (whose message is its summary), or a change of
\* model or thinking level.
Entry(id, parent, kind, message, first_kept) ==
    [id |-> id, parent |-> parent, kind |-> kind, message |-> message,
     first_kept_entry_id |-> first_kept]
EntryType ==
    [id : 0..MaxEntries, parent : 0..MaxEntries,
     kind : {"message", "compaction", "change", "malformed"},
     message : Messages, first_kept_entry_id : 0..MaxEntries]
\* A line that does not parse.
Malformed == Entry(NoEntry, NoEntry, "malformed", UserMessage, NoEntry)

\* parse_session_file.
Parsed(lines) ==
    Picked([i \in DOMAIN lines |-> lines[i].entry],
           {i \in DOMAIN lines : lines[i].entry # Malformed})

Ids(entries) == {entries[i].id : i \in DOMAIN entries}
LeafOf(entries) == IF entries = <<>> THEN NoEntry ELSE Last(entries).id

\* get_branch: from the leaf to the root, or to a parent that is not there.
Branch(entries, leaf) ==
    LET At(id) == CHOOSE i \in DOMAIN entries : entries[i].id = id
        upTo[id \in Ids(entries)] ==
            LET entry == entries[At(id)]
            IN  IF entry.parent \in Ids(entries)
                THEN Append(upTo[entry.parent], entry) ELSE <<entry>>
    IN  IF leaf \in Ids(entries) THEN upTo[leaf] ELSE <<>>

MessageEntries(entries) ==
    Picked(entries, {i \in DOMAIN entries : entries[i].kind = "message"})

\* Variant of Kept with a bug: what is kept begins behind the first kept entry.
BugKeptBehind(branch, compaction) ==
    LET n == CHOOSE i \in DOMAIN branch :
                branch[i].id = compaction.first_kept_entry_id
    IN  MessageEntries(SubSeq(branch, n + 1, Len(branch)))

\* The message entries of the branch from the first kept one on; none if that is
\* not on the branch.
Kept(branch, compaction) ==
    IF compaction.first_kept_entry_id \in Ids(branch)
    THEN LET n == CHOOSE i \in DOMAIN branch :
                     branch[i].id = compaction.first_kept_entry_id
         IN  MessageEntries(SubSeq(branch, n, Len(branch)))
    ELSE <<>>

\* build_context, as entries: the summary of the last compaction on the branch
\* and what it kept, or every message.
BranchContext[branch \in Seq(EntryType)] ==
    LET compactions == {i \in DOMAIN branch : branch[i].kind = "compaction"}
        last == branch[Max(compactions)]
    IN  IF compactions = {} THEN MessageEntries(branch)
        ELSE <<last>> \o Kept(branch, last)
ContextEntries(entries, leaf) == BranchContext[Branch(entries, leaf)]

MessagesOf[entries \in Seq(EntryType)] ==
    [i \in DOMAIN entries |-> entries[i].message]
Context(entries, leaf) == MessagesOf[ContextEntries(entries, leaf)]

\* What a process that opens the file now goes on from.
Resumed(session) ==
    LET entries == Parsed(files[session]) IN Context(entries, LeafOf(entries))

-----------------------------------------------------------------------------
Closed == [state |-> "closed", entries |-> <<>>, leaf |-> NoEntry]
Manager(state, entries) ==
    [state |-> state, entries |-> entries, leaf |-> LeafOf(entries)]

\* add_entries(entries) on session `to`; a fork writes to another session than the
\* one it comes from.
Writing(to, from, entries) ==
    [to |-> to, from |-> from, entries |-> entries]
NotWriting == Writing("none", "none", <<>>)

Init ==
    /\ created = {}
    /\ files = [session \in Sessions |-> <<>>]
    /\ handles = [process \in Processes |-> [session \in Sessions |-> Closed]]
    /\ writing = [process \in Processes |-> NotWriting]
    /\ ids = 0 /\ adds = 0 /\ faults = 0
    /\ damage = [session \in Sessions |-> {}]

IsOpen(p, session) == handles[p][session].state = "open"
Locked(session) == \E p \in Processes : IsOpen(p, session)
\* The process may call its session handle.
AtRest(p) == /\ writing[p] = NotWriting
             /\ \A session \in Sessions : handles[p][session].state # "read"
Only(session, manager) ==
    [other \in Sessions |-> IF other = session THEN manager ELSE Closed]

-----------------------------------------------------------------------------
(***************************************************************************)
(* Opening and closing.                                                    *)
(***************************************************************************)
\* new_session, which replaces the session the process had open.
NewSession(p, session) ==
    /\ AtRest(p) /\ session \notin created
    /\ created' = created \cup {session}
    /\ handles' = [handles EXCEPT ![p] = Only(session, Manager("open", <<>>))]
    /\ UNCHANGED <<files, writing, ids, adds, faults, damage>>

\* Bound: one process at a time is opening a file; one is enough for a stale index.
OneOpens ==
    \A p \in Processes, session \in Sessions : handles[p][session].state # "read"

\* open_session reads the file first ...
OpenReads(p, session) ==
    /\ AtRest(p) /\ session \in created /\ ~IsOpen(p, session)
    /\ OneOpens
    /\ handles' = [handles EXCEPT ![p][session] =
                      Manager("read", Parsed(files[session]))]
    /\ UNCHANGED <<created, files, writing, ids, adds, faults, damage>>

\* ... and then takes the lock; what was appended in between it does not know.
OpenLocks(p, session) ==
    /\ handles[p][session].state = "read" /\ ~Locked(session)
    /\ handles' = [handles EXCEPT ![p] =
                      Only(session, [@[session] EXCEPT !.state = "open"])]
    /\ damage' = IF handles[p][session].entries = Parsed(files[session])
                 THEN damage
                 ELSE [damage EXCEPT ![session] = @ \cup {"stale"}]
    /\ UNCHANGED <<created, files, writing, ids, adds, faults>>

\* SessionError::AlreadyOpen.
OpenRefused(p, session) ==
    /\ handles[p][session].state = "read" /\ Locked(session)
    /\ handles' = [handles EXCEPT ![p][session] = Closed]
    /\ UNCHANGED <<created, files, writing, ids, adds, faults, damage>>

\* The process ends, or dies between two writes.
Exits(p) ==
    /\ AtRest(p) /\ \E session \in Sessions : IsOpen(p, session)
    /\ handles' = [handles EXCEPT ![p] = [session \in Sessions |-> Closed]]
    /\ UNCHANGED <<created, files, writing, ids, adds, faults, damage>>

-----------------------------------------------------------------------------
(***************************************************************************)
(* What the controller has written.                                        *)
(***************************************************************************)
MayAdd(p, session) == AtRest(p) /\ IsOpen(p, session) /\ adds < MaxAdds

Adds(p, session, entries) ==
    /\ MayAdd(p, session) /\ adds' = adds + 1
    /\ ids + Len(entries) <= MaxEntries /\ ids' = ids + Len(entries)
    /\ writing' = [writing EXCEPT ![p] = Writing(session, session, entries)]
    /\ UNCHANGED <<created, files, handles, faults, damage>>

\* append_message, append_messages: each the child of the one before.
AppendMessages(p, session, messages) ==
    Adds(p, session, [i \in DOMAIN messages |->
        Entry(ids + i, IF i = 1 THEN handles[p][session].leaf ELSE ids + i - 1,
              "message", messages[i], NoEntry)])

Prompt(p, session) == AppendMessages(p, session, <<UserMessage>>)

ContextOf(p, session) ==
    LET manager == handles[p][session]
    IN  ContextEntries(manager.entries, manager.leaf)

\* finish_run.
RunEnds(p, session) ==
    /\ MayAdd(p, session)
    /\ ContextOf(p, session) # <<>>
    /\ Last(ContextOf(p, session)).message.kind = "user"
    /\ \E messages \in Runs : AppendMessages(p, session, messages)

\* append_model_change, append_thinking_change.
Change(p, session) ==
    Adds(p, session, <<Entry(ids + 1, handles[p][session].leaf, "change",
                             UserMessage, NoEntry)>>)

\* compact_internal, once the summarizer has answered.
Compact(p, session) ==
    /\ MayAdd(p, session)
    /\ LET context == ContextOf(p, session)
       IN  \E cut \in Cuts(MessagesOf[context]) :
              Adds(p, session, <<Entry(ids + 1, handles[p][session].leaf, "compaction",
                                       UserMessage, context[cut + 1].id)>>)

\* Variant of ForkStarts with a bug: the leaf itself is not copied.
BugForkWithoutLeaf(p, session, child) ==
    /\ AtRest(p) /\ IsOpen(p, session) /\ child \notin created
    /\ created' = created \cup {child}
    /\ handles' = [handles EXCEPT ![p][child] = Manager("open", <<>>)]
    /\ LET branch == Branch(handles[p][session].entries, handles[p][session].leaf)
       IN  writing' = [writing EXCEPT ![p] = Writing(child, session,
                                       SubSeq(branch, 1, Len(branch) - 1))]
    /\ damage' = [damage EXCEPT ![child] = damage[session]]
    /\ UNCHANGED <<files, ids, adds, faults>>

\* fork_to_child_session: the entries of the branch, with their ids.
ForkStarts(p, session, child) ==
    /\ AtRest(p) /\ IsOpen(p, session) /\ child \notin created
    /\ created' = created \cup {child}
    /\ handles' = [handles EXCEPT ![p][child] = Manager("open", <<>>)]
    /\ writing' = [writing EXCEPT ![p] = Writing(child, session,
                      Branch(handles[p][session].entries, handles[p][session].leaf))]
    /\ damage' = [damage EXCEPT ![child] = damage[session]]
    /\ UNCHANGED <<files, ids, adds, faults>>

ForkCopied(p) == writing[p].from # writing[p].to /\ writing[p].entries = <<>>

\* The handle moves on to the child.
ForkEnds(p) ==
    /\ ForkCopied(p)
    /\ handles' = [handles EXCEPT ![p] = Only(writing[p].to, @[writing[p].to])]
    /\ writing' = [writing EXCEPT ![p] = NotWriting]
    /\ UNCHANGED <<created, files, ids, adds, faults, damage>>

-----------------------------------------------------------------------------
(***************************************************************************)
(* add_entries: for each entry its line, the newline, then the index.      *)
(* Another process reads the same of a line with and without its newline,  *)
(* so that only an interruption tells the two writes apart.                *)
(***************************************************************************)
Unterminated(lines) == lines # <<>> /\ ~Last(lines).ended

\* What is written behind an unterminated line becomes one line with it, which
\* does not parse.
WrittenTo(lines, entry, ended) ==
    IF Unterminated(lines)
    THEN [lines EXCEPT ![Len(lines)] = [entry |-> Malformed, ended |-> ended]]
    ELSE Append(lines, [entry |-> entry, ended |-> ended])

Indexed(manager, entry) == Manager(manager.state, Append(manager.entries, entry))

WriteEntry(p) ==
    /\ writing[p].entries # <<>>
    /\ LET to == writing[p].to
           entry == Head(writing[p].entries)
           rest == Tail(writing[p].entries)
       IN  /\ entry.parent \in {NoEntry} \cup Ids(handles[p][to].entries)
           /\ files' = [files EXCEPT ![to] = WrittenTo(@, entry, TRUE)]
           /\ handles' = [handles EXCEPT ![p][to] = Indexed(@, entry)]
           /\ writing' = [writing EXCEPT ![p] =
                 IF rest = <<>> /\ writing[p].from = to THEN NotWriting
                 ELSE [@ EXCEPT !.entries = rest]]
           /\ damage' = IF Unterminated(files[to])
                        THEN [damage EXCEPT ![to] = @ \cup {"merged"}] ELSE damage
    /\ UNCHANGED <<created, ids, adds, faults>>

\* An interrupted write leaves nothing, a part of the line, or all but its newline.
WriteInterrupted(p) ==
    LET to == writing[p].to
    IN  files' \in IF writing[p].entries = <<>> THEN {files}
                   ELSE {files} \cup
                        {[files EXCEPT ![to] = WrittenTo(@, entry, FALSE)] :
                            entry \in {Malformed, Head(writing[p].entries)}}

\* What is missing begins with the result of a call that is there.
Torn(missing) == missing # <<>> /\ Head(missing).message.kind = "result"

\* What an interruption does to the session that process p writes; in its file the
\* first entry may be there that is not indexed.
Damages(p) ==
    damage' = [session \in Sessions |->
        damage[session] \cup
        IF writing[p].to # session THEN {}
        ELSE (IF \/ Torn(writing[p].entries)
                 \/ /\ Parsed(files'[session]) # Parsed(files[session])
                    /\ Torn(Tail(writing[p].entries))
              THEN {"cut"} ELSE {})
             \cup (IF files' # files /\ Unterminated(files[session])
                   THEN {"merged"} ELSE {})]

\* The process goes on without what it could not write; a fork, without the child.
GivesUp(p) ==
    /\ writing' = [writing EXCEPT ![p] = NotWriting]
    /\ handles' = [handles EXCEPT ![p] = Only(writing[p].from, @[writing[p].from])]

Fault == faults < MaxFaults /\ faults' = faults + 1

\* Variant of WriteFails with a bug: the entry is indexed all the same.
BugIndexedAnyway(p) ==
    /\ writing[p].entries # <<>> /\ Fault
    /\ WriteInterrupted(p) /\ Damages(p)
    /\ writing' = [writing EXCEPT ![p] = NotWriting]
    /\ handles' = [handles EXCEPT ![p][writing[p].to] =
                      Indexed(@, Head(writing[p].entries))]
    /\ UNCHANGED <<created, ids, adds>>

\* A write fails: the disk is full.
WriteFails(p) ==
    /\ writing[p].entries # <<>> /\ Fault
    /\ WriteInterrupted(p) /\ Damages(p) /\ GivesUp(p)
    /\ UNCHANGED <<created, ids, adds>>

\* "parent ID was not found": a fork of a branch whose beginning is lost.
WriteRefused(p) ==
    /\ writing[p].entries # <<>>
    /\ Head(writing[p].entries).parent \notin
          {NoEntry} \cup Ids(handles[p][writing[p].to].entries)
    /\ GivesUp(p)
    /\ UNCHANGED <<created, files, ids, adds, faults, damage>>

\* The process is killed; the kernel drops its locks.
Crash(p) ==
    /\ writing[p] # NotWriting /\ Fault
    /\ WriteInterrupted(p) /\ Damages(p)
    /\ handles' = [handles EXCEPT ![p] = [session \in Sessions |-> Closed]]
    /\ writing' = [writing EXCEPT ![p] = NotWriting]
    /\ UNCHANGED <<created, ids, adds>>

-----------------------------------------------------------------------------
Adding(p, session) == \/ Prompt(p, session) \/ RunEnds(p, session)
                      \/ Change(p, session) \/ Compact(p, session)
Opening(p, session) == \/ NewSession(p, session) \/ OpenReads(p, session)
                       \/ OpenLocks(p, session) \/ OpenRefused(p, session)

Next ==
    \E p \in Processes :
        \/ Exits(p) \/ Crash(p) \/ ForkEnds(p)
        \/ WriteEntry(p) \/ WriteFails(p) \/ WriteRefused(p)
        \/ \E session \in Sessions :
              \/ Opening(p, session) \/ Adding(p, session)
              \/ \E child \in Sessions : ForkStarts(p, session, child)

Spec == Init /\ [][Next]_logVars

-----------------------------------------------------------------------------
\* The type of every variable; no two processes have a session open, and a process
\* has another one open only while it forks.
TypeOK ==
    /\ created \subseteq Sessions
    /\ files \in [Sessions -> Seq([entry : EntryType, ended : BOOLEAN])]
    /\ \A p \in Processes, session \in Sessions :
          /\ handles[p][session].state \in {"closed", "read", "open"}
          /\ handles[p][session].entries \in Seq(EntryType)
          /\ IsOpen(p, session) =>
                \A q \in Processes \ {p} : ~IsOpen(q, session)
    /\ \A p \in Processes :
          /\ writing[p].entries \in Seq(EntryType)
          /\ writing[p].to = writing[p].from =>
                Cardinality({session \in Sessions : IsOpen(p, session)}) <= 1
    /\ ids \in 0..MaxEntries /\ adds \in 0..MaxAdds /\ faults \in 0..MaxFaults
    /\ damage \in [Sessions -> SUBSET {"merged", "stale", "cut"}]

Lossy(session) == damage[session] \cap {"merged", "stale"} # {}

Store == INSTANCE SessionStore
         WITH conversations <- [session \in Sessions |-> Resumed(session)]

\* History is not rewritten: whatever is written, fails or crashes, what a resume
\* would find in a file is empty at first and changes only by another message or by
\* a summary in place of its beginning, which is where find_cut_point cut; unless
\* lines merged or a process opened with a stale index.
HistoryKept ==
    /\ Store!Init
    /\ [][\A session \in Sessions :
             files[session]' # files[session] /\ Resumed(session)' # Resumed(session) =>
                Store!Changes(session) \/ Lossy(session)']_logVars

\* The index of an open session is the file, but for the entry being written or
\* left behind by a failed newline; unless it was stale or lines merged.
IndexOnDisk ==
    \A p \in Processes, session \in Sessions :
        IsOpen(p, session) /\ ~Lossy(session) =>
            LET entries == handles[p][session].entries
                onDisk == Parsed(files[session])
            IN  IsPrefix(entries, onDisk) /\ Len(onDisk) <= Len(entries) + 1

\* What a resume, or the next request of the process, goes on from pairs every tool
\* call with its result: after compactions, forks, failing writes and crashes, but
\* for one in the middle of a run's messages.
ResumePaired ==
    \A session \in Sessions :
        (damage[session] = {} /\ \A p \in Processes : writing[p].to # session) =>
            /\ Paired(Sanitize(Resumed(session)))
            /\ \A p \in Processes : IsOpen(p, session) =>
                  Paired(Sanitize(MessagesOf[ContextOf(p, session)]))

\* A fork that succeeds has the conversation of the session it comes from, in
\* memory and on disk.
ForkKeepsContext ==
    \A p \in Processes : ForkCopied(p) =>
        LET parent == MessagesOf[ContextOf(p, writing[p].from)]
        IN  /\ MessagesOf[ContextOf(p, writing[p].to)] = parent
            /\ Resumed(writing[p].to) = parent

\* The processes' locks and indexes agree with the files.
LogSound == TypeOK /\ IndexOnDisk
=============================================================================
