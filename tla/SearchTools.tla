---------------------------- MODULE SearchTools ----------------------------
(* The grep, find and ls tools: one blocking walk over directory entries with *)
(* limits on results and on bytes.  For grep and find a watcher task turns    *)
(* the turn's cancel token into a flag the walk looks at; ls has no such flag.*)
(* An entry is a record [hidden, lines]; a line is a record [kind, bytes],     *)
(* kind "match", "before" or "after" as the searcher hands it to the sink.     *)
EXTENDS Naturals, FiniteSets, SequencesExt

CONSTANTS
    Trees,              \* the directory trees, sequences of entries
    Requested,          \* requests: [tool, limit, hidden], what the agent may ask
    ByteLimit,          \* BYTE_LIMIT of grep and find
    LineCap             \* LINE_CHAR_CAP of grep

(* A capped line fits the output, and the searcher hands over the context after a *)
(* match behind the match.                                                        *)
ASSUME SearchAssumption ==
    /\ ByteLimit \in Nat /\ LineCap \in Nat /\ LineCap < ByteLimit
    /\ \A t \in Trees :
        /\ t \in Seq([hidden : BOOLEAN,
                      lines : Seq([kind : {"match", "before", "after"}, bytes : Nat])])
        /\ \A e \in DOMAIN t : \A i \in DOMAIN t[e].lines :
               t[e].lines[i].kind = "after" => \E j \in 1..i - 1 : t[e].lines[j].kind = "match"

VARIABLES
    search,         \* the request
    tree,           \* the entries the walk will meet
    entry,          \* index of the entry being walked
    line,           \* grep: how many of the entry's lines were taken
    shown,          \* what the output holds: <<entry, line>>, or <<entry, 0>> for a path
    size,           \* its length in bytes
    matchCount,
    filesWithMatches,
    truncatedReason,
    tokenSet, flagSet,  \* the cancel token, and the flag its watcher sets
    found           \* "walking", or the outcome: "results", "no_matches", "aborted"

searchVars == <<search, tree, entry, line, shown, size, matchCount, filesWithMatches,
                truncatedReason, tokenSet, flagSet, found>>

Cancellable == search.tool \in {"grep", "find"}

SearchToolsInit ==
    /\ search \in Requested
    /\ tree \in Trees
    /\ entry = 1 /\ line = 0
    /\ shown = <<>> /\ size = 0
    /\ matchCount = 0 /\ filesWithMatches = 0
    /\ truncatedReason = "none"
    /\ tokenSet = FALSE /\ flagSet = FALSE
    /\ found = "walking"

Cancel ==
    /\ found = "walking" /\ ~tokenSet
    /\ tokenSet' = TRUE
    /\ UNCHANGED <<search, tree, entry, line, shown, size, matchCount, filesWithMatches,
                   truncatedReason, flagSet, found>>

(* The watcher runs on its own task: the flag follows the token some time later. *)
Watch ==
    /\ found = "walking" /\ tokenSet /\ ~flagSet /\ Cancellable
    /\ flagSet' = TRUE
    /\ UNCHANGED <<search, tree, entry, line, shown, size, matchCount, filesWithMatches,
                   truncatedReason, tokenSet, found>>

(* The end of run_search, run_find or LsTool::execute.                           *)
Finish(count) == found' = IF count = 0 THEN "no_matches" ELSE "results"

(* The head of the walk's loop: nothing left, or a cancelled walk.               *)
EndWalk ==
    /\ found = "walking" /\ line = 0
    /\ IF flagSet /\ entry <= Len(tree) THEN found' = "aborted"
       ELSE entry > Len(tree) /\ Finish(matchCount)
    /\ UNCHANGED <<search, tree, entry, line, shown, size, matchCount, filesWithMatches,
                   truncatedReason, tokenSet, flagSet>>

(* find: one path; the byte limit is tested before it, the result limit after.   *)
FindEntry ==
    /\ found = "walking" /\ search.tool = "find" /\ entry <= Len(tree) /\ ~flagSet
    /\ IF size + 1 > ByteLimit
       THEN /\ truncatedReason' = "bytes" /\ Finish(matchCount)
            /\ UNCHANGED <<entry, shown, size, matchCount>>
       ELSE /\ shown' = Append(shown, <<entry, 0>>) /\ size' = size + 1
            /\ matchCount' = matchCount + 1
            /\ entry' = entry + 1
            /\ IF matchCount + 1 >= search.limit
               THEN truncatedReason' = "limit" /\ Finish(matchCount + 1)
               ELSE UNCHANGED <<truncatedReason, found>>
    /\ UNCHANGED <<search, tree, line, filesWithMatches, tokenSet, flagSet>>

(* ls: hidden entries are passed over, the limit is tested before an entry is     *)
(* taken; the entries are sorted at the end.                                       *)
ListEntry ==
    /\ found = "walking" /\ search.tool = "ls" /\ entry <= Len(tree)
    /\ LET skipped == tree[entry].hidden /\ ~search.hidden
       IN IF skipped
          THEN entry' = entry + 1 /\ UNCHANGED <<shown, matchCount, truncatedReason, found>>
          ELSE IF matchCount >= search.limit
          THEN truncatedReason' = "limit" /\ Finish(matchCount) /\ UNCHANGED <<entry, shown, matchCount>>
          ELSE /\ shown' = Append(shown, <<entry, 0>>) /\ matchCount' = matchCount + 1
               /\ entry' = entry + 1
               /\ UNCHANGED <<truncatedReason, found>>
    /\ UNCHANGED <<search, tree, line, size, filesWithMatches, tokenSet, flagSet>>

(* grep opens an entry: the cancel flag is looked at here ...                      *)
OpenEntry ==
    /\ found = "walking" /\ search.tool = "grep" /\ entry <= Len(tree) /\ line = 0 /\ ~flagSet
    /\ IF tree[entry].lines = <<>> THEN entry' = entry + 1 /\ UNCHANGED line
       ELSE line' = 1 /\ UNCHANGED entry
    /\ UNCHANGED <<search, tree, shown, size, matchCount, filesWithMatches,
                   truncatedReason, tokenSet, flagSet, found>>

(* The entry is left: the walk goes on unless a limit was met.                     *)
LeaveEntry(reason, count) ==
    /\ line' = 0 /\ entry' = entry + 1
    /\ LET matched == \E i \in 1..line : tree[entry].lines[i].kind = "match"
       IN filesWithMatches' = filesWithMatches + (IF matched THEN 1 ELSE 0)
    /\ IF reason # "none" THEN Finish(count) ELSE UNCHANGED found

\* Variant of SinkLine with a bug: the limit is tested before the match is shown.
BugSinkLine ==
    /\ found = "walking" /\ search.tool = "grep" /\ line > 0
    /\ LET taken == tree[entry].lines[line]
           cost == IF taken.bytes > LineCap THEN LineCap + 1 ELSE taken.bytes
           full == size + cost > ByteLimit \/ (taken.kind = "match" /\ matchCount >= search.limit)
           isMatch == taken.kind = "match"
           atLimit == isMatch /\ matchCount + 1 >= search.limit
       IN \/ /\ flagSet
             /\ UNCHANGED <<shown, size, matchCount, truncatedReason>>
             /\ LeaveEntry("none", matchCount)
          \/ /\ ~flagSet /\ full
             /\ truncatedReason' = "bytes"
             /\ UNCHANGED <<shown, size, matchCount>>
             /\ LeaveEntry("bytes", matchCount)
          \/ /\ ~flagSet /\ ~full
             /\ shown' = Append(shown, <<entry, line>>) /\ size' = size + cost
             /\ matchCount' = matchCount + (IF isMatch THEN 1 ELSE 0)
             /\ IF atLimit
                THEN truncatedReason' = "limit" /\ LeaveEntry("limit", matchCount + 1)
                ELSE /\ UNCHANGED truncatedReason
                     /\ IF line = Len(tree[entry].lines) THEN LeaveEntry("none", matchCount')
                        ELSE line' = line + 1 /\ UNCHANGED <<entry, filesWithMatches, found>>
    /\ UNCHANGED <<search, tree, tokenSet, flagSet>>

(* ... and before every line.  append_line refuses a line when the flag is set or   *)
(* the output is full; a refused line ends the entry's search without an error.     *)
SinkLine ==
    /\ found = "walking" /\ search.tool = "grep" /\ line > 0
    /\ LET taken == tree[entry].lines[line]
           cost == IF taken.bytes > LineCap THEN LineCap + 1 ELSE taken.bytes
           full == size + cost > ByteLimit
           isMatch == taken.kind = "match"
           atLimit == isMatch /\ matchCount + 1 >= search.limit
       IN \/ /\ flagSet
             /\ UNCHANGED <<shown, size, matchCount, truncatedReason>>
             /\ LeaveEntry("none", matchCount)
          \/ /\ ~flagSet /\ full
             /\ truncatedReason' = "bytes"
             /\ UNCHANGED <<shown, size, matchCount>>
             /\ LeaveEntry("bytes", matchCount)
          \/ /\ ~flagSet /\ ~full
             /\ shown' = Append(shown, <<entry, line>>) /\ size' = size + cost
             /\ matchCount' = matchCount + (IF isMatch THEN 1 ELSE 0)
             /\ IF atLimit
                THEN truncatedReason' = "limit" /\ LeaveEntry("limit", matchCount + 1)
                ELSE /\ UNCHANGED truncatedReason
                     /\ IF line = Len(tree[entry].lines) THEN LeaveEntry("none", matchCount')
                        ELSE line' = line + 1 /\ UNCHANGED <<entry, filesWithMatches, found>>
    /\ UNCHANGED <<search, tree, tokenSet, flagSet>>

SearchToolsNext ==
    Cancel \/ Watch \/ EndWalk \/ FindEntry \/ ListEntry \/ OpenEntry \/ SinkLine

SearchToolsSpec == SearchToolsInit /\ [][SearchToolsNext]_searchVars

----------------------------------------------------------------------------
(* PROPERTIES                                                                  *)

Answered == found \in {"results", "no_matches"}

(* Everything the walk would meet without limits, and the order it meets it in.  *)
PlacesIn(e) ==
    CASE search.tool = "grep" -> DOMAIN tree[e].lines
      [] search.tool = "ls" /\ tree[e].hidden /\ ~search.hidden -> {}
      [] OTHER -> {0}
Everything == UNION {{<<e, i>> : i \in PlacesIn(e)} : e \in DOMAIN tree}
Before(p, q) == p[1] < q[1] \/ (p[1] = q[1] /\ p[2] < q[2])

(* An answer that does not say it was truncated, to a call nobody cancelled, is   *)
(* the whole of what there is, in order; a truncated one is a beginning of it.     *)
SilentMeansComplete ==
    Answered /\ ~tokenSet =>
        /\ \A k, n \in DOMAIN shown : k < n => Before(shown[k], shown[n])
        /\ Range(shown) \subseteq Everything
        /\ \A p \in Everything, q \in Range(shown) : Before(p, q) => p \in Range(shown)
        /\ truncatedReason = "none" => Range(shown) = Everything

(* "No matches." to a call nobody cancelled means that nothing matches, unless the *)
(* lines of context before the first match already filled the output.               *)
NoMatchesMeansNone ==
    found = "no_matches" /\ ~tokenSet /\ search.tool = "grep" =>
        \A e \in DOMAIN tree : \A i \in DOMAIN tree[e].lines :
            tree[e].lines[i].kind = "match" =>
                \E f \in 1..e : \E j \in DOMAIN tree[f].lines : tree[f].lines[j].kind = "before"

(* A cancelled walk that met the flag with entries left never answers as if it      *)
(* were complete; only the last entry can be cut short unnoticed.                   *)
CutShortOnlyAtTheEnd ==
    Answered /\ flagSet /\ truncatedReason = "none" =>
        \A e \in 1..Len(tree) - 1 :
            \A i \in DOMAIN tree[e].lines : search.tool = "grep" => <<e, i>> \in Range(shown)

(* The count of files in the answer's details is the number of files a match was    *)
(* seen in, whichever way each file's search ended.                                  *)
FilesCounted ==
    search.tool = "grep" =>
        /\ filesWithMatches >= Cardinality({e \in 1..entry - 1 :
               \E i \in DOMAIN tree[e].lines : <<e, i>> \in Range(shown) /\ tree[e].lines[i].kind = "match"})
        /\ filesWithMatches <= entry - 1

(* A search never passes a part of its answer for the whole.                      *)
SearchSound == SilentMeansComplete /\ NoMatchesMeansNone /\ CutShortOnlyAtTheEnd /\ FilesCounted
=============================================================================
