----------------------------- MODULE FileTools -----------------------------
(* The edit and write tools of anie-tools and the FileMutationQueue they      *)
(* share.  Several calls of one turn work on one file; the file is reached    *)
(* under several paths (a path and a symbolic link to its directory), and the *)
(* directory may not exist before the first write.                            *)
(* Text is a sequence of characters; sizes count characters.                  *)
EXTENDS Naturals, FiniteSets, SequencesExt

CONSTANTS
    Calls,              \* the tool calls in flight
    Requests,           \* what a call may be asked to do
    Texts,              \* the contents the file may start with
    MayFail,            \* whether the operating system may refuse an open or a write
    MaxEditCount, MaxOldText, MaxNewText, MaxArgument, MaxInputFile, MaxOutputFile

(* "none" is no path: it stands for the key of a call that has not computed one.  *)
ASSUME FileAssumption == \A r \in Requests : r.path # "none"

Blank == {" ", "t"}                     \* "t" stands for a tab
Missing == [bom |-> FALSE, text |-> <<"missing">>]

----------------------------------------------------------------------------
(* Line endings and the byte-order mark.                                      *)

NormalizeToLf(value) ==
    FlattenSeq([i \in DOMAIN value |->
        CASE value[i] = "r" -> <<"n">>
          [] value[i] = "n" /\ i > 1 /\ value[i - 1] = "r" -> <<>>
          [] OTHER -> <<value[i]>>])

DetectLineEnding(value) ==
    IF \E i \in 1..Len(value) - 1 : value[i] = "r" /\ value[i + 1] = "n"
    THEN <<"r", "n">>
    ELSE IF Contains(value, "r") THEN <<"r">> ELSE <<"n">>

RestoreLineEndings(value, ending) ==
    FlattenSeq([i \in DOMAIN value |-> IF value[i] = "n" THEN ending ELSE <<value[i]>>])

(* A text all of whose line ends are the one the file is said to have.        *)
Uniform(value) == RestoreLineEndings(NormalizeToLf(value), DetectLineEnding(value)) = value

----------------------------------------------------------------------------
(* Matching.  A region is [start, end]: characters start .. end - 1.          *)

(* str::match_indices: leftmost, not overlapping.                             *)
FindAllOccurrences(content, needle) ==
    LET Found(acc, i) ==
            IF i >= acc.from /\ i + Len(needle) <= Len(content) + 1
               /\ SubSeq(content, i, i + Len(needle) - 1) = needle
            THEN [from |-> i + Len(needle),
                  found |-> Append(acc.found, [start |-> i, end |-> i + Len(needle)])]
            ELSE acc
    IN FoldLeftDomain(Found, [from |-> 1, found |-> <<>>], content).found

(* The characters a fuzzy match keeps: the first of every run of blanks.      *)
KeptForFuzzyMatch(value) ==
    SetToSortSeq({i \in DOMAIN value : ~(value[i] \in Blank /\ i > 1 /\ value[i - 1] \in Blank)}, <)

Widened(value, kept) ==
    [i \in DOMAIN kept |-> IF value[kept[i]] \in Blank THEN " " ELSE value[kept[i]]]
NormalizeForFuzzyMatch(value) == Widened(value, KeptForFuzzyMatch(value))

(* fuzzy_find_all_occurrences: the pattern is looked for among the kept        *)
(* characters, and the place of each match is carried back to the text.        *)
PlacesOf(pattern, content, kept) ==
    LET At(i) == IF i \in DOMAIN kept THEN kept[i] ELSE Len(content) + 1
        Places(matches) ==
            [m \in DOMAIN matches |-> [start |-> At(matches[m].start), end |-> At(matches[m].end)]]
    IN IF pattern = <<>> THEN <<>> ELSE Places(FindAllOccurrences(Widened(content, kept), pattern))

FuzzyFindAllOccurrences(content, needle) ==
    PlacesOf(NormalizeForFuzzyMatch(needle), content, KeptForFuzzyMatch(content))

(* What one edit matches: a region, or the reason it has none.                *)
MatchEdit(content, edit) ==
    LET Matched(exact, fuzzy) ==
            CASE edit.old = <<>> -> [error |-> "empty"]
              [] Len(exact) > 1 -> [error |-> "ambiguous"]
              [] Len(exact) = 1 -> exact[1]
              [] Len(fuzzy) = 0 -> [error |-> "no_match"]
              [] Len(fuzzy) > 1 -> [error |-> "fuzzy_ambiguous"]
              [] OTHER -> fuzzy[1]
    IN Matched(FindAllOccurrences(content, edit.old), FuzzyFindAllOccurrences(content, edit.old))

IsError(result) == "error" \in DOMAIN result

(* apply_edits: every edit is matched against the original text, the matches   *)
(* must not overlap, and the text is spliced from the last one backwards.      *)
ApplyEdits(content, edits) ==
    LET Splice(text, region) ==
            SubSeq(text, 1, region.start - 1) \o region.new \o SubSeq(text, region.end, Len(text))
        Applied(regions) ==
            IF \E k \in 1..Len(regions) - 1 : regions[k].end > regions[k + 1].start
            THEN [error |-> "overlap"]
            ELSE [text |-> FoldLeft(Splice, content, Reverse(regions))]
        Checked(match) ==
            IF \E k \in DOMAIN match : IsError(match[k])
            THEN SelectSeq(match, IsError)[1]
            ELSE Applied(SortSeq([k \in DOMAIN match |-> match[k] @@ [new |-> edits[k].new]],
                                 LAMBDA r, q : r.start < q.start))
    IN Checked([k \in DOMAIN edits |-> MatchEdit(content, edits[k])])

(* parse_edits: the limits, in the order they are tested, edit by edit.        *)
ParseEdits(edits) ==
    LET Bytes(k) == Len(edits[k].old) + Len(edits[k].new)
        Total(k) == FoldLeft(LAMBDA sum, j : sum + Bytes(j), 0, [j \in 1..k |-> j])
    IN IF edits = <<>> THEN [error |-> "no_edits"]
       ELSE IF Len(edits) > MaxEditCount THEN [error |-> "too_many"]
       ELSE IF \E k \in DOMAIN edits : \/ Len(edits[k].old) > MaxOldText
                                       \/ Len(edits[k].new) > MaxNewText
                                       \/ Total(k) > MaxArgument
       THEN [error |-> "too_long"]
       ELSE [edits |-> [k \in DOMAIN edits |-> [old |-> NormalizeToLf(edits[k].old),
                                               new |-> NormalizeToLf(edits[k].new)]]]

(* The body of EditTool::execute between the read and the write.               *)
EditedFile(bytes, edits) ==
    LET Sized(restored) ==
            IF Len(restored) > MaxOutputFile THEN [error |-> "output_too_long"]
            ELSE [file |-> [bom |-> bytes.bom, text |-> restored]]
        Written(applied) ==
            IF IsError(applied) THEN applied
            ELSE Sized(RestoreLineEndings(applied.text, DetectLineEnding(bytes.text)))
    IN IF bytes = Missing THEN [error |-> "unreadable"]
       ELSE IF Len(bytes.text) > MaxInputFile THEN [error |-> "file_too_long"]
       ELSE Written(ApplyEdits(NormalizeToLf(bytes.text), edits))

----------------------------------------------------------------------------
VARIABLES
    file,           \* what the file holds; Missing before it exists
    original,       \* what it held before the first call (never changes)
    directory,      \* whether the file's directory exists
    request,        \* what each call was asked
    call,           \* where each call is
    key,            \* the lock key each call computed
    output,         \* what a call is going to write
    answer,         \* what a call answered
    cancelled       \* whether the turn's cancel token is set

fileVars == <<file, original, directory, request, call, key, output, answer, cancelled>>

NoAnswer == [error |-> "none"]

(* canonicalize_best_effort: the real path when the file or at least its       *)
(* directory exists, the path as it was given otherwise.                       *)
LockKey(path) == IF directory THEN "real" ELSE path

Holding == {"reading", "parent", "opening", "filling"}
Holder(k) == {c \in Calls : call[c] \in Holding /\ key[c] = k}

FileToolsInit ==
    /\ file \in [bom : BOOLEAN, text : Texts] \cup {Missing}
    /\ original = file
    /\ directory \in IF file = Missing THEN BOOLEAN ELSE {TRUE}
    /\ request \in [Calls -> Requests]
    /\ call = [c \in Calls |-> "idle"]
    /\ key = [c \in Calls |-> "none"]
    /\ output = [c \in Calls |-> Missing]
    /\ answer = [c \in Calls |-> NoAnswer]
    /\ cancelled = FALSE

(* A call that answers leaves the lock with its guard.                         *)
Answer(c, a) ==
    /\ call' = [call EXCEPT ![c] = "answered"]
    /\ answer' = [answer EXCEPT ![c] = a]

(* execute up to with_lock: the arguments are checked, the key is computed.    *)
Ask(c) ==
    /\ call[c] = "idle"
    /\ \E parsed \in {ParseEdits(request[c].edits)} :
          IF request[c].tool = "edit" /\ IsError(parsed)
          THEN Answer(c, parsed) /\ UNCHANGED key
          ELSE /\ call' = [call EXCEPT ![c] = "waiting"]
               /\ key' = [key EXCEPT ![c] = LockKey(request[c].path)]
               /\ UNCHANGED answer
    /\ UNCHANGED <<file, original, directory, request, output, cancelled>>

\* Variant of Lock with a bug: the lock is granted while another call holds it.
BugLock(c) ==
    /\ call[c] = "waiting"
    /\ IF cancelled
       THEN Answer(c, [error |-> "aborted"])
       ELSE /\ call' = [call EXCEPT ![c] = IF request[c].tool = "edit" THEN "reading" ELSE "parent"]
            /\ UNCHANGED answer
    /\ UNCHANGED <<file, original, directory, request, key, output, cancelled>>

(* The lock is granted; the cancel token is looked at once, under the lock.    *)
Lock(c) ==
    /\ call[c] = "waiting"
    /\ Holder(key[c]) = {}
    /\ IF cancelled
       THEN Answer(c, [error |-> "aborted"])
       ELSE /\ call' = [call EXCEPT ![c] = IF request[c].tool = "edit" THEN "reading" ELSE "parent"]
            /\ UNCHANGED answer
    /\ UNCHANGED <<file, original, directory, request, key, output, cancelled>>

(* edit: the file is read and the edits are applied to what was read.          *)
ReadAndApply(c) ==
    /\ call[c] = "reading"
    /\ \E edited \in {EditedFile(file, ParseEdits(request[c].edits).edits)} :
          IF IsError(edited)
          THEN Answer(c, edited) /\ UNCHANGED output
          ELSE /\ call' = [call EXCEPT ![c] = "opening"]
               /\ output' = [output EXCEPT ![c] = edited.file]
               /\ UNCHANGED answer
    /\ UNCHANGED <<file, original, directory, request, key, cancelled>>

(* write: create_dir_all of the parent.                                        *)
CreateParent(c) ==
    /\ call[c] = "parent"
    /\ directory' = TRUE
    /\ call' = [call EXCEPT ![c] = "opening"]
    /\ output' = [output EXCEPT ![c] = [bom |-> FALSE, text |-> request[c].content]]
    /\ UNCHANGED <<file, original, request, key, answer, cancelled>>

(* tokio::fs::write opens with truncation, then writes.                        *)
OpenTruncated(c) ==
    /\ call[c] = "opening"
    /\ \/ file' = [bom |-> FALSE, text |-> <<>>] /\ call' = [call EXCEPT ![c] = "filling"]
          /\ UNCHANGED answer
       \/ MayFail /\ Answer(c, [error |-> "write"]) /\ UNCHANGED file
    /\ UNCHANGED <<original, directory, request, key, output, cancelled>>

Fill(c) ==
    /\ call[c] = "filling"
    /\ \/ file' = output[c] /\ Answer(c, [ok |-> output[c]])
       \/ MayFail /\ Answer(c, [error |-> "write"]) /\ UNCHANGED file
    /\ UNCHANGED <<original, directory, request, key, output, cancelled>>

CancelTurn ==
    /\ ~cancelled
    /\ cancelled' = TRUE
    /\ UNCHANGED <<file, original, directory, request, call, key, output, answer>>

FileToolsNext ==
    \/ \E c \in Calls : \/ Ask(c) \/ Lock(c) \/ ReadAndApply(c) \/ CreateParent(c)
                        \/ OpenTruncated(c) \/ Fill(c)
    \/ CancelTurn

FileToolsDone == \A c \in Calls : call[c] = "answered"

FileToolsSpec == FileToolsInit /\ [][FileToolsNext]_fileVars

----------------------------------------------------------------------------
(* PROPERTIES                                                                  *)

FileToolsTypeOK ==
    /\ directory \in BOOLEAN /\ cancelled \in BOOLEAN
    /\ call \in [Calls -> {"idle", "waiting", "answered"} \cup Holding]
    /\ request \in [Calls -> Requests]
    /\ key \in [Calls -> {"none", "real"} \cup {r.path : r \in Requests}]
    /\ file # Missing => directory

Succeeded == {c \in Calls : "ok" \in DOMAIN answer[c]}
KeysAgree == \A c, d \in Calls : key[c] # "none" /\ key[d] # "none" => key[c] = key[d]

(* What the calls of one order, run one after the other from bytes, leave.      *)
RunInOrder(bytes, order) ==
    LET Then(held, c) ==
            LET edited == EditedFile(held, ParseEdits(request[c].edits).edits)
            IN IF request[c].tool = "write" THEN [bom |-> FALSE, text |-> request[c].content]
               ELSE IF IsError(edited) THEN [bom |-> FALSE, text |-> <<"impossible">>]
               ELSE edited.file
    IN FoldLeft(Then, bytes, order)

(* When nothing is in flight and no write was cut short, the file holds what    *)
(* the successful calls leave when run one after the other in some order: the   *)
(* queue loses no edit and mixes no two writes.  Holds for calls that computed  *)
(* the same key; two paths to a directory that did not exist yet give two.      *)
NoEditLost ==
    FileToolsDone /\ KeysAgree /\ (\A c \in Calls : answer[c] # [error |-> "write"])
        => \E order \in SetToSeqs(Succeeded) :
               /\ RunInOrder(original, order) = file
               /\ \A i \in DOMAIN order :
                      answer[order[i]].ok = RunInOrder(original, SubSeq(order, 1, i))

(* Between two calls the file is never seen half written: an edit that found    *)
(* its text missing or ambiguous says so of a complete text, not of the file    *)
(* another queued call had just emptied.                                        *)
NoHalfWrittenRead ==
    [][\A c \in Calls : ReadAndApply(c) /\ KeysAgree
          => \A d \in Calls \ {c} : call[d] # "filling"]_fileVars

(* Replacing every region an edit matched by its own text gives back the bytes   *)
(* that were read, byte-order mark and line endings included, in a file whose    *)
(* line endings are of one kind: nothing outside the regions is touched.         *)
RestUntouched ==
    \A c \in Calls : call[c] = "reading" /\ Uniform(file.text) =>
        LET edits == ParseEdits(request[c].edits).edits
            content == NormalizeToLf(file.text)
            Same(edit) == LET region == MatchEdit(content, edit)
                          IN SubSeq(content, region.start, region.end - 1)
            same == [k \in DOMAIN edits |-> [old |-> edits[k].old, new |-> Same(edits[k])]]
        IN ~IsError(EditedFile(file, edits)) => EditedFile(file, same).file = file

(* A region an edit replaces is its oldText up to the width of its blanks; one   *)
(* found by the fuzzy match never ends inside a run of them.                     *)
RegionIsOldText ==
    \A c \in Calls : call[c] = "reading" =>
        LET edits == ParseEdits(request[c].edits).edits
            content == NormalizeToLf(file.text)
        IN ~IsError(EditedFile(file, edits)) =>
            \A k \in DOMAIN edits :
                LET region == MatchEdit(content, edits[k])
                    replaced == SubSeq(content, region.start, region.end - 1)
                IN /\ NormalizeForFuzzyMatch(replaced) = NormalizeForFuzzyMatch(edits[k].old)
                   /\ replaced # edits[k].old /\ region.end <= Len(content) /\ replaced # <<>> =>
                          ~(content[region.end] \in Blank /\ Last(replaced) \in Blank)

(* The order in which the model lists its edits does not change the result.      *)
EditOrderFree ==
    \A c \in Calls : call[c] = "reading" =>
        LET edits == ParseEdits(request[c].edits).edits
        IN ~IsError(EditedFile(file, edits)) => EditedFile(file, Reverse(edits)) = EditedFile(file, edits)

(* No edit is lost or misplaced, whatever calls run next to it.                  *)
EditsExact ==
    [](FileToolsTypeOK /\ NoEditLost /\ RestUntouched /\ RegionIsOldText /\ EditOrderFree) /\ NoHalfWrittenRead
=============================================================================
