---------------------------- MODULE PromptCache ----------------------------
(* The cached system prompt and the stamp of the context files it was built    *)
(* from (anie-cli runtime/prompt_cache.rs, build_system_prompt and              *)
(* context_files_stamp in controller.rs, collect_context_files in anie-config). *)
EXTENDS Naturals, Sequences, SequencesExt, FiniteSetsExt

CONSTANTS
    Paths,       \* candidate context files, the working directory's first
    Sizes,       \* file sizes
    MaxFile,     \* max_file_bytes
    MaxTotal,    \* max_total_bytes
    MaxChanges     \* bound: changes to the files

ASSUME PromptAssumption ==
    /\ Paths \in Seq(Range(Paths)) /\ Sizes \subseteq Nat
    /\ {MaxFile, MaxTotal, MaxChanges} \subseteq Nat

VARIABLES
    files,    \* path -> [size, mtime, readable], or Gone
    edits,    \* how many changes were made; the clock of mtimes
    cache,    \* [parts, stamp]
    job,      \* the build or refresh under way
    dirty,    \* a file changed since the job began
    raced     \* what the cache holds is not what its stamp says

promptVars == <<files, edits, cache, job, dirty, raced>>

Gone == [size |-> 0, mtime |-> 0, readable |-> FALSE]
IdleJob == [kind |-> "idle", stamp |-> {}, todo |-> <<>>, parts |-> <<>>]

\* Path and mtime of every candidate that is there; the code lists them in the order
\* of the candidates, which is always the same.
Stamp(f) == {<<p, f[p].mtime>> : p \in {q \in Range(Paths) : f[q] # Gone}}

Loaded(parts) ==
    LET upTo[n \in 0..Len(parts)] == IF n = 0 THEN 0 ELSE upTo[n - 1] + parts[n].kept
    IN  upTo[Len(parts)]
Least(a, b) == IF a < b THEN a ELSE b

\* One candidate read: cut at its own limit and at what is left of the total.
Take(parts, path, file) ==
    IF file = Gone \/ Loaded(parts) >= MaxTotal THEN parts
    ELSE Append(parts, [path |-> path, mtime |-> file.mtime,
                        kept |-> Least(file.size, Least(MaxFile, MaxTotal - Loaded(parts)))])

\* What the first n candidates leave, when each was as reads says when it was read.
Gather(reads, n) ==
    LET upTo[k \in 0..n] == IF k = 0 THEN <<>> ELSE Take(upTo[k - 1], Paths[k], reads[k])
    IN  upTo[n]

\* The prompt of files that stand still.
Standing(f) == [k \in 1..Len(Paths) |-> f[Paths[k]]]
Collect(f) == Gather(Standing(f), Len(Paths))

PromptInit ==
    /\ files \in [Range(Paths) -> {Gone} \cup [size : Sizes, mtime : {1}, readable : {TRUE}]]
    /\ edits = 1 /\ dirty = FALSE /\ raced = FALSE
    /\ cache = [parts |-> Collect(files), stamp |-> Stamp(files)]
    /\ job = IdleJob

BeginRead(kind) ==
    /\ job' = [kind |-> kind, stamp |-> Stamp(files), todo |-> Paths, parts |-> <<>>]
    /\ dirty' = FALSE
    /\ UNCHANGED <<files, edits, cache, raced>>

\* A run is about to start and the stamp no longer matches.
RefreshIfStale == job = IdleJob /\ Stamp(files) # cache.stamp /\ BeginRead("refresh")

\* /reload: always a new build.
Replace == job = IdleJob /\ BeginRead("build")

\* A file that cannot be read ends the job; the cache stays as it is.
ReadNext ==
    /\ job.todo # <<>>
    /\ LET path == Head(job.todo)
           full == Loaded(job.parts) >= MaxTotal
           failed == files[path] # Gone /\ ~files[path].readable /\ ~full
       IN IF failed THEN job' = IdleJob
          ELSE job' = [job EXCEPT !.parts = Take(@, path, files[path]), !.todo = Tail(@)]
    /\ UNCHANGED <<files, edits, cache, dirty, raced>>

\* Variant of StoredStamp with a bug: a refresh stamps after reading too.
BugStoredStamp == Stamp(files)

\* A refresh keeps the stamp it took before it read; a build takes it now.
StoredStamp == IF job.kind = "refresh" THEN job.stamp ELSE Stamp(files)

StorePrompt ==
    /\ job # IdleJob /\ job.todo = <<>>
    /\ cache' = [parts |-> job.parts, stamp |-> StoredStamp]
    /\ raced' = IF job.kind = "refresh"
                THEN \E part \in Range(job.parts) : \A e \in job.stamp : e[1] # part.path
                ELSE dirty
    /\ job' = IdleJob
    /\ UNCHANGED <<files, edits, dirty>>

Change ==
    /\ edits < MaxChanges
    /\ \E p \in Range(Paths) :
         \/ \E size \in Sizes, readable \in BOOLEAN :
              files' = [files EXCEPT ![p] = [size |-> size, mtime |-> edits + 1, readable |-> readable]]
         \/ files[p] # Gone /\ files' = [files EXCEPT ![p] = Gone]
    /\ edits' = edits + 1
    /\ dirty' = TRUE
    /\ UNCHANGED <<cache, job, raced>>

PromptNext == RefreshIfStale \/ Replace \/ ReadNext \/ StorePrompt \/ Change

PromptSpec == PromptInit /\ [][PromptNext]_promptVars

------------------------------------------------------------------------------
\* A stamp that still matches vouches for the prompt: no run is started on a
\* prompt that misses a change, wherever the change fell between the stamp and
\* the reads of a refresh. Two windows are left out, as `raced` records: a file
\* that came and went around a refresh, and a change between the reads and the
\* stamp of a build, which no later refresh notices.
StampVouches ==
    job = IdleJob /\ cache.stamp = Stamp(files) /\ ~raced => cache.parts = Collect(files)

\* The files share the total limit, no file exceeds its own, and when they do
\* not all fit it is the ones farthest from the working directory that are cut.
PromptWithinLimits ==
    /\ Loaded(cache.parts) <= MaxTotal
    /\ \A i \in DOMAIN cache.parts :
         /\ cache.parts[i].kept <= MaxFile
         /\ Loaded(SubSeq(cache.parts, 1, i - 1)) < MaxTotal

PromptSound == StampVouches /\ PromptWithinLimits
=============================================================================
