---------------------------- MODULE ToolsProofs ----------------------------
(***************************************************************************)
(* What the tools promise, for every file tree, output, page, limit and    *)
(* number of calls: a search never passes a part for the whole, the bash   *)
(* tool's answer holds what the command wrote, the web tools keep to their *)
(* budgets, and the calls that share a file hold its lock one at a time.   *)
(***************************************************************************)
EXTENDS FileTools, SearchTools, BashTool, WebTools, FiniteSetTheorems, TLAPS

-----------------------------------------------------------------------------
(***************************************************************************)
(* FileMutationQueue: under one key one call at a time holds the lock.     *)
(***************************************************************************)
OneHolder ==
    \A c, d \in Calls : call[c] \in Holding /\ call[d] \in Holding /\ key[c] = key[d] => c = d
KeyComputed == \A c \in Calls : call[c] \in Holding \cup {"waiting"} => key[c] # "none"
WritesUnderParent == \A c \in Calls : call[c] \in {"opening", "filling"} => directory
LocksInv == FileToolsTypeOK /\ OneHolder /\ KeyComputed /\ WritesUnderParent

\* What a call asked for is what its lock is named after.
LEMMA KeyNamed ==
    ASSUME FileToolsTypeOK, NEW c \in Calls
    PROVE  LockKey(request[c].path) \in ({"real"} \cup {r.path : r \in Requests}) \ {"none"}
<1>1. request[c] \in Requests
    BY DEF FileToolsTypeOK
<1> QED BY <1>1, FileAssumption DEF LockKey

\* No call has asked for the lock.
LEMMA LocksStart == ASSUME FileToolsInit PROVE LocksInv
<1>1. FileToolsTypeOK
    <2>1. directory \in BOOLEAN /\ (file # Missing => directory)
        <3>1. directory \in IF file = Missing THEN BOOLEAN ELSE {TRUE}
            BY DEF FileToolsInit
        <3> QED BY <3>1
    <2>2. call \in [Calls -> {"idle", "waiting", "answered"} \cup Holding]
        BY DEF FileToolsInit
    <2>3. key \in [Calls -> {"none", "real"} \cup {r.path : r \in Requests}]
        BY DEF FileToolsInit
    <2>4. request \in [Calls -> Requests] /\ cancelled \in BOOLEAN
        BY DEF FileToolsInit
    <2> QED BY <2>1, <2>2, <2>3, <2>4 DEF FileToolsTypeOK
<1>2. \A c \in Calls : call[c] = "idle"
    BY DEF FileToolsInit
<1>3. OneHolder /\ KeyComputed /\ WritesUnderParent
    BY <1>2 DEF OneHolder, KeyComputed, WritesUnderParent, Holding
<1> QED BY <1>1, <1>3 DEF LocksInv

\* A call moves and leaves its key alone; it holds no more than it held.
Moves(c, place) ==
    /\ call' = [call EXCEPT ![c] = place]
    /\ UNCHANGED <<request, key, cancelled>>

\* A call that holds the lock moves on, or gives it up.
LEMMA MovesKeep ==
    ASSUME LocksInv, NEW c \in Calls, NEW place \in Holding \cup {"answered"}, Moves(c, place),
           place \in Holding => call[c] \in Holding,
           place \in {"opening", "filling"} => directory',
           directory' \in BOOLEAN, directory => directory', file' # Missing => directory'
    PROVE  LocksInv'
<1>1. /\ call \in [Calls -> {"idle", "waiting", "answered"} \cup Holding]
      /\ place \in {"idle", "waiting", "answered"} \cup Holding
    BY DEF LocksInv, FileToolsTypeOK
<1>2. call'[c] = place /\ \A d \in Calls \ {c} : call'[d] = call[d]
    BY <1>1 DEF Moves
<1>3. FileToolsTypeOK'
    BY <1>1 DEF LocksInv, FileToolsTypeOK, Moves
<1>4. \A d \in Calls : call'[d] \in Holding => call[d] \in Holding
    BY <1>2
<1>5. OneHolder'
    BY <1>4 DEF LocksInv, OneHolder, Moves
<1>6. KeyComputed'
    BY <1>2, <1>4 DEF LocksInv, KeyComputed, Moves, Holding
<1>7. WritesUnderParent'
    BY <1>2 DEF LocksInv, WritesUnderParent
<1> QED BY <1>3, <1>5, <1>6, <1>7 DEF LocksInv

\* A call computes its key, and holds nothing yet.
LEMMA AskKeeps == ASSUME LocksInv, NEW c \in Calls, Ask(c) PROVE LocksInv'
<1>1. UNCHANGED <<file, original, directory, request, output, cancelled>> /\ call[c] = "idle"
    BY DEF Ask
<1>2. /\ call \in [Calls -> {"idle", "waiting", "answered"} \cup Holding]
      /\ key \in [Calls -> {"none", "real"} \cup {r.path : r \in Requests}]
    BY DEF LocksInv, FileToolsTypeOK
<1>3. \/ call' = [call EXCEPT ![c] = "answered"] /\ key' = key
      \/ /\ call' = [call EXCEPT ![c] = "waiting"]
         /\ key' = [key EXCEPT ![c] = LockKey(request[c].path)]
    BY DEF Ask, Answer
<1>4. PICK k \in {"none", "real"} \cup {r.path : r \in Requests} :
          key' = [key EXCEPT ![c] = k] /\ (call'[c] = "waiting" => k # "none")
    <2>1. CASE call' = [call EXCEPT ![c] = "answered"] /\ key' = key
        <3>1. key[c] \in {"none", "real"} \cup {r.path : r \in Requests} /\ key = [key EXCEPT ![c] = key[c]]
            BY <1>2
        <3>2. call'[c] # "waiting"
            BY <1>2, <2>1
        <3> QED BY <2>1, <3>1, <3>2
    <2>2. CASE key' = [key EXCEPT ![c] = LockKey(request[c].path)]
        BY <2>2, KeyNamed DEF LocksInv
    <2> QED BY <1>3, <2>1, <2>2
<1>5. /\ call' \in [Calls -> {"idle", "waiting", "answered"} \cup Holding]
      /\ call'[c] \notin Holding /\ call'[c] \in {"answered", "waiting"}
      /\ \A d \in Calls \ {c} : call'[d] = call[d] /\ key'[d] = key[d]
    BY <1>2, <1>3 DEF Holding
<1>6. key' \in [Calls -> {"none", "real"} \cup {r.path : r \in Requests}] /\ key'[c] = k
    BY <1>2, <1>4
<1>7. FileToolsTypeOK'
    BY <1>1, <1>5, <1>6 DEF LocksInv, FileToolsTypeOK
<1>8. OneHolder'
    BY <1>5 DEF LocksInv, OneHolder
<1>9. KeyComputed'
    BY <1>4, <1>5, <1>6 DEF LocksInv, KeyComputed
<1>10. WritesUnderParent'
    BY <1>1, <1>5 DEF LocksInv, WritesUnderParent
<1> QED BY <1>7, <1>8, <1>9, <1>10 DEF LocksInv

\* The lock is granted to a call when no other holds its key.
LEMMA LockKeeps == ASSUME LocksInv, NEW c \in Calls, Lock(c) PROVE LocksInv'
<1>1. /\ UNCHANGED <<file, original, directory, request, key, output, cancelled>>
      /\ call[c] = "waiting" /\ Holder(key[c]) = {}
    BY DEF Lock
<1>2. call \in [Calls -> {"idle", "waiting", "answered"} \cup Holding]
    BY DEF LocksInv, FileToolsTypeOK
<1>3. PICK place \in {"answered", "reading", "parent"} : call' = [call EXCEPT ![c] = place]
    BY DEF Lock, Answer
<1>4. /\ call'[c] = place /\ \A d \in Calls \ {c} : call'[d] = call[d]
      /\ call' \in [Calls -> {"idle", "waiting", "answered"} \cup Holding]
    BY <1>2, <1>3 DEF Holding
<1>5. FileToolsTypeOK'
    BY <1>1, <1>4 DEF LocksInv, FileToolsTypeOK
<1>6. OneHolder'
    <2>1. \A d \in Calls : call[d] \in Holding => key[d] # key[c]
        BY <1>1 DEF Holder
    <2> QED BY <1>1, <1>4, <2>1 DEF LocksInv, OneHolder
<1>7. KeyComputed'
    BY <1>1, <1>4 DEF LocksInv, KeyComputed
<1>8. WritesUnderParent'
    BY <1>1, <1>3, <1>4 DEF LocksInv, WritesUnderParent
<1> QED BY <1>5, <1>6, <1>7, <1>8 DEF LocksInv

\* What was read exists, and so does its directory.
LEMMA ReadKeeps == ASSUME LocksInv, NEW c \in Calls, ReadAndApply(c) PROVE LocksInv'
<1>1. /\ UNCHANGED <<file, original, directory, request, key, cancelled>>
      /\ call[c] = "reading"
    BY DEF ReadAndApply
<1>2. PICK edited \in {EditedFile(file, ParseEdits(request[c].edits).edits)} :
          IF IsError(edited)
          THEN call' = [call EXCEPT ![c] = "answered"]
          ELSE call' = [call EXCEPT ![c] = "opening"]
    BY DEF ReadAndApply, Answer
<1>3. file = Missing => IsError(edited)
    BY <1>2 DEF EditedFile, IsError
<1>4. PICK place \in {"answered", "opening"} :
          call' = [call EXCEPT ![c] = place] /\ (place = "opening" => directory)
    <2>1. file # Missing => directory
        BY DEF LocksInv, FileToolsTypeOK
    <2> QED BY <1>2, <1>3, <2>1
<1>5. directory \in BOOLEAN /\ (file # Missing => directory)
    BY DEF LocksInv, FileToolsTypeOK
<1> QED BY <1>1, <1>4, <1>5, MovesKeep DEF Moves, Holding

\* The steps of a write leave every key alone.
LEMMA WriteKeeps ==
    ASSUME LocksInv, NEW c \in Calls, CreateParent(c) \/ OpenTruncated(c) \/ Fill(c)
    PROVE  LocksInv'
<1>1. directory \in BOOLEAN /\ (file # Missing => directory)
    BY DEF LocksInv, FileToolsTypeOK
<1>2. CASE CreateParent(c)
    BY <1>1, <1>2, MovesKeep DEF CreateParent, Moves, Holding
<1>3. CASE OpenTruncated(c) \/ Fill(c)
    <2>1. call[c] \in {"opening", "filling"} /\ UNCHANGED <<directory, request, key, cancelled>>
        BY <1>3 DEF OpenTruncated, Fill
    <2>2. directory
        BY <2>1 DEF LocksInv, WritesUnderParent
    <2>3. PICK place \in {"filling", "answered"} : call' = [call EXCEPT ![c] = place]
        BY <1>3 DEF OpenTruncated, Fill, Answer
    <2> QED BY <1>1, <2>1, <2>2, <2>3, MovesKeep DEF Moves, Holding
<1> QED BY <1>2, <1>3

\* The turn is cancelled, or nothing happens.
LEMMA RestKeeps == ASSUME LocksInv, CancelTurn \/ UNCHANGED fileVars PROVE LocksInv'
<1>1. UNCHANGED <<file, original, directory, request, call, key>> /\ cancelled' \in BOOLEAN
    BY DEF CancelTurn, fileVars, LocksInv, FileToolsTypeOK
<1> QED BY <1>1 DEF LocksInv, FileToolsTypeOK, OneHolder, KeyComputed, WritesUnderParent

\* Every step keeps the invariant.
LEMMA LocksStep == ASSUME LocksInv, [FileToolsNext]_fileVars PROVE LocksInv'
BY AskKeeps, LockKeeps, ReadKeeps, WriteKeeps, RestKeeps DEF FileToolsNext

\* A call that reads holds the key the calls agree on, and so does one that fills the file.
LEMMA NoReaderNextToFiller ==
    ASSUME LocksInv
    PROVE  \A c \in Calls : ReadAndApply(c) /\ KeysAgree => \A d \in Calls \ {c} : call[d] # "filling"
<1> SUFFICES ASSUME NEW c \in Calls, ReadAndApply(c), KeysAgree, NEW d \in Calls \ {c}, call[d] = "filling"
             PROVE  FALSE
    OBVIOUS
<1>1. call[c] \in Holding /\ call[d] \in Holding
    BY DEF ReadAndApply, Holding
<1>2. key[c] = key[d]
    BY <1>1 DEF LocksInv, KeyComputed, KeysAgree
<1> QED BY <1>1, <1>2 DEF LocksInv, OneHolder

\* Under one key one call at a time holds the lock of FileMutationQueue::with_lock, and an
\* edit never reads the file another queued call has just emptied.
THEOREM LocksExclude == FileToolsSpec => [](FileToolsTypeOK /\ OneHolder) /\ NoHalfWrittenRead
<1>1. FileToolsInit => LocksInv
    BY LocksStart
<1>2. LocksInv /\ [FileToolsNext]_fileVars => LocksInv'
    BY LocksStep
<1>3. LocksInv => FileToolsTypeOK /\ OneHolder
    BY DEF LocksInv
<1>4. LocksInv => [\A c \in Calls : ReadAndApply(c) /\ KeysAgree
                      => \A d \in Calls \ {c} : call[d] # "filling"]_fileVars
    BY NoReaderNextToFiller
<1> QED BY <1>1, <1>2, <1>3, <1>4, PTL DEF FileToolsSpec, NoHalfWrittenRead

-----------------------------------------------------------------------------
(***************************************************************************)
(* The search tools.  The walk passes the places of the tree in order; what *)
(* it has passed and not shown, it was told to leave by the flag or a limit. *)
(***************************************************************************)
Line == [kind : {"match", "before", "after"}, bytes : Nat]
Entry == [hidden : BOOLEAN, lines : Seq(Line)]
IsTree(t) ==
    /\ t \in Seq(Entry)
    /\ \A e \in DOMAIN t : \A i \in DOMAIN t[e].lines :
           t[e].lines[i].kind = "after" => \E j \in 1..i - 1 : t[e].lines[j].kind = "match"

\* A place of the tree; it is in the output; the walk has passed it.
Place(e, i) == e \in DOMAIN tree /\ i \in PlacesIn(e)
InOutput(e, i) == <<e, i>> \in Range(shown)
Passed(e, i) == e < entry \/ (e = entry /\ i < line)
Matches(e, i) == Place(e, i) /\ tree[e].lines[i].kind = "match"
Grep == search.tool = "grep"

SearchTyped ==
    /\ IsTree(tree)
    /\ entry \in 1..Len(tree) + 1 /\ line \in Nat
    /\ (line > 0 => Grep /\ entry \in DOMAIN tree /\ line \in DOMAIN tree[entry].lines)
    /\ shown \in Seq(Nat \X Nat) /\ size \in Nat
    /\ matchCount \in Nat /\ filesWithMatches \in Nat
    /\ flagSet \in BOOLEAN /\ tokenSet \in BOOLEAN
    /\ (flagSet => tokenSet /\ search.tool # "ls")

\* The output holds places the walk has passed, in order.
OutputPassed == \A e, i \in Nat : InOutput(e, i) => Place(e, i) /\ Passed(e, i)
OutputOrdered == \A k, n \in DOMAIN shown : k < n => Before(shown[k], shown[n])

\* Until the flag is set nothing is passed over.
OutputClosed ==
    ~flagSet => \A e, i, f, j \in Nat :
        InOutput(f, j) /\ Place(e, i) /\ Before(<<e, i>>, <<f, j>>) => InOutput(e, i)
NothingSkipped ==
    /\ truncatedReason # "none" => found # "walking"
    /\ ~flagSet /\ found = "walking" =>
           \A e, i \in Nat : Place(e, i) /\ Passed(e, i) => InOutput(e, i)
AllShown ==
    ~flagSet /\ Answered /\ truncatedReason = "none" =>
        \A e, i \in Nat : Place(e, i) => InOutput(e, i)

\* Once it is set, at most the entry being walked is cut short.
FlagSeen ==
    flagSet /\ Grep /\ found = "walking" =>
        \A e, i \in Nat : Place(e, i) /\ (e < entry - 1 \/ (line > 0 /\ e < entry)) => InOutput(e, i)
LastCut ==
    flagSet /\ Grep /\ Answered /\ truncatedReason = "none" =>
        \A e, i \in Nat : Place(e, i) /\ e < Len(tree) => InOutput(e, i)

\* Without a match in the output, what fills it is context before the first one.
Unmatched ==
    Grep => /\ matchCount = 0 => \A e, i \in Nat : InOutput(e, i) => ~Matches(e, i)
            /\ shown = <<>> => size = 0
NoneFound ==
    found = "no_matches" /\ ~flagSet /\ Grep =>
        \A e, i \in Nat : Matches(e, i) =>
            \E f \in 1..e : \E j \in DOMAIN tree[f].lines : tree[f].lines[j].kind = "before"

SearchInv ==
    /\ SearchTyped /\ OutputPassed /\ OutputOrdered /\ OutputClosed /\ NothingSkipped /\ AllShown
    /\ FlagSeen /\ LastCut /\ Unmatched /\ NoneFound /\ FilesCounted

\* The shape of the tree and of its places.
LEMMA TreeFields ==
    ASSUME SearchTyped
    PROVE  /\ tree \in Seq(Entry) /\ Len(tree) \in Nat /\ DOMAIN tree = 1..Len(tree)
           /\ \A e \in DOMAIN tree : /\ tree[e].lines \in Seq(Line) /\ Len(tree[e].lines) \in Nat
                                     /\ DOMAIN tree[e].lines = 1..Len(tree[e].lines)
                                     /\ e \in Nat \ {0}
           /\ \A e, i : Place(e, i) => e \in Nat \ {0} /\ i \in Nat
           /\ entry \in Nat \ {0} /\ entry <= Len(tree) + 1
<1>1. tree \in Seq(Entry)
    BY DEF SearchTyped, IsTree
<1>2. Len(tree) \in Nat /\ DOMAIN tree = 1..Len(tree) /\ \A e \in DOMAIN tree : tree[e] \in Entry
    BY <1>1
<1>3. ASSUME NEW e \in DOMAIN tree
      PROVE  /\ tree[e].lines \in Seq(Line) /\ Len(tree[e].lines) \in Nat
             /\ DOMAIN tree[e].lines = 1..Len(tree[e].lines) /\ e \in Nat \ {0}
    <2>1. tree[e].lines \in Seq(Line)
        BY <1>2 DEF Entry
    <2> QED BY <1>2, <2>1
<1>4. ASSUME NEW e, NEW i, Place(e, i) PROVE e \in Nat \ {0} /\ i \in Nat
    <2>1. e \in Nat \ {0} /\ e \in DOMAIN tree
        BY <1>2, <1>4 DEF Place
    <2>2. i \in DOMAIN tree[e].lines \/ i = 0
        BY <1>4 DEF Place, PlacesIn
    <2>3. DOMAIN tree[e].lines = 1..Len(tree[e].lines) /\ Len(tree[e].lines) \in Nat
        BY <1>3, <2>1
    <2> QED BY <2>1, <2>2, <2>3
<1>5. entry \in 1..Len(tree) + 1
    BY DEF SearchTyped
<1> QED BY <1>1, <1>2, <1>3, <1>4, <1>5

\* What Append does to a sequence.
LEMMA Appended ==
    ASSUME NEW S, NEW s \in Seq(S), NEW x \in S
    PROVE  /\ Append(s, x) \in Seq(S) /\ Append(s, x) # <<>>
           /\ DOMAIN s = 1..Len(s) /\ Len(s) \in Nat /\ DOMAIN Append(s, x) = 1..Len(s) + 1
           /\ \A k \in 1..Len(s) : Append(s, x)[k] = s[k]
           /\ Append(s, x)[Len(s) + 1] = x
OBVIOUS

\* What one more place in the output changes.
LEMMA LongerOutput ==
    ASSUME NEW s \in Seq(Nat \X Nat), NEW a \in Nat, NEW b \in Nat
    PROVE  /\ Append(s, <<a, b>>) \in Seq(Nat \X Nat) /\ Append(s, <<a, b>>) # <<>>
           /\ Range(Append(s, <<a, b>>)) = Range(s) \cup {<<a, b>>}
           /\ DOMAIN s = 1..Len(s) /\ Len(s) \in Nat
           /\ DOMAIN Append(s, <<a, b>>) = 1..Len(s) + 1
           /\ \A k \in 1..Len(s) : Append(s, <<a, b>>)[k] = s[k]
           /\ Append(s, <<a, b>>)[Len(s) + 1] = <<a, b>>
<1> DEFINE x == <<a, b>>
<1>1. x \in Nat \X Nat
    OBVIOUS
<1> HIDE DEF x
<1>2. /\ Append(s, x) \in Seq(Nat \X Nat) /\ Append(s, x) # <<>>
      /\ DOMAIN s = 1..Len(s) /\ Len(s) \in Nat /\ DOMAIN Append(s, x) = 1..Len(s) + 1
      /\ \A k \in 1..Len(s) : Append(s, x)[k] = s[k]
      /\ Append(s, x)[Len(s) + 1] = x
    <2>1. PICK S : S = Nat \X Nat
        OBVIOUS
    <2>2. s \in Seq(S) /\ x \in S
        BY <1>1, <2>1
    <2>3. Append(s, x) \in Seq(S)
        BY <2>2
    <2> QED BY <2>1, <2>2, <2>3, Appended
<1>3. 1..Len(s) + 1 = (1..Len(s)) \cup {Len(s) + 1}
    BY <1>2
<1>4. Range(Append(s, x)) = Range(s) \cup {x}
    <2>1. ASSUME NEW y \in Range(Append(s, x)) PROVE y \in Range(s) \cup {x}
        BY <1>2, <1>3 DEF Range
    <2>2. ASSUME NEW y \in Range(s) PROVE y \in Range(Append(s, x))
        BY <1>2, <1>3 DEF Range
    <2>3. x \in Range(Append(s, x))
        BY <1>2, <1>3 DEF Range
    <2> QED BY <2>1, <2>2, <2>3
<1> QED BY <1>2, <1>4 DEF x

\* Growth: the output gains the place the walk is at.
Grows(a, b) == shown' = Append(shown, <<a, b>>)

\* One more place is in the output.
LEMMA OutputGrows ==
    ASSUME SearchInv, NEW a \in Nat, NEW b \in Nat, Grows(a, b)
    PROVE  /\ shown' \in Seq(Nat \X Nat) /\ shown' # <<>>
           /\ \A e, i \in Nat : InOutput(e, i)' <=> InOutput(e, i) \/ (e = a /\ i = b)
<1>1. shown \in Seq(Nat \X Nat)
    BY DEF SearchInv, SearchTyped
<1>2. shown' \in Seq(Nat \X Nat) /\ shown' # <<>> /\ Range(shown') = Range(shown) \cup {<<a, b>>}
    BY <1>1, LongerOutput DEF Grows
<1>3. ASSUME NEW e \in Nat, NEW i \in Nat PROVE <<e, i>> = <<a, b>> <=> e = a /\ i = b
    OBVIOUS
<1> QED BY <1>2, <1>3 DEF InOutput

\* In order: what was shown had been passed.
LEMMA OrderGrows ==
    ASSUME SearchInv, NEW a \in Nat, NEW b \in Nat, Grows(a, b),
           \A e, i \in Nat : Passed(e, i) /\ Place(e, i) => Before(<<e, i>>, <<a, b>>)
    PROVE  OutputOrdered'
<1>1. shown \in Seq(Nat \X Nat)
    BY DEF SearchInv, SearchTyped
<1> DEFINE n == Len(shown)
<1>2. /\ DOMAIN shown = 1..n /\ n \in Nat /\ DOMAIN shown' = 1..n + 1
      /\ \A k \in 1..n : shown'[k] = shown[k]
      /\ shown'[n + 1] = <<a, b>>
    BY <1>1, LongerOutput DEF Grows
<1>3. ASSUME NEW k \in 1..n PROVE Before(shown[k], <<a, b>>)
    <2>1. shown[k] \in Nat \X Nat
        BY <1>1
    <2>2. PICK e \in Nat, i \in Nat : shown[k] = <<e, i>>
        BY <2>1
    <2>3. InOutput(e, i)
        BY <1>2, <2>2 DEF InOutput, Range
    <2>4. Passed(e, i) /\ Place(e, i)
        BY <2>3 DEF SearchInv, OutputPassed
    <2> QED BY <2>2, <2>4
<1> HIDE DEF n
<1>4. ASSUME NEW k \in 1..n + 1, NEW m \in 1..n + 1, k < m PROVE Before(shown'[k], shown'[m])
    <2>1. CASE m = n + 1
        <3>1. k \in 1..n
            BY <1>2, <1>4, <2>1
        <3> QED BY <1>2, <1>3, <2>1, <3>1
    <2>2. CASE m # n + 1
        <3>1. k \in 1..n /\ m \in 1..n
            BY <1>2, <1>4, <2>2
        <3>2. Before(shown[k], shown[m])
            BY <1>2, <1>4, <3>1 DEF SearchInv, OutputOrdered
        <3> QED BY <1>2, <3>1, <3>2
    <2> QED BY <2>1, <2>2
<1> QED BY <1>2, <1>4 DEF OutputOrdered

\* The tree and the request never change.
LEMMA PlaceStays ==
    ASSUME UNCHANGED <<search, tree>>
    PROVE  /\ \A e, i : Place(e, i)' <=> Place(e, i)
           /\ \A e, i : Matches(e, i)' <=> Matches(e, i)
           /\ Grep' <=> Grep
BY DEF Place, PlacesIn, Matches, Grep

\* The walk shows the place it is at and goes on from there.
LEMMA PlaceShown ==
    ASSUME SearchInv, UNCHANGED <<search, tree, flagSet>>, ~flagSet, found = "walking",
           NEW a \in Nat, NEW b \in Nat, a = entry, b = line, Place(a, b), Grows(a, b),
           \A e, i \in Nat : Place(e, i) /\ Passed(e, i) => Passed(e, i)',
           Passed(a, b)'
    PROVE  /\ OutputPassed' /\ OutputOrdered' /\ OutputClosed'
           /\ \A e, i \in Nat : Place(e, i) /\ (Passed(e, i) \/ (e = a /\ i = b)) => InOutput(e, i)'
<1>2. \A e, i \in Nat : InOutput(e, i)' <=> InOutput(e, i) \/ (e = a /\ i = b)
    BY OutputGrows
<1>3. \A e, i \in Nat : Passed(e, i) <=> Before(<<e, i>>, <<a, b>>)
    BY DEF Passed, Before
<1>4. OutputPassed'
    BY <1>2, PlaceStays DEF SearchInv, OutputPassed
<1>5. OutputOrdered'
    BY <1>3, OrderGrows
<1>6. \A e, i \in Nat : Place(e, i) /\ Passed(e, i) => InOutput(e, i)
    BY DEF SearchInv, NothingSkipped
<1>7. OutputClosed'
    <2> SUFFICES ASSUME NEW e \in Nat, NEW i \in Nat, NEW f \in Nat, NEW j \in Nat,
                        InOutput(f, j)', Place(e, i), Before(<<e, i>>, <<f, j>>)
                 PROVE  InOutput(e, i)'
        BY PlaceStays DEF OutputClosed, Before
    <2>1. CASE InOutput(f, j)
        BY <1>2, <2>1 DEF SearchInv, OutputClosed
    <2>2. CASE f = a /\ j = b
        BY <1>2, <1>3, <1>6, <2>2
    <2> QED BY <1>2, <2>1, <2>2
<1>8. \A e, i \in Nat : Place(e, i) /\ (Passed(e, i) \/ (e = a /\ i = b)) => InOutput(e, i)'
    BY <1>2, <1>6
<1> QED BY <1>4, <1>5, <1>7, <1>8

\* The walk goes on and shows nothing.
LEMMA NothingShown ==
    ASSUME SearchInv, UNCHANGED <<search, tree, shown>>, flagSet' \in BOOLEAN, flagSet => flagSet',
           \A e, i \in Nat : Place(e, i) /\ Passed(e, i) => Passed(e, i)'
    PROVE  /\ OutputPassed' /\ OutputOrdered' /\ OutputClosed'
           /\ \A e, i : InOutput(e, i)' <=> InOutput(e, i)
<1>1. \A e, i : InOutput(e, i)' <=> InOutput(e, i)
    BY DEF InOutput
<1>2. OutputPassed'
    BY <1>1, PlaceStays DEF SearchInv, OutputPassed
<1>3. OutputOrdered'
    BY DEF SearchInv, OutputOrdered
<1>4. OutputClosed'
    BY <1>1, PlaceStays DEF SearchInv, OutputClosed, Before
<1> QED BY <1>1, <1>2, <1>3, <1>4

\* The files counted are among those left; one more is left.
MatchedFiles(n) ==
    {e \in 1..n : \E i \in DOMAIN tree[e].lines :
        <<e, i>> \in Range(shown) /\ tree[e].lines[i].kind = "match"}

\* One more file is at most one more.
LEMMA OneMore ==
    ASSUME NEW S, IsFiniteSet(S), NEW x
    PROVE  /\ IsFiniteSet(S \cup {x}) /\ Cardinality(S \cup {x}) <= Cardinality(S) + 1
           /\ Cardinality(S \cup {x}) \in Nat /\ Cardinality(S) \in Nat
BY FS_AddElement, FS_CardinalityType

\* The files a match was shown of are finitely many.
LEMMA FilesFinite ==
    ASSUME NEW n \in Nat
    PROVE  IsFiniteSet(MatchedFiles(n)) /\ Cardinality(MatchedFiles(n)) \in Nat
<1>1. IsFiniteSet(1..n)
    BY FS_Interval
<1>2. IsFiniteSet(MatchedFiles(n))
    BY <1>1, FS_Subset DEF MatchedFiles
<1> QED BY <1>2, FS_CardinalityType

\* The count stands while no file is left.
LEMMA FilesStay ==
    ASSUME SearchInv, UNCHANGED <<search, tree, entry, filesWithMatches>>,
           \A e, i \in Nat : e < entry => (InOutput(e, i)' <=> InOutput(e, i))
    PROVE  FilesCounted'
<1>1. entry \in Nat \ {0}
    BY TreeFields DEF SearchInv
<1>2. ASSUME NEW e \in 1..entry - 1, NEW i \in DOMAIN tree[e].lines
      PROVE  <<e, i>> \in Range(shown)' <=> <<e, i>> \in Range(shown)
    <2>1. e \in Nat /\ e < entry /\ e \in DOMAIN tree
        BY <1>1, <1>2, TreeFields DEF SearchInv
    <2>2. i \in Nat
        BY <2>1, TreeFields DEF SearchInv
    <2> QED BY <2>1, <2>2 DEF InOutput
<1>3. MatchedFiles(entry - 1)' = MatchedFiles(entry - 1)
    BY <1>2 DEF MatchedFiles
<1> QED BY <1>3 DEF SearchInv, FilesCounted, MatchedFiles

\* A file is left, and counted if a match was seen in it.
LEMMA FilesGrow ==
    ASSUME SearchInv, UNCHANGED <<search, tree>>, NEW n \in Nat, n = entry, entry' = n + 1,
           n \in DOMAIN tree, NEW matched \in BOOLEAN,
           filesWithMatches' = filesWithMatches + (IF matched THEN 1 ELSE 0),
           \A e, i \in Nat : e < n => (InOutput(e, i)' <=> InOutput(e, i)),
           \A i \in Nat : InOutput(n, i)' /\ Matches(n, i) => matched
    PROVE  Grep => FilesCounted'
<1> SUFFICES ASSUME Grep PROVE FilesCounted'
    OBVIOUS
<1>1. n \in Nat \ {0} /\ filesWithMatches \in Nat
    BY TreeFields DEF SearchInv, SearchTyped
<1>2. ASSUME NEW e \in 1..n, NEW i \in DOMAIN tree[e].lines
      PROVE  /\ e \in Nat /\ i \in Nat /\ Place(e, i)
             /\ e # n => e < n /\ e \in 1..n - 1
    <2>1. e \in Nat /\ (e # n => e < n /\ e \in 1..n - 1) /\ e \in DOMAIN tree
        BY <1>1, <1>2, TreeFields DEF SearchInv
    <2>2. i \in Nat
        BY <2>1, TreeFields DEF SearchInv
    <2> QED BY <2>1, <2>2 DEF Place, PlacesIn, Grep
<1>3. MatchedFiles(n)' \subseteq MatchedFiles(n - 1) \cup (IF matched THEN {n} ELSE {})
    <2> SUFFICES ASSUME NEW e \in 1..n, NEW i \in DOMAIN tree[e].lines,
                        <<e, i>> \in Range(shown'), tree[e].lines[i].kind = "match"
                 PROVE  e \in MatchedFiles(n - 1) \/ (e = n /\ matched)
        BY DEF MatchedFiles
    <2>1. CASE e = n
        BY <1>2, <2>1 DEF InOutput, Matches
    <2>2. CASE e # n
        <3>1. <<e, i>> \in Range(shown)
            BY <1>2, <2>2 DEF InOutput
        <3> QED BY <1>2, <2>2, <3>1 DEF MatchedFiles
    <2> QED BY <2>1, <2>2
<1>4. n - 1 \in Nat
    BY <1>1
<1>5. /\ Cardinality(MatchedFiles(n - 1)) <= filesWithMatches
      /\ filesWithMatches <= n - 1 /\ Cardinality(MatchedFiles(n - 1)) \in Nat
    <2>1. Cardinality(MatchedFiles(n - 1)) \in Nat
        BY <1>4, FilesFinite
    <2>2. filesWithMatches >= Cardinality(MatchedFiles(n - 1)) /\ filesWithMatches <= n - 1
        BY DEF SearchInv, FilesCounted, MatchedFiles, Grep
    <2> QED BY <1>1, <2>1, <2>2
<1>6. /\ IsFiniteSet(MatchedFiles(n - 1) \cup {n})
      /\ Cardinality(MatchedFiles(n - 1) \cup {n}) <= Cardinality(MatchedFiles(n - 1)) + 1
      /\ Cardinality(MatchedFiles(n - 1) \cup {n}) \in Nat
    <2>1. IsFiniteSet(MatchedFiles(n - 1))
        BY <1>4, FilesFinite
    <2> QED BY <2>1, OneMore
<1>7. Cardinality(MatchedFiles(n)') <= filesWithMatches' /\ filesWithMatches' <= n
    <2>1. CASE matched
        <3>1. /\ Cardinality(MatchedFiles(n)') <= Cardinality(MatchedFiles(n - 1) \cup {n})
              /\ Cardinality(MatchedFiles(n)') \in Nat
            BY <1>3, <1>6, <2>1, FS_Subset, FS_CardinalityType
        <3>2. filesWithMatches' = filesWithMatches + 1
            BY <2>1
        <3> QED BY <1>1, <1>5, <1>6, <3>1, <3>2
    <2>2. CASE ~matched
        <3>1. IsFiniteSet(MatchedFiles(n - 1)) /\ MatchedFiles(n)' \subseteq MatchedFiles(n - 1)
            BY <1>3, <1>4, <2>2, FilesFinite
        <3>2. /\ Cardinality(MatchedFiles(n)') <= Cardinality(MatchedFiles(n - 1))
              /\ Cardinality(MatchedFiles(n)') \in Nat
            BY <3>1, FS_Subset, FS_CardinalityType
        <3>3. filesWithMatches' = filesWithMatches
            BY <1>1, <2>2
        <3> QED BY <1>1, <1>5, <3>2, <3>3
    <2> QED BY <2>1, <2>2
<1>8. entry' - 1 = n
    BY <1>1
<1>9. MatchedFiles(n)' = {e \in 1..entry' - 1 : \E i \in DOMAIN tree'[e].lines :
            <<e, i>> \in Range(shown') /\ tree'[e].lines[i].kind = "match"}
    BY <1>8 DEF MatchedFiles
<1> QED BY <1>7, <1>8, <1>9 DEF FilesCounted


\* Nothing is shown and nothing passed.
LEMMA SearchStart == ASSUME SearchToolsInit PROVE SearchInv
<1> USE DEF SearchToolsInit
<1>1. IsTree(tree)
    BY SearchAssumption DEF IsTree, Entry, Line
<1>2. tree \in Seq(Entry) /\ Len(tree) \in Nat
    BY <1>1 DEF IsTree
<1>3. SearchTyped
    <2>1. entry \in 1..Len(tree) + 1
        BY <1>2
    <2>2. <<>> \in Seq(Nat \X Nat)
        OBVIOUS
    <2>3. line \in Nat /\ ~(line > 0) /\ size \in Nat /\ matchCount \in Nat /\ filesWithMatches \in Nat
        OBVIOUS
    <2>4. flagSet \in BOOLEAN /\ tokenSet \in BOOLEAN /\ ~flagSet
        OBVIOUS
    <2>5. shown \in Seq(Nat \X Nat)
        BY <2>2
    <2> HIDE DEF SearchToolsInit
    <2> QED BY <1>1, <2>1, <2>3, <2>4, <2>5 DEF SearchTyped
<1>4. \A e, i : ~InOutput(e, i)
    BY DEF InOutput, Range
<1>5. \A e, i \in Nat : Place(e, i) => ~Passed(e, i)
    <2> SUFFICES ASSUME NEW e \in Nat, NEW i \in Nat, Place(e, i), Passed(e, i) PROVE FALSE
        OBVIOUS
    <2>1. e \in Nat \ {0}
        BY <1>3, TreeFields
    <2> QED BY <2>1 DEF Passed
<1>6. OutputPassed /\ OutputOrdered /\ OutputClosed /\ NothingSkipped /\ AllShown
    BY <1>4, <1>5 DEF OutputPassed, OutputOrdered, OutputClosed, NothingSkipped, AllShown, Answered
<1>7. FlagSeen /\ LastCut /\ Unmatched /\ NoneFound
    BY <1>4 DEF FlagSeen, LastCut, Unmatched, NoneFound
<1>8. FilesCounted
    <2>1. MatchedFiles(0) = {}
        BY DEF MatchedFiles
    <2>2. entry - 1 = 0
        OBVIOUS
    <2>3. Cardinality(MatchedFiles(entry - 1)) = 0
        BY <2>1, <2>2, FS_EmptySet
    <2> QED BY <2>2, <2>3 DEF FilesCounted, MatchedFiles
<1> QED BY <1>3, <1>6, <1>7, <1>8 DEF SearchInv

\* The walk and its output stay; the token, the flag or the outcome may change.
LEMMA StandsStill ==
    ASSUME SearchInv,
           UNCHANGED <<search, tree, entry, line, shown, size, matchCount, filesWithMatches>>,
           flagSet' \in BOOLEAN, flagSet => flagSet'
    PROVE  /\ OutputPassed' /\ OutputOrdered' /\ OutputClosed' /\ Unmatched' /\ FilesCounted'
           /\ \A e, i : InOutput(e, i)' <=> InOutput(e, i)
           /\ \A e, i : Passed(e, i)' <=> Passed(e, i)
<1>1. \A e, i : Passed(e, i)' <=> Passed(e, i)
    BY DEF Passed
<1>2. /\ OutputPassed' /\ OutputOrdered' /\ OutputClosed'
      /\ \A e, i : InOutput(e, i)' <=> InOutput(e, i)
    BY <1>1, NothingShown
<1>3. Unmatched'
    BY <1>2, PlaceStays DEF SearchInv, Unmatched
<1>4. FilesCounted'
    BY <1>2, FilesStay
<1> QED BY <1>1, <1>2, <1>3, <1>4

\* The token is set, or nothing happens.
LEMMA CancelKeeps == ASSUME SearchInv, Cancel \/ UNCHANGED searchVars PROVE SearchInv'
<1>1. /\ UNCHANGED <<search, tree, entry, line, shown, size, matchCount, filesWithMatches>>
      /\ UNCHANGED <<truncatedReason, flagSet, found>> /\ tokenSet' \in {tokenSet, TRUE}
    BY DEF Cancel, searchVars
<1>2. SearchTyped'
    BY <1>1, PlaceStays DEF SearchInv, SearchTyped
<1>3. flagSet \in BOOLEAN
    BY DEF SearchInv, SearchTyped
<1>4. /\ OutputPassed' /\ OutputOrdered' /\ OutputClosed' /\ Unmatched' /\ FilesCounted'
      /\ \A e, i : InOutput(e, i)' <=> InOutput(e, i)
      /\ \A e, i : Passed(e, i)' <=> Passed(e, i)
    BY <1>1, <1>3, StandsStill
<1>5. NothingSkipped' /\ AllShown' /\ FlagSeen' /\ LastCut'
    BY <1>1, <1>4, PlaceStays DEF SearchInv, NothingSkipped, AllShown, Answered, FlagSeen, LastCut
<1>6. NoneFound'
    BY <1>1, PlaceStays DEF SearchInv, NoneFound
<1> QED BY <1>2, <1>4, <1>5, <1>6 DEF SearchInv

\* The flag is set: until now nothing was passed over.
LEMMA WatchKeeps == ASSUME SearchInv, Watch PROVE SearchInv'
<1>1. /\ UNCHANGED <<search, tree, entry, line, shown, size, matchCount, filesWithMatches>>
      /\ UNCHANGED <<truncatedReason, tokenSet, found>> /\ flagSet' = TRUE /\ ~flagSet
      /\ found = "walking" /\ tokenSet /\ search.tool \in {"grep", "find"}
    BY DEF Watch, Cancellable
<1>2. SearchTyped'
    BY <1>1, PlaceStays DEF SearchInv, SearchTyped
<1>3. /\ OutputPassed' /\ OutputOrdered' /\ OutputClosed' /\ Unmatched' /\ FilesCounted'
      /\ \A e, i : InOutput(e, i)' <=> InOutput(e, i)
    BY <1>1, StandsStill
<1>4. NothingSkipped' /\ AllShown' /\ LastCut' /\ NoneFound'
    BY <1>1 DEF SearchInv, NothingSkipped, AllShown, Answered, LastCut, NoneFound
<1>5. FlagSeen'
    <2> SUFFICES ASSUME NEW e \in Nat, NEW i \in Nat, Place(e, i), e < entry - 1 \/ e < entry
                 PROVE  InOutput(e, i)
        BY <1>1, <1>3, PlaceStays DEF FlagSeen
    <2>1. entry \in Nat
        BY TreeFields DEF SearchInv
    <2>2. Passed(e, i)
        BY <2>1 DEF Passed
    <2> QED BY <1>1, <2>2 DEF SearchInv, NothingSkipped
<1> QED BY <1>2, <1>3, <1>4, <1>5 DEF SearchInv

\* A walk that has passed everything has nothing left to find.
LEMMA EndKeeps == ASSUME SearchInv, EndWalk PROVE SearchInv'
<1>1. /\ UNCHANGED <<search, tree, entry, line, shown, size, matchCount, filesWithMatches>>
      /\ UNCHANGED <<truncatedReason, tokenSet, flagSet>> /\ found = "walking" /\ line = 0
      /\ \/ found' = "aborted"
         \/ entry > Len(tree) /\ found' = IF matchCount = 0 THEN "no_matches" ELSE "results"
    BY DEF EndWalk, Finish
<1>2. SearchTyped'
    BY <1>1, PlaceStays DEF SearchInv, SearchTyped
<1>3. flagSet \in BOOLEAN
    BY DEF SearchInv, SearchTyped
<1>4. /\ OutputPassed' /\ OutputOrdered' /\ OutputClosed' /\ Unmatched' /\ FilesCounted'
      /\ \A e, i : InOutput(e, i)' <=> InOutput(e, i)
    BY <1>1, <1>3, StandsStill
<1>5. /\ entry \in Nat /\ Len(tree) \in Nat /\ entry <= Len(tree) + 1
      /\ \A e, i : Place(e, i) => e <= Len(tree) /\ e \in Nat /\ i \in Nat
    <2>1. \A e \in DOMAIN tree : e <= Len(tree)
        BY TreeFields DEF SearchInv
    <2> QED BY <2>1, TreeFields DEF SearchInv, Place
<1>6. entry > Len(tree) => \A e, i \in Nat : Place(e, i) => Passed(e, i)
    BY <1>5 DEF Passed
<1>7. NothingSkipped' /\ FlagSeen'
    BY <1>1, <1>4 DEF NothingSkipped, FlagSeen
<1>8. AllShown'
    BY <1>1, <1>4, <1>6, PlaceStays DEF SearchInv, NothingSkipped, AllShown, Answered
<1>9. LastCut'
    <2> SUFFICES ASSUME entry > Len(tree), flagSet, Grep, NEW e \in Nat, NEW i \in Nat, Place(e, i), e < Len(tree)
                 PROVE  InOutput(e, i)
        BY <1>1, <1>4, PlaceStays DEF LastCut, Answered
    <2>1. e < entry - 1
        BY <1>5
    <2> QED BY <1>1, <2>1 DEF SearchInv, FlagSeen
<1>10. NoneFound'
    <2> SUFFICES ASSUME entry > Len(tree), matchCount = 0, ~flagSet, Grep, NEW e \in Nat, NEW i \in Nat, Matches(e, i)
                 PROVE  FALSE
        BY <1>1, PlaceStays DEF NoneFound
    <2>1. InOutput(e, i)
        BY <1>1, <1>6 DEF SearchInv, NothingSkipped, Matches
    <2> QED BY <2>1 DEF SearchInv, Unmatched
<1> QED BY <1>2, <1>4, <1>7, <1>8, <1>9, <1>10 DEF SearchInv


\* find and ls: the walk passes the entry it is at.
LEMMA EntryPassed ==
    ASSUME SearchInv, line = 0, entry' = entry + 1, line' = line
    PROVE  /\ \A e, i \in Nat : Passed(e, i) => Passed(e, i)'
           /\ \A e, i \in Nat : Passed(e, i)' => Passed(e, i) \/ e = entry
           /\ \A i \in Nat : \A e \in Nat : e = entry => Passed(e, i)'
BY TreeFields DEF SearchInv, Passed

\* find and ls have one place in an entry.
LEMMA OnePlace ==
    ASSUME SearchInv, ~Grep
    PROVE  /\ line = 0 /\ \A e, i : Place(e, i) => i = 0
           /\ ~Grep /\ FlagSeen /\ LastCut /\ Unmatched /\ NoneFound /\ FilesCounted
BY DEF SearchInv, SearchTyped, Place, PlacesIn, Grep, FlagSeen, LastCut, Unmatched, NoneFound, FilesCounted

\* The walk without a search of lines stops at a limit, skips an entry or shows it.
LEMMA EntryKeeps == ASSUME SearchInv, FindEntry \/ ListEntry PROVE SearchInv'
<1>1. /\ UNCHANGED <<search, tree, line, filesWithMatches, tokenSet, flagSet>>
      /\ found = "walking" /\ entry <= Len(tree) /\ ~flagSet /\ ~Grep
    BY DEF FindEntry, ListEntry, SearchInv, SearchTyped, Grep
<1>2. /\ line = 0 /\ \A e, i : Place(e, i) => i = 0
    BY <1>1, OnePlace
<1>3. entry \in DOMAIN tree /\ entry \in Nat /\ size \in Nat /\ matchCount \in Nat
    BY <1>1, TreeFields DEF SearchInv, SearchTyped
<1>4. (FlagSeen /\ LastCut /\ Unmatched /\ NoneFound /\ FilesCounted)'
    BY <1>1, PlaceStays DEF FlagSeen, LastCut, Unmatched, NoneFound, FilesCounted, Grep
<1>5. CASE /\ UNCHANGED <<entry, shown, matchCount, size>> /\ truncatedReason' # "none"
           /\ found' # "walking"
    <2>1. SearchTyped'
        BY <1>1, <1>5 DEF SearchInv, SearchTyped, Grep
    <2>2. OutputPassed' /\ OutputOrdered' /\ OutputClosed'
        <3>1. flagSet' \in BOOLEAN /\ (flagSet => flagSet')
            BY <1>1 DEF SearchInv, SearchTyped
        <3> QED BY <1>1, <1>5, <3>1, StandsStill
    <2>3. NothingSkipped' /\ AllShown'
        BY <1>1, <1>5 DEF NothingSkipped, AllShown
    <2> QED BY <1>4, <2>1, <2>2, <2>3 DEF SearchInv
<1>6. CASE /\ entry' = entry + 1 /\ UNCHANGED <<shown, matchCount, size, truncatedReason, found>>
           /\ search.tool = "ls" /\ tree[entry].hidden /\ ~search.hidden
    <2>1. SearchTyped'
        BY <1>1, <1>2, <1>3, <1>6, TreeFields DEF SearchInv, SearchTyped, Grep
    <2>2. \A e, i \in Nat : (Passed(e, i) => Passed(e, i)') /\ (Passed(e, i)' => Passed(e, i) \/ e = entry)
        BY <1>1, <1>2, <1>6, EntryPassed
    <2>3. /\ OutputPassed' /\ OutputOrdered' /\ OutputClosed'
          /\ \A e, i : InOutput(e, i)' <=> InOutput(e, i)
        <3>1. flagSet' \in BOOLEAN /\ (flagSet => flagSet')
            BY <1>1 DEF SearchInv, SearchTyped
        <3> QED BY <1>1, <1>6, <2>2, <3>1, NothingShown
    <2>4. \A i : ~Place(entry, i)
        BY <1>6 DEF Place, PlacesIn, Grep
    <2>5. NothingSkipped' /\ AllShown'
        BY <1>1, <1>6, <2>2, <2>3, <2>4, PlaceStays DEF SearchInv, NothingSkipped, AllShown, Answered
    <2> QED BY <1>4, <2>1, <2>3, <2>5 DEF SearchInv
<1>7. CASE /\ entry' = entry + 1 /\ shown' = Append(shown, <<entry, 0>>) /\ matchCount' = matchCount + 1
           /\ size' \in {size, size + 1} /\ Place(entry, 0)
           /\ \/ truncatedReason' # "none" /\ found' # "walking"
              \/ truncatedReason' = truncatedReason /\ found' = found
    <2>0. PICK a \in Nat : a = entry
        BY <1>3
    <2>1. /\ \A e, i \in Nat : Passed(e, i) => Passed(e, i)'
          /\ \A e, i \in Nat : Passed(e, i)' => Passed(e, i) \/ e = a
          /\ Passed(a, 0)'
        BY <1>1, <1>2, <1>7, <2>0, EntryPassed
    <2>2. Grows(a, 0) /\ Place(a, 0) /\ 0 \in Nat /\ 0 = line
        BY <1>2, <1>7, <2>0 DEF Grows
    <2>3. /\ OutputPassed' /\ OutputOrdered' /\ OutputClosed'
          /\ \A e, i \in Nat : Place(e, i) /\ (Passed(e, i) \/ (e = a /\ i = 0)) => InOutput(e, i)'
        BY <1>1, <2>0, <2>1, <2>2, PlaceShown
    <2>4. SearchTyped'
        <3>1. shown' \in Seq(Nat \X Nat)
            BY <2>2, OutputGrows
        <3>2. entry' \in 1..Len(tree') + 1
            BY <1>1, <1>3, <1>7, TreeFields DEF SearchInv
        <3> QED BY <1>1, <1>2, <1>3, <1>7, <3>1, <3>2 DEF SearchInv, SearchTyped, Grep
    <2>5. NothingSkipped' /\ AllShown'
        BY <1>1, <1>2, <1>7, <2>1, <2>3, PlaceStays DEF SearchInv, NothingSkipped, AllShown, Answered
    <2> QED BY <1>4, <2>3, <2>4, <2>5 DEF SearchInv
<1>8. CASE FindEntry
    <2>1. Place(entry, 0)
        BY <1>3, <1>8 DEF FindEntry, Place, PlacesIn
    <2> QED BY <1>5, <1>7, <1>8, <2>1 DEF FindEntry, Finish
<1>9. CASE ListEntry
    <2>1. CASE tree[entry].hidden /\ ~search.hidden
        BY <1>6, <1>9, <2>1 DEF ListEntry
    <2>2. CASE ~(tree[entry].hidden /\ ~search.hidden)
        <3>1. Place(entry, 0)
            BY <1>3, <1>9, <2>2 DEF ListEntry, Place, PlacesIn
        <3> QED BY <1>5, <1>7, <1>9, <2>2, <3>1 DEF ListEntry, Finish
    <2> QED BY <2>1, <2>2
<1> QED BY <1>8, <1>9

\* grep opens an entry, or passes an empty one.
LEMMA OpenKeeps == ASSUME SearchInv, OpenEntry PROVE SearchInv'
<1>1. /\ UNCHANGED <<search, tree, shown, size, matchCount, filesWithMatches>>
      /\ UNCHANGED <<truncatedReason, tokenSet, flagSet, found>>
      /\ found = "walking" /\ Grep /\ entry <= Len(tree) /\ line = 0 /\ ~flagSet
    BY DEF OpenEntry, Grep
<1>2. entry \in DOMAIN tree /\ entry \in Nat \ {0} /\ tree[entry].lines \in Seq(Line)
    BY <1>1, TreeFields DEF SearchInv, SearchTyped
<1>3. \A e, i : InOutput(e, i)' <=> InOutput(e, i)
    BY <1>1 DEF InOutput
<1>4. (LastCut /\ Unmatched /\ NoneFound)'
    BY <1>1, <1>3, PlaceStays DEF SearchInv, LastCut, Unmatched, NoneFound, Answered
<1>5. CASE tree[entry].lines = <<>> /\ entry' = entry + 1 /\ line' = line
    <2>1. SearchTyped'
        BY <1>1, <1>2, <1>5, TreeFields DEF SearchInv, SearchTyped
    <2>2. \A e, i \in Nat : (Passed(e, i) => Passed(e, i)') /\ (Passed(e, i)' => Passed(e, i) \/ e = entry)
        BY <1>1, <1>5, EntryPassed
    <2>3. OutputPassed' /\ OutputOrdered' /\ OutputClosed'
        BY <1>1, <2>2, NothingShown DEF SearchInv, SearchTyped
    <2>4. \A i : ~Place(entry, i)
        BY <1>1, <1>5 DEF Place, PlacesIn, Grep
    <2>5. NothingSkipped' /\ AllShown' /\ FlagSeen'
        BY <1>1, <1>3, <2>2, <2>4, PlaceStays DEF SearchInv, NothingSkipped, AllShown, Answered, FlagSeen
    <2>6. FilesCounted'
        <3>1. PICK n \in Nat : n = entry
            BY <1>2
        <3>2. filesWithMatches' = filesWithMatches + (IF FALSE THEN 1 ELSE 0)
            BY <1>1 DEF SearchInv, SearchTyped
        <3>3. \A i \in Nat : ~Matches(n, i)
            BY <2>4, <3>1 DEF Matches
        <3> QED BY <1>1, <1>2, <1>3, <1>5, <3>1, <3>2, <3>3, FilesGrow
    <2> QED BY <1>4, <2>1, <2>3, <2>5, <2>6 DEF SearchInv
<1>6. CASE tree[entry].lines # <<>> /\ line' = 1 /\ entry' = entry
    <2>1. 1 \in DOMAIN tree[entry].lines
        BY <1>2, <1>6
    <2>2. SearchTyped'
        BY <1>1, <1>2, <1>6, <2>1 DEF SearchInv, SearchTyped, Grep
    <2>3. \A e, i \in Nat : (Passed(e, i) => Passed(e, i)') /\ (Passed(e, i)' => Passed(e, i) \/ i = 0)
        BY <1>1, <1>2, <1>6 DEF Passed
    <2>4. OutputPassed' /\ OutputOrdered' /\ OutputClosed'
        BY <1>1, <2>3, NothingShown DEF SearchInv, SearchTyped
    <2>5. \A e : ~Place(e, 0)
        BY <1>1, TreeFields DEF SearchInv, Place, PlacesIn, Grep
    <2>6. NothingSkipped' /\ AllShown' /\ FlagSeen'
        BY <1>1, <1>3, <2>3, <2>5, PlaceStays DEF SearchInv, NothingSkipped, AllShown, Answered, FlagSeen
    <2>7. FilesCounted'
        BY <1>1, <1>3, <1>6, FilesStay
    <2> QED BY <1>4, <2>2, <2>4, <2>6, <2>7 DEF SearchInv
<1> QED BY <1>5, <1>6 DEF OpenEntry


\* What a step of the sink leaves alone, and where the walk is.
AtLine(a, b) ==
    /\ UNCHANGED <<search, tree, tokenSet, flagSet>> /\ found = "walking" /\ Grep
    /\ a = entry /\ b = line /\ b > 0
Left(a, b) ==
    /\ entry' = a + 1 /\ line' = 0
    /\ filesWithMatches' = filesWithMatches
           + (IF \E i \in 1..b : tree[a].lines[i].kind = "match" THEN 1 ELSE 0)
Added(a, b) ==
    /\ Grows(a, b) /\ size' \in Nat
    /\ matchCount' = matchCount + (IF tree[a].lines[b].kind = "match" THEN 1 ELSE 0)

\* The line the walk is at is a place of the tree.
LEMMA LinePlace ==
    ASSUME SearchInv, NEW a \in Nat, NEW b \in Nat, AtLine(a, b)
    PROVE  /\ a \in DOMAIN tree /\ a <= Len(tree) /\ Len(tree) \in Nat /\ a # 0
           /\ b \in DOMAIN tree[a].lines /\ b <= Len(tree[a].lines)
           /\ tree[a].lines[b] \in Line /\ Place(a, b)
           /\ \A i : Place(a, i) => i \in 1..Len(tree[a].lines)
<1>1. a \in DOMAIN tree /\ b \in DOMAIN tree[a].lines
    BY DEF SearchInv, SearchTyped, AtLine
<1>2. /\ Len(tree) \in Nat /\ DOMAIN tree = 1..Len(tree)
      /\ tree[a].lines \in Seq(Line) /\ DOMAIN tree[a].lines = 1..Len(tree[a].lines)
    BY <1>1, TreeFields DEF SearchInv
<1>3. Place(a, b) /\ \A i : Place(a, i) => i \in 1..Len(tree[a].lines)
    BY <1>1, <1>2 DEF Place, PlacesIn, AtLine, Grep
<1>4. tree[a].lines[b] \in Line
    BY <1>1, <1>2
<1> QED BY <1>1, <1>2, <1>3, <1>4

\* The entry is left after line b.
LEMMA FilesLeft ==
    ASSUME SearchInv, NEW a \in Nat, NEW b \in Nat, AtLine(a, b), Left(a, b),
           \A e, i \in Nat : InOutput(e, i) => InOutput(e, i)',
           \A e, i \in Nat : InOutput(e, i)' => InOutput(e, i) \/ (e = a /\ i = b)
    PROVE  FilesCounted'
<1> DEFINE matched == \E i \in 1..b : tree[a].lines[i].kind = "match"
<1>1. a \in DOMAIN tree /\ \A i : Place(a, i) => i \in 1..Len(tree[a].lines)
    BY LinePlace
<1>2. ASSUME NEW i \in Nat, InOutput(a, i)', Matches(a, i) PROVE matched
    <2>1. InOutput(a, i) \/ i = b
        BY <1>2
    <2>2. i <= b
        BY <2>1 DEF SearchInv, OutputPassed, Passed, AtLine
    <2>3. Place(a, i) /\ tree[a].lines[i].kind = "match"
        BY <1>2 DEF Matches
    <2>4. i \in 1..b
        BY <1>1, <2>2, <2>3
    <2> QED BY <2>3, <2>4
<1>3. /\ filesWithMatches' = filesWithMatches + (IF matched THEN 1 ELSE 0)
      /\ entry' = a + 1
    BY DEF Left
<1>4. matched \in BOOLEAN
    OBVIOUS
<1> HIDE DEF matched
<1>5. \A e, i \in Nat : e < a => (InOutput(e, i)' <=> InOutput(e, i))
    OBVIOUS
<1>6. UNCHANGED <<search, tree>> /\ a = entry /\ Grep
    BY DEF AtLine
<1> QED BY <1>1, <1>2, <1>3, <1>4, <1>5, <1>6, FilesGrow

\* The flag is set: the entry is left.
LEMMA FlaggedKeeps ==
    ASSUME SearchInv, NEW a \in Nat, NEW b \in Nat, AtLine(a, b), Left(a, b), flagSet,
           UNCHANGED <<shown, size, matchCount, truncatedReason, found>>
    PROVE  SearchInv'
<1>1. /\ a \in DOMAIN tree /\ a <= Len(tree) /\ Len(tree) \in Nat
    BY LinePlace
<1>2. \A e, i : InOutput(e, i)' <=> InOutput(e, i)
    BY DEF InOutput
<1>3. FilesCounted'
    BY <1>2, FilesLeft
<1>4. SearchTyped'
    <2>1. entry' \in 1..Len(tree') + 1 /\ line' = 0 /\ ~(line' > 0)
        BY <1>1 DEF Left, AtLine
    <2>2. filesWithMatches' \in Nat
        BY DEF Left, SearchInv, SearchTyped
    <2> QED BY <2>1, <2>2 DEF SearchInv, SearchTyped, AtLine, Grep
<1>5. \A e, i \in Nat : Passed(e, i) => Passed(e, i)'
    BY DEF Passed, Left, AtLine
<1>6. OutputPassed' /\ OutputOrdered' /\ OutputClosed'
    BY <1>4, <1>5, NothingShown DEF SearchTyped, AtLine
<1>7. NothingSkipped' /\ AllShown' /\ LastCut' /\ NoneFound'
    BY DEF SearchInv, NothingSkipped, AllShown, LastCut, NoneFound, Answered, AtLine
<1>8. FlagSeen'
    <2> SUFFICES ASSUME NEW e \in Nat, NEW i \in Nat, Place(e, i), e < a PROVE InOutput(e, i)
        BY <1>2, PlaceStays DEF FlagSeen, Left, AtLine
    <2> QED BY DEF SearchInv, FlagSeen, AtLine
<1>9. Unmatched'
    BY <1>2, PlaceStays DEF SearchInv, Unmatched, AtLine
<1> QED BY <1>3, <1>4, <1>6, <1>7, <1>8, <1>9 DEF SearchInv

\* Without a match in it, an output that is full holds context before the first match.
LEMMA FullOfContext ==
    ASSUME SearchInv, NEW a \in Nat, NEW b \in Nat, AtLine(a, b), ~flagSet, shown # <<>>, matchCount = 0,
           NEW e \in Nat, NEW i \in Nat, Matches(e, i)
    PROVE  \E f \in 1..e : \E j \in DOMAIN tree[f].lines : tree[f].lines[j].kind = "before"
<1>1. \A f, j \in Nat : InOutput(f, j) => ~Matches(f, j)
    BY DEF SearchInv, Unmatched, AtLine
<1>2. \A f, j \in Nat : Place(f, j) /\ Passed(f, j) => InOutput(f, j)
    BY DEF SearchInv, NothingSkipped, AtLine
<1>3. PICK f \in Nat, j \in Nat : InOutput(f, j)
    <2>1. shown \in Seq(Nat \X Nat)
        BY DEF SearchInv, SearchTyped
    <2>2. 1 \in DOMAIN shown /\ shown[1] \in Nat \X Nat
        BY <2>1
    <2>3. PICK f \in Nat, j \in Nat : shown[1] = <<f, j>>
        BY <2>2
    <2> QED BY <2>2, <2>3 DEF InOutput, Range
<1>4. Place(f, j) /\ Passed(f, j) /\ ~Matches(f, j)
    BY <1>1, <1>3 DEF SearchInv, OutputPassed
<1>5. f \in DOMAIN tree /\ f # 0 /\ j \in DOMAIN tree[f].lines
    BY <1>4, TreeFields DEF Place, PlacesIn, SearchInv, AtLine, Grep
<1>6. f <= e
    <2>1. ~Passed(e, i)
        BY <1>1, <1>2 DEF Matches
    <2> QED BY <1>4, <2>1 DEF Passed, AtLine
<1>7. tree[f].lines[j] \in Line /\ DOMAIN tree[f].lines = 1..Len(tree[f].lines) /\ Len(tree[f].lines) \in Nat
    <2>1. /\ tree[f].lines \in Seq(Line) /\ DOMAIN tree[f].lines = 1..Len(tree[f].lines)
          /\ Len(tree[f].lines) \in Nat
        BY <1>5, TreeFields DEF SearchInv
    <2>2. PICK lines \in Seq(Line) : lines = tree[f].lines
        BY <2>1
    <2>3. j \in DOMAIN lines
        BY <1>5, <2>2
    <2> QED BY <2>1, <2>2, <2>3
<1>8. tree[f].lines[j].kind # "after"
    <2> SUFFICES ASSUME tree[f].lines[j].kind = "after" PROVE FALSE
        OBVIOUS
    <2>1. PICK k \in 1..j - 1 : tree[f].lines[k].kind = "match"
        BY <1>5 DEF SearchInv, SearchTyped, IsTree
    <2>2. k \in Nat /\ k < j /\ k \in DOMAIN tree[f].lines
        BY <1>5, <1>7, <2>1
    <2>3. Place(f, k) /\ Passed(f, k)
        BY <1>4, <1>5, <2>2 DEF Place, PlacesIn, Passed, AtLine, Grep
    <2>4. Matches(f, k)
        BY <2>1, <2>3 DEF Matches
    <2> QED BY <1>1, <1>2, <2>2, <2>3, <2>4
<1>9. tree[f].lines[j].kind = "before"
    <2>1. tree[f].lines[j].kind # "match"
        BY <1>4 DEF Matches
    <2> QED BY <1>7, <1>8, <2>1 DEF Line
<1>10. f \in 1..e
    BY <1>5, <1>6
<1> QED BY <1>5, <1>9, <1>10

\* The output is full: the entry is left and the walk ends.
LEMMA FullKeeps ==
    ASSUME SearchInv, NEW a \in Nat, NEW b \in Nat, AtLine(a, b), Left(a, b), ~flagSet,
           UNCHANGED <<shown, size, matchCount>>, truncatedReason' = "bytes", size > 0,
           found' = IF matchCount = 0 THEN "no_matches" ELSE "results"
    PROVE  SearchInv'
<1>1. /\ a \in DOMAIN tree /\ a <= Len(tree) /\ Len(tree) \in Nat
    BY LinePlace
<1>2. \A e, i : InOutput(e, i)' <=> InOutput(e, i)
    BY DEF InOutput
<1>3. FilesCounted'
    BY <1>2, FilesLeft
<1>4. SearchTyped'
    <2>1. entry' \in 1..Len(tree') + 1 /\ line' = 0 /\ ~(line' > 0)
        BY <1>1 DEF Left, AtLine
    <2>2. filesWithMatches' \in Nat
        BY DEF Left, SearchInv, SearchTyped
    <2> QED BY <2>1, <2>2 DEF SearchInv, SearchTyped, AtLine, Grep
<1>5. \A e, i \in Nat : Passed(e, i) => Passed(e, i)'
    BY DEF Passed, Left, AtLine
<1>6. OutputPassed' /\ OutputOrdered' /\ OutputClosed'
    BY <1>4, <1>5, NothingShown DEF SearchTyped, AtLine
<1>7. NothingSkipped' /\ AllShown' /\ LastCut' /\ FlagSeen'
    BY DEF NothingSkipped, AllShown, LastCut, FlagSeen, AtLine
<1>8. Unmatched'
    BY <1>2, PlaceStays DEF SearchInv, Unmatched, AtLine
<1>9. NoneFound'
    <2> SUFFICES ASSUME matchCount = 0, NEW e \in Nat, NEW i \in Nat, Matches(e, i)
                 PROVE  \E f \in 1..e : \E j \in DOMAIN tree[f].lines : tree[f].lines[j].kind = "before"
        BY PlaceStays DEF NoneFound, AtLine
    <2>1. shown # <<>>
        BY DEF SearchInv, Unmatched, AtLine
    <2> QED BY <2>1, FullOfContext
<1> QED BY <1>3, <1>4, <1>6, <1>7, <1>8, <1>9 DEF SearchInv

\* What the line shown adds, wherever the walk goes from it.
LEMMA ShownKeeps ==
    ASSUME SearchInv, NEW a \in Nat, NEW b \in Nat, AtLine(a, b), Added(a, b), ~flagSet,
           (entry' = a + 1 /\ line' = 0) \/ (entry' = a /\ line' = b + 1)
    PROVE  /\ OutputPassed' /\ OutputOrdered' /\ OutputClosed' /\ Unmatched'
           /\ FlagSeen' /\ LastCut'
           /\ \A e, i \in Nat : Place(e, i) /\ (Passed(e, i) \/ (e = a /\ i = b)) => InOutput(e, i)'
           /\ \A e, i \in Nat : InOutput(e, i)' <=> InOutput(e, i) \/ (e = a /\ i = b)
           /\ shown' \in Seq(Nat \X Nat) /\ size' \in Nat /\ matchCount' \in Nat
<1>1. Place(a, b)
    BY LinePlace
<1>2. /\ UNCHANGED <<search, tree, flagSet>> /\ found = "walking" /\ a = entry /\ b = line /\ Grows(a, b)
    BY DEF AtLine, Added
<1>3. (\A e, i \in Nat : Passed(e, i) => Passed(e, i)') /\ Passed(a, b)'
    BY <1>2 DEF Passed
<1>4. /\ OutputPassed' /\ OutputOrdered' /\ OutputClosed'
      /\ \A e, i \in Nat : Place(e, i) /\ (Passed(e, i) \/ (e = a /\ i = b)) => InOutput(e, i)'
    BY <1>1, <1>2, <1>3, PlaceShown
<1>5. /\ shown' \in Seq(Nat \X Nat) /\ shown' # <<>>
      /\ \A e, i \in Nat : InOutput(e, i)' <=> InOutput(e, i) \/ (e = a /\ i = b)
    BY <1>2, OutputGrows
<1>6. matchCount \in Nat /\ matchCount' \in Nat /\ size' \in Nat
    BY DEF SearchInv, SearchTyped, Added
<1>7. FlagSeen' /\ LastCut'
    BY <1>2 DEF FlagSeen, LastCut
<1>8. Unmatched'
    <2> SUFFICES ASSUME matchCount' = 0, NEW e \in Nat, NEW i \in Nat, InOutput(e, i)', Matches(e, i)
                 PROVE  FALSE
        BY <1>2, <1>5, PlaceStays DEF Unmatched
    <2>1. matchCount = 0 /\ tree[a].lines[b].kind # "match"
        BY <1>6 DEF Added
    <2>2. ~Matches(a, b)
        BY <2>1 DEF Matches
    <2>3. \A f, j \in Nat : InOutput(f, j) => ~Matches(f, j)
        BY <2>1 DEF SearchInv, Unmatched, AtLine
    <2> QED BY <1>5, <2>2, <2>3
<1> QED BY <1>4, <1>5, <1>6, <1>7, <1>8

\* The line shown reached the result limit.
LEMMA LimitKeeps ==
    ASSUME SearchInv, NEW a \in Nat, NEW b \in Nat, AtLine(a, b), Left(a, b), Added(a, b), ~flagSet,
           truncatedReason' = "limit", found' = "results"
    PROVE  SearchInv'
<1>1. a <= Len(tree) /\ Len(tree) \in Nat
    BY LinePlace
<1>2. /\ OutputPassed' /\ OutputOrdered' /\ OutputClosed' /\ Unmatched' /\ FlagSeen' /\ LastCut'
      /\ \A e, i \in Nat : InOutput(e, i)' <=> InOutput(e, i) \/ (e = a /\ i = b)
      /\ shown' \in Seq(Nat \X Nat) /\ size' \in Nat /\ matchCount' \in Nat
    BY ShownKeeps DEF Left
<1>3. FilesCounted'
    BY <1>2, FilesLeft
<1>4. SearchTyped'
    <2>1. entry' \in 1..Len(tree') + 1 /\ line' = 0 /\ ~(line' > 0)
        BY <1>1 DEF Left, AtLine
    <2>2. filesWithMatches' \in Nat
        BY DEF Left, SearchInv, SearchTyped
    <2> QED BY <1>2, <2>1, <2>2 DEF SearchInv, SearchTyped, AtLine, Grep
<1>5. NothingSkipped' /\ AllShown' /\ NoneFound'
    BY DEF NothingSkipped, AllShown, NoneFound
<1> QED BY <1>2, <1>3, <1>4, <1>5 DEF SearchInv

\* The walk goes on behind the line shown.
LEMMA GoesOnKeeps ==
    ASSUME SearchInv, NEW a \in Nat, NEW b \in Nat, AtLine(a, b), Added(a, b), ~flagSet,
           UNCHANGED <<truncatedReason, found>>,
           \/ b = Len(tree[a].lines) /\ Left(a, b)
           \/ /\ b # Len(tree[a].lines) /\ entry' = a /\ line' = b + 1
              /\ filesWithMatches' = filesWithMatches
    PROVE  SearchInv'
<1>0. (entry' = a + 1 /\ line' = 0) \/ (entry' = a /\ line' = b + 1)
    BY DEF Left
<1>1. /\ a \in DOMAIN tree /\ a <= Len(tree) /\ Len(tree) \in Nat /\ a # 0
      /\ b <= Len(tree[a].lines)
      /\ \A i : Place(a, i) => i \in 1..Len(tree[a].lines)
    BY LinePlace
<1>2. /\ OutputPassed' /\ OutputOrdered' /\ OutputClosed' /\ Unmatched' /\ FlagSeen' /\ LastCut'
      /\ \A e, i \in Nat : Place(e, i) /\ (Passed(e, i) \/ (e = a /\ i = b)) => InOutput(e, i)'
      /\ \A e, i \in Nat : InOutput(e, i)' <=> InOutput(e, i) \/ (e = a /\ i = b)
      /\ shown' \in Seq(Nat \X Nat) /\ size' \in Nat /\ matchCount' \in Nat
    BY <1>0, ShownKeeps
<1>3. DOMAIN tree[a].lines = 1..Len(tree[a].lines) /\ Len(tree[a].lines) \in Nat
    BY <1>1, TreeFields DEF SearchInv
<1>4. FilesCounted'
    <2>1. CASE Left(a, b)
        <3>1. /\ \A e, i \in Nat : InOutput(e, i) => InOutput(e, i)'
              /\ \A e, i \in Nat : InOutput(e, i)' => InOutput(e, i) \/ (e = a /\ i = b)
            BY <1>2
        <3> QED BY <2>1, <3>1, FilesLeft
    <2>2. CASE entry' = a /\ filesWithMatches' = filesWithMatches
        <3>1. \A e, i \in Nat : e < entry => (InOutput(e, i)' <=> InOutput(e, i))
            BY <1>2 DEF AtLine
        <3> QED BY <2>2, <3>1, FilesStay DEF AtLine
    <2> QED BY <2>1, <2>2
<1>5. SearchTyped'
    <2>1. entry' \in 1..Len(tree') + 1 /\ line' \in Nat
        BY <1>0, <1>1 DEF AtLine
    <2>2. filesWithMatches' \in Nat
        BY DEF Left, SearchInv, SearchTyped
    <2>3. line' > 0 => /\ (Grep /\ entry \in DOMAIN tree)'
                       /\ line' \in DOMAIN tree'[entry'].lines
        <3> SUFFICES ASSUME line' > 0 PROVE Grep' /\ entry' \in DOMAIN tree' /\ line' \in DOMAIN tree'[entry'].lines
            OBVIOUS
        <3>1. b # Len(tree[a].lines) /\ entry' = a /\ line' = b + 1 /\ tree' = tree /\ search' = search
            BY DEF Left, AtLine
        <3>2. b + 1 \in 1..Len(tree[a].lines)
            BY <1>1, <1>3, <3>1
        <3> QED BY <1>1, <1>3, <3>1, <3>2 DEF AtLine, Grep
    <2> QED BY <1>2, <2>1, <2>2, <2>3 DEF SearchInv, SearchTyped, AtLine, Grep
<1>6. ASSUME NEW e \in Nat, NEW i \in Nat, Place(e, i), Passed(e, i)'
      PROVE  Passed(e, i) \/ (e = a /\ i = b)
    <2>1. CASE b = Len(tree[a].lines) /\ Left(a, b)
        <3>1. e < a + 1
            BY <1>6, <2>1 DEF Passed, Left
        <3>2. CASE e < a
            BY <3>2 DEF Passed, AtLine
        <3>3. CASE e = a
            <4>1. i <= b /\ i \in Nat
                BY <1>1, <1>3, <1>6, <2>1, <3>3
            <4> QED BY <3>3, <4>1 DEF Passed, AtLine
        <3> QED BY <3>1, <3>2, <3>3
    <2>2. CASE entry' = a /\ line' = b + 1
        BY <1>6, <2>2 DEF Passed, AtLine
    <2> QED BY <2>1, <2>2
<1>7. NothingSkipped'
    BY <1>2, <1>6, PlaceStays DEF SearchInv, NothingSkipped, AtLine
<1>8. AllShown' /\ NoneFound'
    BY DEF AllShown, NoneFound, Answered, AtLine
<1> QED BY <1>2, <1>4, <1>5, <1>7, <1>8 DEF SearchInv

\* The sink's four answers to a line.
LEMMA SinkKeeps == ASSUME SearchInv, SinkLine PROVE SearchInv'
<1>1. entry \in Nat /\ line \in Nat
    BY TreeFields DEF SearchInv, SearchTyped
<1>2. PICK a \in Nat, b \in Nat : a = entry /\ b = line
    BY <1>1
<1>3. AtLine(a, b)
    BY <1>2 DEF SinkLine, AtLine, Grep
<1> DEFINE taken == tree[a].lines[b]
           cost == IF taken.bytes > LineCap THEN LineCap + 1 ELSE taken.bytes
<1>4. taken \in Line /\ taken.bytes \in Nat /\ cost \in Nat /\ cost <= ByteLimit
    <2>1. taken \in Line
        BY <1>3, LinePlace
    <2>2. taken.bytes \in Nat
        BY <2>1 DEF Line
    <2> HIDE DEF taken
    <2>3. LineCap \in Nat /\ ByteLimit \in Nat /\ LineCap < ByteLimit
        BY SearchAssumption
    <2> QED BY <2>1, <2>2, <2>3
<1>5. size \in Nat /\ matchCount \in Nat /\ ByteLimit \in Nat
    BY SearchAssumption DEF SearchInv, SearchTyped
<1>6. CASE flagSet
    <2>1. UNCHANGED <<shown, size, matchCount, truncatedReason, found>> /\ Left(a, b)
        BY <1>2, <1>6 DEF SinkLine, LeaveEntry, Left
    <2> QED BY <1>3, <1>6, <2>1, FlaggedKeeps
<1>7. CASE ~flagSet /\ size + cost > ByteLimit
    <2>1. /\ UNCHANGED <<shown, size, matchCount>> /\ truncatedReason' = "bytes" /\ Left(a, b)
          /\ found' = IF matchCount = 0 THEN "no_matches" ELSE "results"
        BY <1>2, <1>7 DEF SinkLine, LeaveEntry, Left, Finish
    <2>2. size > 0
        BY <1>4, <1>5, <1>7
    <2> QED BY <1>3, <1>7, <2>1, <2>2, FullKeeps
<1>8. CASE ~flagSet /\ ~(size + cost > ByteLimit)
    <2>1. /\ shown' = Append(shown, <<a, b>>) /\ size' = size + cost
          /\ matchCount' = matchCount + (IF taken.kind = "match" THEN 1 ELSE 0)
        BY <1>2, <1>8 DEF SinkLine
    <2>2. Added(a, b)
        <3>1. cost \in Nat /\ size' = size + cost
            BY <1>4, <2>1
        <3> HIDE DEF cost
        <3>2. size' \in Nat
            BY <1>5, <3>1
        <3> QED BY <2>1, <3>2 DEF Added, Grows
    <2>3. CASE taken.kind = "match" /\ matchCount + 1 >= search.limit
        <3>1. truncatedReason' = "limit" /\ Left(a, b) /\ found' = "results"
            BY <1>2, <1>5, <1>8, <2>3 DEF SinkLine, LeaveEntry, Left, Finish
        <3> QED BY <1>3, <1>8, <2>2, <3>1, LimitKeeps
    <2>4. CASE ~(taken.kind = "match" /\ matchCount + 1 >= search.limit)
        <3>1. /\ UNCHANGED <<truncatedReason, found>>
              /\ \/ b = Len(tree[a].lines) /\ Left(a, b)
                 \/ /\ b # Len(tree[a].lines) /\ entry' = a /\ line' = b + 1
                    /\ filesWithMatches' = filesWithMatches
            BY <1>2, <1>8, <2>4 DEF SinkLine, LeaveEntry, Left
        <3> QED BY <1>3, <1>8, <2>2, <3>1, GoesOnKeeps
    <2> QED BY <2>3, <2>4
<1> QED BY <1>6, <1>7, <1>8

\* Every step keeps the invariant.
LEMMA SearchStep == ASSUME SearchInv, [SearchToolsNext]_searchVars PROVE SearchInv'
BY CancelKeeps, WatchKeeps, EndKeeps, EntryKeeps, OpenKeeps, SinkKeeps DEF SearchToolsNext

\* The output as a set of places.
LEMMA OutputPlaces ==
    ASSUME SearchInv
    PROVE  /\ \A e, i : <<e, i>> \in Range(shown) => e \in Nat /\ i \in Nat
           /\ \A p \in Range(shown) : \E e, i \in Nat : p = <<e, i>> /\ InOutput(e, i)
           /\ \A p \in Everything : \E e, i \in Nat : p = <<e, i>> /\ Place(e, i)
           /\ \A e, i : Place(e, i) => <<e, i>> \in Everything
<1>1. \A p \in Range(shown) : p \in Nat \X Nat
    <2>1. shown \in Seq(Nat \X Nat)
        BY DEF SearchInv, SearchTyped
    <2> QED BY <2>1 DEF Range
<1>2. ASSUME NEW p \in Range(shown) PROVE \E e, i \in Nat : p = <<e, i>> /\ InOutput(e, i)
    <2>1. PICK e \in Nat, i \in Nat : p = <<e, i>>
        BY <1>1
    <2> QED BY <2>1 DEF InOutput
<1>3. ASSUME NEW p \in Everything PROVE \E e, i \in Nat : p = <<e, i>> /\ Place(e, i)
    <2>1. PICK e \in DOMAIN tree : p \in {<<e, i>> : i \in PlacesIn(e)}
        BY DEF Everything
    <2>2. PICK i \in PlacesIn(e) : p = <<e, i>>
        BY <2>1
    <2>3. Place(e, i)
        BY DEF Place
    <2> QED BY <2>2, <2>3, TreeFields DEF SearchInv
<1>4. ASSUME NEW e, NEW i, Place(e, i) PROVE <<e, i>> \in Everything
    BY <1>4 DEF Place, Everything
<1> QED BY <1>1, <1>2, <1>3, <1>4

\* An answer nobody cancelled says whether it is the whole.
LEMMA CompleteSound == ASSUME SearchInv PROVE SilentMeansComplete
<1> SUFFICES ASSUME Answered, ~tokenSet
             PROVE  /\ OutputOrdered
                    /\ Range(shown) \subseteq Everything
                    /\ \A p \in Everything, q \in Range(shown) : Before(p, q) => p \in Range(shown)
                    /\ truncatedReason = "none" => Range(shown) = Everything
    BY DEF SilentMeansComplete, OutputOrdered
<1>1. ~flagSet
    BY DEF SearchInv, SearchTyped
<1>2. OutputOrdered
    BY DEF SearchInv
<1>3. Range(shown) \subseteq Everything
    BY OutputPlaces DEF SearchInv, OutputPassed
<1>4. ASSUME NEW p \in Everything, NEW q \in Range(shown), Before(p, q) PROVE p \in Range(shown)
    <2>1. PICK e \in Nat, i \in Nat : p = <<e, i>> /\ Place(e, i)
        BY OutputPlaces
    <2>2. PICK f \in Nat, j \in Nat : q = <<f, j>> /\ InOutput(f, j)
        BY OutputPlaces
    <2>3. InOutput(e, i)
        BY <1>1, <1>4, <2>1, <2>2 DEF SearchInv, OutputClosed
    <2> QED BY <2>1, <2>3 DEF InOutput
<1>5. ASSUME truncatedReason = "none", NEW p \in Everything PROVE p \in Range(shown)
    <2>1. PICK e \in Nat, i \in Nat : p = <<e, i>> /\ Place(e, i)
        BY OutputPlaces
    <2>2. InOutput(e, i)
        BY <1>1, <1>5, <2>1 DEF SearchInv, AllShown
    <2> QED BY <2>1, <2>2 DEF InOutput
<1> QED BY <1>2, <1>3, <1>4, <1>5

\* What the invariant says of an answer.
LEMMA SearchInvSound == ASSUME SearchInv PROVE SearchSound
<1>1. SilentMeansComplete
    BY CompleteSound
<1>2. NoMatchesMeansNone
    <2> SUFFICES ASSUME found = "no_matches", ~tokenSet, Grep, NEW e \in DOMAIN tree,
                        NEW i \in DOMAIN tree[e].lines, tree[e].lines[i].kind = "match"
                 PROVE  \E f \in 1..e : \E j \in DOMAIN tree[f].lines : tree[f].lines[j].kind = "before"
        BY DEF NoMatchesMeansNone, Grep
    <2>1. Place(e, i)
        BY DEF Place, PlacesIn, Grep
    <2>2. Matches(e, i) /\ e \in Nat /\ i \in Nat /\ ~flagSet
        BY <2>1, TreeFields DEF Matches, SearchInv, SearchTyped
    <2> QED BY <2>2 DEF SearchInv, NoneFound
<1>3. CutShortOnlyAtTheEnd
    <2> SUFFICES ASSUME Answered, flagSet, truncatedReason = "none", NEW e \in 1..Len(tree) - 1,
                        NEW i \in DOMAIN tree[e].lines, Grep
                 PROVE  InOutput(e, i)
        BY DEF CutShortOnlyAtTheEnd, InOutput, Grep
    <2>1. e \in DOMAIN tree /\ e < Len(tree)
        BY TreeFields DEF SearchInv
    <2>2. Place(e, i)
        BY <2>1 DEF Place, PlacesIn, Grep
    <2>3. e \in Nat /\ i \in Nat
        BY <2>2, TreeFields DEF SearchInv
    <2> QED BY <2>1, <2>2, <2>3 DEF SearchInv, LastCut
<1>4. FilesCounted
    BY DEF SearchInv
<1> QED BY <1>1, <1>2, <1>3, <1>4 DEF SearchSound

\* A search never passes a part of its answer for the whole (run_search, run_find and
\* LsTool::execute): whatever tree, limits and cancellations it meets.
THEOREM SearchWhole == SearchToolsSpec => []SearchSound
<1>1. SearchToolsInit => SearchInv
    BY SearchStart
<1>2. SearchInv /\ [SearchToolsNext]_searchVars => SearchInv'
    BY SearchStep
<1>3. SearchInv => SearchSound
    BY SearchInvSound
<1> QED BY <1>1, <1>2, <1>3, PTL DEF SearchToolsSpec

-----------------------------------------------------------------------------
(***************************************************************************)
(* The bash tool.  Every chunk the shell wrote is in a pipe, in the channel *)
(* or in the tail, until the tail is cut.                                  *)
(***************************************************************************)
\* The queues of chunks are sequences of marks.
Queues ==
    /\ pipe \in [Streams -> Seq(Nat)] /\ chunks \in Seq(Nat) /\ tail \in Seq(Nat)
    /\ total \in Nat /\ cutTail \in BOOLEAN

\* Until the tail is cut, every chunk the shell wrote is in one of four places, and the
\* total is the tail's length until it stops counting.
InPipes == OwnOf(pipe["stdout"]) + OwnOf(pipe["stderr"])
Collected == InPipes + OwnOf(chunks) + OwnOf(tail)
Counted == ~cutTail => written = Collected /\ (total = Len(tail) \/ total > Budget + MaxLines)

\* What an outcome says of the shell and of what is still on its way.
Stopped == bashOutcome \in {"aborted", "timeout"} => ~Writers
Exited == bashOutcome \in {"exited", "failed"} => shell = bashOutcome
Drained ==
    bash = "answered" /\ bashOutcome \in {"exited", "failed"} /\ background # "writing" =>
        chunks = <<>> /\ \A s \in Streams : pipe[s] = <<>>
Decided ==
    /\ bash \in {"asked", "loop", "updating"} => bashOutcome = "none"
    /\ bash = "asked" <=> shell = "none" /\ bash # "answered"
    /\ shell = "none" => bash \in {"asked", "answered"}

BashInv == BashToolTypeOK /\ Queues /\ Counted /\ Stopped /\ Exited /\ Drained /\ Decided

\* The limits are numbers.
LEMMA BashConstants ==
    Budget \in Nat /\ MaxLines \in Nat /\ ChunkCap \in Nat /\ UpdateCap \in Nat /\ MaxWrites \in Nat
BY BashAssumption

\* The shell's own chunks of a queue are counted.
LEMMA OwnNat ==
    ASSUME NEW s \in Seq(Nat)
    PROVE  OwnOf(s) \in Nat /\ IsFiniteSet(OwnPlaces(s)) /\ Cardinality(OwnPlaces(s)) = OwnOf(s)
<1>1. Len(s) \in Nat /\ DOMAIN s = 1..Len(s)
    OBVIOUS
<1>2. IsFiniteSet(1..Len(s))
    BY <1>1, FS_Interval
<1>3. IsFiniteSet(OwnPlaces(s))
    BY <1>1, <1>2, FS_Subset DEF OwnPlaces
<1> QED BY <1>3, FS_CardinalityType DEF OwnOf

\* An empty queue holds none of them.
LEMMA OwnEmpty == OwnOf(<<>>) = 0
<1>1. OwnPlaces(<<>>) = {}
    BY DEF OwnPlaces
<1> QED BY <1>1, FS_EmptySet DEF OwnOf

\* A chunk appended is counted when it is the shell's own.
LEMMA OwnAppend ==
    ASSUME NEW s \in Seq(Nat), NEW e \in Nat
    PROVE  OwnOf(Append(s, e)) = OwnOf(s) + (IF e = 0 THEN 0 ELSE 1)
<1> DEFINE n == Len(s) + 1
<1>1. /\ n \in Nat /\ DOMAIN s = 1..Len(s) /\ DOMAIN Append(s, e) = 1..n /\ Append(s, e)[n] = e
      /\ \A i \in 1..Len(s) : Append(s, e)[i] = s[i]
      /\ Append(s, e) \in Seq(Nat) /\ 1..n = 1..Len(s) \cup {n} /\ n \notin 1..Len(s)
    OBVIOUS
<1> HIDE DEF n
<1>2. /\ IsFiniteSet(OwnPlaces(s)) /\ n \notin OwnPlaces(s) /\ OwnOf(s) \in Nat
      /\ Cardinality(OwnPlaces(s)) = OwnOf(s)
      /\ Cardinality(OwnPlaces(Append(s, e))) = OwnOf(Append(s, e))
    BY <1>1, OwnNat DEF OwnPlaces
<1>3. CASE e = 0
    <2>1. OwnPlaces(Append(s, e)) = OwnPlaces(s)
        BY <1>1, <1>3 DEF OwnPlaces
    <2> QED BY <1>2, <1>3, <2>1
<1>4. CASE e # 0
    <2>1. OwnPlaces(Append(s, e)) = OwnPlaces(s) \cup {n}
        BY <1>1, <1>4 DEF OwnPlaces
    <2>2. Cardinality(OwnPlaces(s) \cup {n}) = Cardinality(OwnPlaces(s)) + 1
        BY <1>2, FS_AddElement
    <2> QED BY <1>2, <1>4, <2>1, <2>2
<1> QED BY <1>3, <1>4

\* Taking away what is not there.
LEMMA WithoutStranger == ASSUME NEW S, NEW e, e \notin S PROVE S \ {e} = S
OBVIOUS

\* A chunk taken from the head leaves the count when it was the shell's own.
LEMMA OwnTail ==
    ASSUME NEW s \in Seq(Nat), s # <<>>
    PROVE  OwnOf(s) = OwnOf(Tail(s)) + (IF Head(s) = 0 THEN 0 ELSE 1)
<1> DEFINE A == OwnPlaces(s)
           B == OwnPlaces(Tail(s))
<1>1. /\ Len(s) \in Nat \ {0} /\ DOMAIN s = 1..Len(s) /\ Tail(s) \in Seq(Nat)
      /\ DOMAIN Tail(s) = 1..(Len(s) - 1) /\ \A i \in 1..(Len(s) - 1) : Tail(s)[i] = s[i + 1]
      /\ Head(s) = s[1] /\ 1 \in 1..Len(s)
    OBVIOUS
<1>2. /\ IsFiniteSet(A) /\ IsFiniteSet(B) /\ Cardinality(B) \in Nat /\ Cardinality(A) \in Nat
      /\ Cardinality(A) = OwnOf(s) /\ Cardinality(B) = OwnOf(Tail(s))
    BY <1>1, OwnNat
<1>3. Cardinality(B) = Cardinality(A \ {1})
    <2> DEFINE f == [i \in B |-> i + 1]
    <2>0. B \subseteq Nat
        BY <1>1 DEF OwnPlaces
    <2>1. \A i \in B : i + 1 \in A \ {1}
        BY <1>1 DEF OwnPlaces
    <2>2. \A j \in A \ {1} : j - 1 \in B /\ (j - 1) + 1 = j
        BY <1>1 DEF OwnPlaces
    <2> HIDE DEF A, B
    <2>3. f \in Injection(B, A \ {1})
        BY <2>0, <2>1 DEF Injection, IsInjective
    <2>4. f \in Surjection(B, A \ {1})
        BY <2>1, <2>2 DEF Surjection
    <2>5. ExistsBijection(B, A \ {1})
        BY <2>3, <2>4 DEF ExistsBijection, Bijection
    <2> QED BY <1>2, <2>5, FS_Bijection
<1>4. CASE Head(s) = 0
    <2>0. 1 \notin A
        BY <1>1, <1>4 DEF OwnPlaces
    <2> HIDE DEF A, B
    <2>1. A \ {1} = A
        BY <2>0, WithoutStranger
    <2>2. Cardinality(B) = Cardinality(A)
        BY <1>3, <2>1, Zenon
    <2> QED BY <1>2, <1>4, <2>2
<1>5. CASE Head(s) # 0
    <2>1. 1 \in A
        BY <1>1, <1>5 DEF OwnPlaces
    <2> HIDE DEF A, B
    <2>2. Cardinality(A \ {1}) = Cardinality(A) - 1
        BY <1>2, <2>1, FS_RemoveElement
    <2> QED BY <1>2, <1>3, <1>5, <2>2
<1> QED BY <1>4, <1>5

\* The queues, one by one.
LEMMA QueueSeqs ==
    ASSUME BashInv
    PROVE  /\ \A s \in Streams : pipe[s] \in Seq(Nat)
           /\ chunks \in Seq(Nat) /\ tail \in Seq(Nat)
           /\ pipe \in [Streams -> Seq(Nat)] /\ total \in Nat /\ written \in Nat
BY BashConstants DEF BashInv, Queues, Streams, BashToolTypeOK

\* All the counts are numbers.
LEMMA CountNats ==
    ASSUME BashInv
    PROVE  /\ OwnOf(chunks) \in Nat /\ OwnOf(tail) \in Nat
           /\ OwnOf(pipe["stdout"]) \in Nat /\ OwnOf(pipe["stderr"]) \in Nat
           /\ InPipes \in Nat /\ Len(chunks) \in Nat /\ Len(tail) \in Nat
           /\ total \in Nat /\ written \in Nat
<1>1. OwnOf(pipe["stdout"]) \in Nat /\ OwnOf(pipe["stderr"]) \in Nat
    BY QueueSeqs, OwnNat DEF Streams
<1>2. OwnOf(chunks) \in Nat /\ OwnOf(tail) \in Nat
    BY QueueSeqs, OwnNat
<1>3. Len(chunks) \in Nat /\ Len(tail) \in Nat
    BY QueueSeqs
<1> QED BY <1>1, <1>2, <1>3, QueueSeqs DEF InPipes

\* A write adds at most one of the shell's chunks to the pipes.
LEMMA PipeGrows ==
    ASSUME BashInv, NEW s \in Streams, NEW e \in Nat, pipe' = [pipe EXCEPT ![s] = Append(pipe[s], e)]
    PROVE  /\ pipe' \in [Streams -> Seq(Nat)]
           /\ InPipes' = InPipes + (IF e = 0 THEN 0 ELSE 1)
<1>1. PICK q \in Seq(Nat) : q = pipe[s]
    BY QueueSeqs
<1>a. Append(q, e) \in Seq(Nat)
    OBVIOUS
<1>2. PICK longer \in Seq(Nat) : longer = Append(q, e)
    BY <1>a
<1>3. OwnOf(longer) = OwnOf(q) + (IF e = 0 THEN 0 ELSE 1)
    BY <1>1, <1>2, OwnAppend
<1>4. pipe' = [pipe EXCEPT ![s] = longer] /\ pipe \in [Streams -> Seq(Nat)]
    BY <1>1, <1>2, QueueSeqs
<1>5. InPipes' = InPipes + (IF e = 0 THEN 0 ELSE 1)
    <2>1. CASE s = "stdout"
        <3>1. pipe["stdout"] = q /\ pipe'["stdout"] = longer /\ pipe'["stderr"] = pipe["stderr"]
            BY <1>1, <1>4, <2>1 DEF Streams
        <3>2. /\ OwnOf(pipe["stdout"]) = OwnOf(q) /\ OwnOf(pipe'["stdout"]) = OwnOf(longer)
              /\ OwnOf(pipe'["stderr"]) = OwnOf(pipe["stderr"])
            BY <3>1, Zenon
        <3>3. PICK n \in Nat : n = OwnOf(pipe["stderr"])
            BY CountNats
        <3>4. OwnOf(q) \in Nat /\ OwnOf(longer) \in Nat
            BY <3>2, <1>2, OwnNat
        <3>5. InPipes = OwnOf(q) + n /\ InPipes' = OwnOf(longer) + n
            BY <3>2, <3>3, <3>4 DEF InPipes
        <3> QED BY <1>3, <3>3, <3>4, <3>5
    <2>2. CASE s = "stderr"
        <3>1. pipe["stderr"] = q /\ pipe'["stderr"] = longer /\ pipe'["stdout"] = pipe["stdout"]
            BY <1>1, <1>4, <2>2 DEF Streams
        <3>2. /\ OwnOf(pipe["stderr"]) = OwnOf(q) /\ OwnOf(pipe'["stderr"]) = OwnOf(longer)
              /\ OwnOf(pipe'["stdout"]) = OwnOf(pipe["stdout"])
            BY <3>1, Zenon
        <3>3. PICK n \in Nat : n = OwnOf(pipe["stdout"])
            BY CountNats
        <3>4. OwnOf(q) \in Nat /\ OwnOf(longer) \in Nat
            BY <3>2, <1>2, OwnNat
        <3>5. InPipes = OwnOf(q) + n /\ InPipes' = OwnOf(longer) + n
            BY <3>2, <3>3, <3>4 DEF InPipes
        <3> QED BY <1>3, <3>3, <3>4, <3>5
    <2> QED BY <2>1, <2>2 DEF Streams
<1>6. pipe' \in [Streams -> Seq(Nat)]
    BY <1>4
<1> QED BY <1>5, <1>6

\* A read takes from the pipes what it hands on.
LEMMA PipeShrinks ==
    ASSUME BashInv, NEW s \in Streams, pipe[s] # <<>>, pipe' = [pipe EXCEPT ![s] = Tail(pipe[s])]
    PROVE  /\ pipe' \in [Streams -> Seq(Nat)] /\ Head(pipe[s]) \in Nat
           /\ InPipes = InPipes' + (IF Head(pipe[s]) = 0 THEN 0 ELSE 1)
<1>1. PICK q \in Seq(Nat) : q = pipe[s] /\ q # <<>>
    BY QueueSeqs
<1>a. Tail(q) \in Seq(Nat) /\ Head(q) \in Nat
    BY <1>1
<1>2. PICK rest \in Seq(Nat) : rest = Tail(q)
    BY <1>a
<1>3. PICK e \in Nat : e = Head(q)
    BY <1>1
<1>4. OwnOf(q) = OwnOf(rest) + (IF e = 0 THEN 0 ELSE 1) /\ OwnOf(rest) \in Nat
    BY <1>1, <1>2, <1>3, OwnTail, OwnNat
<1>5. pipe' = [pipe EXCEPT ![s] = rest] /\ pipe \in [Streams -> Seq(Nat)]
    BY <1>1, <1>2, QueueSeqs
<1>6. InPipes = InPipes' + (IF e = 0 THEN 0 ELSE 1)
    <2>1. CASE s = "stdout"
        <3>1. pipe["stdout"] = q /\ pipe'["stdout"] = rest /\ pipe'["stderr"] = pipe["stderr"]
            BY <1>1, <1>5, <2>1 DEF Streams
        <3>2. /\ OwnOf(pipe["stdout"]) = OwnOf(q) /\ OwnOf(pipe'["stdout"]) = OwnOf(rest)
              /\ OwnOf(pipe'["stderr"]) = OwnOf(pipe["stderr"])
            BY <3>1, Zenon
        <3> QED BY <1>4, <3>2, CountNats DEF InPipes
    <2>2. CASE s = "stderr"
        <3>1. pipe["stderr"] = q /\ pipe'["stderr"] = rest /\ pipe'["stdout"] = pipe["stdout"]
            BY <1>1, <1>5, <2>2 DEF Streams
        <3>2. /\ OwnOf(pipe["stderr"]) = OwnOf(q) /\ OwnOf(pipe'["stderr"]) = OwnOf(rest)
              /\ OwnOf(pipe'["stdout"]) = OwnOf(pipe["stdout"])
            BY <3>1, Zenon
        <3> QED BY <1>4, <3>2, CountNats DEF InPipes
    <2> QED BY <2>1, <2>2 DEF Streams
<1>7. pipe' \in [Streams -> Seq(Nat)]
    BY <1>5
<1> QED BY <1>1, <1>3, <1>6, <1>7

\* Nothing is written yet.
LEMMA BashStart == ASSUME BashToolInit PROVE BashInv
<1> USE DEF BashToolInit
<1>1. /\ pipe["stdout"] = <<>> /\ pipe["stderr"] = <<>> /\ chunks = <<>> /\ tail = <<>>
      /\ Len(tail) = 0 /\ Len(chunks) = 0
    BY DEF Streams
<1>2. BashToolTypeOK
    <2>1. written \in 0..MaxWrites /\ updates \in 0..UpdateCap
        BY BashConstants
    <2>2. Len(chunks) <= ChunkCap /\ Len(tail) <= 4 * Budget
        BY <1>1, BashConstants
    <2> QED BY <2>1, <2>2 DEF BashToolTypeOK
<1>3. Queues
    <2>1. <<>> \in Seq(Nat)
        OBVIOUS
    <2>2. pipe \in [Streams -> Seq(Nat)] /\ chunks \in Seq(Nat) /\ tail \in Seq(Nat) /\ total \in Nat
        BY <2>1
    <2> QED BY <2>2 DEF Queues
<1>4. Counted
    BY <1>1, OwnEmpty DEF Counted, Collected, InPipes
<1> QED BY <1>2, <1>3, <1>4 DEF BashInv, Stopped, Exited, Drained, Decided

\* A step that moves no chunk leaves the queues as they are.
LEMMA QueuesStay ==
    ASSUME BashInv, UNCHANGED <<written, pipe, chunks, collectorVars>>
    PROVE  Queues' /\ Counted' /\ Len(chunks') <= ChunkCap /\ Len(tail') <= 4 * Budget
BY DEF BashInv, Queues, Counted, Collected, InPipes, collectorVars, BashToolTypeOK

\* The shell is started.
LEMMA SpawnKeeps == ASSUME BashInv, Spawn PROVE BashInv'
<1>1. Queues' /\ Counted' /\ Len(chunks') <= ChunkCap /\ Len(tail') <= 4 * Budget
    BY QueuesStay DEF Spawn
<1>2. PolicyVerdict(command) \in {"allowed", "denied", "bad_pattern"}
    BY DEF PolicyVerdict
<1>3. BashToolTypeOK'
    BY <1>1, <1>2 DEF Spawn, Return, BashInv, BashToolTypeOK
<1>4. shell = "none" /\ bash = "asked" /\ bashOutcome = "none"
    BY DEF Spawn, BashInv, Decided
<1>5. (Stopped /\ Exited /\ Drained)' /\ Decided'
    BY <1>2, <1>4 DEF Spawn, Return, Stopped, Exited, Drained, Decided
<1> QED BY <1>1, <1>3, <1>5 DEF BashInv

\* The shell writes a chunk into one of its pipes.
LEMMA ShellWritesKeeps == ASSUME BashInv, NEW s \in Streams, ShellWrites(s) PROVE BashInv'
<1>1. /\ pipe' \in [Streams -> Seq(Nat)]
      /\ InPipes' = InPipes + 1
    <2>1. pipe' = [pipe EXCEPT ![s] = Append(pipe[s], 1)] /\ 1 \in Nat /\ 1 # 0
        BY DEF ShellWrites
    <2> QED BY <2>1, PipeGrows
<1>2. /\ shell = "running" /\ written' = written + 1 /\ written' <= MaxWrites
      /\ UNCHANGED <<bash, shell, background, chunks, tail, cutTail, total, updates, bashOutcome>>
    BY CountNats, BashConstants DEF ShellWrites, collectorVars
<1>3. Queues'
    BY <1>1, <1>2 DEF BashInv, Queues
<1>4. Counted'
    <2>1. OwnOf(chunks) \in Nat /\ OwnOf(tail) \in Nat /\ written \in Nat
          /\ InPipes \in Nat
        BY CountNats
    <2> QED BY <1>1, <1>2, <2>1 DEF BashInv, Counted, Collected
<1>5. BashToolTypeOK'
    BY <1>2, CountNats, BashConstants DEF BashInv, BashToolTypeOK
<1>6. (Stopped /\ Exited /\ Drained)' /\ Decided'
    BY <1>2 DEF BashInv, Stopped, Exited, Drained, Decided, Writers
<1> QED BY <1>3, <1>4, <1>5, <1>6 DEF BashInv

\* A process the shell left behind writes: nothing of the shell's own.
LEMMA BackgroundWritesKeeps == ASSUME BashInv, NEW s \in Streams, BackgroundWrites(s) PROVE BashInv'
<1>0. pipe' = [pipe EXCEPT ![s] = Append(pipe[s], 0)]
    <2>1. Append(<<>>, 0) = <<0>>
        OBVIOUS
    <2> QED BY <2>1 DEF BackgroundWrites
<1>1. /\ pipe' \in [Streams -> Seq(Nat)]
      /\ InPipes' = InPipes
    <2>1. InPipes' = InPipes + 0 /\ pipe' \in [Streams -> Seq(Nat)]
        BY <1>0, PipeGrows
    <2> QED BY <2>1, CountNats
<1>2. /\ background = "writing"
      /\ UNCHANGED <<bash, shell, background, written, chunks, tail, cutTail, total, updates, bashOutcome>>
    BY DEF BackgroundWrites, collectorVars, processVars
<1>3. Queues' /\ Counted' /\ BashToolTypeOK'
    BY <1>1, <1>2 DEF BashInv, Queues, Counted, Collected, BashToolTypeOK
<1>4. (Stopped /\ Exited /\ Drained)' /\ Decided'
    BY <1>2 DEF BashInv, Stopped, Exited, Drained, Decided, Writers
<1> QED BY <1>3, <1>4 DEF BashInv

\* The shell ends, or a process it left behind.
LEMMA ProcessesKeep == ASSUME BashInv, ShellExits \/ BackgroundEnds PROVE BashInv'
<1>1. UNCHANGED <<written, pipe, chunks, collectorVars, bash, bashOutcome, updates>>
    BY DEF ShellExits, BackgroundEnds
<1>2. Queues' /\ Counted' /\ Len(chunks') <= ChunkCap /\ Len(tail') <= 4 * Budget
    BY <1>1, QueuesStay
<1>3. \/ /\ shell = "running" /\ shell' \in {"exited", "failed"}
         /\ background' \in {"none", "quiet", "writing"}
      \/ /\ shell' = shell /\ background # "none" /\ background' \in {"quiet", "none"}
         /\ bash # "answered"
    BY DEF ShellExits, BackgroundEnds
<1>4. BashToolTypeOK'
    BY <1>1, <1>2, <1>3 DEF BashInv, BashToolTypeOK
<1>5. (Stopped /\ Exited /\ Drained)' /\ Decided'
    BY <1>1, <1>3 DEF BashInv, Stopped, Exited, Drained, Decided, Writers
<1> QED BY <1>2, <1>4, <1>5 DEF BashInv

\* A reader task moves a chunk from its pipe to the channel, or to nobody.
LEMMA ForwardKeeps == ASSUME BashInv, NEW s \in Streams, Forward(s) PROVE BashInv'
<1>1. UNCHANGED <<bash, shell, background, written, tail, cutTail, total, updates, bashOutcome>>
    BY DEF Forward, processVars, collectorVars
<1>2. CASE UNCHANGED <<chunks, pipe>>
    BY <1>1, <1>2 DEF BashInv, Queues, Counted, Collected, InPipes, BashToolTypeOK, Stopped, Exited, Drained,
                      Decided, Writers
<1>3. CASE /\ pipe[s] # <<>> /\ bash # "answered" /\ Len(chunks) < ChunkCap
           /\ chunks' = Append(chunks, Head(pipe[s]))
           /\ pipe' = [pipe EXCEPT ![s] = Tail(pipe[s])]
    <2>1. /\ pipe' \in [Streams -> Seq(Nat)] /\ Head(pipe[s]) \in Nat
          /\ InPipes = InPipes' + (IF Head(pipe[s]) = 0 THEN 0 ELSE 1)
        BY <1>3, PipeShrinks
    <2>2. /\ chunks' \in Seq(Nat) /\ Len(chunks') = Len(chunks) + 1
          /\ OwnOf(chunks') = OwnOf(chunks) + (IF Head(pipe[s]) = 0 THEN 0 ELSE 1)
        <3>1. PICK e \in Nat : e = Head(pipe[s])
            BY <2>1
        <3>2. chunks \in Seq(Nat) /\ chunks' = Append(chunks, e)
            BY <1>3, <3>1, QueueSeqs
        <3>3. OwnOf(Append(chunks, e)) = OwnOf(chunks) + (IF e = 0 THEN 0 ELSE 1)
            BY <3>2, OwnAppend
        <3>4. Append(chunks, e) \in Seq(Nat) /\ Len(Append(chunks, e)) = Len(chunks) + 1
            BY <3>2
        <3> QED BY <3>1, <3>2, <3>3, <3>4
    <2>3. Queues'
        BY <1>1, <2>1, <2>2 DEF BashInv, Queues
    <2>4. Counted'
        <3>1. InPipes' \in Nat
            BY <2>1, OwnNat DEF Streams, InPipes
        <3>2. Collected' = Collected
            BY <1>1, <2>1, <2>2, <3>1, CountNats DEF Collected
        <3> QED BY <1>1, <3>2 DEF BashInv, Counted
    <2>5. BashToolTypeOK'
        BY <1>1, <1>3, <2>2, CountNats, BashConstants DEF BashInv, BashToolTypeOK
    <2>6. (Stopped /\ Exited /\ Drained)' /\ Decided'
        BY <1>1, <1>3 DEF BashInv, Stopped, Exited, Drained, Decided, Writers
    <2> QED BY <2>3, <2>4, <2>5, <2>6 DEF BashInv
<1> QED BY <1>2, <1>3 DEF Forward

\* The cancel token or the timeout: the group is killed.
LEMMA KillsKeep == ASSUME BashInv, SeeCancel \/ SeeTimeout PROVE BashInv'
<1>1. /\ UNCHANGED <<written, pipe, chunks, collectorVars, updates>>
      /\ bash = "loop" /\ bash' = "drain" /\ bashOutcome' \in {"aborted", "timeout"}
      /\ shell' = (IF shell = "running" THEN "killed" ELSE shell) /\ background' = "none"
    BY DEF SeeCancel, SeeTimeout, KillTree
<1>2. Queues' /\ Counted' /\ Len(chunks') <= ChunkCap /\ Len(tail') <= 4 * Budget
    BY <1>1, QueuesStay
<1>3. BashToolTypeOK'
    BY <1>1, <1>2 DEF BashInv, BashToolTypeOK
<1>4. (Stopped /\ Exited /\ Drained)' /\ Decided'
    BY <1>1 DEF BashInv, Stopped, Exited, Drained, Decided, Writers
<1> QED BY <1>2, <1>3, <1>4 DEF BashInv

\* The collector: what it has is what it had and the chunk, unless it cuts.
LEMMA PushKeeps ==
    ASSUME BashInv, chunks # <<>>, Push(Head(chunks)), chunks' = Tail(chunks),
           UNCHANGED <<written, pipe>>
    PROVE  Queues' /\ Counted' /\ Len(chunks') <= ChunkCap /\ Len(tail') <= 4 * Budget
<1> DEFINE longer == Append(tail, Head(chunks))
           n == Len(tail) + 1
<1>0. chunks \in Seq(Nat) /\ tail \in Seq(Nat)
    BY QueueSeqs
<1>a. /\ Head(chunks) \in Nat /\ Tail(chunks) \in Seq(Nat) /\ Len(Tail(chunks)) = Len(chunks) - 1
      /\ Len(chunks) \in Nat /\ Len(tail) \in Nat
    BY <1>0
<1>b. PICK e \in Nat : e = Head(chunks)
    BY <1>a
<1>1. /\ Tail(chunks) \in Seq(Nat) /\ Len(Tail(chunks)) = Len(chunks) - 1
      /\ longer \in Seq(Nat) /\ Len(longer) = n /\ n \in Nat /\ Len(chunks) \in Nat
    <2>1. longer = Append(tail, e)
        BY <1>b
    <2>2. Append(tail, e) \in Seq(Nat) /\ Len(Append(tail, e)) = Len(tail) + 1
        BY <1>0
    <2> QED BY <1>a, <2>1, <2>2
<1>2. /\ OwnOf(chunks) = OwnOf(chunks') + (IF e = 0 THEN 0 ELSE 1)
      /\ OwnOf(longer) = OwnOf(tail) + (IF e = 0 THEN 0 ELSE 1)
      /\ OwnOf(chunks') \in Nat
    <2>1. OwnOf(chunks) = OwnOf(chunks') + (IF e = 0 THEN 0 ELSE 1)
        BY <1>0, <1>b, OwnTail
    <2>2. OwnOf(longer) = OwnOf(tail) + (IF e = 0 THEN 0 ELSE 1)
        BY <1>0, <1>b, OwnAppend
    <2>3. OwnOf(chunks') \in Nat
        BY <1>a, OwnNat
    <2> QED BY <2>1, <2>2, <2>3
<1>3. /\ tail' = IF n > 4 * Budget THEN SubSeq(longer, n - 2 * Budget + 1, n) ELSE longer
      /\ cutTail' = (cutTail \/ n > 4 * Budget)
      /\ total' = IF total > Budget + MaxLines THEN total ELSE total + 1
    BY <1>1 DEF Push, Pushed
<1>4. tail' \in Seq(Nat) /\ Len(tail') <= 4 * Budget
    <2> HIDE DEF longer
    <2>1. CASE n > 4 * Budget
        <3>1. n - 2 * Budget + 1 \in 1..n + 1 /\ n - (n - 2 * Budget + 1) + 1 = 2 * Budget
            BY <1>1, <2>1, BashConstants
        <3> DEFINE from == n - 2 * Budget + 1
        <3>2. from \in Int /\ from >= 1 /\ from <= n + 1 /\ n - from + 1 = 2 * Budget
            BY <3>1
        <3>3. tail' = SubSeq(longer, from, n)
            BY <1>3, <2>1
        <3> HIDE DEF from, n
        <3>4. SubSeq(longer, from, n) \in Seq(Nat) /\ Len(SubSeq(longer, from, n)) = n - from + 1
            BY <1>1, <3>2, BashConstants
        <3> QED BY <3>2, <3>3, <3>4, BashConstants
    <2>2. CASE ~(n > 4 * Budget)
        <3>1. tail' = longer
            BY <1>3, <2>2
        <3> HIDE DEF n
        <3> QED BY <1>1, <2>2, <3>1, BashConstants
    <2> QED BY <2>1, <2>2
<1>5. Queues'
    <2>1. total' \in Nat /\ pipe' \in [Streams -> Seq(Nat)] /\ chunks' \in Seq(Nat)
        BY <1>1, <1>3, QueueSeqs
    <2>2. cutTail' \in BOOLEAN
        BY <1>3, Zenon
    <2> QED BY <1>4, <2>1, <2>2 DEF Queues
<1>6. Counted'
    <2> SUFFICES ASSUME ~cutTail'
                 PROVE  written = Collected' /\ (total' = Len(tail') \/ total' > Budget + MaxLines)
        BY DEF Counted
    <2>1. ~cutTail /\ tail' = longer
        BY <1>3
    <2>2. written = Collected /\ (total = Len(tail) \/ total > Budget + MaxLines)
        BY <2>1 DEF BashInv, Counted
    <2> HIDE DEF longer
    <2>p. InPipes' = InPipes
        BY DEF InPipes
    <2>3. written = Collected'
        BY <1>2, <2>p, <2>1, <2>2, CountNats DEF Collected
    <2>4. total' = Len(tail') \/ total' > Budget + MaxLines
        BY <1>1, <1>3, <2>1, <2>2, CountNats, BashConstants
    <2> QED BY <2>3, <2>4
<1>7. Len(chunks') <= ChunkCap
    BY <1>1, BashConstants DEF BashInv, BashToolTypeOK
<1> QED BY <1>4, <1>5, <1>6, <1>7

\* A chunk reaches the tail, which may be cut.
LEMMA ChunksKeep == ASSUME BashInv, SeeChunk \/ DrainChunk PROVE BashInv'
<1>1. /\ chunks # <<>> /\ Push(Head(chunks)) /\ chunks' = Tail(chunks)
      /\ UNCHANGED <<shell, background, written, pipe, updates, bashOutcome>>
      /\ \/ bash = "loop" /\ bash' = "updating"
         \/ bash = "drain" /\ bash' = bash
    BY DEF SeeChunk, DrainChunk, processVars
<1>2. Queues' /\ Counted' /\ Len(chunks') <= ChunkCap /\ Len(tail') <= 4 * Budget
    BY <1>1, PushKeeps
<1>3. BashToolTypeOK'
    BY <1>1, <1>2 DEF BashInv, BashToolTypeOK
<1>4. (Stopped /\ Exited /\ Drained)' /\ Decided'
    BY <1>1 DEF BashInv, Stopped, Exited, Drained, Decided, Writers
<1> QED BY <1>2, <1>3, <1>4 DEF BashInv

\* The progress updates touch no chunk.
LEMMA UpdatesKeep == ASSUME BashInv, SendUpdate \/ AgentTakesUpdate \/ CancelCall PROVE BashInv'
<1>1. /\ UNCHANGED <<shell, background, written, pipe, chunks, collectorVars, bashOutcome>>
      /\ updates' \in 0..UpdateCap
      /\ (bash = "updating" /\ bash' = "loop") \/ bash' = bash
    BY BashConstants DEF SendUpdate, AgentTakesUpdate, CancelCall, processVars, BashInv, BashToolTypeOK
<1>2. Queues' /\ Counted' /\ Len(chunks') <= ChunkCap /\ Len(tail') <= 4 * Budget
    BY <1>1, QueuesStay
<1>3. BashToolTypeOK'
    BY <1>1, <1>2 DEF BashInv, BashToolTypeOK
<1>4. (Stopped /\ Exited /\ Drained)' /\ Decided'
    BY <1>1 DEF BashInv, Stopped, Exited, Drained, Decided, Writers
<1> QED BY <1>2, <1>3, <1>4 DEF BashInv

\* The shell was seen to end; the drain is over.
LEMMA EndsOfCall == ASSUME BashInv, SeeExit \/ DrainEnds PROVE BashInv'
<1>1. /\ UNCHANGED <<shell, background, written, pipe, chunks, collectorVars, updates>>
      /\ \/ /\ bash = "loop" /\ bash' = "drain" /\ shell \in {"exited", "failed"}
            /\ bashOutcome' = shell
         \/ /\ bash = "drain" /\ bash' = "answered" /\ bashOutcome' = bashOutcome
            /\ \/ chunks = <<>> /\ \A s \in Streams : pipe[s] = <<>>
               \/ background = "writing"
    BY DEF SeeExit, DrainEnds, processVars
<1>2. Queues' /\ Counted' /\ Len(chunks') <= ChunkCap /\ Len(tail') <= 4 * Budget
    BY <1>1, QueuesStay
<1>3. BashToolTypeOK'
    BY <1>1, <1>2 DEF BashInv, BashToolTypeOK
<1>4. (Stopped /\ Exited /\ Drained)' /\ Decided'
    BY <1>1 DEF BashInv, Stopped, Exited, Drained, Decided, Writers
<1> QED BY <1>2, <1>3, <1>4 DEF BashInv

\* Every step keeps the invariant.
LEMMA BashStep == BashInv /\ [BashToolNext]_bashVars => BashInv'
<1> SUFFICES ASSUME BashInv, [BashToolNext]_bashVars PROVE BashInv'
    OBVIOUS
<1>1. CASE UNCHANGED bashVars
    BY <1>1 DEF bashVars, BashInv, Queues, Counted, Collected, InPipes, BashToolTypeOK, Stopped, Exited,
                Drained, Decided, Writers
<1> QED BY <1>1, SpawnKeeps, ShellWritesKeeps, BackgroundWritesKeeps, ProcessesKeep, ForwardKeeps,
           KillsKeep, ChunksKeep, UpdatesKeep, EndsOfCall DEF BashToolNext

\* A tail within the limits is shown whole.
LEMMA LastOfShort ==
    ASSUME NEW s \in Seq(Nat), NEW n \in Nat
    PROVE  /\ LastOf(s, n) \in Seq(Nat) /\ Len(LastOf(s, n)) <= n /\ Len(LastOf(s, n)) <= Len(s)
           /\ (Len(s) <= n => LastOf(s, n) = s)
<1>1. CASE Len(s) > n
    <2> DEFINE from == Len(s) - n + 1
               to == Len(s)
    <2>1. from \in Int /\ from >= 1 /\ from <= to + 1 /\ to - from + 1 = n /\ to \in Nat
        BY <1>1
    <2>2. LastOf(s, n) = SubSeq(s, from, to)
        BY <1>1 DEF LastOf
    <2>3. to = Len(s)
        OBVIOUS
    <2> HIDE DEF from, to
    <2>4. SubSeq(s, from, to) \in Seq(Nat) /\ Len(SubSeq(s, from, to)) = to - from + 1
        BY <2>1, <2>3
    <2> QED BY <1>1, <2>1, <2>2, <2>3, <2>4
<1>2. CASE ~(Len(s) > n)
    BY <1>2 DEF LastOf
<1> QED BY <1>1, <1>2

\* What the invariant says of an answer.
LEMMA BashInvSound == BashInv => BashToolTypeOK /\ ExitOutputKept /\ NothingCutSilently /\ StoppedMeansStopped
<1> SUFFICES ASSUME BashInv PROVE ExitOutputKept /\ NothingCutSilently /\ StoppedMeansStopped
    BY DEF BashInv
<1>1. /\ tail \in Seq(Nat) /\ Len(tail) \in Nat /\ total \in Nat
      /\ Budget \in Nat /\ MaxLines \in Nat
    BY QueueSeqs, CountNats, BashConstants
<1> DEFINE short == LastOf(tail, Budget)
<1>2. /\ short \in Seq(Nat) /\ Len(short) <= Budget /\ Len(short) <= Len(tail)
      /\ (Len(tail) <= Budget => short = tail)
    BY <1>1, LastOfShort
<1>3. Rendered = LastOf(short, MaxLines)
    BY DEF Rendered
<1> HIDE DEF short
<1>4. /\ Rendered \in Seq(Nat) /\ Len(Rendered) <= MaxLines /\ Len(Rendered) <= Len(short)
      /\ (Len(short) <= MaxLines => Rendered = short)
    BY <1>1, <1>2, <1>3, LastOfShort
<1>5. ~WasTruncated => ~cutTail /\ total = Len(tail) /\ Rendered = tail
    <2> SUFFICES ASSUME ~WasTruncated PROVE ~cutTail /\ total = Len(tail) /\ Rendered = tail
        OBVIOUS
    <2>1. ~cutTail /\ total <= Budget /\ total <= MaxLines
        BY <1>1 DEF WasTruncated
    <2>2. total = Len(tail)
        BY <1>1, <2>1 DEF BashInv, Counted
    <2> QED BY <1>1, <1>2, <1>4, <2>1, <2>2
<1>6. Len(Rendered) \in Nat /\ Len(short) \in Nat
    BY <1>2, <1>4
<1>7. NothingCutSilently
    BY <1>1, <1>2, <1>4, <1>5, <1>6 DEF NothingCutSilently
<1>8. ExitOutputKept
    <2> SUFFICES ASSUME bash = "answered", bashOutcome \in {"exited", "failed"},
                        background # "writing", ~WasTruncated
                 PROVE  OwnOf(Rendered) = written
        BY DEF ExitOutputKept
    <2>1. chunks = <<>> /\ pipe["stdout"] = <<>> /\ pipe["stderr"] = <<>>
        BY DEF BashInv, Drained, Streams
    <2>2. written = Collected
        BY <1>5 DEF BashInv, Counted
    <2> QED BY <1>5, <2>1, <2>2, OwnEmpty, CountNats DEF Collected, InPipes
<1>9. StoppedMeansStopped
    BY DEF BashInv, Stopped, StoppedMeansStopped
<1> QED BY <1>7, <1>8, <1>9

\* BashTool::execute: whatever the order of the two pipes, the shell's exit, the token and the
\* timeout, an answer is the whole of the output or says that it is not.
THEOREM BashAnswers == BashToolSpec => BashSound
<1>1. BashToolInit => BashInv
    BY BashStart
<1>2. BashInv /\ [BashToolNext]_bashVars => BashInv'
    BY BashStep
<1>3. BashInv => BashToolTypeOK /\ ExitOutputKept /\ NothingCutSilently /\ StoppedMeansStopped
    BY BashInvSound
<1>4. [BashToolNext]_bashVars
        => [bash' = "drain" /\ bash # "drain" /\ bashCancelled => bashOutcome' = "aborted"]_bashVars
    <2> SUFFICES ASSUME BashToolNext, bash' = "drain", bash # "drain", bashCancelled
                 PROVE  bashOutcome' = "aborted"
        OBVIOUS
    <2> QED BY DEF BashToolNext, Spawn, Return, ShellExits, BackgroundEnds, CancelCall,
                   AgentTakesUpdate, SeeCancel, SeeTimeout, SeeChunk, SendUpdate, SeeExit, DrainChunk,
                   DrainEnds, ShellWrites, BackgroundWrites, Forward
<1> QED BY <1>1, <1>2, <1>3, <1>4, PTL DEF BashToolSpec, BashSound, CancelDecides

-----------------------------------------------------------------------------
(***************************************************************************)
(* The web tools.  The requests sent to a host are paid for with tokens.   *)
(***************************************************************************)
Phases == {"start", "robots", "throttled", "checking", "requesting", "excerpt", "streaming",
           "parsing", "extracting", "done"}
WebResults == {"none", "failed", "aborted", "hits", "page", "clipped page", "too big"}
CallRecord ==
    [request : [tool : {"read", "search"}, page : Pages, javascript : BOOLEAN],
     phase : Phases, at : Pages, sent : Seq(Pages), asked : BOOLEAN,
     size : Nat, got : Nat, clipped : BOOLEAN, result : WebResults]

\* The limit a request comes with; CapOf of the call that has it.
CapFor(req) ==
    IF req.tool = "search" THEN ConfiguredCap
    ELSE LET share == IF ContextShare < ConfiguredCap THEN ContextShare ELSE ConfiguredCap
         IN IF share < LeastCap THEN LeastCap ELSE share

BucketsTyped ==
    /\ bucket \in [DOMAIN bucket -> 0..Burst]
    /\ ticks \in Nat
WebTypeOK ==
    /\ web \in [WebCalls -> CallRecord]
    /\ robots \in [Origins -> Rules \cup {Unasked}]
    /\ BucketsTyped /\ webStop \in BOOLEAN

\* Before its first request a call is where it was sent.
Unsent(k) == k.phase \in {"start", "robots", "throttled"} => k.sent = <<>> /\ k.at = k.request.page

\* What has been answered was asked.
Sent(k) == k.phase \in {"requesting", "excerpt", "streaming", "parsing", "extracting"} => k.sent # <<>>

\* A call only goes on to ask for what may be asked, and not too often.
Addressed(k) ==
    /\ Range(k.sent) \cap Refused = {}
    /\ Len(k.sent) <= MaxRedirects + 1
    /\ k.phase = "checking" => Len(k.sent) <= MaxRedirects

\* A read that did not ask for the rules itself goes by those that are kept.
Ruled(k, kept) ==
    k.request.tool = "read" /\ ~k.asked =>
        /\ k.sent # <<>> =>
               kept[OriginOf[k.sent[1]]] # Unasked /\ k.sent[1] \notin kept[OriginOf[k.sent[1]]]
        /\ k.sent = <<>> /\ k.phase \in {"throttled", "checking"} =>
               kept[OriginOf[k.at]] # Unasked /\ k.at \notin kept[OriginOf[k.at]]

\* What has arrived, and what is said of it.
Measured(k) ==
    /\ k.got <= CapFor(k.request)
    /\ k.phase \in {"start", "robots", "throttled", "checking", "requesting"} => k.got = 0
    /\ k.phase \notin {"parsing", "extracting", "done"} => ~k.clipped
    /\ k.clipped => k.size > CapFor(k.request) /\ k.got = CapFor(k.request)
    /\ k.phase = "extracting" /\ ~k.clipped => k.got = k.size
    /\ k.phase # "done" => k.result = "none"
    /\ k.result = "page" => k.got = k.size
    /\ k.result \in {"clipped page", "too big"} => k.clipped

CallSound(k, kept) == Unsent(k) /\ Sent(k) /\ Addressed(k) /\ Ruled(k, kept) /\ Measured(k)

Hosts == {HostOf[p] : p \in Pages}
Spends(k, host) ==
    HostOf[k.request.page] = host /\ (k.sent # <<>> \/ k.phase \in {"checking", "requesting"})
Spenders(host) == {c \in WebCalls : Spends(web[c], host)}
BudgetKept(host) == Cardinality(Spenders(host)) + Tokens(host) <= Burst + ticks

WebInv ==
    /\ WebTypeOK
    /\ \A c \in WebCalls : CallSound(web[c], robots)
    /\ \A host \in Hosts : BudgetKept(host)

\* One call's record changes, and nobody else's.
Becomes(c, k) == web' = [web EXCEPT ![c] = k]

\* The limits are numbers.
LEMMA WebConstants ==
    /\ Burst \in Nat \ {0} /\ MaxRedirects \in Nat /\ IsFiniteSet(WebCalls)
    /\ ConfiguredCap \in Nat /\ ContextShare \in Nat /\ LeastCap \in Nat
    /\ PageSizes \subseteq Nat /\ ChunkSizes \subseteq Nat
BY WebAssumption

\* The limit a call reads by is a number.
LEMMA CapNatural ==
    /\ \A req : CapFor(req) \in Nat
    /\ \A c : CapOf(c) = CapFor(web[c].request)
BY WebConstants DEF CapFor, CapOf

\* What a step of one call has to keep for the others to be as they were.
LEMMA RulesStay ==
    ASSUME WebInv, NEW c \in WebCalls, CallSound(web[c], robots),
           robots' \in [Origins -> Rules \cup {Unasked}],
           \A o \in Origins : robots[o] # Unasked => robots'[o] = robots[o]
    PROVE  CallSound(web[c], robots')
<1>1. web[c] \in CallRecord
    BY DEF WebInv, WebTypeOK
<1>2. \A p \in Pages : OriginOf[p] \in Origins
    BY DEF Origins
<1>3. web[c].at \in Pages /\ (web[c].sent # <<>> => web[c].sent[1] \in Pages)
    <2>1. web[c].at \in Pages /\ web[c].sent \in Seq(Pages)
        BY <1>1 DEF CallRecord
    <2> QED BY <2>1
<1>4. Ruled(web[c], robots')
    BY <1>2, <1>3 DEF CallSound, Ruled
<1> QED BY <1>4 DEF CallSound

\* One call's record changes, the others stay.
LEMMA CallStep ==
    ASSUME WebInv, NEW c \in WebCalls, NEW k \in CallRecord, Becomes(c, k),
           CallSound(k, robots'),
           \A host \in Hosts : Spends(k, host) => Spends(web[c], host),
           robots' \in [Origins -> Rules \cup {Unasked}],
           \A o \in Origins : robots[o] # Unasked => robots'[o] = robots[o],
           UNCHANGED <<bucket, ticks, webStop>>
    PROVE  WebInv'
<1>1. web' \in [WebCalls -> CallRecord] /\ web'[c] = k
      /\ \A d \in WebCalls \ {c} : web'[d] = web[d]
    BY DEF Becomes, WebInv, WebTypeOK
<1>2. WebTypeOK'
    BY <1>1 DEF WebInv, WebTypeOK, BucketsTyped
<1>3. \A d \in WebCalls : CallSound(web'[d], robots')
    BY <1>1, RulesStay DEF WebInv
<1>4. ASSUME NEW host \in Hosts PROVE BudgetKept(host)'
    <2>1. Spenders(host)' \subseteq Spenders(host)
        BY <1>1 DEF Spenders
    <2>2. IsFiniteSet(Spenders(host))
        BY WebConstants, FS_Subset DEF Spenders
    <2>3. /\ Cardinality(Spenders(host)') <= Cardinality(Spenders(host))
          /\ Cardinality(Spenders(host)') \in Nat /\ Cardinality(Spenders(host)) \in Nat
        BY <2>1, <2>2, FS_Subset, FS_CardinalityType
    <2>4. Tokens(host)' = Tokens(host) /\ ticks' = ticks
        BY DEF Tokens
    <2>5. Tokens(host) \in Nat /\ ticks \in Nat
        BY WebConstants DEF WebInv, WebTypeOK, BucketsTyped, Tokens
    <2>6. Cardinality(Spenders(host)) + Tokens(host) <= Burst + ticks
        BY DEF WebInv, BudgetKept
    <2>7. Cardinality(Spenders(host)') + Tokens(host)' <= Burst + ticks'
        BY <2>3, <2>4, <2>5, <2>6, WebConstants
    <2> QED BY <2>7 DEF BudgetKept
<1> QED BY <1>2, <1>3, <1>4 DEF WebInv


Moved(k, phase) == [k EXCEPT !.phase = phase]
Ended(k, result) == [k EXCEPT !.phase = "done", !.result = result]

\* A call in another phase is the same otherwise.
LEMMA MovedCall ==
    ASSUME NEW k \in CallRecord, NEW phase \in Phases
    PROVE  /\ Moved(k, phase) \in CallRecord
           /\ Moved(k, phase).phase = phase /\ Moved(k, phase).request = k.request
           /\ Moved(k, phase).at = k.at /\ Moved(k, phase).sent = k.sent
           /\ Moved(k, phase).asked = k.asked /\ Moved(k, phase).size = k.size
           /\ Moved(k, phase).got = k.got /\ Moved(k, phase).clipped = k.clipped
           /\ Moved(k, phase).result = k.result
BY DEF Moved, CallRecord

\* A call that is over is the same otherwise.
LEMMA EndedCall ==
    ASSUME NEW k \in CallRecord, NEW result \in WebResults
    PROVE  /\ Ended(k, result) \in CallRecord
           /\ Ended(k, result).phase = "done" /\ Ended(k, result).request = k.request
           /\ Ended(k, result).at = k.at /\ Ended(k, result).sent = k.sent
           /\ Ended(k, result).asked = k.asked /\ Ended(k, result).size = k.size
           /\ Ended(k, result).got = k.got /\ Ended(k, result).clipped = k.clipped
           /\ Ended(k, result).result = result
BY DEF Ended, CallRecord, Phases

\* What the type says of one call.
LEMMA CallKnown ==
    ASSUME WebInv, NEW c \in WebCalls
    PROVE  /\ web[c] \in CallRecord /\ CallSound(web[c], robots)
           /\ web[c].at \in Pages /\ web[c].sent \in Seq(Pages)
           /\ web[c].size \in Nat /\ web[c].got \in Nat
           /\ web[c].asked \in BOOLEAN /\ web[c].clipped \in BOOLEAN
           /\ web[c].request.page \in Pages
           /\ OriginOf[web[c].at] \in Origins
BY DEF WebInv, WebTypeOK, CallRecord, Origins

\* A call that is over asks for nothing more.
LEMMA CallEnds ==
    ASSUME WebInv, NEW c \in WebCalls, NEW result \in WebResults, End(c, result),
           result = "page" => web[c].got = web[c].size,
           result \in {"clipped page", "too big"} => web[c].clipped,
           robots' \in [Origins -> Rules \cup {Unasked}],
           \A o \in Origins : robots[o] # Unasked => robots'[o] = robots[o],
           UNCHANGED <<bucket, ticks, webStop>>
    PROVE  WebInv'
<1> DEFINE k == Ended(web[c], result)
<1>1. web[c] \in CallRecord /\ CallSound(web[c], robots')
    BY CallKnown, RulesStay
<1>2. k \in CallRecord /\ k.phase = "done" /\ k.request = web[c].request /\ k.at = web[c].at
      /\ k.sent = web[c].sent /\ k.asked = web[c].asked /\ k.size = web[c].size
      /\ k.got = web[c].got /\ k.clipped = web[c].clipped /\ k.result = result
    BY <1>1, EndedCall
<1>3. Becomes(c, k)
    BY DEF Becomes, End, Ended
<1> HIDE DEF k
<1>4. Unsent(k) /\ Sent(k) /\ Addressed(k) /\ Ruled(k, robots')
    BY <1>1, <1>2 DEF CallSound, Unsent, Sent, Addressed, Ruled
<1>5. Measured(k)
    BY <1>1, <1>2 DEF CallSound, Measured
<1>6. \A host \in Hosts : Spends(k, host) => Spends(web[c], host)
    BY <1>2 DEF Spends
<1> QED BY <1>2, <1>3, <1>4, <1>5, <1>6, CallStep DEF CallSound

\* A call that moves on to a phase whose conditions it meets.
LEMMA EnterKeeps ==
    ASSUME WebInv, NEW c \in WebCalls, NEW phase \in Phases, Enter(c, phase), phase # "done",
           web[c].phase # "done",
           Unsent(Moved(web[c], phase)), Sent(Moved(web[c], phase)), Addressed(Moved(web[c], phase)),
           Ruled(Moved(web[c], phase), robots), Measured(Moved(web[c], phase)),
           phase \notin {"checking", "requesting"},
           UNCHANGED <<robots, bucket, ticks, webStop>>
    PROVE  WebInv'
<1> DEFINE k == Moved(web[c], phase)
<1>1. k \in CallRecord /\ k.phase = phase /\ k.request = web[c].request /\ k.sent = web[c].sent
    BY CallKnown, MovedCall
<1>2. Becomes(c, k)
    BY DEF Becomes, Enter, Moved
<1>3. CallSound(k, robots')
    BY DEF CallSound
<1>4. robots' \in [Origins -> Rules \cup {Unasked}]
    BY DEF WebInv, WebTypeOK
<1> HIDE DEF k
<1>5. \A host \in Hosts : Spends(k, host) => Spends(web[c], host)
    BY <1>1 DEF Spends
<1> QED BY <1>1, <1>2, <1>3, <1>4, <1>5, CallStep

\* A read goes by the rules that are kept: it fails, or waits for its turn.
LEMMA JudgeKeeps ==
    ASSUME WebInv, NEW c \in WebCalls, In(c, "start"), web[c].request.tool = "read",
           robots[OriginOf[web[c].at]] # Unasked, Judge(c, robots[OriginOf[web[c].at]]),
           UNCHANGED <<robots, bucket, ticks, webStop>>
    PROVE  WebInv'
<1>1. CASE web[c].at \in robots[OriginOf[web[c].at]]
    <2>1. End(c, "failed") /\ "failed" \in WebResults
        BY <1>1 DEF Judge, WebResults
    <2> QED BY <2>1, CallEnds DEF WebInv, WebTypeOK
<1>2. CASE web[c].at \notin robots[OriginOf[web[c].at]]
    <2> DEFINE k == Moved(web[c], "throttled")
    <2>1. Enter(c, "throttled") /\ "throttled" \in Phases
        BY <1>2 DEF Judge, Phases
    <2>2. k.phase = "throttled" /\ k.request = web[c].request /\ k.at = web[c].at
          /\ k.sent = web[c].sent /\ k.asked = web[c].asked /\ k.size = web[c].size
          /\ k.got = web[c].got /\ k.clipped = web[c].clipped /\ k.result = web[c].result
        BY <2>1, CallKnown, MovedCall
    <2> HIDE DEF k
    <2>3. Unsent(k) /\ Sent(k) /\ Addressed(k) /\ Ruled(k, robots) /\ Measured(k)
        BY <1>2, <2>2, CallKnown DEF CallSound, Unsent, Sent, Addressed, Ruled, Measured, In
    <2>4. web[c].phase # "done"
        BY DEF In
    <2> QED BY <2>1, <2>3, <2>4, EnterKeeps DEF k
<1> QED BY <1>1, <1>2

\* A call begins: it asks for the rules, goes by them, or needs none.
LEMMA BeginKeeps ==
    ASSUME WebInv, NEW c \in WebCalls, Begin(c)
    PROVE  WebInv'
<1> USE DEF Begin
<1>1. In(c, "start") /\ UNCHANGED <<robots, bucket, ticks, webStop>>
    OBVIOUS
<1>2. robots' \in [Origins -> Rules \cup {Unasked}] /\ web[c].phase # "done"
    BY <1>1 DEF WebInv, WebTypeOK, In
<1>3. ASSUME NEW phase \in {"robots", "throttled"}, Enter(c, phase),
             phase = "throttled" => web[c].request.tool = "search"
      PROVE  WebInv'
    <2> DEFINE k == Moved(web[c], phase)
    <2>1. phase \in Phases /\ phase # "done" /\ phase \notin {"checking", "requesting"}
        BY DEF Phases
    <2>2. k.phase = phase /\ k.request = web[c].request /\ k.at = web[c].at
          /\ k.sent = web[c].sent /\ k.asked = web[c].asked /\ k.size = web[c].size
          /\ k.got = web[c].got /\ k.clipped = web[c].clipped /\ k.result = web[c].result
        BY <2>1, CallKnown, MovedCall
    <2> HIDE DEF k
    <2>3. Unsent(k) /\ Sent(k) /\ Addressed(k) /\ Measured(k)
        BY <1>1, <1>3, <2>2, CallKnown DEF CallSound, Unsent, Sent, Addressed, Measured, In
    <2>4. Ruled(k, robots)
        BY <1>1, <1>3, <2>2, CallKnown DEF CallSound, Unsent, Sent, Ruled, In
    <2> QED BY <1>1, <1>2, <1>3, <2>1, <2>3, <2>4, EnterKeeps DEF k
<1>4. CASE web[c].request.tool = "search" /\ Enter(c, "throttled")
    BY <1>3, <1>4
<1>5. CASE web[c].request.tool = "read" /\ web[c].at \in Refused
    <2>1. End(c, "failed") /\ "failed" \in WebResults
        BY <1>5 DEF WebResults
    <2> QED BY <1>1, <1>2, <2>1, CallEnds
<1>6. CASE web[c].request.tool = "read" /\ web[c].at \notin Refused
           /\ robots[OriginOf[web[c].at]] = Unasked
    <2>1. Enter(c, "robots")
        BY <1>6
    <2> QED BY <1>3, <2>1
<1>7. CASE web[c].request.tool = "read" /\ web[c].at \notin Refused
           /\ robots[OriginOf[web[c].at]] # Unasked
    <2>1. Judge(c, robots[OriginOf[web[c].at]])
        BY <1>7
    <2> QED BY <1>1, <1>7, <2>1, JudgeKeeps
<1> QED BY <1>4, <1>5, <1>6, <1>7


\* The first answer for an origin is kept, the call goes by its own.
LEMMA RobotsKeeps ==
    ASSUME WebInv, NEW c \in WebCalls, RobotsAnswer(c)
    PROVE  WebInv'
<1> DEFINE origin == OriginOf[web[c].at]
<1>1. PICK disallowed \in Rules :
          /\ robots' = [robots EXCEPT ![origin] =
                            IF robots[origin] = Unasked THEN disallowed ELSE robots[origin]]
          /\ web' = [web EXCEPT ![c].asked = TRUE,
                         ![c].phase = IF web[c].at \notin disallowed THEN "throttled" ELSE "done",
                         ![c].result = IF web[c].at \notin disallowed THEN web[c].result ELSE "failed"]
    BY DEF RobotsAnswer
<1>2. In(c, "robots") /\ UNCHANGED <<bucket, ticks, webStop>>
    BY DEF RobotsAnswer
<1> DEFINE allowed == web[c].at \notin disallowed
           k == [web[c] EXCEPT !.asked = TRUE, !.phase = IF allowed THEN "throttled" ELSE "done",
                               !.result = IF allowed THEN web[c].result ELSE "failed"]
<1>3. robots \in [Origins -> Rules \cup {Unasked}] /\ origin \in Origins
    BY CallKnown DEF WebInv, WebTypeOK
<1>4. /\ robots' \in [Origins -> Rules \cup {Unasked}]
      /\ \A o \in Origins : robots[o] # Unasked => robots'[o] = robots[o]
    BY <1>1, <1>3
<1>5. web[c] \in CallRecord /\ CallSound(web[c], robots)
    BY CallKnown
<1>6. k \in CallRecord /\ k.phase \in {"throttled", "done"} /\ k.request = web[c].request
      /\ k.at = web[c].at /\ k.sent = web[c].sent /\ k.asked = TRUE /\ k.size = web[c].size
      /\ k.got = web[c].got /\ k.clipped = web[c].clipped /\ k.result \in {web[c].result, "failed"}
      /\ (k.phase # "done" => k.result = web[c].result)
    BY <1>5 DEF CallRecord, Phases, WebResults
<1>7. Becomes(c, k)
    BY <1>1 DEF Becomes
<1> HIDE DEF k
<1>8. Unsent(k) /\ Sent(k) /\ Addressed(k) /\ Ruled(k, robots') /\ Measured(k)
    BY <1>2, <1>5, <1>6 DEF CallSound, Unsent, Sent, Addressed, Ruled, Measured, In
<1>9. \A host \in Hosts : Spends(k, host) => Spends(web[c], host)
    BY <1>6 DEF Spends
<1> QED BY <1>2, <1>4, <1>6, <1>7, <1>8, <1>9, CallStep DEF CallSound

\* What is kept of robots.txt stays.
LEMMA RobotsTyped ==
    ASSUME WebInv, UNCHANGED robots
    PROVE  /\ robots' \in [Origins -> Rules \cup {Unasked}]
           /\ \A o \in Origins : robots[o] # Unasked => robots'[o] = robots[o]
BY DEF WebInv, WebTypeOK

\* A request sent is one more.
LEMMA LongerSeq ==
    ASSUME NEW S, NEW s \in Seq(S), NEW e \in S
    PROVE  /\ Len(Append(s, e)) = Len(s) + 1 /\ Len(s) \in Nat /\ Append(s, e) # <<>>
           /\ Range(Append(s, e)) \subseteq Range(s) \cup {e}
           /\ Append(s, e)[1] = IF s = <<>> THEN e ELSE s[1]
<1>1. /\ Len(Append(s, e)) = Len(s) + 1 /\ Len(s) \in Nat /\ Append(s, e) # <<>>
      /\ DOMAIN Append(s, e) = 1..Len(s) + 1 /\ DOMAIN s = 1..Len(s)
      /\ \A i \in 1..Len(s) : Append(s, e)[i] = s[i]
      /\ Append(s, e)[Len(s) + 1] = e
    OBVIOUS
<1>2. ASSUME NEW x \in Range(Append(s, e)) PROVE x \in Range(s) \cup {e}
    <2>1. PICK i \in 1..Len(s) + 1 : x = Append(s, e)[i]
        BY <1>1 DEF Range
    <2>2. CASE i = Len(s) + 1
        BY <1>1, <2>1, <2>2
    <2>3. CASE i \in 1..Len(s)
        BY <1>1, <2>1, <2>3 DEF Range
    <2> QED BY <1>1, <2>1, <2>2, <2>3
<1>3. s = <<>> \/ 1 \in 1..Len(s)
    BY <1>1
<1> QED BY <1>1, <1>2, <1>3

\* The destination is refused, or asked.
LEMMA CheckKeeps ==
    ASSUME WebInv, NEW c \in WebCalls, CheckDestination(c)
    PROVE  WebInv'
<1>1. In(c, "checking") /\ UNCHANGED <<robots, bucket, ticks, webStop>>
    BY DEF CheckDestination
<1>2. CASE End(c, "failed")
    <2>1. "failed" \in WebResults
        BY DEF WebResults
    <2> QED BY <1>1, <1>2, <2>1, RobotsTyped, CallEnds
<1>3. CASE /\ web[c].at \notin Refused
           /\ web' = [web EXCEPT ![c].phase = "requesting", ![c].sent = Append(web[c].sent, web[c].at)]
    <2> DEFINE k == [web[c] EXCEPT !.phase = "requesting", !.sent = Append(web[c].sent, web[c].at)]
    <2>1. web[c] \in CallRecord /\ CallSound(web[c], robots) /\ web[c].at \in Pages
          /\ web[c].sent \in Seq(Pages)
        BY CallKnown
    <2>2. Append(web[c].sent, web[c].at) \in Seq(Pages)
        BY <2>1
    <2>3. k \in CallRecord /\ k.phase = "requesting" /\ k.request = web[c].request
          /\ k.at = web[c].at /\ k.sent = Append(web[c].sent, web[c].at) /\ k.asked = web[c].asked
          /\ k.size = web[c].size /\ k.got = web[c].got /\ k.clipped = web[c].clipped
          /\ k.result = web[c].result
        BY <2>1, <2>2 DEF CallRecord, Phases
    <2>4. Becomes(c, k)
        BY <1>3 DEF Becomes
    <2> HIDE DEF k
    <2>5. Len(k.sent) = Len(web[c].sent) + 1 /\ Len(web[c].sent) \in Nat /\ k.sent # <<>>
          /\ Range(k.sent) \subseteq Range(web[c].sent) \cup {web[c].at}
          /\ k.sent[1] = IF web[c].sent = <<>> THEN web[c].at ELSE web[c].sent[1]
        BY <2>1, <2>3, LongerSeq
    <2>6. Unsent(k) /\ Sent(k) /\ Measured(k)
        BY <1>1, <2>1, <2>3, <2>5 DEF CallSound, Unsent, Sent, Measured, In
    <2>7. Addressed(k)
        BY <1>1, <1>3, <2>1, <2>3, <2>5, WebConstants DEF CallSound, Addressed, In
    <2>8. Ruled(k, robots)
        BY <1>1, <2>1, <2>3, <2>5 DEF CallSound, Ruled, In
    <2>9. \A host \in Hosts : Spends(k, host) => Spends(web[c], host)
        BY <1>1, <2>3 DEF Spends, In
    <2> QED BY <1>1, <2>3, <2>4, <2>6, <2>7, <2>8, <2>9, RobotsTyped, CallStep DEF CallSound
<1> QED BY <1>2, <1>3 DEF CheckDestination

\* The server answers.
LEMMA RespondKeeps ==
    ASSUME WebInv, NEW c \in WebCalls, Respond(c)
    PROVE  WebInv'
<1>1. In(c, "requesting") /\ UNCHANGED <<robots, bucket, ticks, webStop>>
    BY DEF Respond
<1>2. web[c] \in CallRecord /\ CallSound(web[c], robots)
    BY CallKnown
<1>3. CASE End(c, "failed")
    <2>1. "failed" \in WebResults
        BY DEF WebResults
    <2> QED BY <1>1, <1>3, <2>1, RobotsTyped, CallEnds
<1>4. CASE Enter(c, "excerpt")
    <2> DEFINE k == Moved(web[c], "excerpt")
    <2>1. "excerpt" \in Phases
        BY DEF Phases
    <2>2. k.phase = "excerpt" /\ k.request = web[c].request /\ k.at = web[c].at
          /\ k.sent = web[c].sent /\ k.asked = web[c].asked /\ k.size = web[c].size
          /\ k.got = web[c].got /\ k.clipped = web[c].clipped /\ k.result = web[c].result
        BY <1>2, <2>1, MovedCall
    <2> HIDE DEF k
    <2>3. Unsent(k) /\ Sent(k) /\ Addressed(k) /\ Ruled(k, robots) /\ Measured(k)
        BY <1>1, <1>2, <2>2 DEF CallSound, Unsent, Sent, Addressed, Ruled, Measured, In
    <2>4. web[c].phase # "done"
        BY <1>1 DEF In
    <2> QED BY <1>1, <1>4, <2>1, <2>3, <2>4, EnterKeeps DEF k
<1>5. ASSUME NEW long \in PageSizes,
             web' = [web EXCEPT ![c].phase = "streaming", ![c].size = long]
      PROVE  WebInv'
    <2> DEFINE k == [web[c] EXCEPT !.phase = "streaming", !.size = long]
    <2>1. long \in Nat
        BY WebConstants
    <2>2. k \in CallRecord /\ k.phase = "streaming" /\ k.request = web[c].request
          /\ k.at = web[c].at /\ k.sent = web[c].sent /\ k.asked = web[c].asked
          /\ k.size = long /\ k.got = web[c].got /\ k.clipped = web[c].clipped
          /\ k.result = web[c].result
        BY <1>2, <2>1 DEF CallRecord, Phases
    <2>3. Becomes(c, k)
        BY <1>5 DEF Becomes
    <2> HIDE DEF k
    <2>4. Unsent(k) /\ Sent(k) /\ Addressed(k) /\ Ruled(k, robots) /\ Measured(k)
        BY <1>1, <1>2, <2>2 DEF CallSound, Unsent, Sent, Addressed, Ruled, Measured, In
    <2>5. \A host \in Hosts : Spends(k, host) => Spends(web[c], host)
        BY <1>1, <2>2 DEF Spends, In
    <2> QED BY <1>1, <2>2, <2>3, <2>4, <2>5, RobotsTyped, CallStep DEF CallSound
<1>6. ASSUME NEW page \in Pages, Len(web[c].sent) <= MaxRedirects,
             web' = [web EXCEPT ![c].at = page, ![c].phase = "checking"]
      PROVE  WebInv'
    <2> DEFINE k == [web[c] EXCEPT !.at = page, !.phase = "checking"]
    <2>1. k \in CallRecord /\ k.phase = "checking" /\ k.request = web[c].request
          /\ k.at = page /\ k.sent = web[c].sent /\ k.asked = web[c].asked
          /\ k.size = web[c].size /\ k.got = web[c].got /\ k.clipped = web[c].clipped
          /\ k.result = web[c].result
        BY <1>2 DEF CallRecord, Phases
    <2>2. Becomes(c, k)
        BY <1>6 DEF Becomes
    <2> HIDE DEF k
    <2>3. web[c].sent # <<>>
        BY <1>1, <1>2 DEF CallSound, Sent, In
    <2>4. Unsent(k) /\ Sent(k) /\ Addressed(k) /\ Ruled(k, robots) /\ Measured(k)
        BY <1>1, <1>2, <1>6, <2>1, <2>3 DEF CallSound, Unsent, Sent, Addressed, Ruled, Measured, In
    <2>5. \A host \in Hosts : Spends(k, host) => Spends(web[c], host)
        BY <1>1, <2>1 DEF Spends, In
    <2> QED BY <1>1, <2>1, <2>2, <2>4, <2>5, RobotsTyped, CallStep DEF CallSound
<1>7. ASSUME NEW page \in Pages, Redirect(c, page) PROVE WebInv'
    <2>1. web[c].sent \in Seq(Pages) /\ Len(web[c].sent) \in Nat
        BY CallKnown
    <2>2. CASE End(c, "failed")
        BY <1>3, <2>2
    <2>3. CASE ~(Len(web[c].sent) > MaxRedirects)
               /\ web' = [web EXCEPT ![c].at = page, ![c].phase = "checking"]
        <3>1. Len(web[c].sent) <= MaxRedirects
            BY <2>1, <2>3, WebConstants
        <3>2. web' = [web EXCEPT ![c].at = page, ![c].phase = "checking"]
            BY <2>3
        <3> QED BY <1>6, <3>1, <3>2
    <2> QED BY <1>7, <2>2, <2>3 DEF Redirect
<1> QED BY <1>3, <1>4, <1>5, <1>7 DEF Respond


\* A phase that follows the body's end.
LEMMA BodyKeeps ==
    ASSUME WebInv, NEW c \in WebCalls, In(c, "streaming"),
           UNCHANGED <<robots, bucket, ticks, webStop>>,
           NEW k \in CallRecord, Becomes(c, k),
           k.phase \in {"streaming", "parsing", "extracting"}, k.request = web[c].request,
           k.at = web[c].at, k.sent = web[c].sent, k.asked = web[c].asked,
           k.result = web[c].result, Measured(k)
    PROVE  WebInv'
<1>1. CallSound(web[c], robots)
    BY CallKnown
<1>2. Unsent(k) /\ Sent(k) /\ Addressed(k) /\ Ruled(k, robots)
    BY <1>1 DEF CallSound, Unsent, Sent, Addressed, Ruled, In
<1>3. \A host \in Hosts : Spends(k, host) => Spends(web[c], host)
    BY DEF Spends
<1> QED BY <1>2, <1>3, RobotsTyped, CallStep DEF CallSound

\* A chunk arrives, or is one too many.
LEMMA ChunkKeeps ==
    ASSUME WebInv, NEW c \in WebCalls, Chunk(c)
    PROVE  WebInv'
<1>1. In(c, "streaming") /\ UNCHANGED <<robots, bucket, ticks, webStop>>
    BY DEF Chunk
<1>2. web[c] \in CallRecord /\ CallSound(web[c], robots) /\ web[c].size \in Nat /\ web[c].got \in Nat
    BY CallKnown
<1>3. CapOf(c) \in Nat /\ CapOf(c) = CapFor(web[c].request)
    BY CapNatural
<1>4. PICK piece \in ChunkSizes :
          /\ web[c].got + piece <= web[c].size
          /\ web' = IF web[c].got + piece > CapOf(c)
                    THEN [web EXCEPT ![c].got = CapOf(c), ![c].clipped = TRUE, ![c].phase = Extract(c)]
                    ELSE [web EXCEPT ![c].got = web[c].got + piece]
    BY DEF Chunk
<1>5. piece \in Nat
    BY WebConstants
<1>c. PICK cap \in Nat : cap = CapOf(c)
    BY <1>3
<1>m. ~web[c].clipped /\ web[c].result = "none" /\ web[c].got <= cap
    BY <1>1, <1>2, <1>3, <1>c DEF CallSound, Measured, In
<1>6. CASE web[c].got + piece > CapOf(c)
    <2> DEFINE k == [web[c] EXCEPT !.got = CapOf(c), !.clipped = TRUE, !.phase = Extract(c)]
    <2>1. Extract(c) \in {"parsing", "extracting"}
        BY DEF Extract
    <2>2. k \in CallRecord /\ k.phase \in {"parsing", "extracting"} /\ k.request = web[c].request
          /\ k.at = web[c].at /\ k.sent = web[c].sent /\ k.asked = web[c].asked
          /\ k.size = web[c].size /\ k.got = CapOf(c) /\ k.clipped = TRUE
          /\ k.result = web[c].result
        BY <1>2, <1>3, <2>1 DEF CallRecord, Phases
    <2>3. Becomes(c, k)
        BY <1>4, <1>6 DEF Becomes
    <2> HIDE DEF k
    <2>a. k.size > cap
        BY <1>2, <1>4, <1>5, <1>6, <1>c, <2>2
    <2>b. CapFor(k.request) = cap /\ k.got = cap /\ cap <= cap
        BY <1>3, <1>c, <2>2
    <2>4. Measured(k)
        BY <1>m, <2>a, <2>b, <2>2 DEF Measured
    <2> QED BY <1>1, <2>2, <2>3, <2>4, BodyKeeps
<1>7. CASE ~(web[c].got + piece > CapOf(c))
    <2> DEFINE k == [web[c] EXCEPT !.got = web[c].got + piece]
    <2>1. k \in CallRecord /\ k.phase = web[c].phase /\ k.request = web[c].request
          /\ k.at = web[c].at /\ k.sent = web[c].sent /\ k.asked = web[c].asked
          /\ k.size = web[c].size /\ k.got = web[c].got + piece /\ k.clipped = web[c].clipped
          /\ k.result = web[c].result
        BY <1>2, <1>5 DEF CallRecord
    <2>2. Becomes(c, k)
        BY <1>4, <1>7 DEF Becomes
    <2> HIDE DEF k
    <2>a. CapFor(k.request) = cap /\ k.got <= cap
        BY <1>2, <1>3, <1>5, <1>7, <1>c, <2>1
    <2>3. Measured(k)
        BY <1>1, <1>m, <2>a, <2>1 DEF Measured, In
    <2> QED BY <1>1, <2>1, <2>2, <2>3, BodyKeeps DEF In
<1> QED BY <1>6, <1>7

\* The body ends.
LEMMA BodyEndKeeps ==
    ASSUME WebInv, NEW c \in WebCalls, BodyEnds(c)
    PROVE  WebInv'
<1>1. In(c, "streaming") /\ UNCHANGED <<robots, bucket, ticks, webStop>>
    BY DEF BodyEnds
<1>2. web[c] \in CallRecord /\ CallSound(web[c], robots)
    BY CallKnown
<1>3. CASE web[c].got = web[c].size
    <2> DEFINE k == Moved(web[c], Extract(c))
    <2>1. Extract(c) \in {"parsing", "extracting"} /\ Extract(c) \in Phases
        BY DEF Extract, Phases
    <2>2. k \in CallRecord /\ k.phase \in {"parsing", "extracting"} /\ k.request = web[c].request
          /\ k.at = web[c].at /\ k.sent = web[c].sent /\ k.asked = web[c].asked
          /\ k.size = web[c].size /\ k.got = web[c].got /\ k.clipped = web[c].clipped
          /\ k.result = web[c].result
        BY <1>2, <2>1, MovedCall
    <2>3. Becomes(c, k)
        BY <1>3 DEF Becomes, BodyEnds, Enter, Moved
    <2> HIDE DEF k
    <2>4. Measured(k)
        BY <1>1, <1>2, <1>3, <2>2 DEF CallSound, Measured, In
    <2> QED BY <1>1, <2>2, <2>3, <2>4, BodyKeeps
<1>4. CASE web[c].got # web[c].size
    <2>1. End(c, "failed") /\ "failed" \in WebResults
        BY <1>4 DEF BodyEnds, WebResults
    <2> QED BY <1>1, <2>1, RobotsTyped, CallEnds
<1> QED BY <1>3, <1>4

\* The steps that end a call.
LEMMA EndsKeep ==
    ASSUME WebInv, NEW c \in WebCalls,
           ExcerptEnds(c) \/ ParseHits(c) \/ ExtractorEnds(c) \/ SeeStop(c)
    PROVE  WebInv'
<1>1. UNCHANGED <<robots, bucket, ticks, webStop>>
    BY DEF ExcerptEnds, ParseHits, ExtractorEnds, SeeStop
<1>2. web[c] \in CallRecord /\ CallSound(web[c], robots) /\ web[c].clipped \in BOOLEAN
    BY CallKnown
<1>3. PICK result \in WebResults :
          /\ End(c, result)
          /\ result = "page" => web[c].phase = "extracting" /\ ~web[c].clipped
          /\ result \in {"clipped page", "too big"} => web[c].clipped
    <2>1. CASE ExcerptEnds(c)
        BY <2>1 DEF ExcerptEnds, WebResults
    <2>2. CASE ParseHits(c)
        BY <2>2 DEF ParseHits, WebResults
    <2>3. CASE ExtractorEnds(c)
        BY <2>3 DEF ExtractorEnds, WebResults, In, ExtractionFailed
    <2>4. CASE SeeStop(c)
        BY <2>4 DEF SeeStop, WebResults, In
    <2> QED BY <2>1, <2>2, <2>3, <2>4
<1>4. result = "page" => web[c].got = web[c].size
    BY <1>2, <1>3 DEF CallSound, Measured
<1> QED BY <1>1, <1>3, <1>4, RobotsTyped, CallEnds


\* The buckets' tokens are counted.
LEMMA BucketTokens ==
    ASSUME WebInv
    PROVE  /\ ticks \in Nat /\ \A h : Tokens(h) \in 0..Burst
           /\ \A h \in Hosts : IsFiniteSet(Spenders(h)) /\ Cardinality(Spenders(h)) \in Nat
<1>1. ticks \in Nat /\ \A h : Tokens(h) \in 0..Burst
    BY WebConstants DEF WebInv, WebTypeOK, BucketsTyped, Tokens
<1>2. ASSUME NEW h \in Hosts PROVE IsFiniteSet(Spenders(h)) /\ Cardinality(Spenders(h)) \in Nat
    BY WebConstants, FS_Subset, FS_CardinalityType DEF Spenders
<1> QED BY <1>1, <1>2

\* A token is taken by the one call that now spends it.
LEMMA AcquireKeeps ==
    ASSUME WebInv, NEW c \in WebCalls, Acquire(c)
    PROVE  WebInv'
<1>1. /\ In(c, "throttled") /\ Tokens(BucketOf(c)) > 0
      /\ bucket' = [h \in DOMAIN bucket \cup {BucketOf(c)} |->
                      IF h = BucketOf(c) THEN Tokens(h) - 1 ELSE bucket[h]]
      /\ UNCHANGED <<robots, ticks, webStop>>
    BY DEF Acquire
<1>2. web[c] \in CallRecord /\ CallSound(web[c], robots) /\ web[c].request.page \in Pages
    BY CallKnown
<1>3. PICK mine \in Hosts : mine = BucketOf(c) /\ mine = HostOf[web[c].request.page]
    BY <1>1, <1>2 DEF CallSound, Unsent, In, BucketOf, Hosts
<1>4. PICK phase \in {"checking", "done"}, result \in {"none", "failed"} :
          /\ Becomes(c, [web[c] EXCEPT !.phase = phase, !.result = result])
          /\ (phase = "checking" => result = "none")
    <2>1. web[c].result = "none"
        BY <1>1, <1>2 DEF CallSound, Measured, In
    <2>2. CASE web[c].request.javascript
        BY <2>2 DEF Acquire, End, Becomes
    <2>3. CASE ~web[c].request.javascript
        <3>1. [web[c] EXCEPT !.phase = "checking"] = [web[c] EXCEPT !.phase = "checking", !.result = "none"]
            BY <1>2, <2>1 DEF CallRecord
        <3> QED BY <2>3, <3>1 DEF Acquire, Enter, Becomes
    <2> QED BY <2>2, <2>3
<1> DEFINE k == [web[c] EXCEPT !.phase = phase, !.result = result]
<1>5. k \in CallRecord /\ k.phase = phase /\ k.request = web[c].request
      /\ k.at = web[c].at /\ k.sent = web[c].sent /\ k.asked = web[c].asked
      /\ k.size = web[c].size /\ k.got = web[c].got /\ k.clipped = web[c].clipped
      /\ k.result = result
    BY <1>2 DEF CallRecord, Phases, WebResults
<1>6. Becomes(c, k)
    BY <1>4
<1> HIDE DEF k
<1>7. /\ web' \in [WebCalls -> CallRecord] /\ web'[c] = k
      /\ \A d \in WebCalls \ {c} : web'[d] = web[d]
    BY <1>5, <1>6 DEF Becomes, WebInv, WebTypeOK
<1>8. web[c].sent = <<>> /\ Len(web[c].sent) = 0
    BY <1>1, <1>2 DEF CallSound, Unsent, In
<1>9. CallSound(k, robots)
    <2>1. Unsent(k) /\ Sent(k) /\ Ruled(k, robots)
        BY <1>1, <1>2, <1>4, <1>5, <1>8 DEF CallSound, Unsent, Sent, Ruled, In
    <2>2. Addressed(k)
        BY <1>2, <1>4, <1>5, <1>8, WebConstants DEF CallSound, Addressed
    <2>3. Measured(k)
        BY <1>1, <1>2, <1>4, <1>5 DEF CallSound, Measured, In
    <2> QED BY <2>1, <2>2, <2>3 DEF CallSound
<1>10. \A d \in WebCalls : CallSound(web'[d], robots')
    BY <1>1, <1>7, <1>9, CallKnown
<1>11. Tokens(mine) \in 1..Burst /\ ticks \in Nat
    BY <1>1, <1>3, BucketTokens, WebConstants
<1>12. \A h : Tokens(h)' = IF h = mine THEN Tokens(mine) - 1 ELSE Tokens(h)
    BY <1>1, <1>3 DEF Tokens
<1>13. WebTypeOK'
    <2>1. BucketsTyped'
        BY <1>1, <1>3, <1>11, WebConstants DEF WebInv, WebTypeOK, BucketsTyped
    <2> QED BY <1>1, <1>7, <2>1 DEF WebInv, WebTypeOK
<1>14. ASSUME NEW host \in Hosts PROVE BudgetKept(host)'
    <2>0. /\ IsFiniteSet(Spenders(host)) /\ Cardinality(Spenders(host)) \in Nat
          /\ Tokens(host) \in Nat
        BY BucketTokens
    <2>1. Cardinality(Spenders(host)) + Tokens(host) <= Burst + ticks
        BY DEF WebInv, BudgetKept
    <2>2. CASE host # mine
        <3>1. Spenders(host)' = Spenders(host)
            BY <1>3, <1>5, <1>7, <2>2 DEF Spenders, Spends
        <3> QED BY <1>1, <1>12, <2>1, <2>2, <3>1 DEF BudgetKept
    <2>3. CASE host = mine
        <3>1. Spenders(host)' \subseteq Spenders(host) \cup {c}
            BY <1>7 DEF Spenders
        <3>2. /\ IsFiniteSet(Spenders(host) \cup {c})
              /\ Cardinality(Spenders(host) \cup {c}) <= Cardinality(Spenders(host)) + 1
              /\ Cardinality(Spenders(host) \cup {c}) \in Nat
            BY <2>0, FS_AddElement, FS_CardinalityType
        <3>3. /\ Cardinality(Spenders(host)') <= Cardinality(Spenders(host) \cup {c})
              /\ Cardinality(Spenders(host)') \in Nat
            BY <3>1, <3>2, FS_Subset, FS_CardinalityType
        <3>4. Tokens(host)' = Tokens(host) - 1 /\ ticks' = ticks
            BY <1>1, <1>12, <2>3
        <3>5. Cardinality(Spenders(host)') + Tokens(host)' <= Burst + ticks'
            BY <1>11, <2>0, <2>1, <2>3, <3>2, <3>3, <3>4, WebConstants
        <3> QED BY <3>5 DEF BudgetKept
    <2> QED BY <2>2, <2>3
<1> QED BY <1>10, <1>13, <1>14 DEF WebInv

\* A tick refills the buckets.
LEMMA RefillKeeps == ASSUME WebInv, Refill PROVE WebInv'
<1>1. /\ ticks' = ticks + 1 /\ UNCHANGED <<web, robots, webStop>>
      /\ bucket' = [h \in DOMAIN bucket |-> IF bucket[h] < Burst THEN bucket[h] + 1 ELSE Burst]
    BY DEF Refill
<1>2. bucket \in [DOMAIN bucket -> 0..Burst] /\ ticks \in Nat
    BY DEF WebInv, WebTypeOK, BucketsTyped
<1>3. WebTypeOK'
    <2>1. BucketsTyped'
        BY <1>1, <1>2, WebConstants DEF BucketsTyped
    <2> QED BY <1>1, <2>1 DEF WebInv, WebTypeOK
<1>4. \A d \in WebCalls : CallSound(web'[d], robots')
    BY <1>1, CallKnown
<1>5. ASSUME NEW host \in Hosts PROVE BudgetKept(host)'
    <2>1. Tokens(host)' <= Tokens(host) + 1 /\ Tokens(host)' \in Nat
        BY <1>1, <1>2, WebConstants DEF Tokens
    <2>2. Spenders(host)' = Spenders(host)
        BY <1>1 DEF Spenders
    <2>3. /\ Cardinality(Spenders(host)) \in Nat /\ Tokens(host) \in Nat
          /\ Cardinality(Spenders(host)) + Tokens(host) <= Burst + ticks
        BY BucketTokens DEF WebInv, BudgetKept
    <2>4. Cardinality(Spenders(host)') + Tokens(host)' <= Burst + ticks'
        BY <1>1, <1>2, <2>1, <2>2, <2>3, WebConstants
    <2> QED BY <2>4 DEF BudgetKept
<1> QED BY <1>3, <1>4, <1>5 DEF WebInv

\* Nothing is sent yet.
LEMMA WebStart == WebInit => WebInv
<1> SUFFICES ASSUME WebInit PROVE WebInv
    OBVIOUS
<1>1. /\ web \in [WebCalls -> {Call(r) : r \in WebRequests}]
      /\ robots = [o \in Origins |-> Unasked]
      /\ bucket = [h \in {} |-> Burst] /\ ticks = 0 /\ webStop = FALSE
    BY DEF WebInit
<1>2. ASSUME NEW c \in WebCalls PROVE web[c] \in CallRecord /\ CallSound(web[c], robots)
    <2>1. PICK r \in WebRequests : web[c] = Call(r)
        BY <1>1
    <2>2. r \in [tool : {"read", "search"}, page : Pages, javascript : BOOLEAN]
        BY WebAssumption
    <2>3. /\ Call(r).request = r /\ Call(r).phase = "start" /\ Call(r).at = r.page
          /\ Call(r).sent = <<>> /\ Call(r).asked = FALSE /\ Call(r).size = 0
          /\ Call(r).got = 0 /\ Call(r).clipped = FALSE /\ Call(r).result = "none"
        BY DEF Call
    <2>4. Call(r) \in CallRecord
        BY <2>2 DEF Call, CallRecord, Phases, WebResults
    <2>5. Unsent(web[c]) /\ Sent(web[c]) /\ Ruled(web[c], robots)
        BY <2>1, <2>3 DEF Unsent, Sent, Ruled
    <2>6. Addressed(web[c])
        BY <2>1, <2>3, WebConstants DEF Addressed, Range
    <2>7. Measured(web[c])
        BY <2>1, <2>3, CapNatural DEF Measured
    <2> QED BY <2>1, <2>4, <2>5, <2>6, <2>7 DEF CallSound
<1>3. WebTypeOK
    <2>1. BucketsTyped
        BY <1>1 DEF BucketsTyped
    <2>2. web \in [WebCalls -> CallRecord]
        BY <1>1, <1>2
    <2> QED BY <1>1, <2>1, <2>2 DEF WebTypeOK
<1>4. ASSUME NEW host \in Hosts PROVE BudgetKept(host)
    <2>1. ASSUME NEW c \in WebCalls PROVE ~Spends(web[c], host)
        <3>1. PICK r \in WebRequests : web[c] = Call(r)
            BY <1>1
        <3> QED BY <3>1 DEF Call, Spends
    <2>2. Spenders(host) = {}
        BY <2>1 DEF Spenders
    <2>3. Cardinality(Spenders(host)) = 0
        BY <2>2, FS_EmptySet
    <2>4. Tokens(host) = Burst
        BY <1>1 DEF Tokens
    <2> QED BY <1>1, <2>3, <2>4, WebConstants DEF BudgetKept
<1> QED BY <1>2, <1>3, <1>4 DEF WebInv

\* Every step keeps the invariant.
LEMMA WebStep == WebInv /\ [WebNext]_webVars => WebInv'
<1> SUFFICES ASSUME WebInv, [WebNext]_webVars PROVE WebInv'
    OBVIOUS
<1>1. ASSUME NEW c \in WebCalls, Fetch(c) \/ ExtractorEnds(c) \/ SeeStop(c) PROVE WebInv'
    BY <1>1, BeginKeeps, RobotsKeeps, AcquireKeeps, CheckKeeps, RespondKeeps, ChunkKeeps,
       BodyEndKeeps, EndsKeep DEF Fetch
<1>2. ASSUME UNCHANGED <<web, robots, bucket, ticks>>, webStop' \in BOOLEAN PROVE WebInv'
    <2>1. WebTypeOK' /\ \A c \in WebCalls : CallSound(web'[c], robots')
        BY <1>2 DEF WebInv, WebTypeOK, BucketsTyped
    <2>2. \A host \in Hosts : BudgetKept(host)'
        BY <1>2 DEF WebInv, BudgetKept, Spenders, Tokens
    <2> QED BY <2>1, <2>2 DEF WebInv
<1>3. CASE WebCancel
    BY <1>2, <1>3 DEF WebCancel
<1>4. CASE UNCHANGED webVars
    BY <1>2, <1>4 DEF webVars, WebInv, WebTypeOK
<1> QED BY <1>1, <1>3, <1>4, RefillKeeps DEF WebNext

\* What the invariant says.
LEMMA WebInvSound == WebInv => WebSound
<1> SUFFICES ASSUME WebInv PROVE WebSound
    OBVIOUS
<1>1. HostBudgetShared
    <2> SUFFICES ASSUME NEW p \in Pages PROVE Spent(HostOf[p]) <= Burst + ticks
        BY DEF HostBudgetShared
    <2>1. PICK host \in Hosts : host = HostOf[p]
        BY DEF Hosts
    <2>2. Spent(host) = Cardinality(Spenders(host))
        BY DEF Spent, Spenders, Spends
    <2>3. BudgetKept(host)
        BY DEF WebInv
    <2>4. /\ Cardinality(Spenders(host)) \in Nat /\ Tokens(host) \in Nat /\ ticks \in Nat
        BY BucketTokens
    <2> QED BY <2>1, <2>2, <2>3, <2>4, WebConstants DEF BudgetKept
<1>2. RequestsAllowed
    <2> SUFFICES ASSUME NEW c \in WebCalls
        PROVE /\ Len(web[c].sent) <= MaxRedirects + 1
              /\ Range(web[c].sent) \cap Refused = {}
              /\ web[c].request.tool = "read" /\ web[c].sent # <<>> /\ ~web[c].asked =>
                     /\ robots[OriginOf[web[c].sent[1]]] # Unasked
                     /\ web[c].sent[1] \notin robots[OriginOf[web[c].sent[1]]]
        BY DEF RequestsAllowed
    <2> QED BY CallKnown DEF CallSound, Addressed, Ruled
<1>3. ClippingTold
    <2> SUFFICES ASSUME NEW c \in WebCalls
        PROVE /\ web[c].got <= CapOf(c)
              /\ web[c].result = "page" => web[c].got = web[c].size
              /\ web[c].result \in {"clipped page", "too big"} =>
                     web[c].size > CapOf(c) /\ web[c].got = CapOf(c)
        BY DEF ClippingTold
    <2> QED BY CallKnown, CapNatural DEF CallSound, Measured
<1> QED BY <1>1, <1>2, <1>3 DEF WebSound

\* The web tools keep to robots.txt, to their destinations, redirects and rate limits, and say
\* what they clipped (fetch_html, RobotsCache::check, HostRateLimiter, collect_bounded_body).
THEOREM WebLimits == WebSpec => []WebSound
<1>1. WebInit => WebInv
    BY WebStart
<1>2. WebInv /\ [WebNext]_webVars => WebInv'
    BY WebStep
<1>3. WebInv => WebSound
    BY WebInvSound
<1> QED BY <1>1, <1>2, <1>3, PTL DEF WebSpec
=============================================================================
