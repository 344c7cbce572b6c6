------------------------- MODULE SessionLogProofs -------------------------
(***************************************************************************)
(* What the session files promise, for any number of processes, sessions,  *)
(* entries, crashes and failing writes: the index of an open session is    *)
(* its file, and a fork has the conversation it was forked from.           *)
(***************************************************************************)
EXTENDS SessionLog, CompactionProofs, SequenceTheorems, FiniteSetTheorems

-----------------------------------------------------------------------------
(***************************************************************************)
(* Entries that are on disk or on their way there.                         *)
(***************************************************************************)
\* The entries that can exist once n ids have been given out: a parent is older than
\* its child.
Entries(n) ==
    {e \in EntryType : e.kind # "malformed" /\ e.parent < e.id /\ e.id <= n}
Lines(n) == [entry : Entries(n) \cup {Malformed}, ended : BOOLEAN]

LEMMA EntryFields ==
    ASSUME NEW n \in Nat, NEW e \in Entries(n)
    PROVE  /\ e.id \in Nat /\ e.parent \in Nat /\ e.first_kept_entry_id \in Nat
           /\ e.id \in 1..n /\ e.parent < e.id /\ e.id <= MaxEntries /\ e # Malformed
           /\ e.kind \in {"message", "compaction", "change"} /\ e.message \in Messages
           /\ e.parent <= MaxEntries /\ e.first_kept_entry_id <= MaxEntries
           /\ e \in EntryType
<1>1. e \in EntryType /\ e.kind # "malformed" /\ e.parent < e.id /\ e.id <= n
    BY DEF Entries
<1>2. MaxEntries \in Nat
    BY SessionLogAssumption
<1>3. /\ e.id \in 0..MaxEntries /\ e.parent \in 0..MaxEntries
      /\ e.first_kept_entry_id \in 0..MaxEntries /\ e.message \in Messages
      /\ e.kind \in {"message", "compaction", "change", "malformed"}
    BY <1>1 DEF EntryType
<1>4. e # Malformed
    BY <1>1 DEF Malformed, Entry
<1> QED BY <1>1, <1>2, <1>3, <1>4

\* More ids make more entries possible.
LEMMA EntriesGrow ==
    ASSUME NEW n \in Nat, NEW m \in Nat, n <= m
    PROVE  /\ Entries(n) \subseteq Entries(m) /\ Lines(n) \subseteq Lines(m)
           /\ Seq(Entries(n)) \subseteq Seq(Entries(m))
           /\ Seq(Lines(n)) \subseteq Seq(Lines(m))
<1>1. ASSUME NEW e \in Entries(n) PROVE e \in Entries(m)
    BY EntryFields DEF Entries
<1>2. Entries(n) \subseteq Entries(m)
    BY <1>1
<1>3. Lines(n) \subseteq Lines(m)
    BY <1>2 DEF Lines
<1>4. ASSUME NEW S, NEW T, S \subseteq T PROVE Seq(S) \subseteq Seq(T)
    BY <1>4
<1> QED BY <1>2, <1>3, <1>4

LEMMA EntriesAreTyped ==
    ASSUME NEW n \in Nat
    PROVE  /\ Seq(Entries(n)) \subseteq Seq(EntryType)
           /\ Malformed \in EntryType
           /\ Seq(Lines(n)) \subseteq Seq([entry : EntryType, ended : BOOLEAN])
<1>1. Entries(n) \subseteq EntryType
    BY DEF Entries
<1>2. Malformed \in EntryType
    <2>1. MaxEntries \in Nat /\ 0 \in 0..MaxEntries
        BY SessionLogAssumption
    <2>2. UserMessage \in Messages
        BY DEF Messages
    <2> QED BY <2>1, <2>2 DEF Malformed, Entry, EntryType, NoEntry
<1>3. Lines(n) \subseteq [entry : EntryType, ended : BOOLEAN]
    BY <1>1, <1>2 DEF Lines
<1>4. ASSUME NEW S, NEW T, S \subseteq T PROVE Seq(S) \subseteq Seq(T)
    BY <1>4
<1> QED BY <1>1, <1>2, <1>3, <1>4

-----------------------------------------------------------------------------
(***************************************************************************)
(* Parsing, line by line, and the message entries.                         *)
(***************************************************************************)
LEMMA ParsedEmpty == Parsed(<<>>) = <<>>
<1>1. [i \in DOMAIN <<>> |-> <<>>[i].entry] = <<>>
    OBVIOUS
<1> QED BY <1>1, PickedEmpty DEF Parsed

\* One more line is one more entry, or none if it does not parse.
LEMMA ParsedAppend ==
    ASSUME NEW n \in Nat, NEW lines \in Seq(Lines(n)), NEW line \in Lines(n)
    PROVE  Parsed(Append(lines, line)) = IF line.entry = Malformed THEN Parsed(lines)
                                         ELSE Append(Parsed(lines), line.entry)
<1> DEFINE m == Len(lines)
           all == Append(lines, line)
           S == Entries(n) \cup {Malformed}
           old == [i \in DOMAIN lines |-> lines[i].entry]
           new == [i \in DOMAIN all |-> all[i].entry]
           K == {i \in DOMAIN lines : lines[i].entry # Malformed}
           L == {i \in DOMAIN all : all[i].entry # Malformed}
<1>1. /\ m \in Nat /\ all \in Seq(Lines(n)) /\ Len(all) = m + 1 /\ all[m + 1] = line
      /\ DOMAIN all = 1..m + 1 /\ DOMAIN lines = 1..m /\ \A i \in 1..m : all[i] = lines[i]
    OBVIOUS
<1>2. line.entry \in S /\ \A i \in 1..m : lines[i].entry \in S
    <2>1. line.entry \in S
        BY DEF Lines
    <2>2. ASSUME NEW i \in 1..m PROVE lines[i].entry \in S
        <3>1. lines[i] \in Lines(n)
            BY <1>1
        <3> QED BY <3>1 DEF Lines
    <2> QED BY <2>1, <2>2
<1>3. old \in Seq(S) /\ Len(old) = m
    BY <1>1, <1>2
<1>4. new = Append(old, line.entry)
    <2>1. \A i \in 1..m + 1 : all[i].entry = Append(old, line.entry)[i]
        BY <1>1, <1>3
    <2>2. Append(old, line.entry) = [i \in 1..m + 1 |-> Append(old, line.entry)[i]]
        BY <1>1, <1>2, <1>3
    <2> QED BY <1>1, <2>1, <2>2
<1>5. SamePlaces(Len(old), K, L)
    BY <1>1, <1>3 DEF SamePlaces
<1>6. Len(old) + 1 \in L <=> line.entry # Malformed
    BY <1>1, <1>3
<1>7. Parsed(lines) = Picked(old, K) /\ Parsed(all) = Picked(new, L)
    BY DEF Parsed
<1> HIDE DEF old, new, K, L, all, S
<1>8. ASSUME NEW e \in S
      PROVE  Picked(Append(old, e), L) = IF Len(old) + 1 \in L THEN Append(Picked(old, K), e)
                                         ELSE Picked(old, K)
    <2>1. old \in Seq(S) /\ SamePlaces(Len(old), K, L)
        BY <1>3, <1>5
    <2> QED BY <2>1, PickedAppend
<1> QED BY <1>2, <1>4, <1>6, <1>7, <1>8 DEF all

\* What parses is entries.
LEMMA ParsedTyped ==
    ASSUME NEW n \in Nat, NEW lines \in Seq(Lines(n))
    PROVE  Parsed(lines) \in Seq(Entries(n))
<1> DEFINE S == Entries(n) \cup {Malformed}
           all == [i \in DOMAIN lines |-> lines[i].entry]
           K == {i \in DOMAIN lines : lines[i].entry # Malformed}
<1>1. ASSUME NEW i \in 1..Len(lines) PROVE lines[i].entry \in S
    <2>1. lines[i] \in Lines(n)
        OBVIOUS
    <2> QED BY <2>1 DEF Lines
<1>2. all \in Seq(S) /\ Len(all) = Len(lines)
    BY <1>1
<1>3. \A i \in 1..Len(all) : i \in K => all[i] \in Entries(n)
    BY <1>1, <1>2
<1> HIDE DEF all, K, S
<1>4. Picked(all, K) \in Seq(Entries(n))
    BY <1>2, <1>3, PickedTyped
<1> QED BY <1>4 DEF Parsed, all, K

LEMMA MessagesEmpty == MessageEntries(<<>>) = <<>>
BY PickedEmpty DEF MessageEntries

\* One more entry is one more message entry, if it is one.
LEMMA MessagesAppend ==
    ASSUME NEW S, NEW entries \in Seq(S), NEW entry \in S
    PROVE  MessageEntries(Append(entries, entry)) =
               IF entry.kind = "message" THEN Append(MessageEntries(entries), entry)
               ELSE MessageEntries(entries)
<1> DEFINE m == Len(entries)
           all == Append(entries, entry)
           K == {i \in DOMAIN entries : entries[i].kind = "message"}
           L == {i \in DOMAIN all : all[i].kind = "message"}
<1>1. /\ m \in Nat /\ Len(all) = m + 1 /\ all[m + 1] = entry
      /\ DOMAIN all = 1..m + 1 /\ DOMAIN entries = 1..m /\ \A i \in 1..m : all[i] = entries[i]
    OBVIOUS
<1>2. SamePlaces(m, K, L) /\ (m + 1 \in L <=> entry.kind = "message")
    BY <1>1 DEF SamePlaces
<1>3. MessageEntries(entries) = Picked(entries, K) /\ MessageEntries(all) = Picked(all, L)
    BY DEF MessageEntries
<1> HIDE DEF K, L
<1>4. Picked(all, L) = IF m + 1 \in L THEN Append(Picked(entries, K), entry) ELSE Picked(entries, K)
    BY <1>2, PickedAppend
<1> QED BY <1>2, <1>3, <1>4

LEMMA MessagesTyped ==
    ASSUME NEW T, NEW entries \in Seq(T) PROVE MessageEntries(entries) \in Seq(T)
BY PickedTyped DEF MessageEntries

-----------------------------------------------------------------------------
(***************************************************************************)
(* Walking a branch from the leaf.                                         *)
(***************************************************************************)
EntryWith(entries, id) ==
    entries[CHOOSE i \in DOMAIN entries : entries[i].id = id]

\* What Branch has walked at each of the ids.
WalkStep(f, entries, id) ==
    IF EntryWith(entries, id).parent \in Ids(entries)
    THEN Append(f[EntryWith(entries, id).parent], EntryWith(entries, id))
    ELSE <<EntryWith(entries, id)>>
IsWalk(f, entries, over) == f = [id \in over |-> WalkStep(f, entries, id)]

LEMMA EntryFound ==
    ASSUME NEW n \in Nat, NEW entries \in Seq(Entries(n)), NEW id \in Ids(entries)
    PROVE  /\ EntryWith(entries, id) \in Entries(n) /\ EntryWith(entries, id).id = id
           /\ id \in 1..n /\ EntryWith(entries, id).parent \in Nat
           /\ EntryWith(entries, id).parent < id
<1>1. PICK i \in DOMAIN entries : entries[i].id = id
    BY DEF Ids
<1> DEFINE j == CHOOSE k \in DOMAIN entries : entries[k].id = id
<1>2. j \in DOMAIN entries /\ entries[j].id = id
    BY <1>1
<1>3. entries[j] \in Entries(n)
    BY <1>2
<1>4. EntryWith(entries, id) = entries[j]
    BY DEF EntryWith
<1> HIDE DEF j
<1> QED BY <1>2, <1>3, <1>4, EntryFields

\* Parents are older than their children, so there is a walk from every entry.
LEMMA WalkExists ==
    ASSUME NEW n \in Nat, NEW entries \in Seq(Entries(n))
    PROVE  \E f : IsWalk(f, entries, Ids(entries))
<1> DEFINE Over(m) == Ids(entries) \cap 0..m
           P == {m \in Nat : \E f : IsWalk(f, entries, Over(m))}
<1>1. 0 \in P
    <2>1. Over(0) = {}
        BY EntryFound
    <2>2. IsWalk([id \in {} |-> <<>>], entries, Over(0))
        BY <2>1 DEF IsWalk
    <2> QED BY <2>2
<1>2. ASSUME NEW m \in Nat, m \in P PROVE m + 1 \in P
    <2>1. PICK f : IsWalk(f, entries, Over(m))
        BY <1>2
    <2> DEFINE g == [id \in Over(m + 1) |-> WalkStep(f, entries, id)]
    <2>2. ASSUME NEW id \in Over(m) PROVE g[id] = f[id]
        <3>1. id \in Over(m + 1)
            OBVIOUS
        <3>2. f[id] = WalkStep(f, entries, id)
            BY <2>1 DEF IsWalk
        <3> QED BY <3>1, <3>2
    <2>3. g = [id \in Over(m + 1) |-> g[id]] /\ \A id \in Over(m + 1) : g[id] = WalkStep(f, entries, id)
        OBVIOUS
    <2> HIDE DEF g
    <2>4. ASSUME NEW id \in Over(m + 1) PROVE WalkStep(f, entries, id) = WalkStep(g, entries, id)
        <3> DEFINE q == EntryWith(entries, id).parent
        <3>1. q \in Nat /\ q < id /\ id <= m + 1
            BY EntryFound
        <3>2. q \in Ids(entries) => q \in Over(m)
            BY <3>1
        <3>3. q \in Ids(entries) => f[q] = g[q]
            BY <2>2, <3>2
        <3> QED BY <3>3 DEF WalkStep
    <2>5. \A id \in Over(m + 1) : g[id] = WalkStep(g, entries, id)
        BY <2>3, <2>4
    <2>6. IsWalk(g, entries, Over(m + 1))
        BY <2>3, <2>5 DEF IsWalk
    <2> QED BY <2>6
<1>3. Over(n) = Ids(entries)
    BY EntryFound
<1> HIDE DEF P, Over
<1>4. Nat \subseteq P
    BY <1>1, <1>2, InductionOnNat
<1>5. n \in P
    BY <1>4
<1> QED BY <1>3, <1>5 DEF P

LEMMA BranchIs ==
    ASSUME NEW n \in Nat, NEW entries \in Seq(Entries(n)), NEW leaf
    PROVE  \E f : /\ IsWalk(f, entries, Ids(entries))
                  /\ Branch(entries, leaf) = IF leaf \in Ids(entries) THEN f[leaf] ELSE <<>>
<1>1. \E f : IsWalk(f, entries, Ids(entries))
    BY WalkExists
<1> QED BY <1>1 DEF Branch, IsWalk, WalkStep, EntryWith

\* Each entry of a branch is the child of the one before.
Linked(branch) == \A k \in 1..Len(branch) - 1 : branch[k + 1].parent = branch[k].id

\* Each entry of a chain is the child of the one before, and the first of none.
Chain(entries) ==
    \A k \in 1..Len(entries) :
        entries[k].parent = IF k = 1 THEN NoEntry ELSE entries[k - 1].id

Walked(branch, n, id) ==
    /\ branch \in Seq(Entries(n)) /\ branch # <<>> /\ Last(branch).id = id
    /\ Linked(branch)

LEMMA WalkedOn ==
    ASSUME NEW n \in Nat, NEW branch, NEW id, Walked(branch, n, id),
           NEW e \in Entries(n), e.parent = id
    PROVE  Walked(Append(branch, e), n, e.id)
<1> DEFINE m == Len(branch)
           longer == Append(branch, e)
<1>1. branch \in Seq(Entries(n)) /\ branch # <<>> /\ branch[m].id = id
    BY DEF Walked, Last
<1>2. m \in Nat /\ m >= 1
    BY <1>1
<1>3. /\ longer \in Seq(Entries(n)) /\ Len(longer) = m + 1 /\ longer[m + 1] = e
      /\ \A k \in 1..m : longer[k] = branch[k]
    BY <1>1
<1>4. ASSUME NEW k \in 1..m PROVE longer[k + 1].parent = longer[k].id
    <2>1. CASE k = m
        BY <1>1, <1>2, <1>3, <2>1
    <2>2. CASE k \in 1..m - 1
        <3>1. branch[k + 1].parent = branch[k].id
            BY <2>2 DEF Walked, Linked
        <3>2. k \in 1..m /\ k + 1 \in 1..m
            BY <1>2, <2>2
        <3> QED BY <1>3, <3>1, <3>2
    <2> QED BY <1>2, <2>1, <2>2
<1> HIDE DEF longer, m
<1>5. Linked(longer)
    <2>1. Len(longer) - 1 = m
        BY <1>2, <1>3
    <2> QED BY <1>4, <2>1 DEF Linked
<1>6. longer # <<>> /\ Last(longer) = e
    BY <1>2, <1>3 DEF Last
<1>7. Walked(longer, n, e.id)
    BY <1>3, <1>5, <1>6 DEF Walked
<1> QED BY <1>7 DEF longer

LEMMA WalkedAlone ==
    ASSUME NEW n \in Nat, NEW e \in Entries(n) PROVE Walked(<<e>>, n, e.id)
BY DEF Walked, Linked, Last

\* Every walk ends in its entry, by links.
LEMMA WalkShape ==
    ASSUME NEW n \in Nat, NEW entries \in Seq(Entries(n)),
           NEW f, IsWalk(f, entries, Ids(entries)), NEW leaf \in Ids(entries)
    PROVE  Walked(f[leaf], n, leaf)
<1> DEFINE P == {m \in Nat : \A id \in Ids(entries) : id <= m => Walked(f[id], n, id)}
<1>1. 0 \in P
    BY EntryFound
<1>2. ASSUME NEW m \in Nat, m \in P PROVE m + 1 \in P
    <2> SUFFICES ASSUME NEW id \in Ids(entries), id = m + 1 PROVE Walked(f[id], n, id)
        BY <1>2, EntryFound
    <2> DEFINE e == EntryWith(entries, id)
    <2>1. e \in Entries(n) /\ e.id = id /\ e.parent \in Nat /\ e.parent < id
        BY EntryFound
    <2>2. f[id] = IF e.parent \in Ids(entries) THEN Append(f[e.parent], e) ELSE <<e>>
        BY DEF IsWalk, WalkStep
    <2> HIDE DEF e
    <2>3. CASE e.parent \in Ids(entries)
        <3>1. e.parent <= m
            BY <2>1
        <3>2. Walked(f[e.parent], n, e.parent)
            BY <1>2, <2>3, <3>1
        <3>3. Walked(Append(f[e.parent], e), n, e.id)
            BY <2>1, <3>2, WalkedOn
        <3> QED BY <2>1, <2>2, <2>3, <3>3
    <2>4. CASE e.parent \notin Ids(entries)
        <3>1. Walked(<<e>>, n, e.id)
            BY <2>1, WalkedAlone
        <3> QED BY <2>1, <2>2, <2>4, <3>1
    <2> QED BY <2>3, <2>4
<1> HIDE DEF P
<1>3. Nat \subseteq P
    BY <1>1, <1>2, InductionOnNat
<1>4. n \in P /\ leaf <= n
    BY <1>3, EntryFound
<1> QED BY <1>4 DEF P

LEMMA BranchShape ==
    ASSUME NEW n \in Nat, NEW entries \in Seq(Entries(n)), NEW leaf
    PROVE  /\ Branch(entries, leaf) \in Seq(Entries(n)) /\ Linked(Branch(entries, leaf))
           /\ leaf \in Ids(entries) =>
                 Branch(entries, leaf) # <<>> /\ LeafOf(Branch(entries, leaf)) = leaf
           /\ leaf \notin Ids(entries) => Branch(entries, leaf) = <<>>
<1>1. PICK f : /\ IsWalk(f, entries, Ids(entries))
               /\ Branch(entries, leaf) = IF leaf \in Ids(entries) THEN f[leaf] ELSE <<>>
    BY BranchIs
<1>2. CASE leaf \in Ids(entries)
    <2>1. Walked(f[leaf], n, leaf)
        BY <1>1, <1>2, WalkShape
    <2> QED BY <1>1, <1>2, <2>1 DEF Walked, LeafOf
<1>3. CASE leaf \notin Ids(entries)
    <2>1. <<>> \in Seq(Entries(n)) /\ Linked(<<>>)
        BY DEF Linked
    <2> QED BY <1>1, <1>3, <2>1
<1> QED BY <1>2, <1>3

-----------------------------------------------------------------------------
(***************************************************************************)
(* A chain is its own branch.                                              *)
(***************************************************************************)
\* The ids of a chain grow.
LEMMA ChainGrows ==
    ASSUME NEW n \in Nat, NEW entries \in Seq(Entries(n)), Chain(entries)
    PROVE  \A j \in 1..Len(entries) : \A i \in 1..j - 1 : entries[i].id < entries[j].id
<1> DEFINE P == {j \in Nat : j <= Len(entries) =>
                    \A i \in 1..j - 1 : entries[i].id < entries[j].id}
<1>1. 0 \in P
    OBVIOUS
<1>2. ASSUME NEW j \in Nat, j \in P PROVE j + 1 \in P
    <2> SUFFICES ASSUME j + 1 <= Len(entries), NEW i \in 1..(j + 1) - 1
                 PROVE  entries[i].id < entries[j + 1].id
        OBVIOUS
    <2>1. j \in 1..Len(entries) /\ j + 1 \in 1..Len(entries) /\ i \in 1..Len(entries)
        OBVIOUS
    <2>2. entries[j + 1].parent = entries[j].id
        <3>1. j + 1 # 1 /\ (j + 1) - 1 = j
            BY <2>1
        <3> QED BY <2>1, <3>1 DEF Chain
    <2>3. entries[j + 1] \in Entries(n) /\ entries[j] \in Entries(n) /\ entries[i] \in Entries(n)
        BY <2>1
    <2>4. /\ entries[j].id \in Nat /\ entries[j + 1].id \in Nat /\ entries[i].id \in Nat
          /\ entries[j].id < entries[j + 1].id
        BY <2>2, <2>3, EntryFields
    <2>5. CASE i = j
        BY <2>4, <2>5
    <2>6. CASE i \in 1..j - 1
        <3>1. entries[i].id < entries[j].id
            BY <1>2, <2>1, <2>6
        <3> QED BY <2>4, <3>1
    <2> QED BY <2>5, <2>6
<1> HIDE DEF P
<1>3. Nat \subseteq P
    BY <1>1, <1>2, InductionOnNat
<1> QED BY <1>3 DEF P

\* No two entries of a chain have the same id.
LEMMA ChainFinds ==
    ASSUME NEW n \in Nat, NEW entries \in Seq(Entries(n)), Chain(entries), NEW k \in 1..Len(entries)
    PROVE  /\ entries[k].id \in Ids(entries) /\ EntryWith(entries, entries[k].id) = entries[k]
           /\ (CHOOSE i \in DOMAIN entries : entries[i].id = entries[k].id) = k
<1> DEFINE j == CHOOSE i \in DOMAIN entries : entries[i].id = entries[k].id
<1>1. DOMAIN entries = 1..Len(entries) /\ Len(entries) \in Nat
    OBVIOUS
<1>2. j \in 1..Len(entries) /\ entries[j].id = entries[k].id
    BY <1>1
<1>3. EntryWith(entries, entries[k].id) = entries[j]
    BY DEF EntryWith
<1> HIDE DEF j
<1>4. entries[k].id \in Nat /\ entries[j].id \in Nat
    BY <1>2, EntryFields
<1>5. ~(j < k)
    <2> SUFFICES ASSUME j < k PROVE FALSE
        OBVIOUS
    <2>1. j \in 1..k - 1
        BY <1>2
    <2>2. entries[j].id < entries[k].id
        BY <2>1, ChainGrows
    <2> QED BY <1>2, <1>4, <2>2
<1>6. ~(k < j)
    <2> SUFFICES ASSUME k < j PROVE FALSE
        OBVIOUS
    <2>1. k \in 1..j - 1
        BY <1>2
    <2>2. entries[k].id < entries[j].id
        BY <1>2, <2>1, ChainGrows
    <2> QED BY <1>2, <1>4, <2>2
<1>7. j = k
    BY <1>2, <1>5, <1>6
<1> QED BY <1>1, <1>3, <1>7 DEF Ids, j

LEMMA FirstAlone ==
    ASSUME NEW S, NEW s \in Seq(S), Len(s) >= 1 PROVE SubSeq(s, 1, 1) = <<s[1]>>
<1>1. Len(s) \in Nat /\ s[1] \in S
    OBVIOUS
<1>2. PICK t : t = SubSeq(s, 1, 1)
    OBVIOUS
<1>3. t \in Seq(S) /\ Len(t) = 1
    BY <1>1, <1>2, SubSeqProperties
<1>4. t[1] = s[1]
    BY <1>1, <1>2, SubSeqProperties
<1>5. <<s[1]>> \in Seq(S) /\ Len(<<s[1]>>) = 1 /\ <<s[1]>>[1] = s[1]
    BY <1>1
<1>6. PICK u : u = <<s[1]>>
    OBVIOUS
<1>7. u \in Seq(S) /\ Len(u) = 1 /\ u[1] = s[1]
    BY <1>5, <1>6
<1>8. Len(t) = Len(u) /\ \A i \in 1..Len(t) : t[i] = u[i]
    BY <1>3, <1>4, <1>7
<1>9. t = u
    BY <1>3, <1>7, <1>8, SeqEqual
<1> QED BY <1>2, <1>6, <1>9

\* The branch of a chain is the whole chain.
LEMMA ChainIsBranch ==
    ASSUME NEW n \in Nat, NEW entries \in Seq(Entries(n)), Chain(entries)
    PROVE  Branch(entries, LeafOf(entries)) = entries
<1>1. CASE entries = <<>>
    <2>1. Ids(entries) = {}
        BY <1>1 DEF Ids
    <2> QED BY <1>1, <2>1, BranchShape
<1>2. CASE entries # <<>>
    <2>1. Len(entries) \in Nat /\ Len(entries) >= 1
        BY <1>2
    <2>2. PICK f : /\ IsWalk(f, entries, Ids(entries))
                   /\ Branch(entries, LeafOf(entries)) =
                          IF LeafOf(entries) \in Ids(entries) THEN f[LeafOf(entries)] ELSE <<>>
        BY BranchIs
    <2> DEFINE P == {k \in Nat : k + 1 <= Len(entries) =>
                                    f[entries[k + 1].id] = SubSeq(entries, 1, k + 1)}
    <2>3. ASSUME NEW k \in 1..Len(entries)
          PROVE  f[entries[k].id] = IF entries[k].parent \in Ids(entries)
                                    THEN Append(f[entries[k].parent], entries[k])
                                    ELSE <<entries[k]>>
        <3>1. entries[k].id \in Ids(entries) /\ EntryWith(entries, entries[k].id) = entries[k]
            BY ChainFinds
        <3> QED BY <2>2, <3>1 DEF IsWalk, WalkStep
    <2>4. 0 \in P
        <3>1. 1 \in 1..Len(entries)
            BY <2>1
        <3>2. entries[1].parent = NoEntry
            BY <3>1 DEF Chain
        <3>3. NoEntry \notin Ids(entries)
            BY EntryFound DEF NoEntry
        <3>4. f[entries[1].id] = <<entries[1]>>
            BY <2>3, <3>1, <3>2, <3>3
        <3>5. SubSeq(entries, 1, 1) = <<entries[1]>>
            BY <2>1, FirstAlone
        <3> QED BY <3>4, <3>5
    <2>5. ASSUME NEW k \in Nat, k \in P PROVE k + 1 \in P
        <3> SUFFICES ASSUME (k + 1) + 1 <= Len(entries)
                     PROVE  f[entries[(k + 1) + 1].id] = SubSeq(entries, 1, (k + 1) + 1)
            OBVIOUS
        <3> DEFINE i == k + 1
        <3>1. i \in 1..Len(entries) /\ i + 1 \in 1..Len(entries) /\ i + 1 # 1 /\ (i + 1) - 1 = i /\ i <= Len(entries)
            BY <2>1
        <3>2. entries[i + 1].parent = entries[i].id
            BY <3>1 DEF Chain
        <3>3. entries[i].id \in Ids(entries)
            BY <3>1, ChainFinds
        <3>4. f[entries[i + 1].id] = Append(f[entries[i].id], entries[i + 1])
            BY <2>3, <3>1, <3>2, <3>3
        <3>5. f[entries[i].id] = SubSeq(entries, 1, i)
            BY <2>5, <3>1
        <3>6. SubSeq(entries, 1, i + 1) = Append(SubSeq(entries, 1, i), entries[i + 1])
            BY <3>1
        <3> QED BY <3>4, <3>5, <3>6
    <2> HIDE DEF P
    <2>6. Nat \subseteq P
        BY <2>4, <2>5, InductionOnNat
    <2>7. Len(entries) - 1 \in P /\ (Len(entries) - 1) + 1 = Len(entries)
        BY <2>1, <2>6
    <2>8. f[entries[Len(entries)].id] = SubSeq(entries, 1, Len(entries))
        BY <2>1, <2>7 DEF P
    <2>9. SubSeq(entries, 1, Len(entries)) = entries
        BY <2>1
    <2>10. LeafOf(entries) = entries[Len(entries)].id /\ entries[Len(entries)].id \in Ids(entries)
        BY <1>2, <2>1, ChainFinds DEF LeafOf, Last
    <2> QED BY <2>2, <2>8, <2>9, <2>10
<1> QED BY <1>1, <1>2

-----------------------------------------------------------------------------
(***************************************************************************)
(* The context that a branch gives.                                        *)
(***************************************************************************)
Compactions(branch) == {i \in DOMAIN branch : branch[i].kind = "compaction"}

LEMMA ContextIs ==
    ASSUME NEW n \in Nat, NEW branch \in Seq(Entries(n))
    PROVE  BranchContext[branch] =
               IF Compactions(branch) = {} THEN MessageEntries(branch)
               ELSE <<branch[Max(Compactions(branch))]>>
                        \o Kept(branch, branch[Max(Compactions(branch))])
<1>1. branch \in Seq(EntryType)
    BY EntriesAreTyped
<1> QED BY <1>1 DEF BranchContext, Compactions

LEMMA LastCompaction ==
    ASSUME NEW n \in Nat, NEW branch \in Seq(Entries(n)), Compactions(branch) # {}
    PROVE  /\ Max(Compactions(branch)) \in Compactions(branch)
           /\ Max(Compactions(branch)) \in 1..Len(branch)
           /\ branch[Max(Compactions(branch))] \in Entries(n)
           /\ branch[Max(Compactions(branch))].kind = "compaction"
           /\ \A i \in Compactions(branch) : i <= Max(Compactions(branch))
<1>1. Len(branch) \in Nat /\ Compactions(branch) \in SUBSET (0..Len(branch))
    BY DEF Compactions
<1> DEFINE m == Max(Compactions(branch))
<1>2. m \in Compactions(branch) /\ \A i \in Compactions(branch) : m >= i
    BY <1>1, GreatestNumber
<1> HIDE DEF m
<1>3. m \in 1..Len(branch) /\ branch[m].kind = "compaction"
    BY <1>2 DEF Compactions
<1>4. branch[m] \in Entries(n)
    BY <1>3
<1>5. \A i \in Compactions(branch) : i <= m
    BY <1>1, <1>2
<1> QED BY <1>2, <1>3, <1>4, <1>5 DEF m

LEMMA KeptTyped ==
    ASSUME NEW n \in Nat, NEW branch \in Seq(Entries(n)), NEW compaction
    PROVE  Kept(branch, compaction) \in Seq(Entries(n))
<1>1. CASE compaction.first_kept_entry_id \in Ids(branch)
    <2> DEFINE k == CHOOSE i \in DOMAIN branch : branch[i].id = compaction.first_kept_entry_id
    <2>1. k \in 1..Len(branch)
        BY <1>1 DEF Ids
    <2>2. Kept(branch, compaction) = MessageEntries(SubSeq(branch, k, Len(branch)))
        BY <1>1 DEF Kept
    <2> HIDE DEF k
    <2>3. SubSeq(branch, k, Len(branch)) \in Seq(Entries(n))
        BY <2>1
    <2> QED BY <2>2, <2>3, MessagesTyped
<1>2. CASE compaction.first_kept_entry_id \notin Ids(branch)
    <2>1. Kept(branch, compaction) = <<>>
        BY <1>2 DEF Kept
    <2> QED BY <2>1
<1> QED BY <1>1, <1>2

LEMMA BranchTyped ==
    ASSUME NEW n \in Nat, NEW branch \in Seq(Entries(n))
    PROVE  BranchContext[branch] \in Seq(Entries(n))
<1>1. CASE Compactions(branch) = {}
    BY <1>1, MessagesTyped, ContextIs
<1>2. CASE Compactions(branch) # {}
    <2> DEFINE last == branch[Max(Compactions(branch))]
    <2>1. last \in Entries(n)
        BY <1>2, LastCompaction
    <2>2. BranchContext[branch] = <<last>> \o Kept(branch, last)
        BY <1>2, ContextIs
    <2> HIDE DEF last
    <2>3. Kept(branch, last) \in Seq(Entries(n)) /\ <<last>> \in Seq(Entries(n))
        BY <2>1, KeptTyped
    <2> QED BY <2>2, <2>3
<1> QED BY <1>1, <1>2

LEMMA ContextTyped ==
    ASSUME NEW n \in Nat, NEW entries \in Seq(Entries(n)), NEW leaf
    PROVE  ContextEntries(entries, leaf) \in Seq(Entries(n))
<1>1. PICK branch \in Seq(Entries(n)) : branch = Branch(entries, leaf)
    BY BranchShape
<1>2. BranchContext[branch] \in Seq(Entries(n))
    BY BranchTyped
<1> QED BY <1>1, <1>2 DEF ContextEntries

-----------------------------------------------------------------------------
(***************************************************************************)
(* The inductive invariant.                                                *)
(***************************************************************************)
HandleType == [state : {"closed", "read", "open"}, entries : Seq(Entries(ids)), leaf : Nat]
CallType == [to : Sessions \cup {"none"}, from : Sessions \cup {"none"},
             entries : Seq(Entries(ids))]
LogTypes ==
    /\ created \subseteq Sessions
    /\ ids \in 0..MaxEntries /\ adds \in 0..MaxAdds /\ faults \in 0..MaxFaults
    /\ files \in [Sessions -> Seq(Lines(ids))]
    /\ handles \in [Processes -> [Sessions -> HandleType]]
    /\ writing \in [Processes -> CallType]
    /\ damage \in [Sessions -> SUBSET {"merged", "stale", "cut"}]

Leaves ==
    \A p \in Processes, s \in Sessions : handles[p][s].leaf = LeafOf(handles[p][s].entries)

\* A file that does not exist is not open and has no lines.
Unmade ==
    \A s \in Sessions : s \notin created =>
        files[s] = <<>> /\ \A p \in Processes : handles[p][s].state = "closed"

OneHolder ==
    \A p \in Processes, q \in Processes, s \in Sessions : IsOpen(p, s) /\ IsOpen(q, s) => p = q

\* A process that is writing has what it writes to open, and what it forks from, and nothing
\* else; it is not opening another file.
WritesToOpen(p) ==
    /\ writing[p].to \in Sessions /\ writing[p].from \in Sessions
    /\ IsOpen(p, writing[p].to) /\ IsOpen(p, writing[p].from)
    /\ \A s \in Sessions : /\ handles[p][s].state # "read"
                           /\ IsOpen(p, s) => s = writing[p].to \/ s = writing[p].from
OpenAlone(p) == \A s \in Sessions, t \in Sessions : IsOpen(p, s) /\ IsOpen(p, t) => s = t
Callers == \A p \in Processes : IF writing[p] = NotWriting THEN OpenAlone(p) ELSE WritesToOpen(p)

\* The index is the file, but for an entry left behind without its newline.
InStep(entries, lines) ==
    \/ entries = Parsed(lines)
    \/ /\ Unterminated(lines) /\ Parsed(lines) # <<>>
       /\ Parsed(lines) = Append(entries, Last(Parsed(lines)))
Indexes ==
    \A p \in Processes, s \in Sessions :
        IsOpen(p, s) /\ ~Lossy(s) => InStep(handles[p][s].entries, files[s])

\* A fork has copied a beginning of the branch, and what it has copied is in the file.
Copying(p) ==
    LET to == writing[p].to
        from == writing[p].from
    IN  /\ handles[p][to].entries \o writing[p].entries
               = Branch(handles[p][from].entries, handles[p][from].leaf)
        /\ handles[p][to].entries = Parsed(files[to]) /\ ~Unterminated(files[to])
        /\ handles[p][to].entries # <<>> => handles[p][to].entries[1].parent = NoEntry
Forks == \A p \in Processes : writing[p].from # writing[p].to => Copying(p)

LogInv == LogTypes /\ Leaves /\ Unmade /\ OneHolder /\ Callers /\ Indexes /\ Forks

LEMMA LogStarts == Init => LogInv
<1> SUFFICES ASSUME Init PROVE LogInv
    OBVIOUS
<1>1. \A p \in Processes : \A s \in Sessions : handles[p][s] = Closed
    BY DEF Init
<1>2. \A p \in Processes : writing[p] = NotWriting
    BY DEF Init
<1>3. 0 \in 0..MaxEntries /\ 0 \in 0..MaxAdds /\ 0 \in 0..MaxFaults
    BY SessionLogAssumption
<1>4. LogTypes
    <2>1. Closed \in HandleType
        BY DEF Closed, HandleType, NoEntry
    <2>2. NotWriting \in CallType
        BY DEF NotWriting, Writing, CallType
    <2>3. <<>> \in Seq(Lines(ids))
        OBVIOUS
    <2> QED BY <1>3, <2>1, <2>2, <2>3 DEF Init, LogTypes
<1>5. Leaves
    BY <1>1 DEF Leaves, Closed, LeafOf
<1>6. \A p \in Processes : \A s \in Sessions : ~IsOpen(p, s)
    BY <1>1 DEF IsOpen, Closed
<1>7. Unmade
    BY <1>1 DEF Unmade, Init, Closed
<1>8. OneHolder /\ Indexes
    BY <1>6 DEF OneHolder, Indexes
<1>9. Callers
    BY <1>2, <1>6 DEF Callers, OpenAlone
<1>10. Forks
    BY <1>2 DEF Forks, NotWriting, Writing
<1> QED BY <1>4, <1>5, <1>7, <1>8, <1>9, <1>10 DEF LogInv

-----------------------------------------------------------------------------
(***************************************************************************)
(* Steps after which the process writes nothing: H are its handles then, F *)
(* the files, D the damage, C the sessions there are.                      *)
(***************************************************************************)
Undamaged(D, s) == D[s] \cap {"merged", "stale"} = {}
Fits(p, H, F, D, C, s) ==
    /\ H[s].leaf = LeafOf(H[s].entries)
    /\ H[s].state # "closed" => s \in C
    /\ s \notin C => F[s] = <<>>
    /\ H[s].state = "open" =>
          /\ \A q \in Processes : IsOpen(q, s) => q = p
          /\ \A t \in Sessions : H[t].state = "open" => t = s
          /\ Undamaged(D, s) => InStep(H[s].entries, F[s])
    /\ damage[s] \subseteq D[s]
    /\ \A q \in Processes : q # p /\ IsOpen(q, s) => F[s] = files[s]

LEMMA LossyIs ==
    ASSUME NEW s \in Sessions
    PROVE  (Lossy(s) <=> ~Undamaged(damage, s)) /\ (Lossy(s)' <=> ~Undamaged(damage', s))
BY DEF Lossy, Undamaged

LEMMA Settles ==
    ASSUME LogInv, NEW p \in Processes,
           NEW H \in [Sessions -> HandleType], NEW F \in [Sessions -> Seq(Lines(ids))],
           NEW D \in [Sessions -> SUBSET {"merged", "stale", "cut"}], NEW C \in SUBSET Sessions,
           handles' = [handles EXCEPT ![p] = H], files' = F, damage' = D, created' = C,
           writing' = [writing EXCEPT ![p] = NotWriting],
           ids' = ids, adds' = adds, faults' \in 0..MaxFaults,
           created \subseteq C, \A s \in Sessions : Fits(p, H, F, D, C, s)
    PROVE  LogInv'
<1> USE DEF LogInv
<1>1. /\ \A s \in Sessions : handles'[p][s] = H[s]
      /\ \A q \in Processes : q # p => handles'[q] = handles[q] /\ writing'[q] = writing[q]
      /\ writing'[p] = NotWriting
    BY DEF LogTypes
<1>2. /\ \A s \in Sessions : IsOpen(p, s)' <=> H[s].state = "open"
      /\ \A q \in Processes, s \in Sessions : q # p => (IsOpen(q, s)' <=> IsOpen(q, s))
    BY <1>1 DEF IsOpen
<1>3. LogTypes'
    <2>1. HandleType' = HandleType /\ CallType' = CallType
        BY DEF HandleType, CallType
    <2>2. NotWriting \in CallType
        BY DEF NotWriting, Writing, CallType
    <2>3. handles' \in [Processes -> [Sessions -> HandleType]] /\ writing' \in [Processes -> CallType]
        BY <2>2 DEF LogTypes
    <2> QED BY <2>1, <2>3 DEF LogTypes
<1>4. Leaves'
    <2> SUFFICES ASSUME NEW q \in Processes, NEW s \in Sessions
                 PROVE  handles'[q][s].leaf = LeafOf(handles'[q][s].entries)
        BY DEF Leaves
    <2>1. CASE q = p
        BY <1>1, <2>1 DEF Fits
    <2>2. CASE q # p
        BY <1>1, <2>2 DEF Leaves
    <2> QED BY <2>1, <2>2
<1>5. Unmade'
    <2> SUFFICES ASSUME NEW s \in Sessions, s \notin C
                 PROVE  F[s] = <<>> /\ \A q \in Processes : handles'[q][s].state = "closed"
        BY DEF Unmade
    <2>1. F[s] = <<>> /\ H[s].state = "closed" /\ s \notin created
        BY DEF Fits
    <2>2. ASSUME NEW q \in Processes PROVE handles'[q][s].state = "closed"
        BY <1>1, <2>1 DEF Unmade
    <2> QED BY <2>1, <2>2
<1>6. OneHolder'
    <2> SUFFICES ASSUME NEW q \in Processes, NEW r \in Processes, NEW s \in Sessions,
                        IsOpen(q, s)', IsOpen(r, s)'
                 PROVE  q = r
        BY DEF OneHolder
    <2>1. CASE q = p /\ r # p
        <3>1. H[s].state = "open" /\ IsOpen(r, s)
            BY <1>2, <2>1
        <3> QED BY <2>1, <3>1 DEF Fits
    <2>2. CASE q # p /\ r = p
        <3>1. H[s].state = "open" /\ IsOpen(q, s)
            BY <1>2, <2>2
        <3> QED BY <2>2, <3>1 DEF Fits
    <2>3. CASE q # p /\ r # p
        BY <1>2, <2>3 DEF OneHolder
    <2> QED BY <2>1, <2>2, <2>3
<1>7. Callers'
    <2> SUFFICES ASSUME NEW q \in Processes
                 PROVE  IF writing'[q] = NotWriting THEN OpenAlone(q)' ELSE WritesToOpen(q)'
        BY DEF Callers
    <2>1. CASE q = p
        <3>1. writing'[q] = NotWriting
            BY <1>1, <2>1
        <3>2. OpenAlone(q)'
            BY <1>2, <2>1 DEF OpenAlone, Fits
        <3> QED BY <3>1, <3>2
    <2>2. CASE q # p
        <3>1. writing'[q] = writing[q] /\ handles'[q] = handles[q]
            BY <1>1, <2>2
        <3>2. IF writing[q] = NotWriting THEN OpenAlone(q) ELSE WritesToOpen(q)
            BY DEF Callers
        <3>3. (OpenAlone(q) => OpenAlone(q)') /\ (WritesToOpen(q) => WritesToOpen(q)')
            BY <3>1 DEF OpenAlone, WritesToOpen, IsOpen
        <3> QED BY <3>1, <3>2, <3>3
    <2> QED BY <2>1, <2>2
<1>8. Indexes'
    <2> SUFFICES ASSUME NEW q \in Processes, NEW s \in Sessions, IsOpen(q, s)', ~Lossy(s)'
                 PROVE  InStep(handles'[q][s].entries, F[s])
        BY DEF Indexes, InStep, Unterminated
    <2>1. Undamaged(D, s)
        BY LossyIs
    <2>2. CASE q = p
        BY <1>1, <1>2, <2>1, <2>2 DEF Fits
    <2>3. CASE q # p
        <3>1. IsOpen(q, s) /\ F[s] = files[s] /\ handles'[q] = handles[q] /\ damage[s] \subseteq D[s]
            BY <1>1, <1>2, <2>3 DEF Fits
        <3>2. ~Lossy(s)
            BY <2>1, <3>1, LossyIs DEF Undamaged
        <3> QED BY <3>1, <3>2 DEF Indexes
    <2> QED BY <2>2, <2>3
<1>9. Forks'
    <2> SUFFICES ASSUME NEW q \in Processes, writing'[q].from # writing'[q].to PROVE Copying(q)'
        BY DEF Forks
    <2>1. q # p
        BY <1>1 DEF NotWriting, Writing
    <2>2. writing'[q] = writing[q] /\ handles'[q] = handles[q]
        BY <1>1, <2>1
    <2>3. writing[q] # NotWriting
        BY <2>2 DEF NotWriting, Writing
    <2>4. writing[q].to \in Sessions /\ IsOpen(q, writing[q].to)
        BY <2>3 DEF Callers, WritesToOpen
    <2>5. PICK to \in Sessions : to = writing[q].to
        BY <2>4
    <2>6. F[to] = files[to]
        BY <2>1, <2>4, <2>5 DEF Fits
    <2>7. Copying(q)
        BY <2>2 DEF Forks
    <2> QED BY <2>2, <2>5, <2>6, <2>7 DEF Copying, Unterminated
<1> QED BY <1>3, <1>4, <1>5, <1>6, <1>7, <1>8, <1>9

LEMMA AsItWas ==
    ASSUME LogInv, NEW p \in Processes, writing[p] = NotWriting
    PROVE  writing = [writing EXCEPT ![p] = NotWriting]
BY DEF LogInv, LogTypes

\* A process that is opening a file is not writing.
LEMMA ReadersRest ==
    ASSUME LogInv, NEW p \in Processes, NEW s \in Sessions, handles[p][s].state = "read"
    PROVE  writing[p] = NotWriting
BY DEF LogInv, Callers, WritesToOpen

LEMMA HandleFields ==
    ASSUME LogInv, NEW p \in Processes, NEW s \in Sessions
    PROVE  /\ handles[p][s] \in HandleType /\ handles[p] \in [Sessions -> HandleType]
           /\ handles[p][s].state \in {"closed", "read", "open"}
           /\ handles[p][s].entries \in Seq(Entries(ids)) /\ handles[p][s].leaf \in Nat
           /\ handles[p][s].leaf = LeafOf(handles[p][s].entries)
           /\ ids \in Nat /\ ids <= MaxEntries /\ files[s] \in Seq(Lines(ids))
           /\ damage[s] \subseteq {"merged", "stale", "cut"}
           /\ writing[p] \in CallType
<1>1. handles[p][s] \in HandleType /\ handles[p] \in [Sessions -> HandleType] /\ writing[p] \in CallType
    BY DEF LogInv, LogTypes
<1>2. /\ handles[p][s].state \in {"closed", "read", "open"}
      /\ handles[p][s].entries \in Seq(Entries(ids)) /\ handles[p][s].leaf \in Nat
    BY <1>1 DEF HandleType
<1>3. handles[p][s].leaf = LeafOf(handles[p][s].entries)
    BY DEF LogInv, Leaves
<1>4. MaxEntries \in Nat
    BY SessionLogAssumption
<1>5. /\ ids \in 0..MaxEntries /\ files[s] \in Seq(Lines(ids))
      /\ damage[s] \subseteq {"merged", "stale", "cut"}
    BY DEF LogInv, LogTypes
<1> QED BY <1>1, <1>2, <1>3, <1>4, <1>5

LEMMA LeafTyped ==
    ASSUME NEW n \in Nat, NEW entries \in Seq(Entries(n))
    PROVE  /\ LeafOf(entries) \in 0..n
           /\ entries # <<>> => LeafOf(entries) \in Ids(entries)
<1>1. CASE entries = <<>>
    BY <1>1 DEF LeafOf, NoEntry
<1>2. CASE entries # <<>>
    <2>1. Len(entries) \in 1..Len(entries)
        BY <1>2
    <2>2. entries[Len(entries)] \in Entries(n)
        BY <2>1
    <2>3. entries[Len(entries)].id \in 1..n /\ LeafOf(entries) = entries[Len(entries)].id
        BY <1>2, <2>2, EntryFields DEF LeafOf, Last
    <2> QED BY <2>1, <2>3 DEF Ids
<1> QED BY <1>1, <1>2

LEMMA ManagerTyped ==
    ASSUME NEW state \in {"closed", "read", "open"}, NEW entries \in Seq(Entries(ids)), ids \in Nat
    PROVE  /\ Manager(state, entries) \in HandleType /\ Closed \in HandleType
           /\ Manager(state, entries).state = state /\ Manager(state, entries).entries = entries
           /\ Manager(state, entries).leaf = LeafOf(entries)
<1>1. LeafOf(entries) \in Nat
    BY LeafTyped
<1>2. <<>> \in Seq(Entries(ids)) /\ 0 \in Nat
    OBVIOUS
<1> QED BY <1>1, <1>2 DEF Manager, HandleType, Closed, NoEntry

LEMMA OnlyTyped ==
    ASSUME NEW s \in Sessions, NEW h \in HandleType
    PROVE  /\ Only(s, h) \in [Sessions -> HandleType]
           /\ \A t \in Sessions : Only(s, h)[t] = IF t = s THEN h ELSE Closed
<1>1. Closed \in HandleType
    <2>1. <<>> \in Seq(Entries(ids)) /\ 0 \in Nat
        OBVIOUS
    <2> QED BY <2>1 DEF HandleType, Closed, NoEntry
<1> QED BY <1>1 DEF Only

\* A closed handle fits when the file and what others know of it stay.
LEMMA ClosedFits ==
    ASSUME LogInv, NEW p \in Processes, NEW s \in Sessions, NEW H, NEW F, NEW D, NEW C,
           H[s].state # "open", H[s].leaf = LeafOf(H[s].entries), H[s].state # "closed" => s \in C,
           F[s] = files[s], created \subseteq C, damage[s] \subseteq D[s]
    PROVE  Fits(p, H, F, D, C, s)
BY DEF Fits, LogInv, Unmade

\* So does an open one that the process had and keeps as its only one.
LEMMA KeptFits ==
    ASSUME LogInv, NEW p \in Processes, NEW s \in Sessions, NEW H, NEW F, NEW D, NEW C,
           IsOpen(p, s), H[s] = handles[p][s], F[s] = files[s], created \subseteq C,
           damage[s] \subseteq D[s], \A t \in Sessions : H[t].state = "open" => t = s
    PROVE  Fits(p, H, F, D, C, s)
<1>1. s \in created /\ H[s].state = "open" /\ H[s].leaf = LeafOf(H[s].entries)
    BY DEF LogInv, Unmade, IsOpen, Leaves
<1>2. \A q \in Processes : IsOpen(q, s) => q = p
    BY DEF LogInv, OneHolder
<1>3. Undamaged(D, s) => InStep(H[s].entries, F[s])
    <2> SUFFICES ASSUME Undamaged(D, s) PROVE InStep(H[s].entries, F[s])
        OBVIOUS
    <2>1. ~Lossy(s)
        BY LossyIs DEF Undamaged
    <2> QED BY <2>1 DEF LogInv, Indexes
<1> QED BY <1>1, <1>2, <1>3 DEF Fits

\* The handle of a new file.
LEMMA FreshHandle ==
    ASSUME LogInv
    PROVE  /\ Manager("open", <<>>) \in HandleType /\ Manager("open", <<>>).state = "open"
           /\ Manager("open", <<>>).entries = <<>> /\ Manager("open", <<>>).leaf = LeafOf(<<>>)
<1>1. ids \in Nat /\ <<>> \in Seq(Entries(ids))
    BY SessionLogAssumption DEF LogInv, LogTypes
<1>2. PICK state \in {"closed", "read", "open"}, none \in Seq(Entries(ids)) :
          state = "open" /\ none = <<>>
    BY <1>1
<1>3. /\ Manager(state, none) \in HandleType /\ Manager(state, none).state = state
      /\ Manager(state, none).entries = none /\ Manager(state, none).leaf = LeafOf(none)
    BY <1>1, ManagerTyped
<1> QED BY <1>2, <1>3

-----------------------------------------------------------------------------
(***************************************************************************)
(* Opening and closing.                                                    *)
(***************************************************************************)
LEMMA NewSessionKeeps ==
    ASSUME LogInv, NEW p \in Processes, NEW session \in Sessions, NewSession(p, session)
    PROVE  LogInv'
<1> DEFINE m == Manager("open", <<>>)
           H == Only(session, m)
           C == created \cup {session}
<1>2. m \in HandleType /\ m.state = "open" /\ m.entries = <<>> /\ m.leaf = LeafOf(m.entries)
    BY FreshHandle
<1> HIDE DEF m
<1>3. H \in [Sessions -> HandleType] /\ \A t \in Sessions : H[t] = IF t = session THEN m ELSE Closed
    BY <1>2, OnlyTyped
<1>4. files[session] = <<>> /\ \A q \in Processes : ~IsOpen(q, session)
    BY DEF NewSession, LogInv, Unmade, IsOpen
<1>5. /\ handles' = [handles EXCEPT ![p] = H] /\ created' = C /\ files' = files /\ damage' = damage
      /\ ids' = ids /\ adds' = adds /\ faults' = faults
      /\ writing' = [writing EXCEPT ![p] = NotWriting]
    BY AsItWas DEF NewSession, AtRest, m
<1> HIDE DEF H
<1>6. ASSUME NEW s \in Sessions PROVE Fits(p, H, files, damage, C, s)
    <2>1. CASE s = session
        <3>1. InStep(H[s].entries, files[s])
            BY <1>2, <1>3, <1>4, <2>1, ParsedEmpty DEF InStep
        <3>2. \A t \in Sessions : H[t].state = "open" => t = s
            BY <1>3, <2>1 DEF Closed
        <3> QED BY <1>2, <1>3, <1>4, <2>1, <3>1, <3>2 DEF Fits
    <2>2. CASE s # session
        <3>1. H[s].state = "closed" /\ H[s].leaf = LeafOf(H[s].entries)
            BY <1>3, <2>2 DEF Closed, LeafOf
        <3> QED BY <3>1, ClosedFits
    <2> QED BY <2>1, <2>2
<1>7. /\ C \in SUBSET Sessions /\ files \in [Sessions -> Seq(Lines(ids))]
      /\ damage \in [Sessions -> SUBSET {"merged", "stale", "cut"}]
      /\ faults \in 0..MaxFaults /\ created \subseteq C
    BY DEF LogInv, LogTypes
<1> HIDE DEF C
<1> QED BY <1>3, <1>5, <1>6, <1>7, Settles

LEMMA OpenReadsKeeps ==
    ASSUME LogInv, NEW p \in Processes, NEW session \in Sessions, OpenReads(p, session)
    PROVE  LogInv'
<1> DEFINE m == Manager("read", Parsed(files[session]))
           H == [handles[p] EXCEPT ![session] = m]
<1>1. ids \in Nat /\ Parsed(files[session]) \in Seq(Entries(ids)) /\ handles[p] \in [Sessions -> HandleType]
    BY HandleFields, ParsedTyped
<1>2. m \in HandleType /\ m.state = "read" /\ m.leaf = LeafOf(m.entries)
    <2>1. PICK state \in {"closed", "read", "open"}, entries \in Seq(Entries(ids)) :
              state = "read" /\ entries = Parsed(files[session])
        BY <1>1
    <2>2. /\ Manager(state, entries) \in HandleType /\ Manager(state, entries).state = state
          /\ Manager(state, entries).entries = entries
          /\ Manager(state, entries).leaf = LeafOf(entries)
        BY <1>1, ManagerTyped
    <2> QED BY <2>1, <2>2
<1>3. writing[p] = NotWriting /\ session \in created /\ handles' = [handles EXCEPT ![p] = H]
    BY DEF OpenReads, AtRest, m, LogInv, LogTypes
<1> HIDE DEF m
<1>4. H \in [Sessions -> HandleType] /\ \A t \in Sessions : H[t] = IF t = session THEN m ELSE handles[p][t]
    BY <1>1, <1>2
<1>5. /\ created' = created /\ files' = files /\ damage' = damage
      /\ ids' = ids /\ adds' = adds /\ faults' = faults
      /\ writing' = [writing EXCEPT ![p] = NotWriting]
    BY <1>3, AsItWas DEF OpenReads
<1> HIDE DEF H
<1>6. ASSUME NEW s \in Sessions PROVE Fits(p, H, files, damage, created, s)
    <2>1. CASE s = session
        <3>1. H[s].state # "open" /\ H[s].leaf = LeafOf(H[s].entries)
            BY <1>2, <1>4, <2>1
        <3> QED BY <1>3, <2>1, <3>1, ClosedFits
    <2>2. CASE IsOpen(p, s) /\ s # session
        <3>1. \A t \in Sessions : H[t].state = "open" => t = s
            BY <1>2, <1>3, <1>4, <2>2 DEF LogInv, Callers, OpenAlone, IsOpen
        <3> QED BY <1>4, <2>2, <3>1, KeptFits
    <2>3. CASE ~IsOpen(p, s) /\ s # session
        <3>1. H[s] = handles[p][s] /\ H[s].state # "open" /\ (H[s].state # "closed" => s \in created)
            BY <1>4, <2>3 DEF IsOpen, LogInv, Unmade
        <3>2. H[s].leaf = LeafOf(H[s].entries)
            BY <3>1, HandleFields
        <3> QED BY <3>1, <3>2, ClosedFits
    <2> QED BY <2>1, <2>2, <2>3
<1>7. /\ files \in [Sessions -> Seq(Lines(ids))] /\ created \in SUBSET Sessions
      /\ damage \in [Sessions -> SUBSET {"merged", "stale", "cut"}] /\ faults \in 0..MaxFaults
    BY DEF LogInv, LogTypes
<1> QED BY <1>3, <1>4, <1>5, <1>6, <1>7, Settles

\* Opening leaves at most the session that was opened to a process.
LEMMA OnlyFits ==
    ASSUME LogInv, NEW p \in Processes, NEW session \in Sessions, NEW m \in HandleType, NEW H,
           NEW D, \A t \in Sessions : H[t] = IF t = session THEN m ELSE Closed,
           m.leaf = LeafOf(m.entries), session \in created,
           \A q \in Processes : IsOpen(q, session) => q = p,
           \A t \in Sessions : damage[t] \subseteq D[t],
           Undamaged(D, session) => InStep(m.entries, files[session])
    PROVE  \A s \in Sessions : Fits(p, H, files, D, created, s)
<1> SUFFICES ASSUME NEW s \in Sessions PROVE Fits(p, H, files, D, created, s)
    OBVIOUS
<1>1. CASE s = session
    <2>1. \A t \in Sessions : H[t].state = "open" => t = s
        BY <1>1 DEF Closed
    <2> QED BY <1>1, <2>1 DEF Fits
<1>2. CASE s # session
    <2>1. H[s].state = "closed" /\ H[s].leaf = LeafOf(H[s].entries)
        BY <1>2 DEF Closed, LeafOf
    <2> QED BY <2>1, ClosedFits
<1> QED BY <1>1, <1>2

LEMMA OpenLocksKeeps ==
    ASSUME LogInv, NEW p \in Processes, NEW session \in Sessions, OpenLocks(p, session)
    PROVE  LogInv'
<1> DEFINE m == [handles[p][session] EXCEPT !.state = "open"]
           H == Only(session, m)
           D == IF handles[p][session].entries = Parsed(files[session]) THEN damage
                ELSE [damage EXCEPT ![session] = @ \cup {"stale"}]
<1>1. /\ handles[p][session] \in HandleType
      /\ handles[p][session].leaf = LeafOf(handles[p][session].entries)
    BY HandleFields
<1>2. /\ m \in HandleType /\ m.entries = handles[p][session].entries
      /\ m.leaf = LeafOf(m.entries)
    BY <1>1 DEF HandleType
<1>3. /\ handles[p][session].state = "read" /\ session \in created /\ writing[p] = NotWriting
      /\ handles' = [handles EXCEPT ![p] = H] /\ damage' = D
      /\ \A q \in Processes : ~IsOpen(q, session)
    <2>1. handles[p][session].state = "read" /\ ~Locked(session)
        BY DEF OpenLocks
    <2>2. session \in created
        BY <2>1 DEF LogInv, Unmade
    <2> QED BY <2>1, <2>2, ReadersRest DEF OpenLocks, Locked
<1> HIDE DEF m
<1>4. H \in [Sessions -> HandleType] /\ \A t \in Sessions : H[t] = IF t = session THEN m ELSE Closed
    BY <1>2, OnlyTyped
<1>5. /\ created' = created /\ files' = files /\ writing' = [writing EXCEPT ![p] = NotWriting]
      /\ ids' = ids /\ adds' = adds /\ faults' = faults
    BY <1>3, AsItWas DEF OpenLocks
<1>6. /\ files \in [Sessions -> Seq(Lines(ids))] /\ created \in SUBSET Sessions
      /\ damage \in [Sessions -> SUBSET {"merged", "stale", "cut"}] /\ faults \in 0..MaxFaults
    BY DEF LogInv, LogTypes
<1>7. /\ D \in [Sessions -> SUBSET {"merged", "stale", "cut"}]
      /\ \A t \in Sessions : damage[t] \subseteq D[t]
      /\ Undamaged(D, session) => handles[p][session].entries = Parsed(files[session])
    BY <1>6 DEF Undamaged
<1> HIDE DEF H, D
<1>8. \A s \in Sessions : Fits(p, H, files, D, created, s)
    BY <1>2, <1>3, <1>4, <1>7, OnlyFits DEF InStep
<1> QED BY <1>3, <1>4, <1>5, <1>6, <1>7, <1>8, Settles

\* A process that closes a session, or all it has, and writes nothing.
LEMMA ClosingKeeps ==
    ASSUME LogInv, NEW p \in Processes, NEW H \in [Sessions -> HandleType],
           \A t \in Sessions : H[t] = handles[p][t] \/ H[t] = Closed,
           \A s \in Sessions, t \in Sessions :
               H[s].state = "open" /\ H[t].state = "open" => t = s,
           handles' = [handles EXCEPT ![p] = H], writing' = [writing EXCEPT ![p] = NotWriting],
           UNCHANGED <<created, files, ids, adds, faults, damage>>
    PROVE  LogInv'
<1>1. ASSUME NEW s \in Sessions PROVE Fits(p, H, files, damage, created, s)
    <2>1. CASE H[s].state = "open"
        <3>1. H[s] = handles[p][s] /\ IsOpen(p, s)
            BY <2>1 DEF IsOpen, Closed
        <3> QED BY <2>1, <3>1, KeptFits
    <2>2. CASE H[s].state # "open"
        <3>1. handles[p][s].state # "closed" => s \in created
            BY DEF LogInv, Unmade
        <3>2. H[s].leaf = LeafOf(H[s].entries) /\ (H[s].state # "closed" => s \in created)
            BY <3>1, HandleFields DEF Closed, LeafOf
        <3> QED BY <2>2, <3>2, ClosedFits
    <2> QED BY <2>1, <2>2
<1>2. /\ files \in [Sessions -> Seq(Lines(ids))] /\ created \in SUBSET Sessions
      /\ damage \in [Sessions -> SUBSET {"merged", "stale", "cut"}] /\ faults \in 0..MaxFaults
    BY DEF LogInv, LogTypes
<1> QED BY <1>1, <1>2, Settles

LEMMA OpenRefusedKeeps ==
    ASSUME LogInv, NEW p \in Processes, NEW session \in Sessions, OpenRefused(p, session)
    PROVE  LogInv'
<1> DEFINE H == [handles[p] EXCEPT ![session] = Closed]
<1>1. writing[p] = NotWriting /\ handles[p][session].state = "read"
    BY ReadersRest DEF OpenRefused
<1>2. Closed \in HandleType /\ handles[p] \in [Sessions -> HandleType] /\ Closed.state = "closed"
    BY HandleFields, OnlyTyped DEF HandleType, Closed, NoEntry
<1>3. H \in [Sessions -> HandleType] /\ \A t \in Sessions : H[t] = handles[p][t] \/ H[t] = Closed
    BY <1>2
<1>4. \A s \in Sessions, t \in Sessions : H[s].state = "open" /\ H[t].state = "open" => t = s
    <2>1. OpenAlone(p)
        BY <1>1 DEF LogInv, Callers
    <2>2. \A s \in Sessions : H[s].state = "open" => IsOpen(p, s)
        BY <1>2 DEF IsOpen
    <2> QED BY <2>1, <2>2 DEF OpenAlone
<1>5. handles' = [handles EXCEPT ![p] = H] /\ writing' = [writing EXCEPT ![p] = NotWriting]
    BY <1>1, AsItWas DEF OpenRefused, LogInv, LogTypes
<1>6. UNCHANGED <<created, files, ids, adds, faults, damage>>
    BY DEF OpenRefused
<1> HIDE DEF H
<1> QED BY <1>3, <1>4, <1>5, <1>6, ClosingKeeps

LEMMA ExitsKeeps ==
    ASSUME LogInv, NEW p \in Processes, Exits(p)
    PROVE  LogInv'
<1> DEFINE H == [s \in Sessions |-> Closed]
<1>1. Closed \in HandleType /\ Closed.state = "closed"
    BY DEF HandleType, Closed, NoEntry
<1>2. /\ H \in [Sessions -> HandleType] /\ \A t \in Sessions : H[t] = handles[p][t] \/ H[t] = Closed
      /\ \A s \in Sessions, t \in Sessions : H[s].state = "open" /\ H[t].state = "open" => t = s
    BY <1>1
<1>3. handles' = [handles EXCEPT ![p] = H] /\ writing' = [writing EXCEPT ![p] = NotWriting]
    BY AsItWas DEF Exits, AtRest
<1>4. UNCHANGED <<created, files, ids, adds, faults, damage>>
    BY DEF Exits
<1> QED BY <1>2, <1>3, <1>4, ClosingKeeps

\* Who goes on with one of the sessions it has open, gives the others up.
LEMMA OnlyOne ==
    ASSUME LogInv, NEW p \in Processes, NEW session \in Sessions,
           handles' = [handles EXCEPT ![p] = Only(session, handles[p][session])],
           writing' = [writing EXCEPT ![p] = NotWriting],
           UNCHANGED <<created, files, ids, adds, faults, damage>>
    PROVE  LogInv'
<1> DEFINE H == Only(session, handles[p][session])
<1>1. handles[p][session] \in HandleType /\ Closed.state = "closed"
    BY HandleFields DEF Closed
<1>2. H \in [Sessions -> HandleType] /\ \A t \in Sessions : H[t] = IF t = session THEN handles[p][t] ELSE Closed
    BY <1>1, OnlyTyped
<1> HIDE DEF H
<1>3. \A t \in Sessions : H[t] = handles[p][t] \/ H[t] = Closed
    BY <1>2
<1>4. \A s \in Sessions, t \in Sessions : H[s].state = "open" /\ H[t].state = "open" => t = s
    BY <1>1, <1>2
<1> QED BY <1>2, <1>3, <1>4, ClosingKeeps DEF H

LEMMA ForkEndsKeeps ==
    ASSUME LogInv, NEW p \in Processes, ForkEnds(p)
    PROVE  LogInv'
<1>1. writing[p] # NotWriting
    BY DEF ForkEnds, ForkCopied, NotWriting, Writing
<1>2. PICK to \in Sessions : to = writing[p].to
    BY <1>1 DEF LogInv, Callers, WritesToOpen
<1>3. /\ handles' = [handles EXCEPT ![p] = Only(to, handles[p][to])]
      /\ writing' = [writing EXCEPT ![p] = NotWriting]
      /\ UNCHANGED <<created, files, ids, adds, faults, damage>>
    BY <1>2 DEF ForkEnds, LogInv, LogTypes
<1> QED BY <1>3, OnlyOne

LEMMA WriteRefusedKeeps ==
    ASSUME LogInv, NEW p \in Processes, WriteRefused(p)
    PROVE  LogInv'
<1>1. writing[p] # NotWriting
    BY DEF WriteRefused, NotWriting, Writing
<1>2. PICK from \in Sessions : from = writing[p].from
    BY <1>1 DEF LogInv, Callers, WritesToOpen
<1>3. /\ handles' = [handles EXCEPT ![p] = Only(from, handles[p][from])]
      /\ writing' = [writing EXCEPT ![p] = NotWriting]
      /\ UNCHANGED <<created, files, ids, adds, faults, damage>>
    BY <1>2 DEF WriteRefused, GivesUp, LogInv, LogTypes
<1> QED BY <1>3, OnlyOne

-----------------------------------------------------------------------------
(***************************************************************************)
(* Writing, and interruptions of it.                                       *)
(***************************************************************************)
LEMMA WrittenTyped ==
    ASSUME NEW n \in Nat, NEW lines \in Seq(Lines(n)), NEW entry \in Entries(n) \cup {Malformed},
           NEW ended \in BOOLEAN
    PROVE  /\ WrittenTo(lines, entry, ended) \in Seq(Lines(n))
           /\ [entry |-> entry, ended |-> ended] \in Lines(n)
           /\ ~Unterminated(lines) =>
                 WrittenTo(lines, entry, ended) = Append(lines, [entry |-> entry, ended |-> ended])
<1>1. /\ [entry |-> entry, ended |-> ended] \in Lines(n)
      /\ [entry |-> Malformed, ended |-> ended] \in Lines(n)
    BY DEF Lines
<1>2. CASE Unterminated(lines)
    <2>1. Len(lines) \in 1..Len(lines)
        BY <1>2 DEF Unterminated
    <2>2. [lines EXCEPT ![Len(lines)] = [entry |-> Malformed, ended |-> ended]] \in Seq(Lines(n))
        BY <1>1, <2>1
    <2> QED BY <1>1, <1>2, <2>2 DEF WrittenTo
<1>3. CASE ~Unterminated(lines)
    BY <1>1, <1>3 DEF WrittenTo
<1> QED BY <1>2, <1>3

\* A process in a call has open what it writes to and what it comes from.
LEMMA CallersHold ==
    ASSUME LogInv, NEW p \in Processes, writing[p] # NotWriting
    PROVE  /\ writing[p].to \in Sessions /\ writing[p].from \in Sessions
           /\ writing[p].to \in created
           /\ IsOpen(p, writing[p].to) /\ IsOpen(p, writing[p].from)
           /\ \A q \in Processes : IsOpen(q, writing[p].to) => q = p
           /\ writing[p].entries \in Seq(Entries(ids)) /\ ids \in Nat
<1>1. WritesToOpen(p) /\ writing[p] \in CallType /\ ids \in Nat
    BY SessionLogAssumption DEF LogInv, Callers, LogTypes
<1>2. PICK to \in Sessions : to = writing[p].to
    BY <1>1 DEF WritesToOpen
<1>3. IsOpen(p, to) /\ to \in created /\ \A q \in Processes : IsOpen(q, to) => q = p
    BY <1>1, <1>2 DEF WritesToOpen, LogInv, OneHolder, Unmade, IsOpen
<1> QED BY <1>1, <1>2, <1>3 DEF WritesToOpen, CallType

\* One entry more behind a terminated file is in step with what was there before.
LEMMA InStepAfter ==
    ASSUME NEW n \in Nat, NEW lines \in Seq(Lines(n)), NEW entry \in Entries(n) \cup {Malformed},
           NEW entries, ~Unterminated(lines), InStep(entries, lines)
    PROVE  InStep(entries, WrittenTo(lines, entry, FALSE))
<1> DEFINE line == [entry |-> entry, ended |-> FALSE]
           after == Append(lines, line)
<1>1. /\ WrittenTo(lines, entry, FALSE) = after /\ line \in Lines(n)
      /\ line.entry = entry /\ line.ended = FALSE
    BY WrittenTyped
<1>2. entries = Parsed(lines) /\ Parsed(lines) \in Seq(Entries(n))
    BY ParsedTyped DEF InStep
<1> HIDE DEF line
<1>3. Parsed(after) = IF entry = Malformed THEN Parsed(lines) ELSE Append(Parsed(lines), entry)
    BY <1>1, ParsedAppend
<1>4. Unterminated(after)
    <2>1. after # <<>> /\ after[Len(after)] = line
        OBVIOUS
    <2> QED BY <1>1, <2>1 DEF Unterminated, Last
<1> HIDE DEF after
<1>5. CASE entry = Malformed
    BY <1>1, <1>2, <1>3, <1>5 DEF InStep
<1>6. CASE entry # Malformed
    <2>1. entry \in Entries(n) /\ Parsed(after) = Append(Parsed(lines), entry)
        BY <1>3, <1>6
    <2>2. Parsed(after) # <<>> /\ Last(Parsed(after)) = entry
        BY <1>2, <2>1 DEF Last
    <2> QED BY <1>1, <1>2, <1>4, <2>1, <2>2 DEF InStep
<1> QED BY <1>5, <1>6

LEMMA Interrupts ==
    ASSUME LogInv, NEW p \in Processes, writing[p] # NotWriting, WriteInterrupted(p), Damages(p)
    PROVE  /\ files' \in [Sessions -> Seq(Lines(ids))]
           /\ damage' \in [Sessions -> SUBSET {"merged", "stale", "cut"}]
           /\ \A s \in Sessions : /\ s # writing[p].to => files'[s] = files[s]
                                  /\ damage[s] \subseteq damage'[s]
           /\ Undamaged(damage', writing[p].to) =>
                 InStep(handles[p][writing[p].to].entries, files'[writing[p].to])
<1>1. PICK to \in Sessions : to = writing[p].to /\ IsOpen(p, to)
    BY CallersHold
<1>2. /\ files \in [Sessions -> Seq(Lines(ids))] /\ ids \in Nat
      /\ damage \in [Sessions -> SUBSET {"merged", "stale", "cut"}]
    BY SessionLogAssumption DEF LogInv, LogTypes
<1>3. \/ files' = files
      \/ \E entry \in Entries(ids) \cup {Malformed} :
            files' = [files EXCEPT ![to] = WrittenTo(files[to], entry, FALSE)]
    <2>1. CASE writing[p].entries = <<>>
        BY <2>1 DEF WriteInterrupted
    <2>2. CASE writing[p].entries # <<>>
        <3>1. Head(writing[p].entries) \in Entries(ids)
            BY <2>2, CallersHold
        <3>2. \/ files' = files
              \/ \E entry \in {Malformed, Head(writing[p].entries)} :
                    files' = [files EXCEPT ![to] = WrittenTo(files[to], entry, FALSE)]
            BY <1>1, <2>2 DEF WriteInterrupted
        <3> QED BY <3>1, <3>2
    <2> QED BY <2>1, <2>2
<1>4. files' \in [Sessions -> Seq(Lines(ids))]
    <2>1. CASE files' = files
        BY <1>2, <2>1
    <2>2. ASSUME NEW entry \in Entries(ids) \cup {Malformed},
                 files' = [files EXCEPT ![to] = WrittenTo(files[to], entry, FALSE)]
          PROVE  files' \in [Sessions -> Seq(Lines(ids))]
        <3>1. WrittenTo(files[to], entry, FALSE) \in Seq(Lines(ids))
            BY <1>2, WrittenTyped
        <3> QED BY <1>2, <2>2, <3>1
    <2> QED BY <1>3, <2>1, <2>2
<1>5. \A s \in Sessions : s # to => files'[s] = files[s]
    BY <1>2, <1>3
<1>6. /\ damage' \in [Sessions -> SUBSET {"merged", "stale", "cut"}]
      /\ \A s \in Sessions : damage[s] \subseteq damage'[s]
      /\ files' # files /\ Unterminated(files[to]) => "merged" \in damage'[to]
    BY <1>1, <1>2 DEF Damages
<1>7. Undamaged(damage', to) => InStep(handles[p][to].entries, files'[to])
    <2> SUFFICES ASSUME Undamaged(damage', to) PROVE InStep(handles[p][to].entries, files'[to])
        OBVIOUS
    <2>1. ~Lossy(to) /\ (files' = files \/ ~Unterminated(files[to]))
        BY <1>6, LossyIs DEF Undamaged
    <2>2. InStep(handles[p][to].entries, files[to])
        BY <1>1, <2>1 DEF LogInv, Indexes
    <2>3. CASE files' = files
        BY <2>2, <2>3
    <2>4. ASSUME NEW entry \in Entries(ids) \cup {Malformed}, ~Unterminated(files[to]),
                 files' = [files EXCEPT ![to] = WrittenTo(files[to], entry, FALSE)]
          PROVE  InStep(handles[p][to].entries, files'[to])
        <3>1. InStep(handles[p][to].entries, WrittenTo(files[to], entry, FALSE))
            BY <1>2, <2>2, <2>4, InStepAfter
        <3> QED BY <1>2, <2>4, <3>1
    <2> QED BY <1>3, <2>1, <2>3, <2>4
<1> QED BY <1>1, <1>4, <1>5, <1>6, <1>7

\* After an interruption the process has at most one of its sessions open.
LEMMA InterruptedFits ==
    ASSUME LogInv, NEW p \in Processes, writing[p] # NotWriting, WriteInterrupted(p), Damages(p),
           NEW H, \A t \in Sessions : H[t] = handles[p][t] \/ H[t] = Closed,
           \A s \in Sessions, t \in Sessions :
               H[s].state = "open" /\ H[t].state = "open" => t = s,
           NEW s \in Sessions
    PROVE  Fits(p, H, files', damage', created, s)
<1>1. /\ s # writing[p].to => files'[s] = files[s]
      /\ damage[s] \subseteq damage'[s]
      /\ Undamaged(damage', writing[p].to) =>
                 InStep(handles[p][writing[p].to].entries, files'[writing[p].to])
    BY Interrupts
<1>2. /\ H[s].leaf = LeafOf(H[s].entries) /\ (H[s].state # "closed" => s \in created)
      /\ H[s].state = "open" => H[s] = handles[p][s] /\ IsOpen(p, s)
    BY HandleFields DEF Closed, LeafOf, LogInv, Unmade, IsOpen
<1>3. CASE s = writing[p].to
    <2>1. s \in created /\ \A q \in Processes : IsOpen(q, s) => q = p
        BY <1>3, CallersHold
    <2>2. H[s].state = "open" /\ Undamaged(damage', s) => InStep(H[s].entries, files'[s])
        BY <1>1, <1>2, <1>3
    <2> QED BY <1>1, <1>2, <2>1, <2>2 DEF Fits
<1>4. CASE s # writing[p].to
    <2>1. CASE H[s].state = "open"
        BY <1>1, <1>2, <1>4, <2>1, KeptFits
    <2>2. CASE H[s].state # "open"
        BY <1>1, <1>2, <1>4, <2>2, ClosedFits
    <2> QED BY <2>1, <2>2
<1> QED BY <1>3, <1>4

LEMMA InterruptionKeeps ==
    ASSUME LogInv, NEW p \in Processes, writing[p] # NotWriting, WriteInterrupted(p), Damages(p),
           Fault, NEW H \in [Sessions -> HandleType],
           \A t \in Sessions : H[t] = handles[p][t] \/ H[t] = Closed,
           \A s \in Sessions, t \in Sessions :
               H[s].state = "open" /\ H[t].state = "open" => t = s,
           handles' = [handles EXCEPT ![p] = H], writing' = [writing EXCEPT ![p] = NotWriting],
           UNCHANGED <<created, ids, adds>>
    PROVE  LogInv'
<1>1. PICK F \in [Sessions -> Seq(Lines(ids))],
           D \in [Sessions -> SUBSET {"merged", "stale", "cut"}] : F = files' /\ D = damage'
    BY Interrupts
<1>2. \A s \in Sessions : Fits(p, H, F, D, created, s)
    BY <1>1, InterruptedFits
<1>3. created \in SUBSET Sessions /\ faults' \in 0..MaxFaults
    BY SessionLogAssumption DEF LogInv, LogTypes, Fault
<1> QED BY <1>1, <1>2, <1>3, Settles

LEMMA WriteFailsKeeps ==
    ASSUME LogInv, NEW p \in Processes, WriteFails(p)
    PROVE  LogInv'
<1>1. writing[p] # NotWriting
    BY DEF WriteFails, NotWriting, Writing
<1>2. PICK from \in Sessions : from = writing[p].from
    BY <1>1, CallersHold
<1> DEFINE H == Only(from, handles[p][from])
<1>3. handles[p][from] \in HandleType /\ Closed.state = "closed"
    BY HandleFields DEF Closed
<1>4. H \in [Sessions -> HandleType] /\ \A t \in Sessions : H[t] = IF t = from THEN handles[p][t] ELSE Closed
    BY <1>3, OnlyTyped
<1>5. /\ handles' = [handles EXCEPT ![p] = H] /\ writing' = [writing EXCEPT ![p] = NotWriting]
      /\ Fault /\ WriteInterrupted(p) /\ Damages(p) /\ UNCHANGED <<created, ids, adds>>
    BY <1>2 DEF WriteFails, GivesUp, LogInv, LogTypes
<1> HIDE DEF H
<1>6. /\ \A t \in Sessions : H[t] = handles[p][t] \/ H[t] = Closed
      /\ \A s \in Sessions, t \in Sessions : H[s].state = "open" /\ H[t].state = "open" => t = s
    BY <1>3, <1>4
<1> QED BY <1>1, <1>4, <1>5, <1>6, InterruptionKeeps

LEMMA CrashKeeps ==
    ASSUME LogInv, NEW p \in Processes, Crash(p)
    PROVE  LogInv'
<1> DEFINE H == [s \in Sessions |-> Closed]
<1>1. Closed \in HandleType /\ Closed.state = "closed"
    BY DEF HandleType, Closed, NoEntry
<1>2. /\ H \in [Sessions -> HandleType] /\ \A t \in Sessions : H[t] = handles[p][t] \/ H[t] = Closed
      /\ \A s \in Sessions, t \in Sessions : H[s].state = "open" /\ H[t].state = "open" => t = s
    BY <1>1
<1>3. /\ handles' = [handles EXCEPT ![p] = H] /\ writing' = [writing EXCEPT ![p] = NotWriting]
      /\ Fault /\ WriteInterrupted(p) /\ Damages(p) /\ UNCHANGED <<created, ids, adds>>
      /\ writing[p] # NotWriting
    BY DEF Crash
<1> HIDE DEF H
<1> QED BY <1>2, <1>3, InterruptionKeeps

-----------------------------------------------------------------------------
(***************************************************************************)
(* New calls.                                                              *)
(***************************************************************************)
LEMMA AddsKeeps ==
    ASSUME LogInv, NEW p \in Processes, NEW session \in Sessions, NEW entries,
           Adds(p, session, entries), entries \in Seq(Entries(ids + Len(entries)))
    PROVE  LogInv'
<1> USE DEF LogInv
<1>1. /\ writing[p] = NotWriting /\ IsOpen(p, session) /\ adds < MaxAdds /\ adds' = adds + 1
      /\ \A s \in Sessions : handles[p][s].state # "read"
      /\ ids + Len(entries) <= MaxEntries /\ ids' = ids + Len(entries)
      /\ writing' = [writing EXCEPT ![p] = Writing(session, session, entries)]
      /\ UNCHANGED <<created, files, handles, faults, damage>>
    BY DEF Adds, MayAdd, AtRest
<1>2. /\ Len(entries) \in Nat /\ ids \in Nat /\ ids' \in Nat /\ ids <= ids' /\ ids' <= MaxEntries
      /\ ids' \in 0..MaxEntries /\ adds' \in 0..MaxAdds
    BY <1>1, SessionLogAssumption DEF LogTypes
<1>3. \A q \in Processes : q # p => writing'[q] = writing[q]
    BY <1>1
<1>4. writing'[p] = Writing(session, session, entries)
    BY <1>1 DEF LogTypes
<1>5. LogTypes'
    <2>1. /\ Entries(ids) \subseteq Entries(ids') /\ Lines(ids) \subseteq Lines(ids')
          /\ Seq(Entries(ids)) \subseteq Seq(Entries(ids'))
          /\ Seq(Lines(ids)) \subseteq Seq(Lines(ids'))
        BY <1>2, EntriesGrow
    <2>2. HandleType \subseteq HandleType' /\ CallType \subseteq CallType'
        BY <2>1 DEF HandleType, CallType
    <2>3. Writing(session, session, entries) \in CallType'
        BY <1>1 DEF Writing, CallType
    <2>4. /\ writing \in [Processes -> CallType'] /\ files \in [Sessions -> Seq(Lines(ids'))]
          /\ handles \in [Processes -> [Sessions -> HandleType']]
        BY <2>1, <2>2 DEF LogTypes
    <2>5. writing' \in [Processes -> CallType']
        BY <1>1, <2>3, <2>4
    <2> QED BY <1>1, <1>2, <2>4, <2>5 DEF LogTypes
<1>6. Leaves' /\ Unmade' /\ OneHolder' /\ Indexes'
    <2>1. \A s \in Sessions : Lossy(s)' <=> Lossy(s)
        BY <1>1 DEF Lossy
    <2> QED BY <1>1, <2>1 DEF Leaves, Unmade, OneHolder, Indexes, IsOpen, InStep, Unterminated
<1>7. Callers'
    <2>1. OpenAlone(p)
        BY <1>1 DEF Callers
    <2>2. OpenAlone(p)' /\ WritesToOpen(p)'
        BY <1>1, <1>4, <2>1 DEF OpenAlone, WritesToOpen, IsOpen, Writing
    <2>3. ASSUME NEW q \in Processes, q # p
          PROVE  IF writing'[q] = NotWriting THEN OpenAlone(q)' ELSE WritesToOpen(q)'
        <3>1. writing'[q] = writing[q] /\ handles' = handles
            BY <1>1, <1>3, <2>3
        <3>2. IF writing[q] = NotWriting THEN OpenAlone(q) ELSE WritesToOpen(q)
            BY DEF Callers
        <3> QED BY <3>1, <3>2 DEF OpenAlone, WritesToOpen, IsOpen
    <2> QED BY <2>2, <2>3 DEF Callers
<1>8. Forks'
    <2> SUFFICES ASSUME NEW q \in Processes, writing'[q].from # writing'[q].to PROVE Copying(q)'
        BY DEF Forks
    <2>1. q # p
        BY <1>4 DEF Writing
    <2>2. writing'[q] = writing[q] /\ handles' = handles /\ files' = files
        BY <1>1, <1>3, <2>1
    <2>3. Copying(q)
        BY <2>2 DEF Forks
    <2> QED BY <2>2, <2>3 DEF Copying, Unterminated
<1> QED BY <1>5, <1>6, <1>7, <1>8

\* An entry made anew, with the next id or a later one.
LEMMA EntryMade ==
    ASSUME NEW n \in Nat, NEW id \in 1..n, NEW parent \in Nat, parent < id, n <= MaxEntries,
           NEW kind \in {"message", "compaction", "change"}, NEW message \in Messages,
           NEW first_kept \in 0..n
    PROVE  Entry(id, parent, kind, message, first_kept) \in Entries(n)
<1>1. MaxEntries \in Nat
    BY SessionLogAssumption
<1>2. id \in 0..MaxEntries /\ parent \in 0..MaxEntries /\ first_kept \in 0..MaxEntries
    BY <1>1
<1>3. Entry(id, parent, kind, message, first_kept) \in EntryType
    BY <1>2 DEF Entry, EntryType
<1> QED BY <1>3 DEF Entries, Entry

\* What a call is made for, and with which parent.
LEMMA CallerKnows ==
    ASSUME LogInv, NEW p \in Processes, NEW session \in Sessions
    PROVE  ids \in Nat /\ handles[p][session].leaf \in 0..ids
<1>1. /\ handles[p][session].entries \in Seq(Entries(ids)) /\ ids \in Nat
      /\ handles[p][session].leaf = LeafOf(handles[p][session].entries)
    BY HandleFields
<1> QED BY <1>1, LeafTyped

LEMMA AppendMessagesKeeps ==
    ASSUME LogInv, NEW p \in Processes, NEW session \in Sessions, NEW messages \in Seq(Messages),
           AppendMessages(p, session, messages)
    PROVE  LogInv'
<1> DEFINE leaf == handles[p][session].leaf
           E(i) == Entry(ids + i, IF i = 1 THEN leaf ELSE ids + i - 1, "message", messages[i], NoEntry)
           entries == [i \in DOMAIN messages |-> E(i)]
           n == ids + Len(messages)
<1>1. leaf \in 0..ids /\ ids \in Nat
    BY CallerKnows
<1>2. Adds(p, session, entries)
    BY DEF AppendMessages
<1> HIDE DEF leaf
<1>3. entries = [i \in 1..Len(messages) |-> E(i)] /\ Len(messages) \in Nat
    OBVIOUS
<1>4. Len(entries) = Len(messages)
    BY <1>3
<1>5. n \in Nat /\ n <= MaxEntries
    BY <1>1, <1>2, <1>3, <1>4 DEF Adds
<1>6. ASSUME NEW i \in 1..Len(messages) PROVE E(i) \in Entries(n)
    <2>1. PICK parent \in Nat : parent = (IF i = 1 THEN leaf ELSE ids + i - 1)
        BY <1>1
    <2>2. /\ ids + i \in 1..n /\ parent < ids + i /\ messages[i] \in Messages
          /\ NoEntry \in 0..n
        BY <1>1, <1>3, <2>1 DEF NoEntry
    <2>3. Entry(ids + i, parent, "message", messages[i], NoEntry) \in Entries(n)
        <3>1. "message" \in {"message", "compaction", "change"}
            OBVIOUS
        <3> HIDE DEF n
        <3> QED BY <1>5, <2>2, <3>1, EntryMade
    <2> QED BY <2>1, <2>3
<1> HIDE DEF E
<1>7. entries \in Seq(Entries(n))
    BY <1>3, <1>6
<1> HIDE DEF entries
<1> QED BY <1>2, <1>4, <1>7, AddsKeeps

LEMMA AddsOne ==
    ASSUME LogInv, NEW p \in Processes, NEW session \in Sessions,
           NEW kind \in {"message", "compaction", "change"}, NEW first_kept \in 0..ids,
           Adds(p, session, <<Entry(ids + 1, handles[p][session].leaf, kind, UserMessage, first_kept)>>)
    PROVE  LogInv'
<1> DEFINE e == Entry(ids + 1, handles[p][session].leaf, kind, UserMessage, first_kept)
           n == ids + 1
<1>1. handles[p][session].leaf \in 0..ids /\ ids \in Nat
    BY CallerKnows
<1>2. UserMessage \in Messages
    BY DEF Messages
<1>3. Len(<<e>>) = 1 /\ n <= MaxEntries
    BY DEF Adds
<1>4. PICK parent \in Nat : parent = handles[p][session].leaf /\ parent < ids + 1
    BY <1>1
<1>5. ids + 1 \in 1..n /\ n \in Nat /\ first_kept \in 0..n
    BY <1>1
<1>6. e \in Entries(n)
    <2> HIDE DEF n
    <2>1. Entry(ids + 1, parent, kind, UserMessage, first_kept) \in Entries(n)
        BY <1>2, <1>3, <1>4, <1>5, EntryMade
    <2> QED BY <1>4, <2>1
<1> HIDE DEF e
<1>7. <<e>> \in Seq(Entries(n))
    BY <1>6
<1> QED BY <1>3, <1>7, AddsKeeps DEF e

\* An entry that a compaction may keep first.
LEMMA CutEntry ==
    ASSUME LogInv, NEW p \in Processes, NEW session \in Sessions,
           NEW cut \in Cuts(MessagesOf[ContextOf(p, session)])
    PROVE  ContextOf(p, session)[cut + 1].id \in 0..ids
<1>1. ContextOf(p, session) \in Seq(Entries(ids)) /\ ids \in Nat
    <2>1. handles[p][session].entries \in Seq(Entries(ids)) /\ ids \in Nat
        BY HandleFields
    <2> QED BY <2>1, ContextTyped DEF ContextOf
<1>2. PICK context \in Seq(Entries(ids)) : context = ContextOf(p, session)
    BY <1>1
<1>3. /\ MessagesOf[context] = [i \in DOMAIN context |-> context[i].message]
      /\ MessagesOf[context] \in Seq(Messages) /\ Len(MessagesOf[context]) = Len(context)
    <2>1. context \in Seq(EntryType)
        BY <1>1, EntriesAreTyped
    <2>2. MessagesOf[context] = [i \in DOMAIN context |-> context[i].message]
        BY <2>1 DEF MessagesOf
    <2>3. ASSUME NEW i \in 1..Len(context) PROVE context[i].message \in Messages
        <3>1. context[i] \in Entries(ids)
            OBVIOUS
        <3> QED BY <1>1, <3>1, EntryFields
    <2> QED BY <2>2, <2>3
<1>4. cut + 1 \in 1..Len(context)
    BY <1>2, <1>3, CutPlace
<1>5. context[cut + 1] \in Entries(ids)
    BY <1>4
<1> QED BY <1>1, <1>2, <1>5, EntryFields

LEMMA CompactKeeps ==
    ASSUME LogInv, NEW p \in Processes, NEW session \in Sessions, Compact(p, session)
    PROVE  LogInv'
<1>1. PICK cut \in Cuts(MessagesOf[ContextOf(p, session)]) :
          Adds(p, session, <<Entry(ids + 1, handles[p][session].leaf, "compaction",
                                   UserMessage, ContextOf(p, session)[cut + 1].id)>>)
    BY DEF Compact
<1>2. PICK first_kept \in 0..ids : first_kept = ContextOf(p, session)[cut + 1].id
    BY CutEntry
<1>3. "compaction" \in {"message", "compaction", "change"}
    OBVIOUS
<1> QED BY <1>1, <1>2, <1>3, AddsOne

LEMMA AddingKeeps ==
    ASSUME LogInv, NEW p \in Processes, NEW session \in Sessions, Adding(p, session)
    PROVE  LogInv'
<1>1. UserMessage \in Messages
    BY DEF Messages
<1>2. CASE Prompt(p, session)
    <2>1. <<UserMessage>> \in Seq(Messages)
        BY <1>1
    <2> QED BY <1>2, <2>1, AppendMessagesKeeps DEF Prompt
<1>3. CASE RunEnds(p, session)
    <2>1. PICK messages \in Runs : AppendMessages(p, session, messages)
        BY <1>3 DEF RunEnds
    <2>2. messages \in Seq(Messages)
        BY SessionLogAssumption
    <2> QED BY <2>1, <2>2, AppendMessagesKeeps
<1>4. CASE Change(p, session)
    <2>1. NoEntry \in 0..ids /\ "change" \in {"message", "compaction", "change"}
        BY CallerKnows DEF NoEntry
    <2> QED BY <1>4, <2>1, AddsOne DEF Change
<1>5. CASE Compact(p, session)
    BY <1>5, CompactKeeps
<1> QED BY <1>2, <1>3, <1>4, <1>5 DEF Adding

-----------------------------------------------------------------------------
(***************************************************************************)
(* Forks, and the entries of a call one by one.                            *)
(***************************************************************************)
LEMMA ForkStartsKeeps ==
    ASSUME LogInv, NEW p \in Processes, NEW session \in Sessions, NEW child \in Sessions,
           ForkStarts(p, session, child)
    PROVE  LogInv'
<1> USE DEF LogInv
<1> DEFINE m == Manager("open", <<>>)
           branch == Branch(handles[p][session].entries, handles[p][session].leaf)
<1>1. /\ writing[p] = NotWriting /\ IsOpen(p, session) /\ child \notin created
      /\ \A s \in Sessions : handles[p][s].state # "read"
      /\ created' = created \cup {child} /\ handles' = [handles EXCEPT ![p][child] = m]
      /\ writing' = [writing EXCEPT ![p] = Writing(child, session, branch)]
      /\ damage' = [damage EXCEPT ![child] = damage[session]]
      /\ UNCHANGED <<files, ids, adds, faults>>
    BY DEF ForkStarts, AtRest
<1>2. m \in HandleType /\ m.state = "open" /\ m.entries = <<>> /\ m.leaf = LeafOf(m.entries)
    BY FreshHandle
<1> HIDE DEF m
<1>3. /\ session \in created /\ session # child /\ files[child] = <<>>
      /\ \A q \in Processes : ~IsOpen(q, child)
    BY <1>1 DEF Unmade, IsOpen
<1>4. branch \in Seq(Entries(ids))
    BY HandleFields, BranchShape
<1> HIDE DEF branch
<1>5. /\ handles'[p][child] = m /\ writing'[p] = Writing(child, session, branch)
      /\ \A s \in Sessions : s # child => handles'[p][s] = handles[p][s] /\ damage'[s] = damage[s]
      /\ \A q \in Processes : q # p => handles'[q] = handles[q] /\ writing'[q] = writing[q]
    BY <1>1 DEF LogTypes
<1>6. \A q \in Processes, s \in Sessions :
          IsOpen(q, s)' <=> IsOpen(q, s) \/ (q = p /\ s = child)
    BY <1>2, <1>5 DEF IsOpen
<1>7. LogTypes'
    <2>1. Writing(child, session, branch) \in CallType
        BY <1>4 DEF Writing, CallType
    <2>2. HandleType' = HandleType /\ CallType' = CallType
        BY <1>1 DEF HandleType, CallType
    <2> QED BY <1>1, <1>2, <2>1, <2>2 DEF LogTypes
<1>8. Leaves'
    <2> SUFFICES ASSUME NEW q \in Processes, NEW s \in Sessions
                 PROVE  handles'[q][s].leaf = LeafOf(handles'[q][s].entries)
        BY DEF Leaves
    <2>1. handles'[q][s] = m \/ handles'[q][s] = handles[q][s]
        BY <1>5
    <2> QED BY <1>2, <2>1 DEF Leaves
<1>9. Unmade'
    BY <1>1, <1>5 DEF Unmade
<1>10. OneHolder'
    BY <1>3, <1>6 DEF OneHolder
<1>11. Callers'
    <2>1. OpenAlone(p)
        BY <1>1 DEF Callers
    <2>2. writing'[p] # NotWriting
        BY <1>3, <1>5 DEF Writing, NotWriting
    <2>3. WritesToOpen(p)'
        <3>1. writing'[p].to = child /\ writing'[p].from = session
            BY <1>5 DEF Writing
        <3>2. IsOpen(p, child)' /\ IsOpen(p, session)'
            BY <1>1, <1>6
        <3>3. \A s \in Sessions : handles'[p][s].state # "read"
            BY <1>1, <1>2, <1>5
        <3>4. \A s \in Sessions : IsOpen(p, s)' => s = child \/ s = session
            BY <1>1, <1>6, <2>1 DEF OpenAlone
        <3> QED BY <3>1, <3>2, <3>3, <3>4 DEF WritesToOpen
    <2>4. ASSUME NEW q \in Processes, q # p
          PROVE  IF writing'[q] = NotWriting THEN OpenAlone(q)' ELSE WritesToOpen(q)'
        <3>1. writing'[q] = writing[q] /\ handles'[q] = handles[q]
            BY <1>5, <2>4
        <3>2. IF writing[q] = NotWriting THEN OpenAlone(q) ELSE WritesToOpen(q)
            BY DEF Callers
        <3> QED BY <3>1, <3>2 DEF OpenAlone, WritesToOpen, IsOpen
    <2> QED BY <2>2, <2>3, <2>4 DEF Callers
<1>12. Indexes'
    <2> SUFFICES ASSUME NEW q \in Processes, NEW s \in Sessions, IsOpen(q, s)', ~Lossy(s)'
                 PROVE  InStep(handles'[q][s].entries, files[s])
        BY <1>1 DEF Indexes, InStep, Unterminated
    <2>1. CASE s = child
        <3>1. q = p /\ handles'[q][s].entries = <<>> /\ files[s] = <<>>
            BY <1>2, <1>3, <1>5, <1>6, <2>1
        <3> QED BY <3>1, ParsedEmpty DEF InStep
    <2>2. CASE s # child
        <3>1. IsOpen(q, s) /\ handles'[q][s] = handles[q][s] /\ damage'[s] = damage[s]
            BY <1>5, <1>6, <2>2
        <3>2. ~Lossy(s)
            BY <3>1 DEF Lossy
        <3> QED BY <3>1, <3>2 DEF Indexes
    <2> QED BY <2>1, <2>2
<1>13. Forks'
    <2> SUFFICES ASSUME NEW q \in Processes, writing'[q].from # writing'[q].to PROVE Copying(q)'
        BY DEF Forks
    <2>1. CASE q = p
        <3>1. /\ writing'[p].to = child /\ writing'[p].from = session
              /\ writing'[p].entries = branch /\ handles'[p][child].entries = <<>>
              /\ handles'[p][session] = handles[p][session] /\ files'[child] = <<>>
            BY <1>1, <1>2, <1>3, <1>5 DEF Writing
        <3>2. <<>> \o branch = branch /\ Parsed(<<>>) = <<>> /\ ~Unterminated(<<>>)
            BY <1>4, ParsedEmpty DEF Unterminated
        <3>3. branch = Branch(handles'[p][session].entries, handles'[p][session].leaf)
            BY <3>1 DEF branch
        <3> QED BY <2>1, <3>1, <3>2, <3>3 DEF Copying
    <2>2. CASE q # p
        <3>1. writing'[q] = writing[q] /\ handles'[q] = handles[q] /\ files' = files
            BY <1>1, <1>5, <2>2
        <3>2. Copying(q)
            BY <3>1 DEF Forks
        <3> QED BY <3>1, <3>2 DEF Copying
    <2> QED BY <2>1, <2>2
<1> QED BY <1>7, <1>8, <1>9, <1>10, <1>11, <1>12, <1>13

\* The first entry of a call, from what is left to what is there.
LEMMA OneMore ==
    ASSUME NEW n \in Nat, NEW written \in Seq(Entries(n)), NEW left \in Seq(Entries(n)), left # <<>>
    PROVE  /\ Head(left) \in Entries(n) /\ Tail(left) \in Seq(Entries(n))
           /\ Append(written, Head(left)) \in Seq(Entries(n))
           /\ Append(written, Head(left)) \o Tail(left) = written \o left
           /\ Append(written, Head(left)) # <<>>
           /\ Append(written, Head(left))[1] = IF written = <<>> THEN Head(left) ELSE written[1]
<1>1. Head(left) \in Entries(n) /\ Tail(left) \in Seq(Entries(n))
    OBVIOUS
<1>2. /\ Append(written, Head(left)) \in Seq(Entries(n)) /\ Append(written, Head(left)) # <<>>
      /\ Append(written, Head(left))[1] = IF written = <<>> THEN Head(left) ELSE written[1]
    <2> PICK first \in Entries(n) : first = Head(left)
        BY <1>1
    <2>1. Append(written, first) \in Seq(Entries(n)) /\ Append(written, first) # <<>>
        OBVIOUS
    <2>2. Append(written, first)[1] = IF written = <<>> THEN first ELSE written[1]
        <3>1. CASE written = <<>>
            BY <3>1
        <3>2. CASE written # <<>>
            <4>1. 1 \in 1..Len(written)
                BY <3>2
            <4> QED BY <3>2, <4>1
        <3> QED BY <3>1, <3>2
    <2> QED BY <2>1, <2>2
<1>3. Append(written, Head(left)) \o Tail(left) = written \o left
    <2> DEFINE a == Append(written, Head(left)) \o Tail(left)
               b == written \o left
    <2>1. a \in Seq(Entries(n)) /\ b \in Seq(Entries(n)) /\ Len(a) = Len(b)
        BY <1>1, <1>2
    <2>2. \A i \in 1..Len(b) : a[i] = b[i]
        BY <1>1, <1>2
    <2> HIDE DEF a, b
    <2>3. a = b
        BY <2>1, <2>2, SeqEqual
    <2> QED BY <2>3 DEF a, b
<1> QED BY <1>1, <1>2, <1>3

\* A line and its newline behind a terminated file: one entry more.
LEMMA WrittenParsed ==
    ASSUME NEW n \in Nat, NEW lines \in Seq(Lines(n)), NEW entry \in Entries(n), ~Unterminated(lines)
    PROVE  /\ Parsed(WrittenTo(lines, entry, TRUE)) = Append(Parsed(lines), entry)
           /\ ~Unterminated(WrittenTo(lines, entry, TRUE))
<1> DEFINE line == [entry |-> entry, ended |-> TRUE]
           after == Append(lines, line)
<1>1. /\ WrittenTo(lines, entry, TRUE) = after /\ line \in Lines(n)
      /\ line.entry = entry /\ line.ended = TRUE /\ entry # Malformed
    BY WrittenTyped, EntryFields
<1> HIDE DEF line
<1>2. Parsed(after) = Append(Parsed(lines), entry)
    BY <1>1, ParsedAppend
<1>3. after # <<>> /\ after[Len(after)] = line
    BY <1>1
<1> QED BY <1>1, <1>2, <1>3 DEF Unterminated, Last

LEMMA WriteEntryKeeps ==
    ASSUME LogInv, NEW p \in Processes, WriteEntry(p)
    PROVE  LogInv'
<1> USE DEF LogInv
<1>1. writing[p].entries # <<>> /\ writing[p] # NotWriting
    BY DEF WriteEntry, NotWriting, Writing
<1>2. PICK to \in Sessions, from \in Sessions : to = writing[p].to /\ from = writing[p].from
    BY <1>1, CallersHold
<1> DEFINE e == Head(writing[p].entries)
           more == Tail(writing[p].entries)
           old == handles[p][to].entries
           m == Indexed(handles[p][to], e)
           w == IF more = <<>> /\ from = to THEN NotWriting ELSE [writing[p] EXCEPT !.entries = more]
<1>3. /\ IsOpen(p, to) /\ IsOpen(p, from) /\ to \in created
      /\ \A q \in Processes : IsOpen(q, to) => q = p
      /\ writing[p].entries \in Seq(Entries(ids)) /\ writing[p] \in CallType /\ WritesToOpen(p)
      /\ old \in Seq(Entries(ids)) /\ ids \in Nat
    BY <1>1, <1>2, CallersHold, HandleFields DEF Callers
<1>4. /\ e \in Entries(ids) /\ more \in Seq(Entries(ids))
      /\ Append(old, e) \in Seq(Entries(ids)) /\ Append(old, e) # <<>>
      /\ Append(old, e) \o more = old \o writing[p].entries
      /\ Append(old, e)[1] = IF old = <<>> THEN e ELSE old[1]
    BY <1>1, <1>3, OneMore
<1>5. /\ m \in HandleType /\ m.state = "open" /\ m.entries = Append(old, e)
      /\ m.leaf = LeafOf(m.entries)
    <2>1. PICK state \in {"closed", "read", "open"}, entries \in Seq(Entries(ids)) :
              state = "open" /\ entries = Append(old, e)
        BY <1>4
    <2>2. /\ Manager(state, entries) \in HandleType /\ Manager(state, entries).state = state
          /\ Manager(state, entries).entries = entries /\ Manager(state, entries).leaf = LeafOf(entries)
        BY <1>3, ManagerTyped
    <2>3. m = Manager(state, entries)
        BY <1>3, <2>1 DEF Indexed, IsOpen
    <2> QED BY <2>1, <2>2, <2>3
<1>6. /\ e.parent \in {NoEntry} \cup Ids(old)
      /\ files' = [files EXCEPT ![to] = WrittenTo(files[to], e, TRUE)]
      /\ handles' = [handles EXCEPT ![p][to] = m]
      /\ writing' = [writing EXCEPT ![p] = w]
      /\ damage' = IF Unterminated(files[to])
                   THEN [damage EXCEPT ![to] = @ \cup {"merged"}] ELSE damage
      /\ UNCHANGED <<created, ids, adds, faults>>
    BY <1>2 DEF WriteEntry, LogTypes
<1>7. /\ w \in CallType /\ (w = NotWriting => from = to)
      /\ w # NotWriting => w.to = to /\ w.from = from /\ w.entries = more
    BY <1>2, <1>3, <1>4 DEF CallType, NotWriting, Writing
<1> HIDE DEF m, w, more, e, old
<1>8. /\ handles'[p][to] = m /\ writing'[p] = w
      /\ \A s \in Sessions : s # to => handles'[p][s] = handles[p][s] /\ files'[s] = files[s]
                                       /\ damage'[s] = damage[s]
      /\ \A q \in Processes : q # p => handles'[q] = handles[q] /\ writing'[q] = writing[q]
      /\ files'[to] = WrittenTo(files[to], e, TRUE)
      /\ Undamaged(damage', to) => ~Unterminated(files[to]) /\ Undamaged(damage, to)
    BY <1>6 DEF LogTypes, Undamaged
<1>9. \A q \in Processes, s \in Sessions : IsOpen(q, s)' <=> IsOpen(q, s)
    BY <1>3, <1>5, <1>8 DEF IsOpen
<1>10. LogTypes'
    <2>1. HandleType' = HandleType /\ CallType' = CallType
        BY <1>6 DEF HandleType, CallType
    <2>2. WrittenTo(files[to], e, TRUE) \in Seq(Lines(ids))
        BY <1>3, <1>4, WrittenTyped DEF LogTypes
    <2> QED BY <1>5, <1>6, <1>7, <2>1, <2>2 DEF LogTypes
<1>11. Leaves'
    <2> SUFFICES ASSUME NEW q \in Processes, NEW s \in Sessions
                 PROVE  handles'[q][s].leaf = LeafOf(handles'[q][s].entries)
        BY DEF Leaves
    <2>1. handles'[q][s] = m \/ handles'[q][s] = handles[q][s]
        BY <1>8
    <2> QED BY <1>5, <2>1 DEF Leaves
<1>12. Unmade'
    <2> SUFFICES ASSUME NEW s \in Sessions, s \notin created
                 PROVE  files'[s] = <<>> /\ \A q \in Processes : handles'[q][s].state = "closed"
        BY <1>6 DEF Unmade
    <2>1. s # to /\ files[s] = <<>> /\ \A q \in Processes : handles[q][s].state = "closed"
        BY <1>3 DEF Unmade
    <2> QED BY <1>8, <2>1
<1>13. OneHolder'
    BY <1>9 DEF OneHolder
<1>14. Callers'
    <2>1. ASSUME NEW q \in Processes, q # p
          PROVE  IF writing'[q] = NotWriting THEN OpenAlone(q)' ELSE WritesToOpen(q)'
        <3>1. writing'[q] = writing[q] /\ handles'[q] = handles[q]
            BY <1>8, <2>1
        <3>2. IF writing[q] = NotWriting THEN OpenAlone(q) ELSE WritesToOpen(q)
            BY DEF Callers
        <3> QED BY <3>1, <3>2 DEF OpenAlone, WritesToOpen, IsOpen
    <2>2. CASE w = NotWriting
        <3>1. OpenAlone(p)'
            BY <1>2, <1>3, <1>7, <1>9, <2>2 DEF OpenAlone, WritesToOpen
        <3> QED BY <1>8, <2>1, <2>2, <3>1 DEF Callers
    <2>3. CASE w # NotWriting
        <3>1. writing'[p].to = to /\ writing'[p].from = from
            BY <1>7, <1>8, <2>3
        <3>2. \A s \in Sessions : handles'[p][s].state # "read"
            BY <1>3, <1>5, <1>8 DEF WritesToOpen
        <3>3. \A s \in Sessions : IsOpen(p, s)' => s = to \/ s = from
            BY <1>2, <1>3, <1>9 DEF WritesToOpen
        <3>4. WritesToOpen(p)'
            BY <1>3, <1>9, <3>1, <3>2, <3>3 DEF WritesToOpen
        <3> QED BY <1>8, <2>1, <2>3, <3>4 DEF Callers
    <2> QED BY <2>2, <2>3
<1>15. Indexes'
    <2> SUFFICES ASSUME NEW q \in Processes, NEW s \in Sessions, IsOpen(q, s)', ~Lossy(s)'
                 PROVE  InStep(handles'[q][s].entries, files'[s])
        BY DEF Indexes, InStep, Unterminated
    <2>1. IsOpen(q, s) /\ Undamaged(damage', s)
        BY <1>9, LossyIs
    <2>2. CASE s = to
        <3>1. q = p /\ ~Unterminated(files[to]) /\ ~Lossy(to)
            BY <1>3, <1>8, <2>1, <2>2, LossyIs
        <3>2. InStep(old, files[to])
            BY <1>3, <3>1 DEF Indexes, old
        <3>3. old = Parsed(files[to])
            BY <3>1, <3>2 DEF InStep
        <3>4. Parsed(WrittenTo(files[to], e, TRUE)) = Append(old, e)
            BY <1>3, <1>4, <3>1, <3>3, WrittenParsed DEF LogTypes
        <3> QED BY <1>5, <1>8, <2>2, <3>1, <3>4 DEF InStep
    <2>3. CASE s # to
        <3>1. handles'[q][s] = handles[q][s] /\ files'[s] = files[s] /\ damage'[s] = damage[s]
            BY <1>8, <2>3
        <3>2. ~Lossy(s)
            BY <2>1, <3>1, LossyIs DEF Undamaged
        <3> QED BY <2>1, <3>1, <3>2 DEF Indexes
    <2> QED BY <2>2, <2>3
<1>16. Forks'
    <2> SUFFICES ASSUME NEW q \in Processes, writing'[q].from # writing'[q].to PROVE Copying(q)'
        BY DEF Forks
    <2>1. CASE q = p
        <3>1. w # NotWriting /\ w.to = to /\ w.from = from /\ w.entries = more /\ from # to
            BY <1>7, <1>8, <2>1 DEF NotWriting, Writing
        <3>2. Copying(p)
            BY <1>2, <3>1 DEF Forks
        <3>3. /\ old \o writing[p].entries = Branch(handles[p][from].entries, handles[p][from].leaf)
              /\ old = Parsed(files[to]) /\ ~Unterminated(files[to])
              /\ old # <<>> => old[1].parent = NoEntry
            BY <1>2, <3>2 DEF Copying, old
        <3>4. /\ Parsed(WrittenTo(files[to], e, TRUE)) = Append(old, e)
              /\ ~Unterminated(WrittenTo(files[to], e, TRUE))
            BY <1>3, <1>4, <3>3, WrittenParsed DEF LogTypes
        <3>5. Append(old, e)[1].parent = NoEntry
            <4>1. CASE old = <<>>
                BY <1>4, <1>6, <4>1 DEF Ids
            <4>2. CASE old # <<>>
                BY <1>4, <3>3, <4>2
            <4> QED BY <4>1, <4>2
        <3>6. handles'[p][from] = handles[p][from]
            BY <1>8, <3>1
        <3>7. /\ writing'[p].to = to /\ writing'[p].from = from /\ writing'[p].entries = more
              /\ handles'[p][to].entries = Append(old, e) /\ files'[to] = WrittenTo(files[to], e, TRUE)
            BY <1>5, <1>8, <3>1
        <3>8. Append(old, e) \o more = Branch(handles'[p][from].entries, handles'[p][from].leaf)
            BY <1>4, <3>3, <3>6
        <3>9. Append(old, e) = Parsed(files'[to]) /\ ~Unterminated(files'[to])
            BY <3>3, <3>4, <3>7
        <3> QED BY <2>1, <3>5, <3>7, <3>8, <3>9 DEF Copying
    <2>2. CASE q # p
        <3>1. writing'[q] = writing[q] /\ handles'[q] = handles[q]
            BY <1>8, <2>2
        <3>2. Copying(q) /\ writing[q] # NotWriting
            BY <3>1 DEF Forks, NotWriting, Writing
        <3>3. PICK other \in Sessions : other = writing[q].to /\ IsOpen(q, other)
            BY <3>2, CallersHold
        <3>4. files'[other] = files[other]
            BY <1>3, <1>8, <2>2, <3>3
        <3> QED BY <3>1, <3>2, <3>3, <3>4 DEF Copying, Unterminated
    <2> QED BY <2>1, <2>2
<1> QED BY <1>10, <1>11, <1>12, <1>13, <1>14, <1>15, <1>16

LEMMA LogKept ==
    ASSUME LogInv, [Next]_logVars
    PROVE  LogInv'
<1>1. CASE UNCHANGED logVars
    <2>1. UNCHANGED <<created, files, handles, writing, ids, adds, faults, damage>>
        BY <1>1 DEF logVars
    <2>2. LogTypes' /\ Leaves' /\ Unmade' /\ OneHolder'
        BY <2>1 DEF LogInv, LogTypes, HandleType, CallType, Leaves, Unmade, OneHolder, IsOpen
    <2>3. Callers'
        BY <2>1 DEF LogInv, Callers, WritesToOpen, OpenAlone, IsOpen
    <2>4. Indexes'
        BY <2>1 DEF LogInv, Indexes, Lossy, IsOpen, InStep, Unterminated
    <2>5. Forks'
        BY <2>1 DEF LogInv, Forks, Copying, Unterminated
    <2> QED BY <2>2, <2>3, <2>4, <2>5 DEF LogInv
<1>2. CASE Next
    <2>1. PICK p \in Processes :
             \/ Exits(p) \/ Crash(p) \/ ForkEnds(p)
             \/ WriteEntry(p) \/ WriteFails(p) \/ WriteRefused(p)
             \/ \E session \in Sessions :
                   \/ Opening(p, session) \/ Adding(p, session)
                   \/ \E child \in Sessions : ForkStarts(p, session, child)
        BY <1>2 DEF Next
    <2>2. CASE Exits(p)
        BY <2>2, ExitsKeeps
    <2>3. CASE Crash(p)
        BY <2>3, CrashKeeps
    <2>4. CASE ForkEnds(p)
        BY <2>4, ForkEndsKeeps
    <2>5. CASE WriteEntry(p)
        BY <2>5, WriteEntryKeeps
    <2>6. CASE WriteFails(p)
        BY <2>6, WriteFailsKeeps
    <2>7. CASE WriteRefused(p)
        BY <2>7, WriteRefusedKeeps
    <2>8. ASSUME NEW session \in Sessions, Opening(p, session) PROVE LogInv'
        <3>1. CASE NewSession(p, session)
            BY <3>1, NewSessionKeeps
        <3>2. CASE OpenReads(p, session)
            BY <3>2, OpenReadsKeeps
        <3>3. CASE OpenLocks(p, session)
            BY <3>3, OpenLocksKeeps
        <3>4. CASE OpenRefused(p, session)
            BY <3>4, OpenRefusedKeeps
        <3> QED BY <2>8, <3>1, <3>2, <3>3, <3>4 DEF Opening
    <2>9. ASSUME NEW session \in Sessions, Adding(p, session) PROVE LogInv'
        BY <2>9, AddingKeeps
    <2>10. ASSUME NEW session \in Sessions, NEW child \in Sessions, ForkStarts(p, session, child)
           PROVE  LogInv'
        BY <2>10, ForkStartsKeeps
    <2> QED BY <2>1, <2>2, <2>3, <2>4, <2>5, <2>6, <2>7, <2>8, <2>9, <2>10
<1> QED BY <1>1, <1>2

-----------------------------------------------------------------------------
(***************************************************************************)
(* What follows for every state.                                           *)
(***************************************************************************)
LEMMA OneOpen ==
    ASSUME LogInv, NEW p \in Processes, OpenAlone(p)
    PROVE  Cardinality({session \in Sessions : IsOpen(p, session)}) <= 1
<1> DEFINE S == {session \in Sessions : IsOpen(p, session)}
<1>1. CASE S = {}
    BY <1>1, FS_EmptySet
<1>2. CASE S # {}
    <2>1. PICK s \in Sessions : s \in S
        BY <1>2
    <2>2. S = {s}
        BY <2>1 DEF OpenAlone
    <2>3. Cardinality({s}) = 1
        BY FS_Singleton
    <2> QED BY <2>2, <2>3
<1> QED BY <1>1, <1>2

LEMMA LogTyped == LogInv => TypeOK
<1> SUFFICES ASSUME LogInv PROVE TypeOK
    OBVIOUS
<1>1. /\ created \subseteq Sessions /\ ids \in Nat
      /\ ids \in 0..MaxEntries /\ adds \in 0..MaxAdds /\ faults \in 0..MaxFaults
      /\ damage \in [Sessions -> SUBSET {"merged", "stale", "cut"}]
      /\ files \in [Sessions -> Seq(Lines(ids))]
    BY SessionLogAssumption DEF LogInv, LogTypes
<1>2. files \in [Sessions -> Seq([entry : EntryType, ended : BOOLEAN])]
    BY <1>1, EntriesAreTyped
<1>3. ASSUME NEW p \in Processes, NEW session \in Sessions
      PROVE  /\ handles[p][session].state \in {"closed", "read", "open"}
             /\ handles[p][session].entries \in Seq(EntryType)
             /\ IsOpen(p, session) => \A q \in Processes \ {p} : ~IsOpen(q, session)
    <2>1. /\ handles[p][session].state \in {"closed", "read", "open"}
          /\ handles[p][session].entries \in Seq(EntryType)
        BY <1>1, HandleFields, EntriesAreTyped
    <2>2. IsOpen(p, session) => \A q \in Processes \ {p} : ~IsOpen(q, session)
        BY DEF LogInv, OneHolder
    <2> QED BY <2>1, <2>2
<1>4. ASSUME NEW p \in Processes
      PROVE  /\ writing[p].entries \in Seq(EntryType)
             /\ writing[p].to = writing[p].from =>
                   Cardinality({session \in Sessions : IsOpen(p, session)}) <= 1
    <2>1. writing[p].entries \in Seq(EntryType)
        <3>1. writing[p].entries \in Seq(Entries(ids))
            BY DEF LogInv, LogTypes, CallType
        <3> QED BY <1>1, <3>1, EntriesAreTyped
    <2>2. writing[p].to = writing[p].from => OpenAlone(p)
        BY DEF LogInv, Callers, WritesToOpen, OpenAlone
    <2> QED BY <2>1, <2>2, OneOpen
<1> QED BY <1>1, <1>2, <1>3, <1>4 DEF TypeOK

LEMMA IndexesOnDisk == LogInv => IndexOnDisk
<1> SUFFICES ASSUME LogInv, NEW p \in Processes, NEW session \in Sessions,
                    IsOpen(p, session), ~Lossy(session)
             PROVE  LET entries == handles[p][session].entries
                        onDisk == Parsed(files[session])
                    IN  IsPrefix(entries, onDisk) /\ Len(onDisk) <= Len(entries) + 1
    BY DEF IndexOnDisk
<1> DEFINE entries == handles[p][session].entries
           onDisk == Parsed(files[session])
<1>1. InStep(entries, files[session])
    BY DEF LogInv, Indexes
<1>2. entries \in Seq(Entries(ids)) /\ onDisk \in Seq(Entries(ids))
    BY HandleFields, ParsedTyped
<1>3. onDisk = entries \/ \E e : onDisk = Append(entries, e)
    BY <1>1 DEF InStep
<1> HIDE DEF entries, onDisk
<1>4. Len(onDisk) <= Len(entries) + 1 /\ Len(entries) <= Len(onDisk)
    BY <1>2, <1>3
<1>5. \A i \in 1..Len(entries) : entries[i] = onDisk[i]
    BY <1>2, <1>3
<1>6. IsPrefix(entries, onDisk)
    BY <1>2, <1>4, <1>5 DEF IsPrefix
<1> QED BY <1>4, <1>6 DEF entries, onDisk

\* A fork that has copied the whole branch continues the same conversation: the child's
\* entries are the branch, a chain, so that they are the branch of the child.
LEMMA ForksKeepContext == LogInv => ForkKeepsContext
<1> SUFFICES ASSUME LogInv, NEW p \in Processes, ForkCopied(p)
             PROVE  /\ MessagesOf[ContextOf(p, writing[p].to)] = MessagesOf[ContextOf(p, writing[p].from)]
                    /\ Resumed(writing[p].to) = MessagesOf[ContextOf(p, writing[p].from)]
    BY DEF ForkKeepsContext
<1>1. writing[p] # NotWriting /\ writing[p].from # writing[p].to /\ writing[p].entries = <<>>
    BY DEF ForkCopied, NotWriting, Writing
<1>2. PICK to \in Sessions, from \in Sessions : to = writing[p].to /\ from = writing[p].from
    BY <1>1, CallersHold
<1>3. /\ handles[p][to].entries \o <<>> = Branch(handles[p][from].entries, handles[p][from].leaf)
      /\ handles[p][to].entries = Parsed(files[to])
      /\ handles[p][to].entries # <<>> => handles[p][to].entries[1].parent = NoEntry
    BY <1>1, <1>2 DEF LogInv, Forks, Copying
<1> DEFINE copied == handles[p][to].entries
           branch == Branch(handles[p][from].entries, handles[p][from].leaf)
<1>4. /\ copied \in Seq(Entries(ids)) /\ ids \in Nat
      /\ handles[p][to].leaf = LeafOf(copied) /\ Linked(branch)
    BY HandleFields, BranchShape
<1>5. copied = branch
    BY <1>3, <1>4
<1>6. copied # <<>> => copied[1].parent = NoEntry
    BY <1>3
<1>7. copied = Parsed(files[to])
    BY <1>3
<1> HIDE DEF copied, branch
<1>8. Chain(copied)
    <2> SUFFICES ASSUME NEW k \in 1..Len(copied)
                 PROVE  copied[k].parent = IF k = 1 THEN NoEntry ELSE copied[k - 1].id
        BY DEF Chain
    <2>1. CASE k = 1
        <3>1. copied # <<>>
            BY <1>4, <2>1
        <3> QED BY <1>6, <2>1, <3>1
    <2>2. CASE k # 1
        <3>1. k - 1 \in 1..Len(branch) - 1 /\ (k - 1) + 1 = k
            BY <1>4, <1>5, <2>2
        <3>2. branch[(k - 1) + 1].parent = branch[k - 1].id
            BY <1>4, <3>1 DEF Linked
        <3> QED BY <1>5, <2>2, <3>1, <3>2
    <2> QED BY <2>1, <2>2
<1>9. Branch(copied, LeafOf(copied)) = branch
    BY <1>4, <1>5, <1>8, ChainIsBranch
<1>10. MessagesOf[ContextOf(p, from)] = MessagesOf[BranchContext[branch]]
    BY DEF ContextOf, ContextEntries, branch
<1>11. MessagesOf[ContextOf(p, to)] = MessagesOf[BranchContext[branch]]
    BY <1>4, <1>9 DEF ContextOf, ContextEntries, copied
<1>12. Resumed(to) = MessagesOf[BranchContext[branch]]
    BY <1>7, <1>9 DEF Resumed, Context, ContextEntries
<1> QED BY <1>2, <1>10, <1>11, <1>12

-----------------------------------------------------------------------------
(***************************************************************************)
(* Beginnings and ends of a log.                                           *)
(***************************************************************************)
LEMMA SubSeqIs ==
    ASSUME NEW S, NEW s \in Seq(S), NEW m \in 1..Len(s) + 1, NEW n \in 0..Len(s), m <= n + 1
    PROVE  /\ SubSeq(s, m, n) \in Seq(S) /\ Len(SubSeq(s, m, n)) = (n + 1) - m
           /\ \A i \in 1..(n + 1) - m : SubSeq(s, m, n)[i] = s[m + i - 1]
OBVIOUS

LEMMA Beginnings ==
    ASSUME NEW S, NEW s \in Seq(S), NEW t \in Seq(S), NEW k \in 0..Len(s)
    PROVE  SubSeq(s \o t, 1, k) = SubSeq(s, 1, k)
<1> DEFINE a == SubSeq(s \o t, 1, k)
           b == SubSeq(s, 1, k)
<1>1. s \o t \in Seq(S) /\ Len(s \o t) = Len(s) + Len(t) /\ Len(s) \in Nat /\ Len(t) \in Nat
    OBVIOUS
<1>2. \A i \in 1..k : (s \o t)[i] = s[i]
    OBVIOUS
<1> PICK u : u = s \o t
    OBVIOUS
<1>3. /\ a \in Seq(S) /\ Len(a) = k /\ b \in Seq(S) /\ Len(b) = k
      /\ \A i \in 1..k : a[i] = u[i] /\ b[i] = s[i]
    BY <1>1, SubSeqIs
<1> HIDE DEF a, b
<1>4. a = b
    BY <1>2, <1>3, SeqEqual
<1> QED BY <1>4 DEF a, b

LEMMA BeginningOf ==
    ASSUME NEW S, NEW s \in Seq(S), NEW m \in 0..Len(s), NEW k \in 0..m
    PROVE  SubSeq(SubSeq(s, 1, m), 1, k) = SubSeq(s, 1, k)
<1> DEFINE u == SubSeq(s, 1, m)
           a == SubSeq(u, 1, k)
           b == SubSeq(s, 1, k)
<1>1. u \in Seq(S) /\ Len(u) = m /\ \A i \in 1..m : u[i] = s[i]
    BY SubSeqIs
<1> HIDE DEF u
<1>2. /\ a \in Seq(S) /\ Len(a) = k /\ b \in Seq(S) /\ Len(b) = k
      /\ \A i \in 1..k : a[i] = u[i] /\ b[i] = s[i]
    BY <1>1, SubSeqIs
<1> HIDE DEF a, b
<1>3. a = b
    BY <1>1, <1>2, SeqEqual
<1> QED BY <1>3 DEF a, b, u

LEMMA WholeBeginning ==
    ASSUME NEW S, NEW s \in Seq(S) PROVE SubSeq(s, 1, Len(s)) = s /\ SubSeq(s, 1, 0) = <<>>
OBVIOUS

LEMMA BeginningBehind ==
    ASSUME NEW S, NEW s \in Seq(S), NEW t \in Seq(S), NEW j \in 1..Len(t)
    PROVE  SubSeq(s \o t, 1, Len(s) + j) = s \o SubSeq(t, 1, j)
<1>1. PICK l \in Nat : l = Len(s)
    OBVIOUS
<1> PICK u, v, a, b : /\ u = s \o t /\ v = SubSeq(t, 1, j)
                      /\ a = SubSeq(u, 1, l + j) /\ b = s \o v
    OBVIOUS
<1>2. /\ u \in Seq(S) /\ l + j \in 0..Len(u)
      /\ \A i \in 1..l + j : u[i] = IF i <= l THEN s[i] ELSE t[i - l]
    <2>1. /\ u \in Seq(S) /\ Len(u) = Len(s) + Len(t)
          /\ \A i \in 1..Len(s) + Len(t) : u[i] = IF i <= Len(s) THEN s[i] ELSE t[i - Len(s)]
        BY ConcatProperties
    <2> QED BY <1>1, <2>1
<1>3. v \in Seq(S) /\ Len(v) = j /\ \A i \in 1..j : v[i] = t[i]
    BY SubSeqIs
<1>4. a \in Seq(S) /\ Len(a) = l + j /\ \A i \in 1..l + j : a[i] = u[i]
    <2>1. 1 \in 1..Len(u) + 1 /\ 1 <= (l + j) + 1 /\ ((l + j) + 1) - 1 = l + j
        BY <1>2
    <2>2. a \in Seq(S) /\ Len(a) = ((l + j) + 1) - 1 /\ \A i \in 1..((l + j) + 1) - 1 : a[i] = u[1 + i - 1]
        BY <1>2, <2>1, SubSeqIs
    <2>3. \A i \in 1..l + j : 1 + i - 1 = i
        BY <1>1
    <2> QED BY <2>1, <2>2, <2>3
<1>5. /\ b \in Seq(S) /\ Len(b) = l + j
      /\ \A i \in 1..l + j : b[i] = IF i <= l THEN s[i] ELSE v[i - l]
    <2>1. /\ b \in Seq(S) /\ Len(b) = Len(s) + Len(v)
          /\ \A i \in 1..Len(s) + Len(v) : b[i] = IF i <= Len(s) THEN s[i] ELSE v[i - Len(s)]
        BY <1>3, ConcatProperties
    <2> QED BY <1>1, <1>3, <2>1
<1>6. ASSUME NEW i \in 1..l + j PROVE a[i] = b[i]
    <2>1. CASE i <= l
        BY <1>2, <1>4, <1>5, <2>1
    <2>2. CASE ~(i <= l)
        <3>1. i - l \in 1..j
            BY <1>1, <2>2
        <3> QED BY <1>2, <1>3, <1>4, <1>5, <2>2, <3>1
    <2> QED BY <2>1, <2>2
<1>7. a = b
    BY <1>4, <1>5, <1>6, SeqEqual
<1> QED BY <1>1, <1>7

LEMMA SplitAt ==
    ASSUME NEW S, NEW s \in Seq(S), NEW j \in 1..Len(s)
    PROVE  SubSeq(s, 1, j) \o SubSeq(s, j + 1, Len(s)) = s
<1>1. PICK l \in Nat : l = Len(s)
    OBVIOUS
<1> PICK u, v, b : u = SubSeq(s, 1, j) /\ v = SubSeq(s, j + 1, l) /\ b = u \o v
    OBVIOUS
<1>2. u \in Seq(S) /\ Len(u) = j /\ \A i \in 1..j : u[i] = s[i]
    BY SubSeqIs
<1>3. v \in Seq(S) /\ Len(v) = l - j /\ \A i \in 1..l - j : v[i] = s[j + i]
    <2>1. /\ j + 1 \in 1..Len(s) + 1 /\ l \in 0..Len(s) /\ j + 1 <= l + 1
          /\ (l + 1) - (j + 1) = l - j /\ \A i \in 1..l - j : (j + 1) + i - 1 = j + i
        BY <1>1
    <2>2. /\ v \in Seq(S) /\ Len(v) = (l + 1) - (j + 1)
          /\ \A i \in 1..(l + 1) - (j + 1) : v[i] = s[(j + 1) + i - 1]
        BY <2>1, SubSeqIs
    <2> QED BY <2>1, <2>2
<1>4. /\ b \in Seq(S) /\ Len(b) = l
      /\ \A i \in 1..l : b[i] = IF i <= j THEN u[i] ELSE v[i - j]
    <2>1. /\ b \in Seq(S) /\ Len(b) = Len(u) + Len(v)
          /\ \A i \in 1..Len(u) + Len(v) : b[i] = IF i <= Len(u) THEN u[i] ELSE v[i - Len(u)]
        BY <1>2, <1>3, ConcatProperties
    <2>2. Len(u) = j /\ Len(u) + Len(v) = l
        BY <1>1, <1>2, <1>3
    <2> QED BY <2>1, <2>2
<1>5. ASSUME NEW i \in 1..l PROVE b[i] = s[i]
    <2>1. CASE i <= j
        BY <1>2, <1>4, <2>1
    <2>2. CASE ~(i <= j)
        <3>1. i - j \in 1..l - j /\ j + (i - j) = i
            BY <1>1, <2>2
        <3> QED BY <1>3, <1>4, <2>2, <3>1
    <2> QED BY <2>1, <2>2
<1>6. b = s
    BY <1>1, <1>4, <1>5, SeqEqual
<1> QED BY <1>1, <1>6

\* The end of a sequence with one element more.
LEMMA EndGrows ==
    ASSUME NEW S, NEW s \in Seq(S), NEW e \in S, NEW m \in 1..Len(s) + 1
    PROVE  SubSeq(Append(s, e), m, Len(s) + 1) = Append(SubSeq(s, m, Len(s)), e)
<1> DEFINE t == Append(s, e)
           a == SubSeq(t, m, Len(s) + 1)
           c == SubSeq(s, m, Len(s))
           b == Append(c, e)
<1>1. t \in Seq(S) /\ Len(t) = Len(s) + 1 /\ t[Len(s) + 1] = e /\ \A i \in 1..Len(s) : t[i] = s[i]
    OBVIOUS
<1> HIDE DEF t
<1>2. /\ a \in Seq(S) /\ Len(a) = (Len(s) + 2) - m /\ c \in Seq(S) /\ Len(c) = (Len(s) + 1) - m
      /\ \A i \in 1..(Len(s) + 2) - m : a[i] = t[m + i - 1]
      /\ \A i \in 1..(Len(s) + 1) - m : c[i] = s[m + i - 1]
    BY <1>1, SubSeqIs
<1> HIDE DEF a, c
<1>3. /\ b \in Seq(S) /\ Len(b) = Len(c) + 1 /\ b[Len(c) + 1] = e
      /\ \A i \in 1..Len(c) : b[i] = c[i]
    BY <1>2
<1> HIDE DEF b
<1>4. PICK l \in Nat, k \in Nat : l = Len(s) /\ k = Len(c) /\ k + m = l + 1
    BY <1>2
<1>5. ASSUME NEW i \in 1..k + 1 PROVE a[i] = b[i]
    <2>1. a[i] = t[m + i - 1]
        BY <1>2, <1>4
    <2>2. CASE i = k + 1
        <3>1. m + i - 1 = l + 1
            BY <1>4, <2>2
        <3> QED BY <1>1, <1>3, <1>4, <2>1, <2>2, <3>1
    <2>3. CASE i \in 1..k
        <3>1. m + i - 1 \in 1..l
            BY <1>4, <2>3
        <3>2. c[i] = s[m + i - 1]
            BY <1>2, <1>4, <2>3
        <3> QED BY <1>1, <1>3, <1>4, <2>1, <2>3, <3>1, <3>2
    <2> QED BY <1>4, <2>2, <2>3
<1>6. Len(a) = k + 1 /\ Len(b) = k + 1
    BY <1>2, <1>3, <1>4
<1>7. a = b
    BY <1>2, <1>3, <1>5, <1>6, SeqEqual
<1> QED BY <1>7 DEF a, b, c, t

\* One by one: what holds of the empty sequence and stays when an element is added holds
\* of every beginning.
LEMMA OneByOne ==
    ASSUME NEW S, NEW s \in Seq(S), NEW k \in 1..Len(s)
    PROVE  SubSeq(s, 1, k) = Append(SubSeq(s, 1, k - 1), s[k])
<1> DEFINE a == SubSeq(s, 1, k)
           c == SubSeq(s, 1, k - 1)
           b == Append(c, s[k])
<1>1. /\ a \in Seq(S) /\ Len(a) = k /\ c \in Seq(S) /\ Len(c) = k - 1
      /\ \A i \in 1..k : a[i] = s[i]
      /\ \A i \in 1..k - 1 : c[i] = s[i]
    <2>1. k - 1 \in 0..Len(s) /\ Len(s) \in Nat
        OBVIOUS
    <2> QED BY <2>1, SubSeqIs
<1> HIDE DEF a, c
<1>2. /\ b \in Seq(S) /\ Len(b) = k /\ b[k] = s[k] /\ \A i \in 1..k - 1 : b[i] = c[i]
    BY <1>1
<1> HIDE DEF b
<1>3. a = b
    BY <1>1, <1>2, SeqEqual
<1> QED BY <1>3 DEF a, b, c

-----------------------------------------------------------------------------
(***************************************************************************)
(* The messages of entries.                                                *)
(***************************************************************************)
LEMMA MessagesAre ==
    ASSUME NEW n \in Nat, NEW entries \in Seq(Entries(n))
    PROVE  /\ MessagesOf[entries] \in Seq(Messages) /\ Len(MessagesOf[entries]) = Len(entries)
           /\ \A i \in 1..Len(entries) : MessagesOf[entries][i] = entries[i].message
<1>1. entries \in Seq(EntryType)
    BY EntriesAreTyped
<1>2. MessagesOf[entries] = [i \in DOMAIN entries |-> entries[i].message]
    BY <1>1 DEF MessagesOf
<1>3. ASSUME NEW i \in 1..Len(entries) PROVE entries[i].message \in Messages
    <2>1. entries[i] \in Entries(n)
        OBVIOUS
    <2> QED BY <2>1, EntryFields
<1> QED BY <1>2, <1>3

LEMMA MessagesOfNone == MessagesOf[<<>>] = <<>>
<1>1. <<>> \in Seq(EntryType)
    OBVIOUS
<1> QED BY <1>1 DEF MessagesOf

LEMMA MessagesJoin ==
    ASSUME NEW n \in Nat, NEW s \in Seq(Entries(n)), NEW t \in Seq(Entries(n))
    PROVE  MessagesOf[s \o t] = MessagesOf[s] \o MessagesOf[t]
<1>1. s \o t \in Seq(Entries(n)) /\ Len(s \o t) = Len(s) + Len(t)
    OBVIOUS
<1>2. PICK a : a = MessagesOf[s \o t]
    OBVIOUS
<1>3. /\ a \in Seq(Messages) /\ Len(a) = Len(s) + Len(t)
      /\ \A i \in 1..Len(s) + Len(t) : a[i] = (s \o t)[i].message
    BY <1>1, <1>2, MessagesAre
<1>4. PICK p \in Seq(Messages), q \in Seq(Messages) :
          /\ p = MessagesOf[s] /\ q = MessagesOf[t] /\ Len(p) = Len(s) /\ Len(q) = Len(t)
          /\ \A i \in 1..Len(s) : p[i] = s[i].message
          /\ \A i \in 1..Len(t) : q[i] = t[i].message
    BY MessagesAre
<1>5. s \o t \in Seq(Entries(n)) /\ Len(s) \in Nat /\ Len(t) \in Nat
    OBVIOUS
<1>6. \A i \in 1..Len(s) + Len(t) : (s \o t)[i] = IF i <= Len(s) THEN s[i] ELSE t[i - Len(s)]
    BY ConcatProperties
<1>7. /\ p \o q \in Seq(Messages) /\ Len(p \o q) = Len(p) + Len(q)
      /\ \A i \in 1..Len(p) + Len(q) : (p \o q)[i] = IF i <= Len(p) THEN p[i] ELSE q[i - Len(p)]
    BY ConcatProperties
<1>8. PICK u \in Seq(Entries(n)), b \in Seq(Messages), k \in Nat, l \in Nat :
          u = s \o t /\ b = p \o q /\ k = Len(s) /\ l = Len(t)
    BY <1>5, <1>7
<1>9. Len(b) = k + l
    BY <1>4, <1>7, <1>8
<1>10. \A i \in 1..k + l : u[i] = IF i <= k THEN s[i] ELSE t[i - k]
    BY <1>6, <1>8
<1>11. \A i \in 1..k + l : b[i] = IF i <= k THEN p[i] ELSE q[i - k]
    BY <1>4, <1>7, <1>8
<1>12. ASSUME NEW i \in 1..k + l PROVE a[i] = b[i]
    <2>1. CASE i <= k
        <3>1. i \in 1..k
            BY <2>1
        <3>2. a[i] = u[i].message
            BY <1>3, <1>8
        <3>3. u[i] = s[i] /\ b[i] = p[i]
            BY <1>10, <1>11, <2>1
        <3>4. p[i] = s[i].message
            BY <1>4, <1>8, <3>1
        <3> QED BY <3>2, <3>3, <3>4
    <2>2. CASE ~(i <= k)
        <3>1. i - k \in 1..l
            BY <2>2
        <3>2. a[i] = u[i].message
            BY <1>3, <1>8
        <3>3. u[i] = t[i - k] /\ b[i] = q[i - k]
            BY <1>10, <1>11, <2>2
        <3>4. q[i - k] = t[i - k].message
            BY <1>4, <1>8, <3>1
        <3> QED BY <3>2, <3>3, <3>4
    <2> QED BY <2>1, <2>2
<1>13. a = b
    BY <1>3, <1>8, <1>9, <1>12, SeqEqual
<1> QED BY <1>2, <1>4, <1>8, <1>13

LEMMA MessagesOfOne ==
    ASSUME NEW n \in Nat, NEW e \in Entries(n)
    PROVE  <<e>> \in Seq(Entries(n)) /\ MessagesOf[<<e>>] = <<e.message>>
<1> PICK one : one = <<e>>
    OBVIOUS
<1>1. one \in Seq(Entries(n)) /\ Len(one) = 1 /\ one[1] = e /\ 1 \in 1..Len(one)
    OBVIOUS
<1> PICK a, b : a = MessagesOf[one] /\ b = <<e.message>>
    OBVIOUS
<1>2. a \in Seq(Messages) /\ Len(a) = 1 /\ a[1] = e.message
    BY <1>1, MessagesAre
<1>3. b \in Seq(Messages) /\ Len(b) = 1 /\ b[1] = e.message
    BY EntryFields
<1>4. \A i \in 1..1 : a[i] = b[i]
    BY <1>2, <1>3
<1>5. a = b
    BY <1>2, <1>3, <1>4, SeqEqual
<1> QED BY <1>1, <1>5

LEMMA MessagesOn ==
    ASSUME NEW n \in Nat, NEW s \in Seq(Entries(n)), NEW e \in Entries(n)
    PROVE  MessagesOf[Append(s, e)] = Append(MessagesOf[s], e.message)
<1>1. PICK m \in Seq(Messages), x \in Messages : m = MessagesOf[s] /\ x = e.message
    BY MessagesAre, EntryFields
<1>2. Append(s, e) = s \o <<e>> /\ Append(m, x) = m \o <<x>>
    OBVIOUS
<1>3. MessagesOf[s \o <<e>>] = MessagesOf[s] \o MessagesOf[<<e>>]
    BY MessagesOfOne, MessagesJoin
<1> QED BY <1>1, <1>2, <1>3, MessagesOfOne

LEMMA MessagesOfEnd ==
    ASSUME NEW n \in Nat, NEW s \in Seq(Entries(n)), NEW m \in 1..Len(s) + 1
    PROVE  MessagesOf[SubSeq(s, m, Len(s))] = SubSeq(MessagesOf[s], m, Len(MessagesOf[s]))
<1> DEFINE u == SubSeq(s, m, Len(s))
           p == MessagesOf[s]
           a == MessagesOf[u]
           b == SubSeq(p, m, Len(p))
<1>1. /\ u \in Seq(Entries(n)) /\ Len(u) = (Len(s) + 1) - m /\ Len(s) \in Nat
      /\ \A i \in 1..(Len(s) + 1) - m : u[i] = s[m + i - 1]
    BY SubSeqIs
<1> HIDE DEF u
<1>2. /\ a \in Seq(Messages) /\ Len(a) = (Len(s) + 1) - m
      /\ \A i \in 1..(Len(s) + 1) - m : a[i] = u[i].message
    BY <1>1, MessagesAre
<1>3. /\ p \in Seq(Messages) /\ Len(p) = Len(s)
      /\ \A i \in 1..Len(s) : p[i] = s[i].message
    BY MessagesAre
<1> HIDE DEF a, p
<1>4. /\ b \in Seq(Messages) /\ Len(b) = (Len(s) + 1) - m
      /\ \A i \in 1..(Len(s) + 1) - m : b[i] = p[m + i - 1]
    BY <1>3, SubSeqIs
<1> HIDE DEF b
<1>5. ASSUME NEW i \in 1..(Len(s) + 1) - m PROVE a[i] = b[i]
    <2>1. m + i - 1 \in 1..Len(s)
        BY <1>1
    <2> QED BY <1>1, <1>2, <1>3, <1>4, <2>1
<1>6. a = b
    BY <1>2, <1>4, <1>5, SeqEqual
<1> QED BY <1>6 DEF a, b, p, u

-----------------------------------------------------------------------------
(***************************************************************************)
(* What the context keeps from an entry on is what the branch has from     *)
(* there on.                                                               *)
(***************************************************************************)
EndFrom(s, m) == SubSeq(s, m, Len(s))

LEMMA EndIs ==
    ASSUME NEW S, NEW s \in Seq(S), NEW m \in 1..Len(s)
    PROVE  /\ EndFrom(s, m) \in Seq(S) /\ Len(EndFrom(s, m)) = (Len(s) + 1) - m
           /\ EndFrom(s, m) # <<>> /\ EndFrom(s, m)[1] = s[m]
           /\ \A i \in 1..(Len(s) + 1) - m : EndFrom(s, m)[i] = s[m + i - 1]
<1>1. m <= Len(s) + 1 /\ Len(s) \in 0..Len(s) /\ m \in 1..Len(s) + 1 /\ Len(s) \in Nat
    OBVIOUS
<1>2. PICK t : t = EndFrom(s, m)
    OBVIOUS
<1>3. /\ t \in Seq(S) /\ Len(t) = (Len(s) + 1) - m
      /\ \A i \in 1..(Len(s) + 1) - m : t[i] = s[m + i - 1]
    BY <1>1, <1>2, SubSeqIs DEF EndFrom
<1>4. 1 \in 1..(Len(s) + 1) - m /\ m + 1 - 1 = m
    BY <1>1
<1> QED BY <1>2, <1>3, <1>4

LEMMA EndOfEnd ==
    ASSUME NEW S, NEW s \in Seq(S), NEW m \in 1..Len(s), NEW k \in 1..(Len(s) + 1) - m
    PROVE  m + k - 1 \in 1..Len(s) /\ EndFrom(EndFrom(s, m), k) = EndFrom(s, m + k - 1)
<1>1. PICK l \in Nat : l = Len(s)
    OBVIOUS
<1>2. PICK i \in 1..l : i = m + k - 1
    BY <1>1
<1>3. PICK t \in Seq(S) : /\ t = EndFrom(s, m) /\ Len(t) = (l + 1) - m
                          /\ \A j \in 1..(l + 1) - m : t[j] = s[m + j - 1]
    BY <1>1, EndIs
<1> PICK u, v : u = EndFrom(t, k) /\ v = EndFrom(s, i)
    OBVIOUS
<1> PICK r : r = (l + 1) - m
    OBVIOUS
<1>4. /\ r = Len(t) /\ r \in Nat /\ r + m = l + 1 /\ k <= r
      /\ m \in Nat /\ k \in Nat /\ k >= 1 /\ m >= 1
    <2>1. m \in 1..l /\ k \in 1..(l + 1) - m
        BY <1>1
    <2> QED BY <1>3, <2>1
<1>5. /\ u \in Seq(S) /\ Len(u) = (r + 1) - k
      /\ \A j \in 1..(r + 1) - k : u[j] = t[k + j - 1]
    <2>1. k \in 1..Len(t)
        BY <1>4
    <2>2. /\ u \in Seq(S) /\ Len(u) = (Len(t) + 1) - k
          /\ \A j \in 1..(Len(t) + 1) - k : u[j] = t[k + j - 1]
        BY <1>3, <2>1, EndIs
    <2> QED BY <1>4, <2>2
<1>6. /\ v \in Seq(S) /\ Len(v) = (l + 1) - i
      /\ \A j \in 1..(l + 1) - i : v[j] = s[i + j - 1]
    <2>1. i \in 1..Len(s)
        BY <1>1
    <2> QED BY <1>1, <2>1, EndIs
<1>7. ASSUME NEW j \in 1..(l + 1) - i PROVE u[j] = v[j]
    <2>1. /\ k + j - 1 \in 1..r /\ m + (k + j - 1) - 1 = i + j - 1
          /\ j \in 1..(r + 1) - k /\ r = (l + 1) - m
        BY <1>1, <1>2, <1>4
    <2>2. u[j] = t[k + j - 1]
        BY <1>5, <2>1
    <2>3. t[k + j - 1] = s[m + (k + j - 1) - 1]
        BY <1>3, <2>1
    <2> QED BY <1>6, <2>1, <2>2, <2>3
<1>8. Len(u) = (l + 1) - i
    <2>1. (r + 1) - k = (l + 1) - i
        BY <1>2, <1>4
    <2> QED BY <1>5, <2>1
<1>9. u = v
    BY <1>5, <1>6, <1>7, <1>8, SeqEqual
<1> QED BY <1>1, <1>2, <1>3, <1>9

\* The end of a sequence with one more element in front.
LEMMA EndBehind ==
    ASSUME NEW S, NEW s \in Seq(S), NEW e \in S, NEW j \in 2..Len(s) + 1
    PROVE  /\ (<<e>> \o s)[j] = s[j - 1] /\ <<e>> \o s \in Seq(S) /\ Len(<<e>> \o s) = Len(s) + 1
           /\ EndFrom(<<e>> \o s, j) = EndFrom(s, j - 1)
<1>1. PICK l \in Nat : l = Len(s)
    OBVIOUS
<1> PICK u : u = <<e>> \o s
    OBVIOUS
<1>2. u \in Seq(S) /\ Len(u) = l + 1 /\ \A i \in 1..l : u[i + 1] = s[i]
    <2>1. <<e>> \in Seq(S) /\ Len(<<e>>) = 1
        OBVIOUS
    <2>2. /\ <<e>> \o s \in Seq(S) /\ Len(<<e>> \o s) = 1 + Len(s)
          /\ \A i \in 1..1 + Len(s) : (<<e>> \o s)[i] = IF i <= 1 THEN <<e>>[i] ELSE s[i - 1]
        BY <2>1, ConcatProperties
    <2>3. ASSUME NEW i \in 1..l PROVE (<<e>> \o s)[i + 1] = s[i]
        <3>1. i + 1 \in 1..1 + Len(s) /\ ~(i + 1 <= 1) /\ (i + 1) - 1 = i
            BY <1>1
        <3>2. (<<e>> \o s)[i + 1] = s[(i + 1) - 1]
            BY <2>2, <3>1
        <3> QED BY <3>1, <3>2
    <2> QED BY <1>1, <2>2, <2>3
<1>3. PICK k \in 1..l : k = j - 1 /\ j = k + 1
    BY <1>1
<1>4. u[j] = s[k]
    BY <1>2, <1>3
<1> PICK a, b : a = EndFrom(u, j) /\ b = EndFrom(s, k)
    OBVIOUS
<1>5. /\ a \in Seq(S) /\ Len(a) = ((l + 1) + 1) - j
      /\ \A i \in 1..((l + 1) + 1) - j : a[i] = u[j + i - 1]
    <2>1. j \in 1..Len(u)
        BY <1>1, <1>2
    <2>2. /\ a \in Seq(S) /\ Len(a) = (Len(u) + 1) - j
          /\ \A i \in 1..(Len(u) + 1) - j : a[i] = u[j + i - 1]
        BY <1>2, <2>1, EndIs
    <2> QED BY <1>2, <2>2
<1>6. /\ b \in Seq(S) /\ Len(b) = (l + 1) - k
      /\ \A i \in 1..(l + 1) - k : b[i] = s[k + i - 1]
    <2>1. k \in 1..Len(s)
        BY <1>1
    <2> QED BY <1>1, <2>1, EndIs
<1>7. ASSUME NEW i \in 1..(l + 1) - k PROVE a[i] = b[i]
    <2>1. k + i - 1 \in 1..l /\ j + i - 1 = (k + i - 1) + 1 /\ i \in 1..((l + 1) + 1) - j
        BY <1>3
    <2>2. u[(k + i - 1) + 1] = s[k + i - 1]
        BY <1>2, <2>1
    <2> QED BY <1>5, <1>6, <2>1, <2>2
<1>8. Len(a) = (l + 1) - k
    BY <1>3, <1>5
<1>9. a = b
    BY <1>5, <1>6, <1>7, <1>8, SeqEqual
<1> QED BY <1>1, <1>2, <1>3, <1>4, <1>5, <1>6, <1>9

LEMMA EndAlone ==
    ASSUME NEW S, NEW s \in Seq(S), NEW e \in S
    PROVE  EndFrom(Append(s, e), Len(s) + 1) = <<e>>
<1>1. PICK l \in Nat : l = Len(s)
    OBVIOUS
<1> PICK u : u = Append(s, e)
    OBVIOUS
<1>2. u \in Seq(S) /\ Len(u) = l + 1 /\ u[l + 1] = e
    BY <1>1
<1> PICK a, b : a = EndFrom(u, l + 1) /\ b = <<e>>
    OBVIOUS
<1>3. a \in Seq(S) /\ Len(a) = 1 /\ a[1] = e
    <2>1. l + 1 \in 1..Len(u) /\ (Len(u) + 1) - (l + 1) = 1
        BY <1>1, <1>2
    <2>2. a \in Seq(S) /\ Len(a) = (Len(u) + 1) - (l + 1) /\ a[1] = u[l + 1]
        BY <1>2, <2>1, EndIs
    <2> QED BY <1>2, <2>1, <2>2
<1>4. b \in Seq(S) /\ Len(b) = 1 /\ b[1] = e
    OBVIOUS
<1>5. \A i \in 1..1 : a[i] = b[i]
    BY <1>3, <1>4
<1>6. a = b
    BY <1>3, <1>4, <1>5, SeqEqual
<1> QED BY <1>1, <1>6

\* The j-th message entry is at place n, and the message entries behind are those behind n.
PlacedAt(s, j, n) == /\ s[n] = MessageEntries(s)[j]
                     /\ MessageEntries(EndFrom(s, n)) = EndFrom(MessageEntries(s), j)
AllPlaced(s) == \A j \in 1..Len(MessageEntries(s)) : \E n \in 1..Len(s) : PlacedAt(s, j, n)

LEMMA PlacedOn ==
    ASSUME NEW S, NEW s \in Seq(S), NEW e \in S, AllPlaced(s)
    PROVE  AllPlaced(Append(s, e))
<1>1. PICK l \in Nat : l = Len(s)
    OBVIOUS
<1>2. PICK m \in Seq(S), k \in Nat : m = MessageEntries(s) /\ k = Len(m)
    BY MessagesTyped
<1> PICK t : t = Append(s, e)
    OBVIOUS
<1>3. /\ t = Append(s, e) /\ t \in Seq(S) /\ Len(t) = l + 1 /\ t[l + 1] = e
      /\ \A i \in 1..l : t[i] = s[i]
    BY <1>1
<1>4. MessageEntries(t) = IF e.kind = "message" THEN Append(m, e) ELSE m
    BY <1>2, <1>3, MessagesAppend
<1>5. ASSUME NEW n \in 1..l PROVE EndFrom(t, n) = Append(EndFrom(s, n), e)
    <2>1. n \in 1..Len(s) + 1
        BY <1>1
    <2> QED BY <1>1, <1>3, <2>1, EndGrows DEF EndFrom
<1>6. ASSUME NEW j \in 1..k, NEW n \in 1..l, PlacedAt(s, j, n) PROVE PlacedAt(t, j, n)
    <2>1. s[n] = m[j] /\ MessageEntries(EndFrom(s, n)) = EndFrom(m, j) /\ EndFrom(s, n) \in Seq(S)
        BY <1>1, <1>2, <1>6, EndIs DEF PlacedAt
    <2>2. MessageEntries(EndFrom(t, n)) = IF e.kind = "message" THEN Append(EndFrom(m, j), e)
                                          ELSE EndFrom(m, j)
        <3> PICK end \in Seq(S) : end = EndFrom(s, n)
            BY <2>1
        <3>1. MessageEntries(Append(end, e)) = IF e.kind = "message" THEN Append(MessageEntries(end), e)
                                               ELSE MessageEntries(end)
            BY MessagesAppend
        <3> QED BY <1>5, <2>1, <3>1
    <2>3. EndFrom(Append(m, e), j) = Append(EndFrom(m, j), e)
        <3>1. j \in 1..Len(m) + 1 /\ Len(Append(m, e)) = Len(m) + 1
            BY <1>2
        <3> QED BY <3>1, EndGrows DEF EndFrom
    <2>4. Append(m, e)[j] = m[j]
        BY <1>2
    <2> QED BY <1>3, <1>4, <2>1, <2>2, <2>3, <2>4 DEF PlacedAt
<1>7. CASE e.kind = "message"
    <2>1. ASSUME NEW j \in 1..k + 1 PROVE \E n \in 1..l + 1 : PlacedAt(t, j, n)
        <3>1. CASE j \in 1..k
            <4>1. PICK n \in 1..l : PlacedAt(s, j, n)
                BY <1>1, <1>2, <3>1 DEF AllPlaced
            <4> QED BY <1>6, <3>1, <4>1
        <3>2. CASE j = k + 1
            <4>1. MessageEntries(t) = Append(m, e) /\ MessageEntries(t)[k + 1] = e
                BY <1>2, <1>4, <1>7
            <4>2. EndFrom(t, l + 1) = <<e>>
                <5>1. EndFrom(Append(s, e), Len(s) + 1) = <<e>>
                    BY EndAlone
                <5> QED BY <1>1, <1>3, <5>1
            <4>3. EndFrom(MessageEntries(t), k + 1) = <<e>>
                <5>1. EndFrom(Append(m, e), Len(m) + 1) = <<e>>
                    BY <1>2, EndAlone
                <5> QED BY <1>2, <4>1, <5>1
            <4>4. MessageEntries(<<e>>) = <<e>>
                <5>1. <<>> \in Seq(S) /\ Append(<<>>, e) = <<e>>
                    OBVIOUS
                <5> QED BY <1>7, <5>1, MessagesAppend, MessagesEmpty
            <4>5. PlacedAt(t, j, l + 1)
                BY <1>3, <3>2, <4>1, <4>2, <4>3, <4>4 DEF PlacedAt
            <4> QED BY <4>5
        <3> QED BY <3>1, <3>2
    <2>2. Len(MessageEntries(t)) = k + 1
        BY <1>2, <1>4, <1>7
    <2> QED BY <1>3, <2>1, <2>2 DEF AllPlaced
<1>8. CASE e.kind # "message"
    <2>1. ASSUME NEW j \in 1..k PROVE \E n \in 1..l + 1 : PlacedAt(t, j, n)
        <3>1. PICK n \in 1..l : PlacedAt(s, j, n)
            BY <1>1, <1>2 DEF AllPlaced
        <3> QED BY <1>6, <3>1
    <2> QED BY <1>2, <1>3, <1>4, <1>8, <2>1 DEF AllPlaced
<1> QED BY <1>7, <1>8

LEMMA MessagePlace ==
    ASSUME NEW S, NEW s \in Seq(S), NEW j \in 1..Len(MessageEntries(s))
    PROVE  \E n \in 1..Len(s) : PlacedAt(s, j, n)
<1> DEFINE P == {k \in Nat : k <= Len(s) => AllPlaced(SubSeq(s, 1, k))}
<1>1. 0 \in P
    <2>1. SubSeq(s, 1, 0) = <<>> /\ Len(<<>>) = 0 /\ 1..0 = {}
        BY WholeBeginning
    <2>2. AllPlaced(<<>>)
        BY <2>1, MessagesEmpty DEF AllPlaced
    <2> QED BY <2>1, <2>2
<1>2. ASSUME NEW k \in Nat, k \in P PROVE k + 1 \in P
    <2> SUFFICES ASSUME k + 1 <= Len(s) PROVE AllPlaced(SubSeq(s, 1, k + 1))
        OBVIOUS
    <2>1. k + 1 \in 1..Len(s) /\ (k + 1) - 1 = k /\ k \in 0..Len(s) /\ 1 <= k + 1
        OBVIOUS
    <2>2. PICK b \in Seq(S), e \in S : b = SubSeq(s, 1, k) /\ e = s[k + 1]
        <3>1. 1 \in 1..Len(s) + 1 /\ 1 <= k + 1
            BY <2>1
        <3>2. SubSeq(s, 1, k) \in Seq(S) /\ s[k + 1] \in S
            BY <2>1, <3>1, SubSeqIs
        <3> QED BY <3>2
    <2>3. AllPlaced(Append(b, e))
        <3>1. AllPlaced(b)
            BY <1>2, <2>1, <2>2
        <3> QED BY <3>1, PlacedOn
    <2>4. SubSeq(s, 1, k + 1) = Append(b, e)
        BY <2>1, <2>2, OneByOne
    <2> QED BY <2>3, <2>4
<1> HIDE DEF P
<1>3. Nat \subseteq P
    BY <1>1, <1>2, InductionOnNat
<1>4. Len(s) \in P /\ Len(s) \in Nat
    BY <1>3
<1>5. AllPlaced(s)
    <2>1. AllPlaced(SubSeq(s, 1, Len(s)))
        BY <1>4 DEF P
    <2> QED BY <2>1, WholeBeginning
<1> QED BY <1>5 DEF AllPlaced

\* A message entry of the context behind its first is on the branch, and what the context
\* has behind it are the message entries that the branch has behind it.
LEMMA ContextPlace ==
    ASSUME NEW n \in Nat, NEW branch \in Seq(Entries(n)), NEW j \in 2..Len(BranchContext[branch])
    PROVE  \E k \in 1..Len(branch) :
              /\ branch[k] = BranchContext[branch][j]
              /\ MessageEntries(EndFrom(branch, k)) = EndFrom(BranchContext[branch], j)
<1>1. CASE Compactions(branch) = {}
    <2>1. BranchContext[branch] = MessageEntries(branch)
        BY <1>1, ContextIs
    <2>2. j \in 1..Len(MessageEntries(branch))
        BY <2>1
    <2>3. PICK k \in 1..Len(branch) : PlacedAt(branch, j, k)
        BY <2>2, MessagePlace
    <2> QED BY <2>1, <2>3 DEF PlacedAt
<1>2. CASE Compactions(branch) # {}
    <2>1. PICK last \in Entries(n) : last = branch[Max(Compactions(branch))]
        BY <1>2, LastCompaction
    <2>2. PICK kept \in Seq(Entries(n)) : kept = Kept(branch, last)
        BY KeptTyped
    <2>3. BranchContext[branch] = <<last>> \o kept
        BY <1>2, <2>1, <2>2, ContextIs
    <2>4. Len(<<last>> \o kept) = Len(kept) + 1
        OBVIOUS
    <2>5. j \in 2..Len(kept) + 1 /\ j - 1 \in 1..Len(kept)
        BY <2>3, <2>4
    <2>6. last.first_kept_entry_id \in Ids(branch)
        <3>1. Len(<<>>) = 0
            OBVIOUS
        <3> QED BY <2>2, <2>5, <3>1 DEF Kept
    <2>7. PICK m \in 1..Len(branch) : kept = MessageEntries(EndFrom(branch, m))
        <3> DEFINE c == CHOOSE i \in DOMAIN branch : branch[i].id = last.first_kept_entry_id
        <3>1. c \in 1..Len(branch)
            BY <2>6 DEF Ids
        <3>2. kept = MessageEntries(EndFrom(branch, c))
            BY <2>2, <2>6 DEF Kept, EndFrom
        <3> QED BY <3>1, <3>2
    <2>8. PICK t \in Seq(Entries(n)) : /\ t = EndFrom(branch, m) /\ Len(t) = (Len(branch) + 1) - m
                                       /\ \A i \in 1..(Len(branch) + 1) - m : t[i] = branch[m + i - 1]
        BY EndIs
    <2>9. PICK k \in 1..Len(t) : PlacedAt(t, j - 1, k)
        BY <2>5, <2>7, <2>8, MessagePlace
    <2>10. k \in 1..(Len(branch) + 1) - m
        BY <2>8
    <2>11. /\ m + k - 1 \in 1..Len(branch) /\ EndFrom(t, k) = EndFrom(branch, m + k - 1)
           /\ branch[m + k - 1] = t[k]
        BY <2>8, <2>10, EndOfEnd
    <2>12. /\ (<<last>> \o kept)[j] = kept[j - 1]
           /\ EndFrom(<<last>> \o kept, j) = EndFrom(kept, j - 1)
        BY <2>5, EndBehind
    <2>13. /\ t[k] = kept[j - 1]
           /\ MessageEntries(EndFrom(t, k)) = EndFrom(kept, j - 1)
        BY <2>7, <2>8, <2>9 DEF PlacedAt
    <2> QED BY <2>3, <2>11, <2>12, <2>13
<1> QED BY <1>1, <1>2

-----------------------------------------------------------------------------
(***************************************************************************)
(* What a log of entries tells, entry by entry.                            *)
(***************************************************************************)
\* The compaction was cut from the context of the branch.
CutsContext(branch, compaction) ==
    \E cut \in Cuts(MessagesOf[BranchContext[branch]]) :
        compaction.first_kept_entry_id = BranchContext[branch][cut + 1].id
\* The entry comes behind a branch: it is the child of the leaf, and a compaction was cut
\* from the branch's context.
Follows(branch, entry) ==
    /\ entry.parent = LeafOf(branch)
    /\ entry.kind # "message" => entry.message = UserMessage
    /\ entry.kind = "compaction" => CutsContext(branch, entry)
Told(entries) == \A k \in 1..Len(entries) : Follows(SubSeq(entries, 1, k - 1), entries[k])

LEMMA ToldNone == Told(<<>>)
BY DEF Told

LEMMA ToldOn ==
    ASSUME NEW n \in Nat, NEW told \in Seq(Entries(n)), NEW entry \in Entries(n)
    PROVE  Told(Append(told, entry)) <=> Told(told) /\ Follows(told, entry)
<1>1. PICK l \in Nat : l = Len(told)
    OBVIOUS
<1> PICK all : all = Append(told, entry)
    OBVIOUS
<1>2. /\ all \in Seq(Entries(n)) /\ Len(all) = l + 1 /\ all[l + 1] = entry
      /\ \A k \in 1..l : all[k] = told[k]
    BY <1>1
<1>3. ASSUME NEW k \in 0..l PROVE SubSeq(all, 1, k) = SubSeq(told, 1, k)
    <2>1. all = told \o <<entry>> /\ <<entry>> \in Seq(Entries(n)) /\ k \in 0..Len(told)
        BY <1>1
    <2> QED BY <2>1, Beginnings
<1>4. SubSeq(told, 1, l) = told
    BY <1>1, WholeBeginning
<1>5. Told(all) <=> \A k \in 1..l + 1 : Follows(SubSeq(all, 1, k - 1), all[k])
    BY <1>2 DEF Told
<1>6. Told(told) <=> \A k \in 1..l : Follows(SubSeq(told, 1, k - 1), told[k])
    BY <1>1 DEF Told
<1>7. ASSUME NEW k \in 1..l
      PROVE  Follows(SubSeq(all, 1, k - 1), all[k]) <=> Follows(SubSeq(told, 1, k - 1), told[k])
    <2>1. k - 1 \in 0..l
        BY <1>1
    <2> QED BY <1>2, <1>3, <2>1
<1>8. Follows(SubSeq(all, 1, (l + 1) - 1), all[l + 1]) <=> Follows(told, entry)
    <2>1. (l + 1) - 1 = l /\ l \in 0..l
        BY <1>1
    <2> QED BY <1>2, <1>3, <1>4, <2>1
<1>9. \A k \in 1..l + 1 : k \in 1..l \/ k = l + 1
    BY <1>1
<1>10. l + 1 \in 1..l + 1 /\ \A k \in 1..l : k \in 1..l + 1
    BY <1>1
<1> QED BY <1>5, <1>6, <1>7, <1>8, <1>9, <1>10

\* The beginning of what was told was told.
LEMMA ToldBefore ==
    ASSUME NEW n \in Nat, NEW told \in Seq(Entries(n)), Told(told), NEW m \in 0..Len(told)
    PROVE  Told(SubSeq(told, 1, m))
<1> PICK u : u = SubSeq(told, 1, m)
    OBVIOUS
<1>1. u \in Seq(Entries(n)) /\ Len(u) = m /\ \A i \in 1..m : u[i] = told[i]
    <2>1. 1 \in 1..Len(told) + 1 /\ 1 <= m + 1 /\ (m + 1) - 1 = m /\ \A i \in 1..m : 1 + i - 1 = i
        OBVIOUS
    <2> QED BY <2>1, SubSeqIs
<1>2. ASSUME NEW k \in 1..m PROVE Follows(SubSeq(u, 1, k - 1), u[k])
    <2>1. k - 1 \in 0..m /\ k \in 1..Len(told)
        OBVIOUS
    <2>2. SubSeq(u, 1, k - 1) = SubSeq(told, 1, k - 1)
        BY <2>1, BeginningOf
    <2>3. Follows(SubSeq(told, 1, k - 1), told[k])
        BY <2>1 DEF Told
    <2> QED BY <1>1, <2>2, <2>3
<1>3. Told(u)
    BY <1>1, <1>2 DEF Told
<1> QED BY <1>3

LEMMA ToldFirst ==
    ASSUME NEW n \in Nat, NEW told \in Seq(Entries(n)), NEW more \in Seq(Entries(n)), Told(told \o more)
    PROVE  Told(told)
<1> PICK all : all = told \o more
    OBVIOUS
<1>1. all \in Seq(Entries(n)) /\ Len(told) \in 0..Len(all)
    OBVIOUS
<1>2. Told(SubSeq(all, 1, Len(told)))
    BY <1>1, ToldBefore
<1>3. SubSeq(all, 1, Len(told)) = told
    <2>1. Len(told) \in 0..Len(told)
        OBVIOUS
    <2> QED BY <2>1, Beginnings, WholeBeginning
<1> QED BY <1>2, <1>3

\* What was told is a chain.
LEMMA ToldChain ==
    ASSUME NEW n \in Nat, NEW told \in Seq(Entries(n)), Told(told)
    PROVE  Chain(told)
<1> SUFFICES ASSUME NEW k \in 1..Len(told)
             PROVE  told[k].parent = IF k = 1 THEN NoEntry ELSE told[k - 1].id
    BY DEF Chain
<1>1. told[k].parent = LeafOf(SubSeq(told, 1, k - 1))
    BY DEF Told, Follows
<1>2. CASE k = 1
    <2>1. SubSeq(told, 1, 0) = <<>> /\ k - 1 = 0
        BY <1>2, WholeBeginning
    <2> QED BY <1>1, <1>2, <2>1 DEF LeafOf
<1>3. CASE k # 1
    <2> PICK u : u = SubSeq(told, 1, k - 1)
        OBVIOUS
    <2>1. u \in Seq(Entries(n)) /\ Len(u) = k - 1 /\ u[k - 1] = told[k - 1]
        <3>1. /\ 1 \in 1..Len(told) + 1 /\ k - 1 \in 0..Len(told) /\ 1 <= (k - 1) + 1
              /\ ((k - 1) + 1) - 1 = k - 1 /\ 1 + (k - 1) - 1 = k - 1 /\ k - 1 \in 1..k - 1
            BY <1>3
        <3> QED BY <3>1, SubSeqIs
    <2>2. u # <<>> /\ Last(u) = told[k - 1]
        BY <1>3, <2>1 DEF Last
    <2> QED BY <1>1, <1>3, <2>2 DEF LeafOf
<1> QED BY <1>2, <1>3

\* What a compaction keeps begins on the branch it was cut from.
KeepsFrom(branch, compaction, k, cut) ==
    /\ compaction.first_kept_entry_id = branch[k].id
    /\ cut + 1 \in 1..Len(BranchContext[branch])
    /\ MessageEntries(EndFrom(branch, k)) = EndFrom(BranchContext[branch], cut + 1)

LEMMA CutFinds ==
    ASSUME NEW n \in Nat, NEW branch \in Seq(Entries(n)), NEW compaction, CutsContext(branch, compaction)
    PROVE  \E k \in 1..Len(branch) : \E cut \in Cuts(MessagesOf[BranchContext[branch]]) :
               KeepsFrom(branch, compaction, k, cut)
<1>1. BranchContext[branch] \in Seq(Entries(n))
    BY BranchTyped
<1>2. PICK context \in Seq(Entries(n)) : context = BranchContext[branch]
    BY <1>1
<1>3. PICK cut \in Cuts(MessagesOf[context]) : compaction.first_kept_entry_id = context[cut + 1].id
    BY <1>2 DEF CutsContext
<1>4. MessagesOf[context] \in Seq(Messages) /\ Len(MessagesOf[context]) = Len(context)
    BY MessagesAre
<1>5. cut \in 1..Len(context) - 1
    BY <1>4, CutPlace
<1>6. cut + 1 \in 2..Len(context) /\ cut + 1 \in 1..Len(context)
    BY <1>5
<1>7. PICK k \in 1..Len(branch) :
          /\ branch[k] = context[cut + 1]
          /\ MessageEntries(EndFrom(branch, k)) = EndFrom(context, cut + 1)
    BY <1>2, <1>6, ContextPlace
<1> QED BY <1>2, <1>3, <1>6, <1>7 DEF KeepsFrom

LEMMA ToldFinds ==
    ASSUME NEW n \in Nat, NEW told \in Seq(Entries(n)), Told(told),
           NEW i \in 1..Len(told), told[i].kind = "compaction"
    PROVE  \E k \in 1..i - 1 : told[k].id = told[i].first_kept_entry_id
<1> PICK u : u = SubSeq(told, 1, i - 1)
    OBVIOUS
<1>1. CutsContext(u, told[i])
    BY DEF Told, Follows
<1>2. u \in Seq(Entries(n)) /\ Len(u) = i - 1 /\ \A k \in 1..i - 1 : u[k] = told[k]
    <2>1. /\ 1 \in 1..Len(told) + 1 /\ i - 1 \in 0..Len(told) /\ 1 <= (i - 1) + 1
          /\ ((i - 1) + 1) - 1 = i - 1 /\ \A k \in 1..i - 1 : 1 + k - 1 = k
        OBVIOUS
    <2> QED BY <2>1, SubSeqIs
<1>3. PICK k \in 1..Len(u) : \E cut \in Cuts(MessagesOf[BranchContext[u]]) :
                                   KeepsFrom(u, told[i], k, cut)
    <2>1. u \in Seq(Entries(n))
        BY <1>2
    <2> QED BY <1>1, <2>1, CutFinds
<1>4. told[i].first_kept_entry_id = u[k].id
    BY <1>3 DEF KeepsFrom
<1> QED BY <1>2, <1>4

-----------------------------------------------------------------------------
(***************************************************************************)
(* The context, entry by entry.                                            *)
(***************************************************************************)
LEMMA AppendBehind ==
    ASSUME NEW S, NEW s \in Seq(S), NEW t \in Seq(S), NEW e \in S
    PROVE  s \o Append(t, e) = Append(s \o t, e)
OBVIOUS

\* Where the entry with that id is found, and what is kept from there.
LEMMA KeptFrom ==
    ASSUME NEW n \in Nat, NEW entries \in Seq(Entries(n)), Chain(entries), NEW k \in 1..Len(entries),
           NEW compaction, compaction.first_kept_entry_id = entries[k].id
    PROVE  Kept(entries, compaction) = MessageEntries(EndFrom(entries, k))
<1>1. entries[k].id \in Ids(entries) /\ (CHOOSE i \in DOMAIN entries : entries[i].id = entries[k].id) = k
    BY ChainFinds
<1> QED BY <1>1 DEF Kept, EndFrom

\* What a message or another entry that is no compaction does to the context.
LEMMA ContextOn ==
    ASSUME NEW n \in Nat, NEW told \in Seq(Entries(n)), NEW entry \in Entries(n),
           Told(Append(told, entry)), entry.kind # "compaction"
    PROVE  BranchContext[Append(told, entry)] =
               IF entry.kind = "message" THEN Append(BranchContext[told], entry)
               ELSE BranchContext[told]
<1> PICK all : all = Append(told, entry)
    OBVIOUS
<1>1. PICK l \in Nat : l = Len(told)
    OBVIOUS
<1>2. /\ all \in Seq(Entries(n)) /\ Len(all) = l + 1 /\ all[l + 1] = entry
      /\ \A i \in 1..l : all[i] = told[i]
    BY <1>1
<1>3. Told(told) /\ Chain(told) /\ Chain(all)
    BY <1>2, ToldOn, ToldChain
<1>4. Compactions(all) = Compactions(told)
    BY <1>1, <1>2 DEF Compactions
<1>5. MessageEntries(all) = IF entry.kind = "message" THEN Append(MessageEntries(told), entry)
                            ELSE MessageEntries(told)
    BY MessagesAppend
<1>6. CASE Compactions(told) = {}
    BY <1>2, <1>4, <1>5, <1>6, ContextIs
<1>7. CASE Compactions(told) # {}
    <2>1. PICK m \in 1..l : m = Max(Compactions(told)) /\ told[m].kind = "compaction"
        BY <1>1, <1>7, LastCompaction
    <2> PICK last : last = told[m]
        OBVIOUS
    <2>2. last \in Entries(n) /\ all[m] = last
        BY <1>1, <1>2
    <2>3. PICK k \in 1..m - 1 : told[k].id = last.first_kept_entry_id
        BY <1>1, <1>3, <2>1, ToldFinds
    <2>4. k \in 1..l /\ k \in 1..Len(told) /\ k \in 1..Len(all) /\ all[k] = told[k]
        BY <1>1, <1>2
    <2>5. /\ Kept(told, last) = MessageEntries(EndFrom(told, k))
          /\ Kept(all, last) = MessageEntries(EndFrom(all, k))
        BY <1>2, <1>3, <2>3, <2>4, KeptFrom
    <2>6. EndFrom(all, k) = Append(EndFrom(told, k), entry)
        <3>1. k \in 1..Len(told) + 1
            BY <2>4
        <3> QED BY <1>1, <1>2, <3>1, EndGrows DEF EndFrom
    <2>7. EndFrom(told, k) \in Seq(Entries(n))
        BY <2>4, EndIs
    <2>8. PICK end \in Seq(Entries(n)) : end = EndFrom(told, k)
        BY <2>7
    <2>9. PICK kept \in Seq(Entries(n)) : kept = MessageEntries(end)
        BY MessagesTyped
    <2>10. MessageEntries(Append(end, entry)) = IF entry.kind = "message" THEN Append(kept, entry) ELSE kept
        BY <2>9, MessagesAppend
    <2>11. BranchContext[told] = <<last>> \o kept
        BY <1>7, <2>1, <2>5, <2>8, <2>9, ContextIs
    <2>12. BranchContext[all] = <<last>> \o Kept(all, last)
        BY <1>2, <1>4, <1>7, <2>1, <2>2, ContextIs
    <2>13. Kept(all, last) = IF entry.kind = "message" THEN Append(kept, entry) ELSE kept
        BY <2>5, <2>6, <2>8, <2>10
    <2>14. <<last>> \o Append(kept, entry) = Append(<<last>> \o kept, entry)
        <3>1. <<last>> \in Seq(Entries(n))
            BY <2>2
        <3> QED BY <3>1, AppendBehind
    <2> QED BY <2>11, <2>12, <2>13, <2>14
<1> QED BY <1>6, <1>7

\* A compaction's summary takes the place of the beginning of the context.
LEMMA ContextCut ==
    ASSUME NEW n \in Nat, NEW told \in Seq(Entries(n)), NEW entry \in Entries(n),
           Told(Append(told, entry)), entry.kind = "compaction"
    PROVE  \E cut \in Cuts(MessagesOf[BranchContext[told]]) :
              /\ cut + 1 \in 1..Len(BranchContext[told])
              /\ BranchContext[Append(told, entry)]
                     = <<entry>> \o EndFrom(BranchContext[told], cut + 1)
<1> PICK all : all = Append(told, entry)
    OBVIOUS
<1>1. PICK l \in Nat : l = Len(told)
    OBVIOUS
<1>2. /\ all \in Seq(Entries(n)) /\ Len(all) = l + 1 /\ all[l + 1] = entry
      /\ \A i \in 1..l : all[i] = told[i]
    BY <1>1
<1>3. Follows(told, entry) /\ Chain(all)
    BY <1>2, ToldOn, ToldChain
<1>4. CutsContext(told, entry)
    BY <1>3 DEF Follows
<1>5. PICK k \in 1..Len(told) : \E cut \in Cuts(MessagesOf[BranchContext[told]]) :
                                      KeepsFrom(told, entry, k, cut)
    BY <1>4, CutFinds
<1> PICK cut \in Cuts(MessagesOf[BranchContext[told]]) : KeepsFrom(told, entry, k, cut)
    BY <1>5
<1>6. /\ entry.first_kept_entry_id = told[k].id
       /\ cut + 1 \in 1..Len(BranchContext[told])
       /\ MessageEntries(EndFrom(told, k)) = EndFrom(BranchContext[told], cut + 1)
    BY DEF KeepsFrom
<1>7. l + 1 \in Compactions(all)
    BY <1>1, <1>2 DEF Compactions
<1>8. Max(Compactions(all)) = l + 1
    <2>1. Max(Compactions(all)) \in 1..l + 1 /\ l + 1 <= Max(Compactions(all))
        BY <1>2, <1>7, LastCompaction
    <2> QED BY <1>1, <2>1
<1>9. BranchContext[all] = <<entry>> \o Kept(all, entry)
    BY <1>2, <1>7, <1>8, ContextIs
<1>10. Kept(all, entry) = MessageEntries(EndFrom(all, k))
    <2>1. k \in 1..Len(all) /\ all[k] = told[k]
        BY <1>1, <1>2
    <2> QED BY <1>2, <1>3, <1>6, <2>1, KeptFrom
<1>11. EndFrom(all, k) = Append(EndFrom(told, k), entry)
    <2>1. k \in 1..Len(told) + 1
        OBVIOUS
    <2> QED BY <1>1, <1>2, <2>1, EndGrows DEF EndFrom
<1>12. MessageEntries(EndFrom(all, k)) = MessageEntries(EndFrom(told, k))
    <2>1. PICK end \in Seq(Entries(n)) : end = EndFrom(told, k)
        BY EndIs
    <2>2. MessageEntries(Append(end, entry)) = MessageEntries(end)
        BY MessagesAppend
    <2> QED BY <1>11, <2>1, <2>2
<1> QED BY <1>9, <1>10, <1>12, <1>6

-----------------------------------------------------------------------------
(***************************************************************************)
(* The conversation, entry by entry.                                       *)
(***************************************************************************)
Conversation(branch) == MessagesOf[BranchContext[branch]]

LEMMA ConversationTyped ==
    ASSUME NEW n \in Nat, NEW branch \in Seq(Entries(n))
    PROVE  Conversation(branch) \in Seq(Messages) /\ Len(Conversation(branch)) = Len(BranchContext[branch])
<1>1. PICK context \in Seq(Entries(n)) : context = BranchContext[branch]
    BY BranchTyped
<1> QED BY <1>1, MessagesAre DEF Conversation

LEMMA ConversationNone == Conversation(<<>>) = <<>>
<1>1. <<>> \in Seq(Entries(0)) /\ 0 \in Nat
    OBVIOUS
<1>2. Compactions(<<>>) = {}
    BY DEF Compactions
<1>3. BranchContext[<<>>] = <<>>
    BY <1>1, <1>2, ContextIs, MessagesEmpty
<1> QED BY <1>3, MessagesOfNone DEF Conversation

\* Another message, nothing, or a summary in place of the beginning.
LEMMA ConversationOn ==
    ASSUME NEW n \in Nat, NEW told \in Seq(Entries(n)), NEW entry \in Entries(n),
           Told(Append(told, entry))
    PROVE  /\ entry.kind = "message" =>
                 Conversation(Append(told, entry)) = Append(Conversation(told), entry.message)
           /\ entry.kind = "change" => Conversation(Append(told, entry)) = Conversation(told)
           /\ entry.kind = "compaction" =>
                 \E cut \in Cuts(Conversation(told)) :
                     Conversation(Append(told, entry)) = Compacted(Conversation(told), cut)
<1>1. PICK context \in Seq(Entries(n)) : context = BranchContext[told]
    BY BranchTyped
<1>2. entry.message \in Messages
    BY EntryFields
<1>3. <<entry>> \in Seq(Entries(n)) /\ MessagesOf[<<entry>>] = <<entry.message>> /\ entry.message \in Messages
    BY <1>2, MessagesOfOne
<1>4. MessagesOf[context] \in Seq(Messages)
    BY MessagesAre
<1>5. CASE entry.kind = "message"
    <2>1. BranchContext[Append(told, entry)] = Append(context, entry)
        BY <1>1, <1>5, ContextOn
    <2>2. Append(context, entry) = context \o <<entry>>
        OBVIOUS
    <2>3. MessagesOf[context \o <<entry>>] = MessagesOf[context] \o <<entry.message>>
        BY <1>3, MessagesJoin
    <2>4. MessagesOf[context] \o <<entry.message>> = Append(MessagesOf[context], entry.message)
        BY <1>3, <1>4
    <2> QED BY <1>1, <1>5, <2>1, <2>2, <2>3, <2>4 DEF Conversation
<1>6. CASE entry.kind = "change"
    BY <1>6, ContextOn DEF Conversation
<1>7. CASE entry.kind = "compaction"
    <2>1. PICK cut \in Cuts(MessagesOf[context]) :
              /\ cut + 1 \in 1..Len(context)
              /\ BranchContext[Append(told, entry)] = <<entry>> \o EndFrom(context, cut + 1)
        BY <1>1, <1>7, ContextCut
    <2>2. PICK end \in Seq(Entries(n)) : end = EndFrom(context, cut + 1)
        BY <2>1, EndIs
    <2>3. MessagesOf[<<entry>> \o end] = <<entry.message>> \o MessagesOf[end]
        BY <1>3, MessagesJoin
    <2>4. MessagesOf[end] = SubSeq(MessagesOf[context], cut + 1, Len(MessagesOf[context]))
        <3>1. cut + 1 \in 1..Len(context) + 1
            BY <2>1
        <3> QED BY <2>2, <3>1, MessagesOfEnd DEF EndFrom
    <2>5. entry.message = UserMessage
        <3>1. Follows(told, entry)
            BY ToldOn
        <3> QED BY <1>7, <3>1 DEF Follows
    <2>6. Conversation(Append(told, entry)) = Compacted(MessagesOf[context], cut)
        BY <2>1, <2>2, <2>3, <2>4, <2>5 DEF Conversation, Compacted
    <2> QED BY <1>1, <1>7, <2>1, <2>6 DEF Conversation
<1> QED BY <1>5, <1>6, <1>7

-----------------------------------------------------------------------------
(***************************************************************************)
(* Conversations in which every call has its result.                       *)
(***************************************************************************)
\* Whatever is missing behind the first k entries, if it does not begin with a tool result,
\* calls and results of these k pair.
Whole(entries, k) == k < Len(entries) => entries[k + 1].message.kind # "result"
Replied(entries) ==
    \A k \in 0..Len(entries) : Whole(entries, k) => Answered(Conversation(SubSeq(entries, 1, k)))

LEMMA MessagesShaped == Shaped(Messages) /\ UserMessage \in Messages /\ Answered(<<UserMessage>>)
<1>1. UserMessage.calls = 0 /\ UserMessage.call = 0 /\ UserMessage.kind = "user"
    BY DEF UserMessage, Message
<1>2. ASSUME NEW m \in Messages PROVE m.calls \in Nat /\ m.call \in Nat
    <2>1. CASE m = UserMessage
        BY <1>1, <2>1
    <2>2. CASE m # UserMessage
        <3>1. PICK run \in Runs : \E i \in DOMAIN run : m = run[i]
            BY <2>2 DEF Messages
        <3> QED BY <3>1, RunsAnswered
    <2> QED BY <2>1, <2>2
<1>3. Answered(<<UserMessage>>)
    BY <1>1, AnsweredOne
<1> QED BY <1>2, <1>3 DEF Shaped, Messages

\* A user message, a compaction or a change leaves a conversation answered.
LEMMA AnsweredOn ==
    ASSUME NEW n \in Nat, NEW told \in Seq(Entries(n)), NEW entry \in Entries(n),
           Told(Append(told, entry)), entry.message = UserMessage, Answered(Conversation(told))
    PROVE  Answered(Conversation(Append(told, entry)))
<1>1. PICK c \in Seq(Messages) : c = Conversation(told)
    BY ConversationTyped
<1>2. entry.kind \in {"message", "compaction", "change"}
    BY EntryFields
<1>3. CASE entry.kind = "message"
    <2>1. Conversation(Append(told, entry)) = Append(c, UserMessage)
        BY <1>1, <1>3, ConversationOn
    <2>2. Append(c, UserMessage) = c \o <<UserMessage>> /\ <<UserMessage>> \in Seq(Messages)
        BY MessagesShaped
    <2> QED BY <1>1, <2>1, <2>2, AnsweredJoined, MessagesShaped
<1>4. CASE entry.kind = "change"
    BY <1>4, ConversationOn
<1>5. CASE entry.kind = "compaction"
    <2>1. PICK cut \in Cuts(c) : Conversation(Append(told, entry)) = Compacted(c, cut)
        BY <1>1, <1>5, ConversationOn
    <2> QED BY <1>1, <2>1, CompactedAnswered, MessagesShaped
<1> QED BY <1>2, <1>3, <1>4, <1>5

LEMMA RepliedEnd ==
    ASSUME NEW n \in Nat, NEW told \in Seq(Entries(n)), Replied(told)
    PROVE  Answered(Conversation(told))
<1>1. Len(told) \in 0..Len(told) /\ ~(Len(told) < Len(told)) /\ SubSeq(told, 1, Len(told)) = told
    BY WholeBeginning
<1> QED BY <1>1 DEF Replied, Whole

LEMMA RepliedNone == Replied(<<>>)
<1>1. SubSeq(<<>>, 1, 0) = <<>> /\ Len(<<>>) = 0
    OBVIOUS
<1>2. Answered(Conversation(<<>>))
    BY ConversationNone, AnsweredNone
<1>3. ASSUME NEW k \in 0..Len(<<>>) PROVE Answered(Conversation(SubSeq(<<>>, 1, k)))
    <2>1. k = 0
        BY <1>1
    <2> QED BY <1>1, <1>2, <2>1
<1> QED BY <1>3 DEF Replied

\* What is missing begins with no tool result.
LEMMA RepliedFirst ==
    ASSUME NEW n \in Nat, NEW told \in Seq(Entries(n)), NEW missing \in Seq(Entries(n)),
           Replied(told \o missing), ~Torn(missing)
    PROVE  Replied(told)
<1> PICK all : all = told \o missing
    OBVIOUS
<1>1. PICK l \in Nat, r \in Nat : l = Len(told) /\ r = Len(missing)
    OBVIOUS
<1>2. /\ all \in Seq(Entries(n)) /\ Len(all) = l + r /\ \A k \in 1..l : all[k] = told[k]
      /\ r > 0 => all[l + 1] = missing[1] /\ missing # <<>> /\ Head(missing) = missing[1]
    BY <1>1
<1> SUFFICES ASSUME NEW k \in 0..l, Whole(told, k)
             PROVE  Answered(Conversation(SubSeq(told, 1, k)))
    BY <1>1 DEF Replied
<1>3. Whole(all, k)
    <2>1. CASE k < l
        <3>1. k + 1 \in 1..l
            BY <2>1
        <3> QED BY <1>1, <1>2, <2>1, <3>1 DEF Whole
    <2>2. CASE k = l
        <3>1. r > 0 => all[l + 1].message.kind # "result"
            BY <1>2 DEF Torn
        <3> QED BY <1>2, <2>2, <3>1 DEF Whole
    <2> QED BY <2>1, <2>2
<1>4. k \in 0..Len(all)
    BY <1>2
<1>5. SubSeq(all, 1, k) = SubSeq(told, 1, k)
    BY <1>1, Beginnings
<1> QED BY <1>3, <1>4, <1>5 DEF Replied

LEMMA RepliedBehind ==
    ASSUME NEW n \in Nat, NEW told \in Seq(Entries(n)), NEW more \in Seq(Entries(n)), Replied(told),
           \A j \in 1..Len(more) : Whole(more, j) =>
               Answered(Conversation(told \o SubSeq(more, 1, j)))
    PROVE  Replied(told \o more)
<1> PICK all : all = told \o more
    OBVIOUS
<1>1. PICK l \in Nat, r \in Nat : l = Len(told) /\ r = Len(more)
    OBVIOUS
<1>2. /\ all \in Seq(Entries(n)) /\ Len(all) = l + r /\ \A k \in 1..l : all[k] = told[k]
      /\ \A k \in 1..r : all[l + k] = more[k]
    BY <1>1
<1> SUFFICES ASSUME NEW k \in 0..l + r, Whole(all, k)
             PROVE  Answered(Conversation(SubSeq(all, 1, k)))
    BY <1>2 DEF Replied
<1>3. CASE k <= l
    <2>1. k \in 0..l
        BY <1>3
    <2>2. Whole(told, k)
        <3> SUFFICES ASSUME k < l PROVE told[k + 1].message.kind # "result"
            BY <1>1 DEF Whole
        <3>1. k + 1 \in 1..l /\ k < l + r
            BY <1>1, <2>1
        <3> QED BY <1>2, <3>1 DEF Whole
    <2>3. SubSeq(all, 1, k) = SubSeq(told, 1, k)
        BY <1>1, <2>1, Beginnings
    <2> QED BY <1>1, <2>1, <2>2, <2>3 DEF Replied
<1>4. CASE k > l
    <2>1. PICK j \in 1..r : k = l + j
        <3>1. k - l \in 1..r /\ k = l + (k - l)
            BY <1>1, <1>4
        <3> QED BY <3>1
    <2>2. Whole(more, j)
        <3> SUFFICES ASSUME j < r PROVE more[j + 1].message.kind # "result"
            BY <1>1 DEF Whole
        <3>1. j + 1 \in 1..r /\ k < l + r /\ k + 1 = l + (j + 1)
            BY <1>1, <2>1
        <3> QED BY <1>2, <3>1 DEF Whole
    <2>3. SubSeq(all, 1, k) = told \o SubSeq(more, 1, j)
        BY <1>1, <2>1, BeginningBehind
    <2> QED BY <1>1, <2>2, <2>3
<1> QED BY <1>3, <1>4

LEMMA RepliedOn ==
    ASSUME NEW n \in Nat, NEW told \in Seq(Entries(n)), NEW entry \in Entries(n),
           Told(Append(told, entry)), entry.message = UserMessage, Replied(told)
    PROVE  Replied(Append(told, entry))
<1>1. Answered(Conversation(Append(told, entry)))
    BY RepliedEnd, AnsweredOn
<1> PICK more : more = <<entry>>
    OBVIOUS
<1>2. more \in Seq(Entries(n)) /\ Len(more) = 1 /\ told \o more = Append(told, entry)
    OBVIOUS
<1>3. SubSeq(more, 1, 1) = more
    BY <1>2, WholeBeginning
<1>4. \A j \in 1..Len(more) : Answered(Conversation(told \o SubSeq(more, 1, j)))
    <2> TAKE j \in 1..Len(more)
    <2>1. j = 1
        BY <1>2
    <2> QED BY <1>1, <1>2, <1>3, <2>1
<1>5. Replied(told \o more)
    BY <1>2, <1>4, RepliedBehind
<1> QED BY <1>2, <1>5

\* Messages alone are added to the conversation as they are.
LEMMA ConversationJoins ==
    ASSUME NEW n \in Nat, NEW told \in Seq(Entries(n)), NEW batch \in Seq(Entries(n)),
           Told(told \o batch), \A i \in 1..Len(batch) : batch[i].kind = "message"
    PROVE  \A j \in 0..Len(batch) : Conversation(told \o SubSeq(batch, 1, j))
                                        = Conversation(told) \o MessagesOf[SubSeq(batch, 1, j)]
<1>0. ASSUME NEW a \in Seq(Messages), NEW d \in Seq(Messages), NEW y \in Messages
      PROVE  a \o Append(d, y) = Append(a \o d, y)
    BY AppendBehind
<1> DEFINE C(j) == Conversation(told \o SubSeq(batch, 1, j))
                       = Conversation(told) \o MessagesOf[SubSeq(batch, 1, j)]
           P == {j \in Nat : j <= Len(batch) => C(j)}
<1>1. PICK c \in Seq(Messages) : c = Conversation(told)
    BY ConversationTyped
<1>2. 0 \in P
    <2>1. SubSeq(batch, 1, 0) = <<>> /\ told \o <<>> = told
        BY WholeBeginning
    <2>2. c \o <<>> = c
        OBVIOUS
    <2> QED BY <1>1, <2>1, <2>2, MessagesOfNone
<1>3. ASSUME NEW j \in Nat, j \in P PROVE j + 1 \in P
    <2> SUFFICES ASSUME j + 1 <= Len(batch) PROVE C(j + 1)
        OBVIOUS
    <2>1. j + 1 \in 1..Len(batch) /\ (j + 1) - 1 = j /\ j \in 0..Len(batch) /\ C(j)
        BY <1>3
    <2>2. PICK b \in Seq(Entries(n)), e \in Entries(n) : b = SubSeq(batch, 1, j) /\ e = batch[j + 1]
        <3>1. 1 \in 1..Len(batch) + 1 /\ 1 <= j + 1 /\ batch[j + 1] \in Entries(n)
            BY <2>1
        <3>2. SubSeq(batch, 1, j) \in Seq(Entries(n))
            BY <2>1, <3>1, SubSeqIs
        <3> QED BY <3>1, <3>2
    <2>3. SubSeq(batch, 1, j + 1) = Append(b, e) /\ e.kind = "message"
        BY <2>1, <2>2, OneByOne
    <2>4. told \o Append(b, e) = Append(told \o b, e)
        BY AppendBehind
    <2>5. Told(Append(told \o b, e))
        <3>1. PICK l \in Nat : l = Len(told)
            OBVIOUS
        <3> PICK all : all = told \o batch
            OBVIOUS
        <3>2. all \in Seq(Entries(n)) /\ l + (j + 1) \in 0..Len(all) /\ l + (j + 1) = Len(told) + (j + 1)
            BY <2>1, <3>1
        <3>3. SubSeq(all, 1, l + (j + 1)) = told \o SubSeq(batch, 1, j + 1)
            BY <2>1, <3>1, BeginningBehind
        <3>4. Told(SubSeq(all, 1, l + (j + 1)))
            BY <3>2, ToldBefore
        <3> QED BY <2>3, <2>4, <3>3, <3>4
    <2> PICK u : u = told \o b
        OBVIOUS
    <2>6. u \in Seq(Entries(n)) /\ u = told \o b
        OBVIOUS
    <2>7. Conversation(Append(u, e)) = Append(Conversation(u), e.message)
        BY <2>3, <2>5, <2>6, ConversationOn
    <2>8. MessagesOf[Append(b, e)] = Append(MessagesOf[b], e.message)
        BY MessagesOn
    <2>9. MessagesOf[b] \in Seq(Messages) /\ e.message \in Messages
        BY MessagesAre, EntryFields
    <2>10. Conversation(u) = c \o MessagesOf[b]
        BY <1>1, <2>1, <2>2, <2>6
    <2>11. PICK m \in Seq(Messages), x \in Messages : m = MessagesOf[b] /\ x = e.message
        BY <2>9
    <2>12. c \o Append(m, x) = Append(c \o m, x)
        BY <1>0
    <2> QED BY <1>1, <2>3, <2>4, <2>6, <2>7, <2>8, <2>10, <2>11, <2>12
<1> HIDE DEF P, C
<1>4. Nat \subseteq P
    BY <1>2, <1>3, InductionOnNat
<1>5. ASSUME NEW j \in 0..Len(batch) PROVE C(j)
    <2>1. j \in P /\ j <= Len(batch)
        BY <1>4
    <2> QED BY <2>1 DEF P
<1> QED BY <1>5 DEF C

\* A run's messages, in which calls and results pair.
LEMMA RepliedRun ==
    ASSUME NEW n \in Nat, NEW told \in Seq(Entries(n)), NEW batch \in Seq(Entries(n)),
           Told(told \o batch), \A i \in 1..Len(batch) : batch[i].kind = "message",
           Answered(MessagesOf[batch]), Replied(told)
    PROVE  Replied(told \o batch)
<1>1. PICK c \in Seq(Messages) : c = Conversation(told) /\ Answered(c)
    BY ConversationTyped, RepliedEnd
<1>2. ASSUME NEW j \in 1..Len(batch), Whole(batch, j)
      PROVE  Answered(Conversation(told \o SubSeq(batch, 1, j)))
    <2>1. j \in 0..Len(batch)
        OBVIOUS
    <2>2. Conversation(told \o SubSeq(batch, 1, j)) = c \o MessagesOf[SubSeq(batch, 1, j)]
        BY <1>1, <2>1, ConversationJoins
    <2>3. PICK s \in Seq(Entries(n)), t \in Seq(Entries(n)) :
              /\ s = SubSeq(batch, 1, j) /\ t = SubSeq(batch, j + 1, Len(batch))
        <3>1. /\ 1 \in 1..Len(batch) + 1 /\ 1 <= j + 1 /\ j + 1 \in 1..Len(batch) + 1
              /\ Len(batch) \in 0..Len(batch) /\ j + 1 <= Len(batch) + 1
            OBVIOUS
        <3>2. SubSeq(batch, 1, j) \in Seq(Entries(n))
            BY <2>1, <3>1, SubSeqIs
        <3>3. SubSeq(batch, j + 1, Len(batch)) \in Seq(Entries(n))
            BY <3>1, SubSeqIs
        <3> QED BY <3>2, <3>3
    <2>4. s \o t = batch
        BY <2>3, SplitAt
    <2>5. PICK p \in Seq(Messages), q \in Seq(Messages) :
              p = MessagesOf[s] /\ q = MessagesOf[t]
        BY MessagesAre
    <2>6. Answered(p \o q)
        BY <2>4, <2>5, MessagesJoin
    <2>7. q # <<>> => q[1].kind # "result"
        <3> SUFFICES ASSUME q # <<>> PROVE q[1].kind # "result"
            OBVIOUS
        <3>1. Len(q) = Len(t) /\ Len(q) >= 1 /\ 1 \in 1..Len(t)
            <4>1. Len(q) = Len(t)
                BY <2>5, MessagesAre
            <4> QED BY <4>1
        <3>2. q[1] = t[1].message
            BY <2>5, <3>1, MessagesAre
        <3>3. j < Len(batch) /\ t[1] = batch[j + 1]
            <4>1. /\ j + 1 \in 1..Len(batch) + 1 /\ Len(batch) \in 0..Len(batch)
                  /\ j + 1 <= Len(batch) + 1 /\ (j + 1) + 1 - 1 = j + 1
                OBVIOUS
            <4>2. /\ Len(t) = (Len(batch) + 1) - (j + 1)
                  /\ \A i \in 1..(Len(batch) + 1) - (j + 1) : t[i] = batch[(j + 1) + i - 1]
                BY <2>3, <4>1, SubSeqIs
            <4> QED BY <3>1, <4>1, <4>2
        <3> QED BY <1>2, <3>2, <3>3 DEF Whole
    <2>8. Answered(p)
        BY <2>6, <2>7, AnsweredUpTo, MessagesShaped
    <2>9. Answered(c \o p)
        BY <1>1, <2>8, AnsweredJoined, MessagesShaped
    <2> QED BY <2>2, <2>3, <2>5, <2>9
<1> QED BY <1>2, RepliedBehind

-----------------------------------------------------------------------------
(***************************************************************************)
(* What the files and the indexes tell, in every state.                    *)
(***************************************************************************)
\* The process writes nothing to that session.
Elsewhere(p, s) == writing[p] = NotWriting \/ writing[p].to # s

\* The index of the process, with what it is about to write.
Text(p, s) == IF writing[p].to = s THEN handles[p][s].entries \o writing[p].entries
              ELSE handles[p][s].entries

\* Unless lines merged or an index was stale, entries follow each other, and unless a write
\* was cut in the middle of a run, calls have their results.
Tells(damages, entries) ==
    /\ damages \cap {"merged", "stale"} = {} => Told(entries)
    /\ damages = {} => Replied(entries)

\* Nobody is writing, or not yet.
Settled(s) == Unterminated(files[s]) \/ \A p \in Processes : Elsewhere(p, s)

Story(s) ==
    /\ Undamaged(damage, s) => Told(Parsed(files[s]))
    /\ damage[s] = {} /\ Settled(s) => Replied(Parsed(files[s]))
    /\ \A p \in Processes : IsOpen(p, s) => Tells(damage[s], Text(p, s))
Stories == \A s \in Sessions : Story(s)

LEMMA StoriesStart == Init => Stories
<1> SUFFICES ASSUME Init, NEW s \in Sessions PROVE Story(s)
    BY DEF Stories
<1>1. Parsed(files[s]) = <<>>
    BY ParsedEmpty DEF Init
<1>2. \A p \in Processes : ~IsOpen(p, s)
    BY DEF Init, IsOpen, Closed
<1> QED BY <1>1, <1>2, ToldNone, RepliedNone DEF Story

LEMMA RestsEmpty == NotWriting.entries = <<>> /\ NotWriting.to = "none" /\ NotWriting.from = "none"
BY DEF NotWriting, Writing

LEMMA TextRest ==
    ASSUME LogInv, NEW p \in Processes, NEW s \in Sessions, Elsewhere(p, s)
    PROVE  Text(p, s) = handles[p][s].entries
<1>1. PICK entries \in Seq(Entries(ids)) : entries = handles[p][s].entries
    BY HandleFields
<1>2. entries \o <<>> = entries
    OBVIOUS
<1>3. CASE writing[p] = NotWriting
    <2>1. writing[p].entries = <<>>
        BY <1>3, RestsEmpty
    <2> QED BY <1>1, <1>2, <2>1 DEF Text
<1>4. CASE writing[p].to # s
    BY <1>4 DEF Text
<1> QED BY <1>3, <1>4 DEF Elsewhere

\* A session that the step is not about.
LEMMA Untouched ==
    ASSUME LogInv, Stories, NEW p \in Processes, NEW s \in Sessions,
           files'[s] = files[s], damage'[s] = damage[s],
           \A q \in Processes : q # p => handles'[q] = handles[q] /\ writing'[q] = writing[q],
           IsOpen(p, s)' => handles'[p][s] = handles[p][s],
           Elsewhere(p, s), Elsewhere(p, s)'
    PROVE  Story(s)'
<1>1. Story(s)
    BY DEF Stories
<1>2. Settled(s)' => Settled(s)
    BY DEF Settled, Elsewhere, Unterminated
<1>3. ASSUME NEW q \in Processes, IsOpen(q, s)' PROVE IsOpen(q, s) /\ Text(q, s)' = Text(q, s)
    <2>1. CASE q # p
        <3>1. handles'[q] = handles[q] /\ writing'[q] = writing[q]
            BY <2>1
        <3> QED BY <1>3, <3>1 DEF IsOpen, Text
    <2>2. CASE q = p
        <3>1. handles'[p][s] = handles[p][s] /\ IsOpen(p, s)
            BY <1>3, <2>2 DEF IsOpen
        <3>2. Text(p, s) = handles[p][s].entries
            BY TextRest
        <3>3. PICK entries \in Seq(Entries(ids)) : entries = handles[p][s].entries
            BY HandleFields
        <3>4. entries \o <<>> = entries
            OBVIOUS
        <3>5. Text(p, s)' = handles[p][s].entries
            <4>1. CASE writing'[p] = NotWriting
                <5>1. writing'[p].entries = <<>>
                    BY <4>1, RestsEmpty
                <5> QED BY <3>1, <3>3, <3>4, <5>1 DEF Text
            <4>2. CASE writing'[p].to # s
                BY <3>1, <4>2 DEF Text
            <4> QED BY <4>1, <4>2 DEF Elsewhere
        <3> QED BY <2>2, <3>1, <3>2, <3>5
    <2> QED BY <2>1, <2>2
<1>4. \A q \in Processes : IsOpen(q, s)' => Tells(damage'[s], Text(q, s)')
    <2> SUFFICES ASSUME NEW q \in Processes, IsOpen(q, s)' PROVE Tells(damage[s], Text(q, s))
        BY <1>3
    <2> QED BY <1>1, <1>3 DEF Story
<1> QED BY <1>1, <1>2, <1>4 DEF Story, Undamaged

\* A session without lines, of which the process is about to write the first ones.
LEMMA StoryBegins ==
    ASSUME NEW p \in Processes, NEW s \in Sessions, files'[s] = <<>>,
           \A q \in Processes : IsOpen(q, s)' => q = p,
           Tells(damage'[s], Text(p, s)')
    PROVE  Story(s)'
<1>1. Parsed(files'[s]) = <<>>
    BY ParsedEmpty
<1> QED BY <1>1, ToldNone, RepliedNone DEF Story, Undamaged

LEMMA OnlyIs ==
    ASSUME NEW session, NEW manager, NEW s \in Sessions
    PROVE  Only(session, manager)[s] = IF s = session THEN manager ELSE Closed
BY DEF Only

LEMMA NewSessionTells ==
    ASSUME LogInv, Stories, NEW p \in Processes, NEW session \in Sessions, NewSession(p, session)
    PROVE  Stories'
<1>1. /\ writing[p] = NotWriting /\ session \notin created
      /\ handles' = [handles EXCEPT ![p] = Only(session, Manager("open", <<>>))]
      /\ UNCHANGED <<files, writing, damage>>
    BY DEF NewSession, AtRest
<1>2. \A q \in Processes : q # p => handles'[q] = handles[q] /\ writing'[q] = writing[q]
    BY <1>1
<1>3. handles'[p] = Only(session, Manager("open", <<>>)) /\ writing'[p] = NotWriting
    BY <1>1 DEF LogInv, LogTypes
<1> SUFFICES ASSUME NEW s \in Sessions PROVE Story(s)'
    BY DEF Stories
<1>4. CASE s = session
    <2>1. files'[s] = <<>> /\ \A q \in Processes : IsOpen(q, s)' => q = p
        BY <1>1, <1>2, <1>4 DEF LogInv, Unmade, IsOpen
    <2>2. handles'[p][s].entries = <<>>
        BY <1>3, <1>4, OnlyIs DEF Manager
    <2>3. <<>> \o <<>> = <<>>
        OBVIOUS
    <2>4. Text(p, s)' = <<>>
        BY <1>3, <2>2, <2>3 DEF Text, NotWriting, Writing
    <2> QED BY <2>1, <2>4, StoryBegins, ToldNone, RepliedNone DEF Tells
<1>5. CASE s # session
    <2>1. ~IsOpen(p, s)'
        BY <1>3, <1>5, OnlyIs DEF IsOpen, Closed
    <2>2. Elsewhere(p, s) /\ Elsewhere(p, s)'
        BY <1>1, <1>3 DEF Elsewhere
    <2> QED BY <1>1, <1>2, <2>1, <2>2, Untouched
<1> QED BY <1>4, <1>5

LEMMA OpenReadsTells ==
    ASSUME LogInv, Stories, NEW p \in Processes, NEW session \in Sessions, OpenReads(p, session)
    PROVE  Stories'
<1>1. /\ writing[p] = NotWriting /\ UNCHANGED <<files, writing, damage>>
      /\ handles' = [handles EXCEPT ![p][session] = Manager("read", Parsed(files[session]))]
    BY DEF OpenReads, AtRest
<1>2. \A q \in Processes : q # p => handles'[q] = handles[q] /\ writing'[q] = writing[q]
    BY <1>1
<1> SUFFICES ASSUME NEW s \in Sessions PROVE Story(s)'
    BY DEF Stories
<1>3. IsOpen(p, s)' => handles'[p][s] = handles[p][s]
    BY <1>1 DEF LogInv, LogTypes, IsOpen, Manager
<1>4. Elsewhere(p, s) /\ Elsewhere(p, s)'
    BY <1>1 DEF Elsewhere
<1> QED BY <1>1, <1>2, <1>3, <1>4, Untouched

\* Whoever opens a file that it has read before goes on from what is there, and nobody is
\* writing to it.
LEMMA OpenLocksTells ==
    ASSUME LogInv, Stories, NEW p \in Processes, NEW session \in Sessions, OpenLocks(p, session)
    PROVE  Stories'
<1>1. /\ writing[p] = NotWriting /\ UNCHANGED <<files, writing>>
      /\ handles' = [handles EXCEPT ![p] =
                        Only(session, [handles[p][session] EXCEPT !.state = "open"])]
      /\ \A q \in Processes : ~IsOpen(q, session)
      /\ damage' = IF handles[p][session].entries = Parsed(files[session]) THEN damage
                   ELSE [damage EXCEPT ![session] = @ \cup {"stale"}]
    BY ReadersRest DEF OpenLocks, Locked, LogInv, LogTypes
<1>2. \A q \in Processes : q # p => handles'[q] = handles[q] /\ writing'[q] = writing[q]
    BY <1>1
<1>3. /\ handles'[p] = Only(session, [handles[p][session] EXCEPT !.state = "open"])
      /\ writing'[p] = NotWriting
    BY <1>1 DEF LogInv, LogTypes
<1> SUFFICES ASSUME NEW s \in Sessions PROVE Story(s)'
    BY DEF Stories
<1>4. CASE s = session
    <2>1. PICK entries \in Seq(Entries(ids)) : entries = handles[p][session].entries
        BY HandleFields
    <2>2. handles'[p][s].entries = entries
        <3>1. handles'[p][s] = [handles[p][session] EXCEPT !.state = "open"]
            BY <1>3, <1>4, OnlyIs
        <3>2. handles[p][session] \in HandleType
            BY HandleFields
        <3> QED BY <2>1, <3>1, <3>2 DEF HandleType
    <2>3. entries \o <<>> = entries
        OBVIOUS
    <2>4. Text(p, s)' = entries
        BY <1>3, <2>2, <2>3 DEF Text, NotWriting, Writing
    <2>5. \A q \in Processes : IsOpen(q, s)' => q = p
        BY <1>1, <1>2, <1>4 DEF IsOpen
    <2>6. CASE entries = Parsed(files[session])
        <3>1. damage' = damage
            BY <1>1, <2>1, <2>6
        <3>2. \A q \in Processes : Elsewhere(q, s)
            BY <1>1, <1>4, CallersHold DEF Elsewhere
        <3>3. /\ Undamaged(damage, s) => Told(entries)
              /\ damage[s] = {} => Replied(entries)
            BY <1>4, <2>6, <3>2 DEF Stories, Story, Settled
        <3>4. Tells(damage'[s], Text(p, s)')
            BY <2>4, <3>1, <3>3 DEF Tells, Undamaged
        <3>5. Parsed(files'[s]) = entries
            BY <1>1, <1>4, <2>6
        <3> QED BY <2>5, <3>1, <3>3, <3>4, <3>5 DEF Story, Undamaged
    <2>7. CASE entries # Parsed(files[session])
        <3>1. "stale" \in damage'[s]
            BY <1>1, <1>4, <2>1, <2>7 DEF LogInv, LogTypes
        <3> QED BY <3>1 DEF Story, Undamaged, Tells
    <2> QED BY <2>6, <2>7
<1>5. CASE s # session
    <2>1. ~IsOpen(p, s)'
        BY <1>3, <1>5, OnlyIs DEF IsOpen, Closed
    <2>2. Elsewhere(p, s) /\ Elsewhere(p, s)'
        BY <1>1, <1>3 DEF Elsewhere
    <2>3. damage'[s] = damage[s]
        BY <1>1, <1>5 DEF LogInv, LogTypes
    <2> QED BY <1>1, <1>2, <2>1, <2>2, <2>3, Untouched
<1> QED BY <1>4, <1>5

LEMMA OpenRefusedTells ==
    ASSUME LogInv, Stories, NEW p \in Processes, NEW session \in Sessions, OpenRefused(p, session)
    PROVE  Stories'
<1>1. /\ writing[p] = NotWriting /\ UNCHANGED <<files, writing, damage>>
      /\ handles' = [handles EXCEPT ![p][session] = Closed]
    BY ReadersRest DEF OpenRefused
<1>2. \A q \in Processes : q # p => handles'[q] = handles[q] /\ writing'[q] = writing[q]
    BY <1>1
<1> SUFFICES ASSUME NEW s \in Sessions PROVE Story(s)'
    BY DEF Stories
<1>3. IsOpen(p, s)' => handles'[p][s] = handles[p][s]
    BY <1>1 DEF LogInv, LogTypes, IsOpen, Closed
<1>4. Elsewhere(p, s) /\ Elsewhere(p, s)'
    BY <1>1 DEF Elsewhere
<1> QED BY <1>1, <1>2, <1>3, <1>4, Untouched

LEMMA ExitsTells ==
    ASSUME LogInv, Stories, NEW p \in Processes, Exits(p)
    PROVE  Stories'
<1>1. /\ writing[p] = NotWriting /\ UNCHANGED <<files, writing, damage>>
      /\ handles' = [handles EXCEPT ![p] = [session \in Sessions |-> Closed]]
    BY DEF Exits, AtRest
<1>2. \A q \in Processes : q # p => handles'[q] = handles[q] /\ writing'[q] = writing[q]
    BY <1>1
<1> SUFFICES ASSUME NEW s \in Sessions PROVE Story(s)'
    BY DEF Stories
<1>3. ~IsOpen(p, s)'
    BY <1>1 DEF LogInv, LogTypes, IsOpen, Closed
<1>4. Elsewhere(p, s) /\ Elsewhere(p, s)'
    BY <1>1 DEF Elsewhere
<1> QED BY <1>1, <1>2, <1>3, <1>4, Untouched

\* A process that has stopped writing, in the sessions it did not write to.
LEMMA OthersStay ==
    ASSUME LogInv, Stories, NEW p \in Processes, NEW session \in Sessions, NEW s \in Sessions,
           handles' = [handles EXCEPT ![p] = Only(session, handles[p][session])],
           writing' = [writing EXCEPT ![p] = NotWriting],
           files'[s] = files[s], damage'[s] = damage[s], writing[p].to # s
    PROVE  Story(s)'
<1>1. \A q \in Processes : q # p => handles'[q] = handles[q] /\ writing'[q] = writing[q]
    OBVIOUS
<1>2. handles'[p] = Only(session, handles[p][session]) /\ writing'[p] = NotWriting
    BY DEF LogInv, LogTypes
<1>3. IsOpen(p, s)' => handles'[p][s] = handles[p][s]
    BY <1>2, OnlyIs DEF IsOpen, Closed
<1>4. Elsewhere(p, s) /\ Elsewhere(p, s)'
    BY <1>2 DEF Elsewhere
<1> QED BY <1>1, <1>3, <1>4, Untouched

\* A fork that is complete has the branch that it was to copy.
LEMMA ForkEndsTells ==
    ASSUME LogInv, Stories, NEW p \in Processes, ForkEnds(p)
    PROVE  Stories'
<1>1. writing[p] # NotWriting /\ writing[p].from # writing[p].to /\ writing[p].entries = <<>>
    BY RestsEmpty DEF ForkEnds, ForkCopied
<1>2. PICK to \in Sessions : to = writing[p].to
    BY <1>1, CallersHold
<1>3. /\ handles' = [handles EXCEPT ![p] = Only(to, handles[p][to])]
      /\ writing' = [writing EXCEPT ![p] = NotWriting] /\ files' = files /\ damage' = damage
    BY <1>2 DEF ForkEnds, LogInv, LogTypes
<1>4. IsOpen(p, to) /\ \A q \in Processes : IsOpen(q, to) => q = p
    BY <1>1, <1>2, CallersHold
<1> SUFFICES ASSUME NEW s \in Sessions PROVE Story(s)'
    BY DEF Stories
<1>5. CASE s # to
    BY <1>2, <1>3, <1>5, OthersStay
<1>6. CASE s = to
    <2>1. PICK copied \in Seq(Entries(ids)) : copied = handles[p][to].entries
        BY HandleFields
    <2>2. copied \o <<>> = copied
        OBVIOUS
    <2>3. copied = Parsed(files[to])
        BY <1>1, <1>2, <2>1 DEF LogInv, Forks, Copying
    <2>4. Text(p, s) = copied
        BY <1>1, <1>2, <1>6, <2>1, <2>2 DEF Text
    <2>5. Tells(damage[s], copied)
        BY <1>4, <1>6, <2>4 DEF Stories, Story
    <2>6. handles'[p] = Only(to, handles[p][to]) /\ writing'[p] = NotWriting
        BY <1>3 DEF LogInv, LogTypes
    <2>7. handles'[p][s].entries = copied
        BY <1>6, <2>1, <2>6, OnlyIs
    <2>8. writing'[p].entries = <<>>
        BY <2>6, RestsEmpty
    <2>9. Text(p, s)' = copied
        BY <2>2, <2>7, <2>8 DEF Text
    <2>10. \A q \in Processes : IsOpen(q, s)' => q = p
        BY <1>3, <1>4, <1>6 DEF IsOpen
    <2>11. Parsed(files'[s]) = copied
        BY <1>3, <1>6, <2>3
    <2>12. damage'[s] = damage[s]
        BY <1>3
    <2> QED BY <2>5, <2>9, <2>10, <2>11, <2>12 DEF Story, Tells, Undamaged
<1> QED BY <1>5, <1>6

\* The parent of the next entry is there, unless the file is damaged.
LEMMA ParentIsThere ==
    ASSUME NEW n \in Nat, NEW told \in Seq(Entries(n)), NEW more \in Seq(Entries(n)), more # <<>>,
           Told(told \o more)
    PROVE  Head(more).parent \in {NoEntry} \cup Ids(told)
<1>1. /\ Head(more) \in Entries(n) /\ Tail(more) \in Seq(Entries(n))
      /\ Append(told, Head(more)) \in Seq(Entries(n))
      /\ Append(told, Head(more)) \o Tail(more) = told \o more
    BY OneMore
<1>2. PICK first \in Entries(n) : first = Head(more)
    BY <1>1
<1>3. Told(Append(told, first))
    BY <1>1, <1>2, ToldFirst
<1>4. Follows(told, first)
    BY <1>3, ToldOn
<1>5. first.parent = LeafOf(told)
    BY <1>4 DEF Follows
<1>6. told # <<>> => LeafOf(told) \in Ids(told)
    BY LeafTyped
<1> QED BY <1>2, <1>5, <1>6 DEF LeafOf

LEMMA WriteRefusedTells ==
    ASSUME LogInv, Stories, NEW p \in Processes, WriteRefused(p)
    PROVE  Stories'
<1>1. writing[p].entries # <<>> /\ writing[p] # NotWriting
    BY RestsEmpty DEF WriteRefused
<1>2. PICK to \in Sessions, from \in Sessions : to = writing[p].to /\ from = writing[p].from
    BY <1>1, CallersHold
<1>3. /\ handles' = [handles EXCEPT ![p] = Only(from, handles[p][from])]
      /\ writing' = [writing EXCEPT ![p] = NotWriting] /\ files' = files /\ damage' = damage
    BY <1>2 DEF WriteRefused, GivesUp, LogInv, LogTypes
<1> SUFFICES ASSUME NEW s \in Sessions PROVE Story(s)'
    BY DEF Stories
<1>5. CASE s # to
    BY <1>2, <1>3, <1>5, OthersStay
<1>6. CASE s = to
    <2>1. IsOpen(p, to) /\ ids \in Nat /\ writing[p].entries \in Seq(Entries(ids))
        BY <1>1, <1>2, CallersHold
    <2>2. PICK more \in Seq(Entries(ids)) : more = writing[p].entries
        BY <2>1
    <2>3. PICK old \in Seq(Entries(ids)) : old = handles[p][to].entries
        BY HandleFields
    <2>4. Text(p, s) = old \o more
        BY <1>2, <1>6, <2>2, <2>3 DEF Text
    <2>5. Head(more).parent \notin {NoEntry} \cup Ids(old)
        BY <1>2, <2>2, <2>3 DEF WriteRefused
    <2>6. ~Told(old \o more)
        BY <1>1, <2>1, <2>2, <2>5, ParentIsThere
    <2>7. damage[s] \cap {"merged", "stale"} # {}
        BY <1>6, <2>1, <2>4, <2>6 DEF Stories, Story, Tells
    <2>8. damage'[s] \cap {"merged", "stale"} # {} /\ damage'[s] # {}
        BY <1>3, <2>7
    <2> QED BY <2>8 DEF Story, Undamaged, Tells
<1> QED BY <1>5, <1>6

LEMMA WriteEntryTells ==
    ASSUME LogInv, Stories, NEW p \in Processes, WriteEntry(p)
    PROVE  Stories'
<1>1. writing[p].entries # <<>> /\ writing[p] # NotWriting
    BY RestsEmpty DEF WriteEntry
<1>2. PICK to \in Sessions, from \in Sessions : to = writing[p].to /\ from = writing[p].from
    BY <1>1, CallersHold
<1> DEFINE e == Head(writing[p].entries)
           more == Tail(writing[p].entries)
           old == handles[p][to].entries
           w == IF more = <<>> /\ from = to THEN NotWriting ELSE [writing[p] EXCEPT !.entries = more]
<1>3. /\ IsOpen(p, to) /\ \A q \in Processes : IsOpen(q, to) => q = p
      /\ writing[p].entries \in Seq(Entries(ids)) /\ writing[p] \in CallType
      /\ old \in Seq(Entries(ids)) /\ ids \in Nat /\ files[to] \in Seq(Lines(ids))
    BY <1>1, <1>2, CallersHold, HandleFields
<1>4. /\ e \in Entries(ids) /\ more \in Seq(Entries(ids)) /\ Append(old, e) \in Seq(Entries(ids))
      /\ Append(old, e) \o more = old \o writing[p].entries
    BY <1>1, <1>3, OneMore
<1>5. /\ files' = [files EXCEPT ![to] = WrittenTo(files[to], e, TRUE)]
      /\ handles' = [handles EXCEPT ![p][to] = Indexed(handles[p][to], e)]
      /\ writing' = [writing EXCEPT ![p] = w]
      /\ damage' = IF Unterminated(files[to])
                   THEN [damage EXCEPT ![to] = @ \cup {"merged"}] ELSE damage
    BY <1>2 DEF WriteEntry, LogInv, LogTypes
<1>6. /\ w = NotWriting => more = <<>>
      /\ w # NotWriting => w.to = to /\ w.entries = more
    BY <1>2, <1>3 DEF CallType, NotWriting, Writing
<1> HIDE DEF w
<1>7. Text(p, to) = Append(old, e) \o more
    BY <1>2, <1>4 DEF Text
<1>8. Indexed(handles[p][to], e).entries = Append(old, e)
    BY DEF Indexed, Manager
<1> HIDE DEF old, more, e
<1>9. /\ handles'[p][to].entries = Append(old, e) /\ writing'[p] = w
      /\ \A s \in Sessions : s # to => handles'[p][s] = handles[p][s] /\ files'[s] = files[s]
                                       /\ damage'[s] = damage[s]
      /\ \A q \in Processes : q # p => handles'[q] = handles[q] /\ writing'[q] = writing[q]
      /\ files'[to] = WrittenTo(files[to], e, TRUE)
    BY <1>5, <1>8 DEF LogInv, LogTypes
<1> SUFFICES ASSUME NEW s \in Sessions PROVE Story(s)'
    BY DEF Stories
<1>10. CASE s # to
    <2>1. Elsewhere(p, s) /\ Elsewhere(p, s)'
        BY <1>2, <1>6, <1>9, <1>10 DEF Elsewhere
    <2>2. files'[s] = files[s] /\ damage'[s] = damage[s] /\ handles'[p][s] = handles[p][s]
        BY <1>9, <1>10
    <2> QED BY <1>9, <2>1, <2>2, Untouched
<1>11. CASE s = to /\ Unterminated(files[to])
    <2>1. "merged" \in damage'[s]
        BY <1>5, <1>11 DEF LogInv, LogTypes
    <2> QED BY <2>1 DEF Story, Undamaged, Tells
<1>12. CASE s = to /\ ~Unterminated(files[to])
    <2>1. damage' = damage
        BY <1>5, <1>12
    <2>2. Undamaged(damage, s) => old = Parsed(files[to])
        <3> SUFFICES ASSUME Undamaged(damage, s) PROVE old = Parsed(files[to])
            OBVIOUS
        <3>1. InStep(old, files[to])
            BY <1>3, <1>12, LossyIs DEF LogInv, Indexes, old
        <3> QED BY <1>12, <3>1 DEF InStep
    <2>3. Parsed(files'[s]) = Append(Parsed(files[to]), e) /\ ~Unterminated(files'[s])
        BY <1>3, <1>4, <1>9, <1>12, WrittenParsed
    <2>4. PICK t \in Seq(Entries(ids)) : t = Append(old, e)
        BY <1>4
    <2>5. t \o <<>> = t
        OBVIOUS
    <2>6. Text(p, s)' = t \o more
        <3>1. CASE w = NotWriting
            <4>1. more = <<>> /\ writing'[p].entries = <<>>
                BY <1>6, <1>9, <3>1, RestsEmpty
            <4> QED BY <1>9, <1>12, <2>4, <2>5, <4>1 DEF Text
        <3>2. CASE w # NotWriting
            BY <1>6, <1>9, <1>12, <2>4, <3>2 DEF Text
        <3> QED BY <3>1, <3>2
    <2>7. Tells(damage[s], t \o more)
        BY <1>3, <1>7, <1>12, <2>4 DEF Stories, Story
    <2>8. Told(t \o more) => Told(t)
        BY <1>3, <1>4, ToldFirst
    <2>9. Settled(s)' => t \o more = t
        <3> SUFFICES ASSUME Settled(s)' PROVE t \o more = t
            OBVIOUS
        <3>1. Elsewhere(p, s)'
            BY <2>3 DEF Settled
        <3>2. more = <<>>
            BY <1>6, <1>9, <1>12, <3>1 DEF Elsewhere
        <3> QED BY <2>5, <3>2
    <2>10. \A q \in Processes : IsOpen(q, s)' => q = p
        BY <1>3, <1>9, <1>12 DEF IsOpen
    <2>11. Undamaged(damage, s) => Parsed(files'[s]) = t
        BY <2>2, <2>3, <2>4
    <2>12. damage[s] = {} => Undamaged(damage, s)
        BY DEF Undamaged
    <2> HIDE DEF Tells
    <2>13. Undamaged(damage', s) => Told(Parsed(files'[s]))
        BY <2>1, <2>7, <2>8, <2>11 DEF Tells, Undamaged
    <2>14. damage'[s] = {} /\ Settled(s)' => Replied(Parsed(files'[s]))
        BY <2>1, <2>7, <2>9, <2>11, <2>12 DEF Tells
    <2>15. Tells(damage'[s], Text(p, s)')
        BY <2>1, <2>6, <2>7
    <2> QED BY <2>10, <2>13, <2>14, <2>15 DEF Story
<1> QED BY <1>10, <1>11, <1>12

\* One line more of which the newline is missing.
LEMMA InterruptedParsed ==
    ASSUME NEW n \in Nat, NEW lines \in Seq(Lines(n)), NEW entry \in Entries(n) \cup {Malformed},
           ~Unterminated(lines)
    PROVE  Parsed(WrittenTo(lines, entry, FALSE)) =
               IF entry = Malformed THEN Parsed(lines) ELSE Append(Parsed(lines), entry)
<1> DEFINE line == [entry |-> entry, ended |-> FALSE]
<1>1. /\ WrittenTo(lines, entry, FALSE) = Append(lines, line) /\ line \in Lines(n)
      /\ line.entry = entry
    BY WrittenTyped
<1> HIDE DEF line
<1> QED BY <1>1, ParsedAppend

\* What an interruption leaves in a file that it does not damage: what was there, or the first
\* of the missing entries too.
LEMMA InterruptedFile ==
    ASSUME LogInv, NEW p \in Processes, writing[p] # NotWriting, WriteInterrupted(p), Damages(p),
           NEW to \in Sessions, to = writing[p].to, Undamaged(damage', to)
    PROVE  \/ /\ Unterminated(files[to]) /\ files'[to] = files[to]
           \/ ~Unterminated(files[to]) /\ Parsed(files'[to]) = Parsed(files[to])
           \/ /\ ~Unterminated(files[to]) /\ writing[p].entries # <<>>
              /\ Parsed(files'[to]) = Append(Parsed(files[to]), Head(writing[p].entries))
<1>1. /\ files \in [Sessions -> Seq(Lines(ids))] /\ ids \in Nat
      /\ writing[p].entries \in Seq(Entries(ids))
    BY CallersHold, SessionLogAssumption DEF LogInv, LogTypes
<1>2. files' # files /\ Unterminated(files[to]) => "merged" \in damage'[to]
    BY DEF Damages
<1>3. files' = files \/ ~Unterminated(files[to])
    BY <1>2 DEF Undamaged
<1>4. CASE files' = files
    BY <1>4
<1>5. CASE files' # files
    <2>1. ~Unterminated(files[to])
        BY <1>3, <1>5
    <2>2. /\ writing[p].entries # <<>>
          /\ \E entry \in {Malformed, Head(writing[p].entries)} :
                files' = [files EXCEPT ![to] = WrittenTo(files[to], entry, FALSE)]
        BY <1>5 DEF WriteInterrupted
    <2>3. PICK entry \in {Malformed, Head(writing[p].entries)} :
                files' = [files EXCEPT ![to] = WrittenTo(files[to], entry, FALSE)]
        BY <2>2
    <2>4. Head(writing[p].entries) \in Entries(ids)
        BY <1>1, <2>2
    <2>5. files'[to] = WrittenTo(files[to], entry, FALSE)
        BY <1>1, <2>3
    <2>6. entry \in Entries(ids) \cup {Malformed} /\ files[to] \in Seq(Lines(ids))
        BY <1>1, <2>4
    <2>7. Parsed(files'[to]) =
               IF entry = Malformed THEN Parsed(files[to]) ELSE Append(Parsed(files[to]), entry)
        BY <1>1, <2>1, <2>5, <2>6, InterruptedParsed
    <2> QED BY <2>1, <2>2, <2>7
<1> QED BY <1>4, <1>5

\* What an interruption leaves, on disk and in the index.
LEMMA InterruptedTells ==
    ASSUME LogInv, Stories, NEW p \in Processes, writing[p] # NotWriting, WriteInterrupted(p),
           Damages(p), NEW to \in Sessions, to = writing[p].to
    PROVE  Tells(damage'[to], Parsed(files'[to])) /\ Tells(damage'[to], handles[p][to].entries)
<1>1. /\ IsOpen(p, to) /\ ids \in Nat /\ writing[p].entries \in Seq(Entries(ids))
      /\ damage[to] \subseteq damage'[to]
    BY CallersHold, Interrupts
<1>2. PICK old \in Seq(Entries(ids)), left \in Seq(Entries(ids)) :
          old = handles[p][to].entries /\ left = writing[p].entries
    BY <1>1, HandleFields
<1>3. Tells(damage[to], old \o left)
    BY <1>1, <1>2 DEF Stories, Story, Text
<1>4. /\ Torn(left) => "cut" \in damage'[to]
      /\ Parsed(files'[to]) # Parsed(files[to]) /\ Torn(Tail(left)) => "cut" \in damage'[to]
    BY <1>2 DEF Damages
<1>5. Tells(damage'[to], old)
    <2>1. damage'[to] \cap {"merged", "stale"} = {} => Told(old)
        BY <1>1, <1>3, ToldFirst DEF Tells
    <2>2. damage'[to] = {} => Replied(old)
        <3> SUFFICES ASSUME damage'[to] = {} PROVE Replied(old)
            OBVIOUS
        <3>1. ~Torn(left) /\ damage[to] = {}
            BY <1>1, <1>4
        <3>2. Replied(old \o left)
            BY <1>3, <3>1 DEF Tells
        <3> QED BY <1>1, <3>1, <3>2, RepliedFirst
    <2> QED BY <2>1, <2>2 DEF Tells
<1>6. CASE ~Undamaged(damage', to)
    BY <1>6 DEF Undamaged, Tells
<1>7. CASE Undamaged(damage', to)
    <2>1. Undamaged(damage, to)
        BY <1>1, <1>7 DEF Undamaged
    <2>2. InStep(old, files[to])
        BY <1>1, <1>2, <2>1, LossyIs DEF LogInv, Indexes
    <2>3. CASE Unterminated(files[to]) /\ files'[to] = files[to]
        <3>1. Told(Parsed(files[to])) /\ (damage[to] = {} => Replied(Parsed(files[to])))
            BY <2>1, <2>3 DEF Stories, Story, Settled
        <3>2. Tells(damage'[to], Parsed(files'[to]))
            BY <1>1, <2>3, <3>1 DEF Tells
        <3> QED BY <1>2, <1>5, <3>2
    <2>4. CASE ~Unterminated(files[to]) /\ Parsed(files'[to]) = Parsed(files[to])
        <3>1. Parsed(files'[to]) = old
            BY <2>2, <2>4 DEF InStep
        <3> QED BY <1>2, <1>5, <3>1
    <2>5. CASE /\ ~Unterminated(files[to]) /\ left # <<>>
               /\ Parsed(files'[to]) = Append(Parsed(files[to]), Head(left))
        <3>1. old = Parsed(files[to])
            BY <2>2, <2>5 DEF InStep
        <3>2. PICK more \in Seq(Entries(ids)), t \in Seq(Entries(ids)) :
                  more = Tail(left) /\ t = Append(old, Head(left)) /\ t \o more = old \o left
            <4>1. /\ Tail(left) \in Seq(Entries(ids)) /\ Append(old, Head(left)) \in Seq(Entries(ids))
                  /\ Append(old, Head(left)) \o Tail(left) = old \o left
                BY <1>1, <2>5, OneMore
            <4> QED BY <4>1
        <3>3. t # old
            <4>1. PICK e \in Entries(ids) : e = Head(left)
                BY <2>5
            <4>2. Len(Append(old, e)) # Len(old)
                OBVIOUS
            <4> QED BY <3>2, <4>1, <4>2
        <3>4. Parsed(files'[to]) = t /\ Parsed(files'[to]) # Parsed(files[to])
            BY <2>5, <3>1, <3>2, <3>3
        <3>5. damage'[to] \cap {"merged", "stale"} = {} => Told(t)
            BY <1>1, <1>3, <3>2, ToldFirst DEF Tells
        <3>6. damage'[to] = {} => Replied(t)
            <4> SUFFICES ASSUME damage'[to] = {} PROVE Replied(t)
                OBVIOUS
            <4>1. ~Torn(more) /\ damage[to] = {}
                BY <1>1, <1>4, <3>2, <3>4
            <4>2. Replied(t \o more)
                BY <1>3, <3>2, <4>1 DEF Tells
            <4> QED BY <1>1, <4>1, <4>2, RepliedFirst
        <3>7. Tells(damage'[to], Parsed(files'[to]))
            BY <3>4, <3>5, <3>6 DEF Tells
        <3> QED BY <1>2, <1>5, <3>7
    <2> QED BY <1>2, <1>7, <2>3, <2>4, <2>5, InterruptedFile
<1> QED BY <1>6, <1>7

LEMMA InterruptionTells ==
    ASSUME LogInv, Stories, NEW p \in Processes, writing[p] # NotWriting, WriteInterrupted(p),
           Damages(p), NEW H \in [Sessions -> HandleType],
           \A t \in Sessions : H[t] = handles[p][t] \/ H[t] = Closed,
           handles' = [handles EXCEPT ![p] = H], writing' = [writing EXCEPT ![p] = NotWriting]
    PROVE  Stories'
<1>1. PICK to \in Sessions : to = writing[p].to
    BY CallersHold
<1>2. \A q \in Processes : q # p => handles'[q] = handles[q] /\ writing'[q] = writing[q]
    OBVIOUS
<1>3. handles'[p] = H /\ writing'[p] = NotWriting
    BY DEF LogInv, LogTypes
<1>4. \A s \in Sessions : IsOpen(p, s)' => handles'[p][s] = handles[p][s]
    BY <1>3 DEF IsOpen, Closed
<1> SUFFICES ASSUME NEW s \in Sessions PROVE Story(s)'
    BY DEF Stories
<1>5. CASE s # to
    <2>1. Elsewhere(p, s) /\ Elsewhere(p, s)'
        BY <1>1, <1>3, <1>5 DEF Elsewhere
    <2>2. files'[s] = files[s]
        BY <1>1, <1>5, Interrupts
    <2>3. damage'[s] = damage[s]
        BY <1>1, <1>5 DEF Damages
    <2> QED BY <1>2, <1>4, <2>1, <2>2, <2>3, Untouched
<1>6. CASE s = to
    <2>1. Tells(damage'[s], Parsed(files'[s])) /\ Tells(damage'[s], handles[p][s].entries)
        BY <1>1, <1>6, InterruptedTells
    <2>2. \A q \in Processes : IsOpen(q, to) => q = p
        BY <1>1, CallersHold
    <2>3. \A q \in Processes : IsOpen(q, s)' => q = p
        BY <1>2, <1>6, <2>2 DEF IsOpen
    <2>4. IsOpen(p, s)' => Text(p, s)' = handles[p][s].entries
        <3> SUFFICES ASSUME IsOpen(p, s)' PROVE Text(p, s)' = handles[p][s].entries
            OBVIOUS
        <3>1. PICK old \in Seq(Entries(ids)) : old = handles[p][s].entries
            BY HandleFields
        <3>2. old \o <<>> = old
            OBVIOUS
        <3>3. writing'[p].entries = <<>>
            BY <1>3, RestsEmpty
        <3> QED BY <1>4, <3>1, <3>2, <3>3 DEF Text
    <2>5. \A q \in Processes : IsOpen(q, s)' => Tells(damage'[s], Text(q, s)')
        BY <2>1, <2>3, <2>4
    <2> QED BY <2>1, <2>5 DEF Story, Tells, Undamaged
<1> QED BY <1>5, <1>6

LEMMA WriteFailsTells ==
    ASSUME LogInv, Stories, NEW p \in Processes, WriteFails(p)
    PROVE  Stories'
<1>1. writing[p] # NotWriting
    BY RestsEmpty DEF WriteFails
<1>2. PICK from \in Sessions : from = writing[p].from
    BY <1>1, CallersHold
<1> DEFINE H == Only(from, handles[p][from])
<1>3. handles[p][from] \in HandleType
    BY HandleFields
<1>4. H \in [Sessions -> HandleType] /\ \A t \in Sessions : H[t] = IF t = from THEN handles[p][t] ELSE Closed
    BY <1>3, OnlyTyped
<1>5. /\ handles' = [handles EXCEPT ![p] = H] /\ writing' = [writing EXCEPT ![p] = NotWriting]
      /\ WriteInterrupted(p) /\ Damages(p)
    BY <1>2 DEF WriteFails, GivesUp, LogInv, LogTypes
<1> HIDE DEF H
<1> QED BY <1>1, <1>4, <1>5, InterruptionTells

LEMMA CrashTells ==
    ASSUME LogInv, Stories, NEW p \in Processes, Crash(p)
    PROVE  Stories'
<1> DEFINE H == [s \in Sessions |-> Closed]
<1>1. Closed \in HandleType
    BY DEF HandleType, Closed, NoEntry
<1>2. H \in [Sessions -> HandleType] /\ \A t \in Sessions : H[t] = handles[p][t] \/ H[t] = Closed
    BY <1>1
<1>3. /\ handles' = [handles EXCEPT ![p] = H] /\ writing' = [writing EXCEPT ![p] = NotWriting]
      /\ WriteInterrupted(p) /\ Damages(p) /\ writing[p] # NotWriting
    BY DEF Crash
<1> HIDE DEF H
<1> QED BY <1>2, <1>3, InterruptionTells

\* Messages that follow each other, behind what is told.
LEMMA ToldBatch ==
    ASSUME NEW n \in Nat, NEW told \in Seq(Entries(n)), NEW batch \in Seq(Entries(n)), Told(told),
           \A i \in 1..Len(batch) :
               /\ batch[i].kind = "message"
               /\ batch[i].parent = IF i = 1 THEN LeafOf(told) ELSE batch[i - 1].id
    PROVE  Told(told \o batch)
<1> DEFINE P == {j \in Nat : j <= Len(batch) => Told(told \o SubSeq(batch, 1, j))}
<1>1. 0 \in P
    <2>1. SubSeq(batch, 1, 0) = <<>> /\ told \o <<>> = told
        BY WholeBeginning
    <2> QED BY <2>1
<1>2. ASSUME NEW j \in Nat, j \in P PROVE j + 1 \in P
    <2> SUFFICES ASSUME j + 1 <= Len(batch) PROVE Told(told \o SubSeq(batch, 1, j + 1))
        OBVIOUS
    <2>1. j + 1 \in 1..Len(batch) /\ (j + 1) - 1 = j /\ j \in 0..Len(batch) /\ j <= Len(batch)
        OBVIOUS
    <2>2. PICK b \in Seq(Entries(n)), e \in Entries(n) : b = SubSeq(batch, 1, j) /\ e = batch[j + 1]
        <3>1. 1 \in 1..Len(batch) + 1 /\ 1 <= j + 1 /\ batch[j + 1] \in Entries(n)
            BY <2>1
        <3>2. SubSeq(batch, 1, j) \in Seq(Entries(n))
            BY <2>1, <3>1, SubSeqIs
        <3> QED BY <3>1, <3>2
    <2>3. SubSeq(batch, 1, j + 1) = Append(b, e)
        BY <2>1, <2>2, OneByOne
    <2>4. told \o Append(b, e) = Append(told \o b, e)
        BY AppendBehind
    <2> PICK u : u = told \o b
        OBVIOUS
    <2>5. u \in Seq(Entries(n)) /\ u = told \o b
        OBVIOUS
    <2>6. Told(u)
        BY <1>2, <2>1, <2>2, <2>5
    <2>7. e.parent = LeafOf(u)
        <3>1. CASE j = 0
            <4>1. b = <<>> /\ j + 1 = 1 /\ told \o <<>> = told
                BY <2>2, <3>1, WholeBeginning
            <4> QED BY <2>1, <2>2, <2>5, <3>1, <4>1
        <3>2. CASE j # 0
            <4>1. j \in 1..Len(batch) /\ j + 1 # 1
                BY <2>1, <3>2
            <4>2. e.parent = batch[j].id
                BY <2>1, <2>2, <4>1
            <4>3. Len(b) = j /\ b[j] = batch[j]
                <5>1. 1 \in 1..Len(batch) + 1 /\ 1 <= j + 1 /\ j \in 1..(j + 1) - 1 /\ 1 + j - 1 = j
                    BY <2>1, <4>1
                <5>2. /\ Len(SubSeq(batch, 1, j)) = (j + 1) - 1
                      /\ \A i \in 1..(j + 1) - 1 : SubSeq(batch, 1, j)[i] = batch[1 + i - 1]
                    BY <2>1, <5>1, SubSeqIs
                <5> QED BY <2>1, <2>2, <5>1, <5>2
            <4>4. PICK l \in Nat : l = Len(told)
                OBVIOUS
            <4>5. Len(u) = l + j /\ u # <<>> /\ u[l + j] = b[j]
                <5>1. Len(b) = j /\ j \in Nat /\ j # 0
                    BY <4>1, <4>3
                <5>2. /\ Len(told \o b) = Len(told) + Len(b)
                      /\ \A i \in 1..Len(told) + Len(b) :
                            (told \o b)[i] = IF i <= Len(told) THEN told[i] ELSE b[i - Len(told)]
                    BY ConcatProperties
                <5>3. l + j \in 1..Len(told) + Len(b) /\ ~(l + j <= Len(told)) /\ (l + j) - Len(told) = j
                    BY <4>4, <5>1
                <5>4. Len(u) = l + j /\ u[l + j] = b[j]
                    BY <2>5, <4>4, <5>1, <5>2, <5>3
                <5>5. u # <<>>
                    BY <4>4, <5>1, <5>4
                <5> QED BY <5>4, <5>5
            <4> QED BY <4>2, <4>3, <4>5 DEF LeafOf, Last
        <3> QED BY <3>1, <3>2
    <2>8. e.kind = "message"
        BY <2>1, <2>2
    <2>9. Follows(u, e)
        BY <2>7, <2>8 DEF Follows
    <2>10. Told(Append(u, e))
        BY <2>5, <2>6, <2>9, ToldOn
    <2> QED BY <2>3, <2>4, <2>5, <2>10
<1> HIDE DEF P
<1>3. Nat \subseteq P
    BY <1>1, <1>2, InductionOnNat
<1>4. Len(batch) \in P /\ Len(batch) <= Len(batch) /\ SubSeq(batch, 1, Len(batch)) = batch
    BY <1>3, WholeBeginning
<1> QED BY <1>4 DEF P

\* A call that appends entries to what the index tells.
LEMMA AddsTells ==
    ASSUME LogInv, Stories, NEW p \in Processes, NEW session \in Sessions, NEW batch,
           Adds(p, session, batch),
           LET old == handles[p][session].entries
           IN  Tells(damage[session], old) => Tells(damage[session], old \o batch)
    PROVE  Stories'
<1>1. /\ writing[p] = NotWriting /\ IsOpen(p, session)
      /\ writing' = [writing EXCEPT ![p] = Writing(session, session, batch)]
      /\ UNCHANGED <<files, handles, damage>>
    BY DEF Adds, MayAdd, AtRest
<1>2. \A q \in Processes : q # p => writing'[q] = writing[q]
    BY <1>1
<1>3. writing'[p].to = session /\ writing'[p].entries = batch
    BY <1>1 DEF LogInv, LogTypes, Writing
<1>4. \A q \in Processes, s \in Sessions : IsOpen(q, s)' <=> IsOpen(q, s)
    BY <1>1 DEF IsOpen
<1>5. \A q \in Processes : IsOpen(q, session) => q = p
    BY <1>1 DEF LogInv, OneHolder
<1>6. Elsewhere(p, session)
    BY <1>1 DEF Elsewhere
<1>7. Text(p, session) = handles[p][session].entries
    BY <1>6, TextRest
<1> SUFFICES ASSUME NEW s \in Sessions PROVE Story(s)'
    BY DEF Stories
<1>8. CASE s # session
    <2>1. Elsewhere(p, s) /\ Elsewhere(p, s)'
        BY <1>1, <1>3, <1>8 DEF Elsewhere
    <2> QED BY <1>1, <1>2, <2>1, Untouched
<1>9. CASE s = session
    <2>1. Text(p, s)' = handles[p][session].entries \o batch
        BY <1>1, <1>3, <1>9 DEF Text
    <2>2. Tells(damage[s], Text(p, s)')
        BY <1>1, <1>7, <1>9, <2>1 DEF Stories, Story
    <2>3. Settled(s)' => Settled(s)
        BY <1>1, <1>2, <1>6, <1>9 DEF Settled, Elsewhere, Unterminated
    <2>4. \A q \in Processes : IsOpen(q, s)' => Tells(damage'[s], Text(q, s)')
        BY <1>1, <1>4, <1>5, <1>9, <2>2
    <2> QED BY <1>1, <2>3, <2>4 DEF Stories, Story, Undamaged
<1> QED BY <1>8, <1>9

LEMMA AppendMessagesTells ==
    ASSUME LogInv, Stories, NEW p \in Processes, NEW session \in Sessions,
           NEW messages \in Seq(Messages), Answered(messages), AppendMessages(p, session, messages)
    PROVE  Stories'
<1>1. PICK leaf \in 0..ids : leaf = handles[p][session].leaf
    BY CallerKnows
<1> DEFINE E(i) == Entry(ids + i, IF i = 1 THEN leaf ELSE ids + i - 1, "message", messages[i], NoEntry)
           n == ids + Len(messages)
           made == [i \in DOMAIN messages |-> E(i)]
<1>2. ids \in Nat /\ ids + Len(made) <= MaxEntries /\ Adds(p, session, made)
    BY <1>1, CallerKnows DEF AppendMessages, Adds
<1>3. made = [i \in 1..Len(messages) |-> E(i)] /\ Len(messages) \in Nat /\ Len(made) = Len(messages)
    OBVIOUS
<1>4. n \in Nat /\ n <= MaxEntries /\ ids <= n
    BY <1>2, <1>3
<1>5. ASSUME NEW i \in 1..Len(messages) PROVE E(i) \in Entries(n)
    <2>1. PICK parent \in Nat : parent = (IF i = 1 THEN leaf ELSE ids + i - 1)
        BY <1>2
    <2>2. /\ ids + i \in 1..n /\ parent < ids + i /\ messages[i] \in Messages
          /\ NoEntry \in 0..n
        BY <1>2, <1>3, <2>1 DEF NoEntry
    <2>3. Entry(ids + i, parent, "message", messages[i], NoEntry) \in Entries(n)
        <3>1. "message" \in {"message", "compaction", "change"}
            OBVIOUS
        <3> HIDE DEF n
        <3> QED BY <1>4, <2>2, <3>1, EntryMade
    <2> QED BY <2>1, <2>3
<1>6. \A i \in 1..Len(messages) :
          /\ E(i).kind = "message" /\ E(i).id = ids + i /\ E(i).message = messages[i]
          /\ E(i).parent = IF i = 1 THEN leaf ELSE ids + i - 1
    BY DEF Entry
<1> HIDE DEF E, n
<1>7. made \in Seq(Entries(n)) /\ \A i \in 1..Len(messages) : made[i] = E(i)
    BY <1>3, <1>5
<1> PICK batch : batch = made
    OBVIOUS
<1>8. /\ batch \in Seq(Entries(n)) /\ Len(batch) = Len(messages)
      /\ \A i \in 1..Len(messages) : batch[i] = E(i)
      /\ Adds(p, session, batch)
    BY <1>2, <1>3, <1>7
<1> HIDE DEF made
<1>9. PICK old \in Seq(Entries(n)) : old = handles[p][session].entries
    BY <1>2, <1>4, HandleFields, EntriesGrow
<1>10. leaf = LeafOf(old)
    BY <1>1, <1>9, HandleFields
<1>11. \A i \in 1..Len(batch) :
          /\ batch[i].kind = "message"
          /\ batch[i].parent = IF i = 1 THEN LeafOf(old) ELSE batch[i - 1].id
    <2> SUFFICES ASSUME NEW i \in 1..Len(messages)
                 PROVE  /\ batch[i].kind = "message"
                        /\ batch[i].parent = IF i = 1 THEN LeafOf(old) ELSE batch[i - 1].id
        BY <1>8
    <2>1. batch[i].kind = "message" /\ batch[i].parent = IF i = 1 THEN leaf ELSE ids + i - 1
        BY <1>6, <1>8
    <2>2. i # 1 => batch[i - 1].id = ids + i - 1
        <3> SUFFICES ASSUME i # 1 PROVE batch[i - 1].id = ids + i - 1
            OBVIOUS
        <3>1. i - 1 \in 1..Len(messages) /\ ids + (i - 1) = ids + i - 1
            BY <1>2, <1>3
        <3> QED BY <1>6, <1>8, <3>1
    <2> QED BY <1>10, <2>1, <2>2
<1>12. Told(old) => Told(old \o batch)
    BY <1>4, <1>8, <1>11, ToldBatch
<1>13. MessagesOf[batch] = messages
    <2>1. /\ MessagesOf[batch] \in Seq(Messages) /\ Len(MessagesOf[batch]) = Len(batch)
          /\ \A i \in 1..Len(batch) : MessagesOf[batch][i] = batch[i].message
        BY <1>4, <1>8, MessagesAre
    <2>2. \A i \in 1..Len(messages) : MessagesOf[batch][i] = messages[i]
        BY <1>6, <1>8, <2>1
    <2> QED BY <1>8, <2>1, <2>2, SeqEqual
<1>14. Told(old) /\ Replied(old) => Replied(old \o batch)
    BY <1>4, <1>8, <1>11, <1>12, <1>13, RepliedRun
<1>15. Tells(damage[session], old) => Tells(damage[session], old \o batch)
    BY <1>12, <1>14 DEF Tells
<1> QED BY <1>8, <1>9, <1>15, AddsTells

\* One entry, not of a run.
LEMMA AddsOneTells ==
    ASSUME LogInv, Stories, NEW p \in Processes, NEW session \in Sessions,
           NEW kind \in {"message", "compaction", "change"}, NEW first_kept \in 0..ids,
           Adds(p, session, <<Entry(ids + 1, handles[p][session].leaf, kind, UserMessage, first_kept)>>),
           Told(handles[p][session].entries) =>
               Follows(handles[p][session].entries,
                       Entry(ids + 1, handles[p][session].leaf, kind, UserMessage, first_kept))
    PROVE  Stories'
<1>1. PICK leaf \in 0..ids : leaf = handles[p][session].leaf
    BY CallerKnows
<1> PICK e : e = Entry(ids + 1, leaf, kind, UserMessage, first_kept)
    OBVIOUS
<1> PICK n : n = ids + 1
    OBVIOUS
<1>2. ids \in Nat /\ UserMessage \in Messages /\ Len(<<e>>) = 1 /\ Adds(p, session, <<e>>)
    BY <1>1, CallerKnows DEF Messages
<1>3. ids + 1 <= MaxEntries
    BY <1>2 DEF Adds
<1>4. leaf \in Nat /\ leaf < ids + 1 /\ ids + 1 \in 1..n /\ n \in Nat /\ first_kept \in 0..n /\ ids <= n
    BY <1>2
<1>5. e \in Entries(n)
    BY <1>2, <1>3, <1>4, EntryMade
<1>6. e.message = UserMessage
    BY DEF Entry
<1>7. PICK old \in Seq(Entries(n)) : old = handles[p][session].entries
    BY <1>2, <1>4, HandleFields, EntriesGrow
<1>8. Told(old) => Told(Append(old, e))
    BY <1>1, <1>4, <1>5, <1>7, ToldOn
<1>9. Told(old) /\ Replied(old) => Replied(Append(old, e))
    BY <1>4, <1>5, <1>6, <1>8, RepliedOn
<1>10. old \o <<e>> = Append(old, e)
    BY <1>5
<1>11. Tells(damage[session], old) => Tells(damage[session], old \o <<e>>)
    BY <1>8, <1>9, <1>10 DEF Tells
<1> QED BY <1>2, <1>7, <1>11, AddsTells

LEMMA ToldBranch ==
    ASSUME NEW n \in Nat, NEW told \in Seq(Entries(n)), Told(told)
    PROVE  Branch(told, LeafOf(told)) = told /\ Context(told, LeafOf(told)) = Conversation(told)
<1>1. Branch(told, LeafOf(told)) = told
    BY ToldChain, ChainIsBranch
<1> QED BY <1>1 DEF Context, ContextEntries, Conversation

LEMMA CompactTells ==
    ASSUME LogInv, Stories, NEW p \in Processes, NEW session \in Sessions, Compact(p, session)
    PROVE  Stories'
<1>1. PICK cut \in Cuts(MessagesOf[ContextOf(p, session)]) :
          Adds(p, session, <<Entry(ids + 1, handles[p][session].leaf, "compaction",
                                   UserMessage, ContextOf(p, session)[cut + 1].id)>>)
    BY DEF Compact
<1>2. PICK first_kept \in 0..ids : first_kept = ContextOf(p, session)[cut + 1].id
    BY CutEntry
<1>3. PICK old \in Seq(Entries(ids)) : old = handles[p][session].entries
    BY HandleFields
<1>4. handles[p][session].leaf = LeafOf(old) /\ ids \in Nat
    BY <1>3, HandleFields
<1> DEFINE e == Entry(ids + 1, handles[p][session].leaf, "compaction", UserMessage, first_kept)
<1>5. /\ e.parent = LeafOf(old) /\ e.message = UserMessage /\ e.first_kept_entry_id = first_kept
    BY <1>4 DEF Entry
<1>6. Told(old) => ContextOf(p, session) = BranchContext[old]
    BY <1>3, <1>4, ToldBranch DEF ContextOf, ContextEntries
<1> HIDE DEF e
<1>7. ASSUME Told(old) PROVE Follows(old, e)
    <2>1. cut \in Cuts(MessagesOf[BranchContext[old]])
        BY <1>6, <1>7
    <2>2. e.first_kept_entry_id = BranchContext[old][cut + 1].id
        BY <1>2, <1>5, <1>6, <1>7
    <2>3. CutsContext(old, e)
        BY <2>1, <2>2 DEF CutsContext
    <2> QED BY <1>5, <2>3 DEF Follows
<1>8. "compaction" \in {"message", "compaction", "change"}
    OBVIOUS
<1>9. Adds(p, session, <<Entry(ids + 1, handles[p][session].leaf, "compaction", UserMessage, first_kept)>>)
    BY <1>1, <1>2
<1>10. Told(handles[p][session].entries) =>
           Follows(handles[p][session].entries,
                   Entry(ids + 1, handles[p][session].leaf, "compaction", UserMessage, first_kept))
    BY <1>3, <1>7 DEF e
<1> QED BY <1>8, <1>9, <1>10, AddsOneTells

LEMMA AddingTells ==
    ASSUME LogInv, Stories, NEW p \in Processes, NEW session \in Sessions, Adding(p, session)
    PROVE  Stories'
<1>1. CASE Prompt(p, session)
    <2>1. <<UserMessage>> \in Seq(Messages) /\ Answered(<<UserMessage>>)
        BY MessagesShaped
    <2> QED BY <1>1, <2>1, AppendMessagesTells DEF Prompt
<1>2. CASE RunEnds(p, session)
    <2>1. PICK messages \in Runs : AppendMessages(p, session, messages)
        BY <1>2 DEF RunEnds
    <2>2. messages \in Seq(Messages) /\ Answered(messages)
        BY SessionLogAssumption, RunsAnswered
    <2> QED BY <2>1, <2>2, AppendMessagesTells
<1>3. CASE Change(p, session)
    <2>1. NoEntry \in 0..ids /\ "change" \in {"message", "compaction", "change"}
        BY CallerKnows DEF NoEntry
    <2>2. handles[p][session].leaf = LeafOf(handles[p][session].entries)
        BY HandleFields
    <2>3. Follows(handles[p][session].entries,
                  Entry(ids + 1, handles[p][session].leaf, "change", UserMessage, NoEntry))
        BY <2>2 DEF Follows, Entry
    <2> QED BY <1>3, <2>1, <2>3, AddsOneTells DEF Change
<1>4. CASE Compact(p, session)
    BY <1>4, CompactTells
<1> QED BY <1>1, <1>2, <1>3, <1>4 DEF Adding

\* A fork writes what its parent's index tells.
LEMMA ForkStartsTells ==
    ASSUME LogInv, Stories, NEW p \in Processes, NEW session \in Sessions, NEW child \in Sessions,
           ForkStarts(p, session, child)
    PROVE  Stories'
<1> PICK branch : branch = Branch(handles[p][session].entries, handles[p][session].leaf)
    OBVIOUS
<1>1. /\ writing[p] = NotWriting /\ IsOpen(p, session) /\ child \notin created
      /\ handles' = [handles EXCEPT ![p][child] = Manager("open", <<>>)]
      /\ writing' = [writing EXCEPT ![p] = Writing(child, session, branch)]
      /\ damage' = [damage EXCEPT ![child] = damage[session]]
      /\ UNCHANGED files
    BY DEF ForkStarts, AtRest
<1>2. \A q \in Processes : q # p => handles'[q] = handles[q] /\ writing'[q] = writing[q]
    BY <1>1
<1>3. /\ handles'[p][child] = Manager("open", <<>>)
      /\ \A s \in Sessions : s # child => handles'[p][s] = handles[p][s] /\ damage'[s] = damage[s]
      /\ writing'[p] = Writing(child, session, branch) /\ damage'[child] = damage[session]
    BY <1>1 DEF LogInv, LogTypes
<1>4. writing'[p].to = child /\ writing'[p].entries = branch /\ handles'[p][child].entries = <<>>
    BY <1>3 DEF Writing, Manager
<1>5. files[child] = <<>> /\ \A q \in Processes : ~IsOpen(q, child)
    BY <1>1 DEF LogInv, Unmade, IsOpen
<1>6. Elsewhere(p, session)
    BY <1>1 DEF Elsewhere
<1>7. PICK old \in Seq(Entries(ids)) : old = handles[p][session].entries
    BY HandleFields
<1>8. handles[p][session].leaf = LeafOf(old) /\ ids \in Nat
    BY <1>7, HandleFields
<1>9. Tells(damage[session], old)
    BY <1>1, <1>6, <1>7, TextRest DEF Stories, Story
<1>10. Told(old) => branch = old
    BY <1>7, <1>8, ToldBranch
<1>11. Tells(damage[session], branch)
    BY <1>9, <1>10 DEF Tells
<1> SUFFICES ASSUME NEW s \in Sessions PROVE Story(s)'
    BY DEF Stories
<1>12. CASE s = child
    <2>1. branch \in Seq(Entries(ids))
        BY <1>7, <1>8, BranchShape
    <2>2. <<>> \o branch = branch
        BY <2>1
    <2>3. Text(p, s)' = branch
        BY <1>4, <1>12, <2>2 DEF Text
    <2>4. Tells(damage'[s], Text(p, s)')
        BY <1>3, <1>11, <1>12, <2>3
    <2>5. files'[s] = <<>> /\ \A q \in Processes : IsOpen(q, s)' => q = p
        BY <1>1, <1>2, <1>5, <1>12 DEF IsOpen
    <2> QED BY <2>4, <2>5, StoryBegins
<1>13. CASE s # child
    <2>1. Elsewhere(p, s) /\ Elsewhere(p, s)'
        BY <1>1, <1>4, <1>13 DEF Elsewhere
    <2>2. files'[s] = files[s] /\ damage'[s] = damage[s] /\ handles'[p][s] = handles[p][s]
        BY <1>1, <1>3, <1>13
    <2> QED BY <1>2, <2>1, <2>2, Untouched
<1> QED BY <1>12, <1>13

LEMMA StoriesKept ==
    ASSUME LogInv, Stories, [Next]_logVars
    PROVE  Stories'
<1>1. CASE UNCHANGED logVars
    <2>1. UNCHANGED <<files, handles, writing, damage>>
        BY <1>1 DEF logVars
    <2> QED BY <2>1 DEF Stories, Story, Settled, Elsewhere, Text, IsOpen, Undamaged, Unterminated
<1>2. CASE Next
    <2>1. PICK p \in Processes :
             \/ Exits(p) \/ Crash(p) \/ ForkEnds(p)
             \/ WriteEntry(p) \/ WriteFails(p) \/ WriteRefused(p)
             \/ \E session \in Sessions :
                   \/ Opening(p, session) \/ Adding(p, session)
                   \/ \E child \in Sessions : ForkStarts(p, session, child)
        BY <1>2 DEF Next
    <2>2. CASE Exits(p)
        BY <2>2, ExitsTells
    <2>3. CASE Crash(p)
        BY <2>3, CrashTells
    <2>4. CASE ForkEnds(p)
        BY <2>4, ForkEndsTells
    <2>5. CASE WriteEntry(p)
        BY <2>5, WriteEntryTells
    <2>6. CASE WriteFails(p)
        BY <2>6, WriteFailsTells
    <2>7. CASE WriteRefused(p)
        BY <2>7, WriteRefusedTells
    <2>8. ASSUME NEW session \in Sessions, Opening(p, session) PROVE Stories'
        <3>1. CASE NewSession(p, session)
            BY <3>1, NewSessionTells
        <3>2. CASE OpenReads(p, session)
            BY <3>2, OpenReadsTells
        <3>3. CASE OpenLocks(p, session)
            BY <3>3, OpenLocksTells
        <3>4. CASE OpenRefused(p, session)
            BY <3>4, OpenRefusedTells
        <3> QED BY <2>8, <3>1, <3>2, <3>3, <3>4 DEF Opening
    <2>9. ASSUME NEW session \in Sessions, Adding(p, session) PROVE Stories'
        BY <2>9, AddingTells
    <2>10. ASSUME NEW session \in Sessions, NEW child \in Sessions, ForkStarts(p, session, child)
           PROVE  Stories'
        BY <2>10, ForkStartsTells
    <2> QED BY <2>1, <2>2, <2>3, <2>4, <2>5, <2>6, <2>7, <2>8, <2>9, <2>10
<1> QED BY <1>1, <1>2

\* What is told with every call answered goes to the model as pairs.
LEMMA ToldIsPaired ==
    ASSUME NEW n \in Nat, NEW told \in Seq(Entries(n)), Told(told), Replied(told)
    PROVE  Paired(Sanitize(Context(told, LeafOf(told))))
<1>1. PICK c \in Seq(Messages) : c = Conversation(told)
    BY ConversationTyped
<1>2. Answered(c) /\ Shaped(Messages)
    BY <1>1, RepliedEnd, MessagesShaped
<1>3. Paired(Sanitize(c))
    BY <1>2, AnsweredIsPaired
<1> QED BY <1>1, <1>3, ToldBranch

LEMMA ResumesArePaired == LogInv /\ Stories => ResumePaired
<1> SUFFICES ASSUME LogInv, Stories, NEW session \in Sessions, damage[session] = {},
                    \A p \in Processes : writing[p].to # session
             PROVE  /\ Paired(Sanitize(Resumed(session)))
                    /\ \A p \in Processes : IsOpen(p, session) =>
                          Paired(Sanitize(MessagesOf[ContextOf(p, session)]))
    BY DEF ResumePaired
<1>1. \A p \in Processes : Elsewhere(p, session)
    BY DEF Elsewhere
<1>2. Undamaged(damage, session)
    BY DEF Undamaged
<1>3. Paired(Sanitize(Resumed(session)))
    <2>1. ids \in Nat /\ files[session] \in Seq(Lines(ids))
        BY SessionLogAssumption DEF LogInv, LogTypes
    <2>2. PICK told \in Seq(Entries(ids)) : told = Parsed(files[session])
        BY <2>1, ParsedTyped
    <2>3. Told(told) /\ Replied(told)
        BY <1>1, <1>2, <2>2 DEF Stories, Story, Settled
    <2>4. Paired(Sanitize(Context(told, LeafOf(told))))
        BY <2>1, <2>3, ToldIsPaired
    <2> QED BY <2>2, <2>4 DEF Resumed
<1>4. ASSUME NEW p \in Processes, IsOpen(p, session)
      PROVE  Paired(Sanitize(MessagesOf[ContextOf(p, session)]))
    <2>1. PICK told \in Seq(Entries(ids)) : told = handles[p][session].entries
        BY HandleFields
    <2>2. handles[p][session].leaf = LeafOf(told) /\ ids \in Nat
        BY <2>1, HandleFields
    <2>3. Told(told) /\ Replied(told)
        BY <1>1, <1>4, <2>1, TextRest DEF Stories, Story, Tells
    <2>4. Paired(Sanitize(Context(told, LeafOf(told))))
        BY <2>2, <2>3, ToldIsPaired
    <2> QED BY <2>1, <2>2, <2>4 DEF Context, ContextOf
<1> QED BY <1>3, <1>4

LEMMA StoreCuts ==
    ASSUME NEW messages, NEW cut
    PROVE  Store!Cuts(messages) = Cuts(messages) /\ Store!Compacted(messages, cut) = Compacted(messages, cut)
BY DEF Store!Cuts, Store!CutFrom, Store!Compacted, Store!UserMessage, Store!Message, Store!Min,
       Cuts, CutFrom, Compacted, UserMessage, Message, Min

\* The file of a session, and no other, has one entry more, or says the same.
GrowsBy(session, e) == Parsed(files'[session]) = Append(Parsed(files[session]), e)
Grown(session) ==
    /\ \A s \in Sessions : s # session => files'[s] = files[s]
    /\ \/ Parsed(files'[session]) = Parsed(files[session])
       \/ \E e \in Entries(ids) : GrowsBy(session, e)

LEMMA WriteEntryGrows ==
    ASSUME LogInv, NEW p \in Processes, WriteEntry(p), NEW session \in Sessions,
           files'[session] # files[session], Undamaged(damage', session)
    PROVE  Grown(session)
<1>1. writing[p].entries # <<>> /\ writing[p] # NotWriting
    BY RestsEmpty DEF WriteEntry
<1>2. PICK to \in Sessions : to = writing[p].to
    BY <1>1, CallersHold
<1>3. PICK left \in Seq(Entries(ids)) : left = writing[p].entries
    BY <1>1, CallersHold
<1>4. PICK e \in Entries(ids) : e = Head(left)
    BY <1>1, <1>3
<1>5. /\ files' = [files EXCEPT ![to] = WrittenTo(files[to], e, TRUE)]
      /\ damage' = IF Unterminated(files[to])
                   THEN [damage EXCEPT ![to] = @ \cup {"merged"}] ELSE damage
    BY <1>2, <1>3, <1>4 DEF WriteEntry
<1>6. to = session /\ \A s \in Sessions : s # session => files'[s] = files[s]
    <2>1. \A s \in Sessions : s # to => files'[s] = files[s]
        BY <1>5 DEF LogInv, LogTypes
    <2>2. to = session
        BY <2>1
    <2> QED BY <2>1, <2>2
<1>7. ~Unterminated(files[to])
    BY <1>5, <1>6 DEF Undamaged, LogInv, LogTypes
<1>8. files[to] \in Seq(Lines(ids)) /\ files'[to] = WrittenTo(files[to], e, TRUE) /\ ids \in Nat
    BY <1>5, SessionLogAssumption DEF LogInv, LogTypes
<1>9. GrowsBy(session, e)
    BY <1>6, <1>7, <1>8, WrittenParsed DEF GrowsBy
<1> QED BY <1>6, <1>9 DEF Grown

LEMMA InterruptionGrows ==
    ASSUME LogInv, NEW p \in Processes, writing[p] # NotWriting, WriteInterrupted(p), Damages(p),
           NEW session \in Sessions, files'[session] # files[session], Undamaged(damage', session)
    PROVE  Grown(session)
<1>1. session = writing[p].to /\ \A s \in Sessions : s # session => files'[s] = files[s]
    BY Interrupts
<1>2. \/ Parsed(files'[session]) = Parsed(files[session])
      \/ /\ writing[p].entries # <<>>
         /\ Parsed(files'[session]) = Append(Parsed(files[session]), Head(writing[p].entries))
    BY <1>1, InterruptedFile
<1>3. writing[p].entries # <<>> => Head(writing[p].entries) \in Entries(ids)
    BY CallersHold
<1> QED BY <1>1, <1>2, <1>3 DEF Grown, GrowsBy

LEMMA FilesGrow ==
    ASSUME LogInv, [Next]_logVars, NEW session \in Sessions,
           files'[session] # files[session], ~Lossy(session)'
    PROVE  Grown(session)
<1>1. Undamaged(damage', session)
    BY LossyIs
<1>2. Next
    BY DEF logVars
<1>3. PICK p \in Processes :
         \/ Exits(p) \/ Crash(p) \/ ForkEnds(p)
         \/ WriteEntry(p) \/ WriteFails(p) \/ WriteRefused(p)
         \/ \E s \in Sessions :
               \/ Opening(p, s) \/ Adding(p, s)
               \/ \E child \in Sessions : ForkStarts(p, s, child)
    BY <1>2 DEF Next
<1>4. CASE WriteEntry(p)
    BY <1>1, <1>4, WriteEntryGrows
<1>5. CASE Crash(p) \/ WriteFails(p)
    <2>1. writing[p] # NotWriting /\ WriteInterrupted(p) /\ Damages(p)
        BY <1>5, RestsEmpty DEF Crash, WriteFails
    <2> QED BY <1>1, <2>1, InterruptionGrows
<1>6. CASE Exits(p) \/ ForkEnds(p) \/ WriteRefused(p)
    BY <1>6 DEF Exits, ForkEnds, WriteRefused
<1>7. ASSUME NEW s \in Sessions, Opening(p, s) PROVE files' = files
    BY <1>7 DEF Opening, NewSession, OpenReads, OpenLocks, OpenRefused
<1>8. ASSUME NEW s \in Sessions, Adding(p, s) PROVE files' = files
    BY <1>8 DEF Adding, Prompt, RunEnds, Change, Compact, AppendMessages, Adds
<1>9. ASSUME NEW s \in Sessions, NEW child \in Sessions, ForkStarts(p, s, child) PROVE files' = files
    BY <1>9 DEF ForkStarts
<1> QED BY <1>3, <1>4, <1>5, <1>6, <1>7, <1>8, <1>9

\* One more entry changes the conversation as the abstract store does.
LEMMA ResumesGrow ==
    ASSUME LogInv, Stories, Stories', [Next]_logVars, NEW session \in Sessions,
           files'[session] # files[session], Resumed(session)' # Resumed(session), ~Lossy(session)'
    PROVE  Store!Changes(session)
<1>1. Grown(session)
    BY FilesGrow
<1>2. Undamaged(damage', session)
    BY LossyIs
<1>3. PICK n \in Nat : n = ids
    BY SessionLogAssumption DEF LogInv, LogTypes
<1>4. PICK told \in Seq(Entries(n)) : told = Parsed(files[session])
    BY <1>3, ParsedTyped DEF LogInv, LogTypes
<1>5. PICK e \in Entries(n) : Parsed(files'[session]) = Append(told, e)
    <2>1. Parsed(files'[session]) # Parsed(files[session])
        BY DEF Resumed
    <2> QED BY <1>1, <1>3, <1>4, <2>1 DEF Grown, GrowsBy
<1>6. Append(told, e) \in Seq(Entries(n)) /\ Told(Append(told, e))
    <2>1. Story(session)'
        BY DEF Stories
    <2>2. Told(Parsed(files'[session]))
        BY <1>2, <2>1 DEF Story, Undamaged
    <2> QED BY <1>5, <2>2
<1>7. Told(told)
    BY <1>6, ToldOn
<1>8. Resumed(session) = Conversation(told)
    BY <1>4, <1>7, ToldBranch DEF Resumed
<1>9. Resumed(session)' = Conversation(Append(told, e))
    BY <1>5, <1>6, ToldBranch DEF Resumed
<1> DEFINE before == [s \in Sessions |-> Resumed(s)]
           after == [s \in Sessions |-> Resumed(s)']
<1>10. \A s \in Sessions : s # session => Resumed(s)' = Resumed(s)
    BY <1>1 DEF Grown, Resumed
<1>11. after = [before EXCEPT ![session] = Resumed(session)']
    BY <1>10
<1>12. before' = after
    OBVIOUS
<1>13. before[session] = Conversation(told)
    BY <1>8
<1>14. CASE e.kind = "message"
    <2>1. Resumed(session)' = Append(before[session], e.message) /\ e.message \in Messages
        BY <1>6, <1>9, <1>13, <1>14, ConversationOn, EntryFields
    <2>2. Store!AppendMessage(session, e.message)
        BY <1>11, <2>1 DEF Store!AppendMessage
    <2> QED BY <2>1, <2>2 DEF Store!Changes
<1>15. CASE e.kind = "compaction"
    <2>1. PICK cut \in Cuts(Conversation(told)) : Resumed(session)' = Compacted(Conversation(told), cut)
        BY <1>6, <1>9, <1>15, ConversationOn
    <2>2. cut \in Store!Cuts(before[session]) /\ Resumed(session)' = Store!Compacted(before[session], cut)
        BY <1>13, <2>1, StoreCuts
    <2>3. Store!Compact(session)
        BY <1>11, <2>2 DEF Store!Compact
    <2> QED BY <2>3 DEF Store!Changes
<1>16. CASE e.kind = "change"
    <2>1. Resumed(session)' = Resumed(session)
        BY <1>6, <1>8, <1>9, <1>16, ConversationOn
    <2> QED BY <2>1
<1>17. e.kind \in {"message", "compaction", "change"}
    BY EntryFields
<1> QED BY <1>14, <1>15, <1>16, <1>17

LEMMA StoreStarts == Init => Store!Init
<1> SUFFICES ASSUME Init PROVE Store!Init
    OBVIOUS
<1>1. ASSUME NEW s \in Sessions PROVE Resumed(s) = <<>>
    <2>1. Parsed(files[s]) = <<>>
        BY ParsedEmpty DEF Init
    <2>2. PICK n \in Nat : n = 0
        OBVIOUS
    <2> PICK none : none = <<>>
        OBVIOUS
    <2>3. none \in Seq(Entries(n)) /\ none = <<>>
        OBVIOUS
    <2>4. Context(none, LeafOf(none)) = Conversation(none)
        BY <2>3, ToldNone, ToldBranch
    <2> QED BY <2>1, <2>3, <2>4, ConversationNone DEF Resumed
<1> QED BY <1>1 DEF Store!Init

-----------------------------------------------------------------------------
(***************************************************************************)
(* The theorems.                                                           *)
(***************************************************************************)
\* The inductive invariant: who has which session open, and that its index is the file but for
\* an entry without its newline, unless what the design does not defend against happened.
THEOREM LogInvariant == Spec => []LogInv
<1>1. Init => LogInv
    BY LogStarts
<1>2. LogInv /\ [Next]_logVars => LogInv'
    BY LogKept
<1> QED BY <1>1, <1>2, PTL DEF Spec

\* open_session, add_entries: whatever is interleaved, crashes or fails, one process holds a
\* session, and the index it goes on from is the file's.
THEOREM SpecLogSound == Spec => []LogSound
<1>1. LogInv => LogSound
    BY LogTyped, IndexesOnDisk DEF LogSound
<1> QED BY <1>1, LogInvariant, PTL

\* fork_to_child_session: the child has the conversation of its parent.
THEOREM SpecForkKeepsContext == Spec => []ForkKeepsContext
BY ForksKeepContext, LogInvariant, PTL

\* Besides, what the files and the indexes tell: entries that follow each other, and calls with
\* their results, wherever what the design does not defend against did not happen.
THEOREM StoriesInvariant == Spec => [](LogInv /\ Stories)
<1>1. Init => LogInv /\ Stories
    BY LogStarts, StoriesStart
<1>2. LogInv /\ Stories /\ [Next]_logVars => (LogInv /\ Stories)'
    BY LogKept, StoriesKept
<1> QED BY <1>1, <1>2, PTL DEF Spec

\* build_context, sanitize_context_for_request: what a resume or the next request goes on from
\* pairs calls and results, whatever was compacted, forked or interrupted between runs.
THEOREM SpecResumePaired == Spec => []ResumePaired
BY ResumesArePaired, StoriesInvariant, PTL

\* open_session, build_context: the conversations of the files are an implementation of
\* SessionStore, in which history only grows or has its beginning summarized.
THEOREM SpecHistoryKept == Spec => HistoryKept
<1>1. Init => Store!Init
    BY StoreStarts
<1>2. LogInv /\ Stories /\ (LogInv /\ Stories)' /\ [Next]_logVars =>
          [\A session \in Sessions :
              files[session]' # files[session] /\ Resumed(session)' # Resumed(session) =>
                 Store!Changes(session) \/ Lossy(session)']_logVars
    BY ResumesGrow
<1> QED BY <1>1, <1>2, StoriesInvariant, PTL DEF Spec, HistoryKept
=============================================================================
