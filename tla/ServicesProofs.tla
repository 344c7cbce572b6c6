--------------------------- MODULE ServicesProofs ---------------------------
(***************************************************************************)
(* CredentialsSound of Credentials.tla, proved for every number of         *)
(* processes, providers, tokens, faults and operations, and, after it,     *)
(* PromptSound of PromptCache.tla, for every number of files and changes,  *)
(* and RequestsSound of ProviderRequest.tla, for every model and limit.    *)
(*                                                                         *)
(* Credentials.  None of the promises is inductive.  What carries them:    *)
(*   - LockHeld: one refresh of a provider is past its lock, so what it    *)
(*     sends (SentLive) and what it was given (MintedInv) stay live;       *)
(*   - a login's token is in no file, snapshot or process but its own      *)
(*     until it is saved (FreshInv), so nobody can spend it before;        *)
(*   - the stored token is live, or its refresh holds the next one         *)
(*     (StoredLive), unless the entry was displaced or a token was lost;   *)
(*   - a logout that nobody disturbed has emptied what it has visited      *)
(*     (AloneInv), and then no snapshot can bring the entry back (OutInv); *)
(*   - an unreadable auth.json has no reader that goes on to write.        *)
(*                                                                         *)
(* Requests.  A request moves down a ladder it never climbs: what it sends *)
(* next differs from every body it has sent (LeftBehind, AllApart), the    *)
(* changes left count down (ChangesLeft), and its last reply is the reason *)
(* for the next body (Causes).  The limits are arithmetic on the ladder.   *)
(***************************************************************************)
EXTENDS Credentials, PromptCache, ProviderRequest, SequenceTheorems, WellFoundedInduction, TLAPS

-----------------------------------------------------------------------------
(* Values *)

\* What a credential's fields may be: only an OAuth credential carries tokens.
LEMMA CredentialFields ==
    ASSUME NEW c \in Credential
    PROVE  /\ c.kind \in {"none", "api_key", "oauth"}
           /\ c.access \in 0..MaxTokens /\ c.refresh \in 0..MaxTokens
           /\ c.access \in Int /\ c.refresh \in Int
           /\ c.refresh # 0 => c.kind = "oauth"
           /\ c.kind = "none" => c = NoCredential
           /\ c.kind = "oauth" => c.refresh # 0
  BY CredentialsAssumption DEF Credential, NoCredential, ApiKey

LEMMA NoCredentialFields ==
    /\ NoCredential \in Credential /\ ApiKey \in Credential
    /\ NoCredential.kind = "none" /\ NoCredential.access = 0 /\ NoCredential.refresh = 0
    /\ ApiKey.kind = "api_key" /\ ApiKey.access = 0 /\ ApiKey.refresh = 0
  BY DEF Credential, NoCredential, ApiKey

LEMMA OAuthFields ==
    ASSUME NEW a \in 1..MaxTokens, NEW r \in 1..MaxTokens
    PROVE  /\ OAuth(a, r) \in Credential
           /\ OAuth(a, r).kind = "oauth" /\ OAuth(a, r).refresh = r
  BY DEF Credential, OAuth

LEMMA NoEntriesFields ==
    /\ NoEntries \in Entries
    /\ \A p \in Providers : NoEntries[p] = NoCredential
  BY NoCredentialFields DEF NoEntries, Entries

LEMMA NobodyTyped == Nobody \in Providers
  BY CredentialsAssumption DEF Nobody

LEMMA IdleFields ==
    /\ Idle \in ProcessState
    /\ Idle.op = "idle" /\ Idle.at = "idle" /\ Idle.provider = Nobody /\ Idle.file = "auth"
    /\ Idle.snap = NoEntries /\ Idle.minted = NoCredential /\ Idle.alone = TRUE
  BY NobodyTyped, NoEntriesFields, NoCredentialFields DEF Idle, ProcessState, Files

LEMMA ProcessFields ==
    ASSUME NEW v \in ProcessState
    PROVE  /\ v.provider \in Providers /\ v.file \in Files /\ v.snap \in Entries
           /\ v.minted \in Credential /\ v.alone \in BOOLEAN
           /\ \A p \in Providers : v.snap[p] \in Credential
  BY DEF ProcessState, Entries

\* One process ends, or moves on to a place; the others stay where they are.
OthersStay(q) ==
    /\ proc' \in [Processes -> ProcessState]
    /\ \A r \in Processes \ {q} : proc'[r] = proc[r]
Ends(q) == OthersStay(q) /\ proc'[q] = Idle
Carries(q, place, f, snap, minted) ==
    /\ OthersStay(q)
    /\ proc'[q].op = proc[q].op /\ proc'[q].at = place
    /\ proc'[q].provider = proc[q].provider /\ proc'[q].file = f
    /\ proc'[q].snap = snap /\ proc'[q].minted = minted /\ proc'[q].alone = proc[q].alone

AllPlaces ==
    {"idle", "wait", "recheck", "refresh", "save", "write", "delete", "remove", "rename"}

LEMMA FinishEnds ==
    ASSUME proc \in [Processes -> ProcessState], NEW q \in Processes, Finish(q)
    PROVE  Ends(q)
  BY IdleFields DEF Finish, Ends, OthersStay

LEMMA GotoCarries ==
    ASSUME proc \in [Processes -> ProcessState], NEW q \in Processes,
           NEW place \in AllPlaces, Goto(q, place)
    PROVE  Carries(q, place, proc[q].file, proc[q].snap, proc[q].minted)
<1>1. proc[q] \in ProcessState
  OBVIOUS
<1>2. proc' = [proc EXCEPT ![q] = [proc[q] EXCEPT !.at = place]]
  BY DEF Goto
<1>3. [proc[q] EXCEPT !.at = place] \in ProcessState
  BY <1>1 DEF ProcessState, AllPlaces
<1>4. proc'[q] = [proc[q] EXCEPT !.at = place]
  BY <1>2
<1> QED
  BY <1>1, <1>2, <1>3, <1>4 DEF Carries, OthersStay, ProcessState

LEMMA SnapCarries ==
    ASSUME proc \in [Processes -> ProcessState], NEW q \in Processes,
           NEW place \in AllPlaces, NEW snap \in Entries,
           proc' = [proc EXCEPT ![q].at = place, ![q].snap = snap]
    PROVE  Carries(q, place, proc[q].file, snap, proc[q].minted)
<1>1. proc[q] \in ProcessState
  OBVIOUS
<1> DEFINE v == [[proc[q] EXCEPT !.at = place] EXCEPT !.snap = snap]
<1>2. v \in ProcessState
  BY <1>1 DEF ProcessState, AllPlaces
<1>3. proc'[q] = v
  BY <1>1
<1> QED
  BY <1>1, <1>2, <1>3 DEF Carries, OthersStay, ProcessState

LEMMA MintedCarries ==
    ASSUME proc \in [Processes -> ProcessState], NEW q \in Processes,
           NEW place \in AllPlaces, NEW minted \in Credential,
           proc' = [proc EXCEPT ![q].at = place, ![q].minted = minted]
    PROVE  Carries(q, place, proc[q].file, proc[q].snap, minted)
<1>1. proc[q] \in ProcessState
  OBVIOUS
<1> DEFINE v == [[proc[q] EXCEPT !.at = place] EXCEPT !.minted = minted]
<1>2. v \in ProcessState
  BY <1>1 DEF ProcessState, AllPlaces
<1>3. proc'[q] = v
  BY <1>1
<1> QED
  BY <1>1, <1>2, <1>3 DEF Carries, OthersStay, ProcessState

LEMMA FileCarries ==
    ASSUME proc \in [Processes -> ProcessState], NEW q \in Processes,
           NEW place \in AllPlaces, NEW f \in Files,
           proc' = [proc EXCEPT ![q].file = f, ![q].at = place]
    PROVE  Carries(q, place, f, proc[q].snap, proc[q].minted)
<1>1. proc[q] \in ProcessState
  OBVIOUS
<1> DEFINE v == [[proc[q] EXCEPT !.file = f] EXCEPT !.at = place]
<1>2. v \in ProcessState
  BY <1>1 DEF ProcessState, AllPlaces
<1>3. proc'[q] = v
  BY <1>1
<1> QED
  BY <1>1, <1>2, <1>3 DEF Carries, OthersStay, ProcessState

\* A process begins something: what the others had under way is no longer alone.
Beside(v, w) ==
    /\ w.op = v.op /\ w.at = v.at /\ w.provider = v.provider /\ w.file = v.file
    /\ w.snap = v.snap /\ w.minted = v.minted
    /\ w.alone => v = Idle
    /\ v = Idle => w = Idle
Joins(q) ==
    /\ proc' \in [Processes -> ProcessState]
    /\ \A r \in Processes \ {q} : Beside(proc[r], proc'[r])
Begins(q, op, p, place, minted) ==
    /\ proc'[q].op = op /\ proc'[q].provider = p /\ proc'[q].at = place
    /\ proc'[q].minted = minted /\ proc'[q].file = "auth" /\ proc'[q].snap = NoEntries
    /\ proc'[q].alone => \A r \in Processes : proc[r] = Idle

LEMMA OverlappedBeside ==
    ASSUME proc \in [Processes -> ProcessState], NEW q \in Processes
    PROVE  /\ Overlapped(q) \in [Processes -> ProcessState]
           /\ Overlapped(q)[q] = proc[q]
           /\ \A r \in Processes \ {q} : Beside(proc[r], Overlapped(q)[r])
<1>1. ASSUME NEW r \in Processes
      PROVE  /\ [proc[r] EXCEPT !.alone = FALSE] \in ProcessState
             /\ proc[r] # Idle => Beside(proc[r], [proc[r] EXCEPT !.alone = FALSE])
  <2>1. proc[r] \in ProcessState
    OBVIOUS
  <2> QED
    BY <2>1 DEF ProcessState, Beside
<1>2. ASSUME NEW r \in Processes, proc[r] = Idle PROVE Beside(proc[r], proc[r])
  BY <1>2 DEF Beside
<1> QED
  BY <1>1, <1>2 DEF Overlapped

LEMMA StartJoins ==
    ASSUME proc \in [Processes -> ProcessState], NEW q \in Processes,
           NEW op \in Operations, NEW p \in Providers, NEW minted \in Credential,
           NEW place \in {"wait", "save", "delete", "rename"},
           StartWith(q, op, p, place, minted)
    PROVE  Joins(q) /\ Begins(q, op, p, place, minted)
<1> DEFINE alone == \A r \in Processes : proc[r] = Idle
           v == [Idle EXCEPT !.op = op, !.provider = p, !.at = place, !.minted = minted,
                             !.alone = alone]
<1>1. proc' = [Overlapped(q) EXCEPT ![q] = v]
  BY DEF StartWith
<1>2. alone \in BOOLEAN
  BY Zenon
<1> HIDE DEF alone
<1>3. /\ v.op = op /\ v.provider = p /\ v.at = place /\ v.minted = minted
      /\ v.file = "auth" /\ v.snap = NoEntries /\ v.alone = alone
  BY DEF Idle
<1>4. v \in ProcessState
  BY <1>2, IdleFields DEF ProcessState
<1> HIDE DEF v
<1>5. /\ proc' \in [Processes -> ProcessState]
      /\ proc'[q] = v
      /\ \A r \in Processes \ {q} : proc'[r] = Overlapped(q)[r]
  BY <1>1, <1>4, OverlappedBeside
<1>6. Joins(q)
  BY <1>5, OverlappedBeside DEF Joins
<1>7. Begins(q, op, p, place, minted)
  BY <1>3, <1>5 DEF Begins, alone
<1> QED
  BY <1>6, <1>7

-----------------------------------------------------------------------------
(* Types and the lock *)

\* A process that has left its lock alone is past it, or not, as before.
LEMMA LockKept ==
    ASSUME CredentialsTypeOK, NEW q \in Processes, Joins(q), lock' = lock,
           ~ PastLock(q)'
    PROVE  LockHeld'
<1>1. ASSUME NEW r \in Processes, r # q, PastLock(r)' PROVE lock'[proc'[r].provider] = r
  <2>1. PastLock(r) /\ proc'[r].provider = proc[r].provider
    BY <1>1 DEF Joins, Beside, PastLock
  <2> QED
    BY <2>1 DEF CredentialsTypeOK, LockHeld
<1> QED
  BY <1>1 DEF LockHeld

\* A process that ends drops the locks it holds, and no other.
LEMMA LockDropped ==
    ASSUME CredentialsTypeOK, NEW q \in Processes, Finish(q), Unlock(q)
    PROVE  LockHeld' /\ lock' \in [Providers -> Processes \cup {NoOne}]
<1>1. Ends(q)
  BY FinishEnds DEF CredentialsTypeOK
<1>2. ~ PastLock(q)'
  BY <1>1, IdleFields DEF Ends, PastLock
<1>3. ASSUME NEW r \in Processes, r # q, PastLock(r)' PROVE lock'[proc'[r].provider] = r
  <2>1. PastLock(r) /\ proc'[r] = proc[r]
    BY <1>1, <1>3 DEF Ends, OthersStay, PastLock
  <2>2. proc[r].provider \in Providers
    BY ProcessFields DEF CredentialsTypeOK
  <2>3. lock[proc[r].provider] = r
    BY <2>1 DEF CredentialsTypeOK, LockHeld
  <2> QED
    BY <1>3, <2>1, <2>2, <2>3 DEF Unlock, CredentialsTypeOK
<1> QED
  BY <1>2, <1>3 DEF LockHeld, Unlock, CredentialsTypeOK

\* A process that moves on inside its refresh keeps its lock.
LEMMA LockCarried ==
    ASSUME CredentialsTypeOK, NEW q \in Processes, NEW place, NEW f, NEW snap, NEW minted,
           Carries(q, place, f, snap, minted), lock' = lock,
           PastLock(q)' => PastLock(q)
    PROVE  LockHeld'
<1>1. ASSUME NEW r \in Processes, PastLock(r)' PROVE lock'[proc'[r].provider] = r
  <2>1. PastLock(r) /\ proc'[r].provider = proc[r].provider
    BY <1>1 DEF Carries, OthersStay, PastLock
  <2> QED
    BY <2>1 DEF CredentialsTypeOK, LockHeld
<1> QED
  BY <1>1 DEF LockHeld

FileState == [state : {"absent", "ok", "unreadable"}, entries : Entries]

LEMMA FileFields ==
    ASSUME CredentialsTypeOK, NEW f \in Files
    PROVE  /\ file[f] \in FileState
           /\ file[f].entries \in Entries
           /\ \A p \in Providers : file[f].entries[p] \in Credential
  BY DEF CredentialsTypeOK, FileState, Entries

LEMMA StoredTyped ==
    ASSUME CredentialsTypeOK, NEW p \in Providers
    PROVE  Stored(p) \in Credential
  BY FileFields DEF Stored, Files

LEMMA HoldingTyped ==
    ASSUME NEW e \in Entries
    PROVE  /\ Holding(e) \in FileState /\ Holding(e).state = "ok" /\ Holding(e).entries = e
           /\ Absent \in FileState /\ Absent.state = "absent" /\ Absent.entries = NoEntries
  BY NoEntriesFields DEF Holding, Absent, FileState

LEMMA EntryTyped ==
    ASSUME NEW e \in Entries, NEW p \in Providers, NEW c \in Credential
    PROVE  /\ [e EXCEPT ![p] = c] \in Entries
           /\ [e EXCEPT ![p] = c][p] = c
           /\ \A r \in Providers \ {p} : [e EXCEPT ![p] = c][r] = e[r]
  BY DEF Entries

LEMMA CountersTyped ==
    ASSUME CredentialsTypeOK, NEW p \in Providers
    PROVE  /\ issued[p] \in Nat /\ expired[p] \in Nat /\ issued[p] <= MaxTokens
           /\ live[p] \subseteq 1..MaxTokens
<1>1. issued[p] \in 0..MaxTokens /\ expired[p] \in 0..MaxTokens
  BY DEF CredentialsTypeOK
<1>2. live[p] \in SUBSET (1..MaxTokens)
  BY DEF CredentialsTypeOK
<1>3. MaxTokens \in Nat
  BY CredentialsAssumption
<1>4. issued[p] \in Nat /\ expired[p] \in Nat /\ issued[p] <= MaxTokens
  BY <1>1, <1>3
<1> QED
  BY <1>2, <1>4

LEMMA FaultCounted ==
    ASSUME CredentialsTypeOK, faults < MaxFaults, faults' = faults + 1
    PROVE  faults' \in 0..MaxFaults
<1>1. faults \in 0..MaxFaults /\ MaxFaults \in Nat
  BY CredentialsAssumption DEF CredentialsTypeOK
<1> QED
  BY <1>1

LEMMA OperationCounted ==
    ASSUME CredentialsTypeOK, Counted
    PROVE  operations' \in 0..MaxOperations
<1>1. operations \in 0..MaxOperations /\ MaxOperations \in Nat
  BY CredentialsAssumption DEF CredentialsTypeOK
<1> QED
  BY <1>1 DEF Counted

-----------------------------------------------------------------------------
(* What each action does to the processes, and that it keeps the types *)

LEMMA InitTypes == CredentialsInit => CredentialsTypeOK
<1> SUFFICES ASSUME CredentialsInit PROVE CredentialsTypeOK
  OBVIOUS
<1> USE DEF Files
<1>1. \A p \in Providers : OAuth(1, 1) \in Credential
  BY OAuthFields, CredentialsAssumption
<1>2. [Providers -> {NoCredential, ApiKey, OAuth(1, 1)}] \subseteq Entries
  BY <1>1, NoCredentialFields DEF Entries
<1> DEFINE Starts ==
             {Absent, [state |-> "unreadable", entries |-> NoEntries]} \cup
             {Holding(entries) : entries \in
                {e \in [Providers -> {NoCredential, ApiKey, OAuth(1, 1)}] :
                    \A p \in Providers \ Rotating : e[p].kind # "oauth"}}
<1>a. ASSUME NEW auth \in Starts PROVE auth \in FileState
  <2>1. CASE auth = Absent
    BY <2>1, HoldingTyped, NoEntriesFields
  <2>2. CASE auth = [state |-> "unreadable", entries |-> NoEntries]
    BY <2>2, NoEntriesFields DEF FileState
  <2>3. ASSUME NEW e \in [Providers -> {NoCredential, ApiKey, OAuth(1, 1)}], auth = Holding(e)
        PROVE  auth \in FileState
    BY <1>2, <2>3, HoldingTyped
  <2> QED
    BY <2>1, <2>2, <2>3
<1>b. \E auth \in Starts : file = [f \in Files |-> IF f = "auth" THEN auth ELSE Absent]
  BY DEF CredentialsInit
<1> HIDE DEF Starts
<1>3. PICK auth \in FileState : file = [f \in Files |-> IF f = "auth" THEN auth ELSE Absent]
  BY <1>a, <1>b
<1>4. file \in [Files -> FileState]
  <2>1. Absent \in FileState
    BY NoEntriesFields DEF Absent, FileState
  <2> QED
    BY <1>3, <2>1
<1>5. issued \in [Providers -> 0..MaxTokens] /\ \A p \in Providers : issued[p] \in 0..1
  BY CredentialsAssumption DEF CredentialsInit
<1>6. live \in [Providers -> SUBSET (1..MaxTokens)]
  BY <1>5, CredentialsAssumption DEF CredentialsInit
<1>7. proc \in [Processes -> ProcessState]
  BY IdleFields DEF CredentialsInit
<1>8. LockHeld
  BY IdleFields DEF CredentialsInit, LockHeld, PastLock
<1>9. member \in [Providers -> {"never", "in", "leaving", "out", "told out"}]
  BY DEF CredentialsInit
<1>10. /\ lock \in [Providers -> Processes \cup {NoOne}]
       /\ expired \in [Providers -> 0..MaxTokens]
       /\ keyring \subseteq Providers
       /\ faults \in 0..MaxFaults /\ operations \in 0..MaxOperations
       /\ displaced \subseteq Providers /\ burnt \subseteq Providers /\ refused \subseteq Providers
  BY <1>5, CredentialsAssumption DEF CredentialsInit
<1> QED
  BY <1>4, <1>5, <1>6, <1>7, <1>8, <1>9, <1>10 DEF CredentialsTypeOK, FileState

LEMMA TakeLockTypes ==
    ASSUME CredentialsTypeOK, NEW q \in Processes, TakeLock(q)
    PROVE  CredentialsTypeOK' /\ Carries(q, "recheck", proc[q].file, proc[q].snap, proc[q].minted)
<1>1. Carries(q, "recheck", proc[q].file, proc[q].snap, proc[q].minted)
  BY GotoCarries DEF CredentialsTypeOK, TakeLock, AllPlaces
<1>2. proc[q].provider \in Providers /\ lock' \in [Providers -> Processes \cup {NoOne}]
  BY ProcessFields DEF CredentialsTypeOK, TakeLock
<1>3. ASSUME NEW r \in Processes, PastLock(r)' PROVE lock'[proc'[r].provider] = r
  <2>1. CASE r = q
    BY <1>1, <1>2, <2>1 DEF Carries, TakeLock, CredentialsTypeOK
  <2>2. CASE r # q
    <3>1. PastLock(r) /\ proc'[r] = proc[r]
      BY <1>1, <1>3, <2>2 DEF Carries, OthersStay, PastLock
    <3>2. proc[r].provider \in Providers /\ lock[proc[r].provider] = r
      BY <3>1, ProcessFields DEF CredentialsTypeOK, LockHeld
    <3>3. proc[q].provider # proc[r].provider
      BY <3>2, CredentialsAssumption DEF TakeLock
    <3>4. lock'[proc[r].provider] = lock[proc[r].provider]
      BY <3>2, <3>3 DEF TakeLock, CredentialsTypeOK
    <3> QED
      BY <3>1, <3>2, <3>4
  <2> QED
    BY <2>1, <2>2
<1>4. LockHeld'
  BY <1>3 DEF LockHeld
<1> QED
  BY <1>1, <1>2, <1>4 DEF CredentialsTypeOK, TakeLock, Carries, OthersStay, disk, endpoint, history

LEMMA LockTimeoutTypes ==
    ASSUME CredentialsTypeOK, NEW q \in Processes, LockTimeout(q)
    PROVE  CredentialsTypeOK' /\ Ends(q)
<1>1. Ends(q)
  BY FinishEnds DEF CredentialsTypeOK, LockTimeout
<1>2. ASSUME NEW r \in Processes, PastLock(r)' PROVE lock'[proc'[r].provider] = r
  <2>1. r # q
    BY <1>1, <1>2, IdleFields DEF Ends, PastLock
  <2>2. PastLock(r) /\ proc'[r] = proc[r]
    BY <1>1, <1>2, <2>1 DEF Ends, OthersStay, PastLock
  <2> QED
    BY <2>2 DEF CredentialsTypeOK, LockHeld, LockTimeout
<1> QED
  BY <1>1, <1>2
     DEF CredentialsTypeOK, LockTimeout, LockHeld, Ends, OthersStay, disk, endpoint, history

LEMMA RecheckTypes ==
    ASSUME CredentialsTypeOK, NEW q \in Processes, Recheck(q)
    PROVE  /\ CredentialsTypeOK'
           /\ \/ Ends(q) /\ Finish(q) /\ Unlock(q)
              \/ /\ Stored(proc[q].provider).kind = "oauth"
                 /\ Carries(q, "refresh", proc[q].file, proc[q].snap, Stored(proc[q].provider))
<1> DEFINE current == Stored(proc[q].provider)
<1>1. current \in Credential
  BY StoredTyped, ProcessFields DEF CredentialsTypeOK
<1> HIDE DEF current
<1>2. \/ Finish(q) /\ Unlock(q)
      \/ /\ proc' = [proc EXCEPT ![q].at = "refresh", ![q].minted = current]
         /\ lock' = lock /\ current.kind = "oauth"
  BY DEF Recheck, current
<1>3. CASE Finish(q) /\ Unlock(q)
  <2>1. Ends(q) /\ LockHeld' /\ lock' \in [Providers -> Processes \cup {NoOne}]
    BY <1>3, FinishEnds, LockDropped DEF CredentialsTypeOK
  <2> QED
    BY <1>3, <2>1 DEF CredentialsTypeOK, Recheck, Ends, OthersStay, disk, endpoint, history
<1>4. CASE /\ proc' = [proc EXCEPT ![q].at = "refresh", ![q].minted = current]
           /\ lock' = lock /\ current.kind = "oauth"
  <2>1. Carries(q, "refresh", proc[q].file, proc[q].snap, current)
    BY <1>1, <1>4, MintedCarries DEF CredentialsTypeOK, AllPlaces
  <2>2. PastLock(q)' => PastLock(q)
    BY <2>1 DEF Carries, PastLock, Recheck
  <2>3. LockHeld'
    BY <1>4, <2>1, <2>2, LockCarried
  <2>4. CredentialsTypeOK'
    BY <1>4, <2>1, <2>3
       DEF CredentialsTypeOK, Recheck, Carries, OthersStay, disk, endpoint, history
  <2> QED
    BY <1>4, <2>1, <2>4 DEF current
<1> QED
  BY <1>2, <1>3, <1>4

\* The endpoint's answer, by its four outcomes.
Minted(q) ==
    OAuth(issued[proc[q].provider] + 1,
          IF proc[q].provider \in Rotating THEN issued[proc[q].provider] + 1
          ELSE proc[q].minted.refresh)
Granted(q) ==
    LET p == proc[q].provider
        spent == proc[q].minted.refresh
    IN  /\ spent \in live[p] /\ issued[p] + 1 <= MaxTokens
        /\ issued' = [issued EXCEPT ![p] = issued[p] + 1]
        /\ live' = [live EXCEPT ![p] = (live[p] \ {spent}) \cup {Minted(q).refresh}]
        /\ refused' = refused

LEMMA RefreshAnsweredTypes ==
    ASSUME CredentialsTypeOK, NEW q \in Processes, RefreshAnswered(q)
    PROVE  /\ CredentialsTypeOK'
           /\ Minted(q).refresh =
                 IF proc[q].provider \in Rotating THEN issued[proc[q].provider] + 1
                 ELSE proc[q].minted.refresh
           /\ \/ /\ Granted(q) /\ Minted(q).kind = "oauth" /\ burnt' = burnt
                 /\ Carries(q, "save", proc[q].file, proc[q].snap, Minted(q))
              \/ /\ Granted(q) /\ Ends(q)
                 /\ burnt' = IF proc[q].provider \in Rotating THEN burnt \cup {proc[q].provider}
                             ELSE burnt
              \/ /\ proc[q].minted.refresh \notin live[proc[q].provider]
                 /\ Ends(q) /\ issued' = issued /\ live' = live /\ burnt' = burnt
                 /\ refused' = refused \cup {proc[q].provider}
<1> DEFINE p == proc[q].provider
           spent == proc[q].minted.refresh
           fresh == issued[p] + 1
           next == IF p \in Rotating THEN fresh ELSE spent
<1>0. proc[q] \in ProcessState
  BY DEF CredentialsTypeOK
<1>1. /\ p \in Providers /\ proc[q].minted \in Credential /\ issued[p] \in Nat
      /\ live[p] \subseteq 1..MaxTokens
  <2>1. p \in Providers /\ proc[q].minted \in Credential
    BY <1>0, ProcessFields
  <2>2. issued[p] \in Nat /\ live[p] \subseteq 1..MaxTokens
    BY <2>1, CountersTyped
  <2> QED
    BY <2>1, <2>2
<1>2. Minted(q).refresh = next /\ Minted(q).kind = "oauth"
  BY DEF Minted, OAuth
<1>3. /\ UNCHANGED <<operations, file, keyring, expired, member, displaced>>
      /\ proc[q].at = "refresh"
  BY DEF RefreshAnswered, disk
<1>4. CASE spent \in live[p] /\ fresh <= MaxTokens /\ refused' = refused
           /\ issued' = [issued EXCEPT ![p] = fresh]
           /\ live' = [live EXCEPT ![p] = (@ \ {spent}) \cup {next}]
  <2>1. fresh \in 1..MaxTokens /\ next \in 1..MaxTokens
    BY <1>1, <1>4, CredentialsAssumption
  <2>2. Minted(q) \in Credential
    BY <2>1, OAuthFields DEF Minted
  <2>3. Granted(q)
    BY <1>2, <1>4 DEF Granted
  <2>4. /\ issued' \in [Providers -> 0..MaxTokens]
        /\ live' \in [Providers -> SUBSET (1..MaxTokens)]
    <3>1. fresh \in 0..MaxTokens
      BY <2>1
    <3>2. (live[p] \ {spent}) \cup {next} \in SUBSET (1..MaxTokens)
      BY <1>1, <2>1
    <3> HIDE DEF fresh, next, spent, p
    <3> QED
      BY <1>1, <1>4, <3>1, <3>2 DEF CredentialsTypeOK
  <2> HIDE DEF fresh, next, spent
  <2>5. CASE /\ proc' = [proc EXCEPT ![q].at = "save", ![q].minted = Minted(q)]
             /\ UNCHANGED <<lock, burnt, faults>>
    <3>1. Carries(q, "save", proc[q].file, proc[q].snap, Minted(q))
      BY <2>2, <2>5, MintedCarries DEF CredentialsTypeOK, AllPlaces
    <3>2. PastLock(q)' => PastLock(q)
      BY <1>3, <3>1 DEF Carries, PastLock
    <3>3. LockHeld'
      BY <2>5, <3>1, <3>2, LockCarried
    <3>4. CredentialsTypeOK'
      BY <1>3, <1>4, <2>4, <2>5, <3>1, <3>3 DEF CredentialsTypeOK, Carries, OthersStay
    <3> QED
      BY <1>2, <2>3, <2>5, <3>1, <3>4 DEF next, fresh, spent
  <2>6. CASE /\ faults < MaxFaults /\ faults' = faults + 1
             /\ burnt' = IF p \in Rotating THEN burnt \cup {p} ELSE burnt
             /\ Finish(q) /\ Unlock(q)
    <3>1. Ends(q) /\ LockHeld' /\ lock' \in [Providers -> Processes \cup {NoOne}]
      BY <2>6, FinishEnds, LockDropped DEF CredentialsTypeOK
    <3>2. faults' \in 0..MaxFaults
      BY <2>6, FaultCounted
    <3>5. burnt' \subseteq Providers
      BY <1>1, <2>6 DEF CredentialsTypeOK
    <3>3. CredentialsTypeOK'
      BY <1>3, <1>4, <2>4, <3>1, <3>2, <3>5 DEF CredentialsTypeOK, Ends, OthersStay
    <3> QED
      BY <1>2, <2>3, <2>6, <3>1, <3>3 DEF next, fresh, spent
  <2> QED
    BY <1>4, <2>5, <2>6, <1>3 DEF RefreshAnswered, Minted, next, fresh, spent
<1>5. CASE spent \notin live[p] /\ refused' = refused \cup {p} /\ Finish(q) /\ Unlock(q)
           /\ UNCHANGED <<issued, live, burnt, faults>>
  <2>1. Ends(q) /\ LockHeld' /\ lock' \in [Providers -> Processes \cup {NoOne}]
    BY <1>5, FinishEnds, LockDropped DEF CredentialsTypeOK
  <2>2. CredentialsTypeOK'
    BY <1>1, <1>3, <1>5, <2>1 DEF CredentialsTypeOK, Ends, OthersStay
  <2> QED
    BY <1>2, <1>5, <2>1, <2>2
<1> QED
  BY <1>4, <1>5 DEF RefreshAnswered

LEMMA ReadForSaveTypes ==
    ASSUME CredentialsTypeOK, NEW q \in Processes, ReadForSave(q)
    PROVE  /\ CredentialsTypeOK'
           /\ \/ /\ file["auth"].state = "unreadable" /\ Ends(q)
                 /\ burnt' = IF proc[q].op = "resolve" /\ proc[q].provider \in Rotating
                             THEN burnt \cup {proc[q].provider} ELSE burnt
              \/ /\ file["auth"].state # "unreadable" /\ burnt' = burnt
                 /\ Carries(q, "write", proc[q].file, file["auth"].entries, proc[q].minted)
<1> DEFINE p == proc[q].provider
<1>1. p \in Providers /\ file["auth"].entries \in Entries
  BY ProcessFields, FileFields DEF CredentialsTypeOK, Files
<1>2. /\ UNCHANGED <<operations, file, keyring, issued, live, expired, faults, member,
                     displaced, refused>>
      /\ proc[q].at = "save"
  BY DEF ReadForSave, disk, endpoint
<1>3. CASE file["auth"].state = "unreadable"
  <2>1. /\ Finish(q) /\ Unlock(q)
        /\ burnt' = IF proc[q].op = "resolve" /\ p \in Rotating
                    THEN burnt \cup {p} ELSE burnt
    BY <1>3 DEF ReadForSave
  <2>2. Ends(q) /\ LockHeld' /\ lock' \in [Providers -> Processes \cup {NoOne}]
    BY <2>1, FinishEnds, LockDropped DEF CredentialsTypeOK
  <2>3. burnt' \subseteq Providers
    BY <1>1, <2>1 DEF CredentialsTypeOK
  <2>4. CredentialsTypeOK'
    BY <1>2, <2>2, <2>3 DEF CredentialsTypeOK, Ends, OthersStay
  <2> QED
    BY <1>3, <2>1, <2>2, <2>4
<1>4. CASE file["auth"].state # "unreadable"
  <2>1. /\ proc' = [proc EXCEPT ![q].at = "write", ![q].snap = file["auth"].entries]
        /\ lock' = lock /\ burnt' = burnt
    BY <1>4 DEF ReadForSave
  <2>2. Carries(q, "write", proc[q].file, file["auth"].entries, proc[q].minted)
    BY <1>1, <2>1, SnapCarries DEF CredentialsTypeOK, AllPlaces
  <2>3. PastLock(q)' => PastLock(q)
    BY <1>2, <2>2 DEF Carries, PastLock
  <2>4. LockHeld'
    BY <2>1, <2>2, <2>3, LockCarried
  <2>5. CredentialsTypeOK'
    BY <1>2, <2>1, <2>2, <2>4 DEF CredentialsTypeOK, Carries, OthersStay
  <2> QED
    BY <1>4, <2>1, <2>2, <2>5
<1> QED
  BY <1>3, <1>4

\* What a save inserts.
Entry(q) == IF proc[q].op = "set_key" THEN ApiKey ELSE proc[q].minted
\* The store a save or a removal writes.
Saved(q) == [proc[q].snap EXCEPT ![proc[q].provider] = Entry(q)]
Rest(q) == [proc[q].snap EXCEPT ![proc[q].provider] = NoCredential]
Replaced(q) == IF Rest(q) = NoEntries THEN Absent ELSE Holding(Rest(q))

LEMMA SavedTyped ==
    ASSUME CredentialsTypeOK, NEW q \in Processes
    PROVE  /\ Entry(q) \in Credential /\ Saved(q) \in Entries /\ Rest(q) \in Entries
           /\ Saved(q)[proc[q].provider] = Entry(q)
           /\ Rest(q)[proc[q].provider] = NoCredential
           /\ \A r \in Providers \ {proc[q].provider} :
                 Saved(q)[r] = proc[q].snap[r] /\ Rest(q)[r] = proc[q].snap[r]
           /\ Replaced(q) \in FileState
           /\ Replaced(q).entries = Rest(q)
           /\ Replaced(q).state = IF Rest(q) = NoEntries THEN "absent" ELSE "ok"
<1>1. /\ proc[q].provider \in Providers /\ proc[q].snap \in Entries
      /\ proc[q].minted \in Credential
  BY ProcessFields DEF CredentialsTypeOK
<1>2. Entry(q) \in Credential
  BY <1>1, NoCredentialFields DEF Entry
<1>3. /\ Saved(q) \in Entries
      /\ Saved(q)[proc[q].provider] = Entry(q)
      /\ \A r \in Providers \ {proc[q].provider} : Saved(q)[r] = proc[q].snap[r]
  BY <1>1, <1>2, EntryTyped DEF Saved
<1>4. /\ Rest(q) \in Entries
      /\ Rest(q)[proc[q].provider] = NoCredential
      /\ \A r \in Providers \ {proc[q].provider} : Rest(q)[r] = proc[q].snap[r]
  BY <1>1, NoCredentialFields, EntryTyped DEF Rest
<1>5. /\ Replaced(q) \in FileState
      /\ Replaced(q).entries = Rest(q)
      /\ Replaced(q).state = IF Rest(q) = NoEntries THEN "absent" ELSE "ok"
  BY <1>4, HoldingTyped DEF Replaced
<1> QED
  BY <1>2, <1>3, <1>4, <1>5

\* A file is replaced; the other one stays.
Writes(f, state) ==
    /\ file' \in [Files -> FileState]
    /\ file'[f] = state
    /\ \A g \in Files \ {f} : file'[g] = file[g]

LEMMA WritesTo ==
    ASSUME CredentialsTypeOK, NEW f \in Files, NEW state \in FileState,
           file' = [file EXCEPT ![f] = state]
    PROVE  Writes(f, state)
  BY DEF Writes, CredentialsTypeOK, FileState

LEMMA WriteSaveTypes ==
    ASSUME CredentialsTypeOK, NEW q \in Processes, WriteSave(q)
    PROVE  CredentialsTypeOK' /\ Ends(q) /\ Writes("auth", Holding(Saved(q)))
<1> DEFINE p == proc[q].provider
<1>1. p \in Providers
  BY ProcessFields DEF CredentialsTypeOK
<1>2. Ends(q) /\ LockHeld' /\ lock' \in [Providers -> Processes \cup {NoOne}]
  BY FinishEnds, LockDropped DEF CredentialsTypeOK, WriteSave
<1>3. file' = [file EXCEPT !["auth"] = Holding(Saved(q))]
  BY DEF WriteSave, Saved, Entry
<1>4. Writes("auth", Holding(Saved(q)))
  BY <1>3, SavedTyped, HoldingTyped, WritesTo DEF Files
<1>5. member' \in [Providers -> {"never", "in", "leaving", "out", "told out"}]
  BY <1>1 DEF WriteSave, CredentialsTypeOK
<1>6. displaced' \subseteq Providers
  BY DEF WriteSave, CredentialsTypeOK, Overwritten, Backup
<1>7. UNCHANGED <<operations, keyring, issued, live, expired, faults, burnt, refused>>
  BY DEF WriteSave, endpoint
<1> QED
  BY <1>2, <1>4, <1>5, <1>6, <1>7 DEF CredentialsTypeOK, FileState, Ends, OthersStay, Writes

LEMMA WriteFailsTypes ==
    ASSUME CredentialsTypeOK, NEW q \in Processes, WriteFails(q)
    PROVE  CredentialsTypeOK' /\ Ends(q)
<1>1. Ends(q) /\ LockHeld' /\ lock' \in [Providers -> Processes \cup {NoOne}]
  BY FinishEnds, LockDropped DEF CredentialsTypeOK, WriteFails
<1>2. faults' \in 0..MaxFaults
  BY FaultCounted DEF WriteFails
<1>3. burnt' \subseteq Providers
  BY ProcessFields DEF WriteFails, CredentialsTypeOK
<1>4. UNCHANGED <<operations, file, keyring, issued, live, expired, member, displaced, refused>>
  BY DEF WriteFails, disk, endpoint
<1> QED
  BY <1>1, <1>2, <1>3, <1>4 DEF CredentialsTypeOK, Ends, OthersStay

LEMMA CrashTypes ==
    ASSUME CredentialsTypeOK, NEW q \in Processes, Crash(q)
    PROVE  CredentialsTypeOK' /\ Ends(q)
<1>1. Ends(q) /\ LockHeld' /\ lock' \in [Providers -> Processes \cup {NoOne}]
  BY FinishEnds, LockDropped DEF CredentialsTypeOK, Crash
<1>2. faults' \in 0..MaxFaults
  BY FaultCounted DEF Crash
<1>3. burnt' \subseteq Providers
  BY ProcessFields DEF Crash, CredentialsTypeOK
<1>4. UNCHANGED <<operations, file, keyring, issued, live, expired, member, displaced, refused>>
  BY DEF Crash, disk, endpoint
<1> QED
  BY <1>1, <1>2, <1>3, <1>4 DEF CredentialsTypeOK, Ends, OthersStay

\* The last file is done, or the next one comes.
LEMMA AfterDeleteMoves ==
    ASSUME CredentialsTypeOK, NEW q \in Processes,
           NEW told \in [Providers -> {"never", "in", "leaving", "out", "told out"}],
           AfterDelete(q, told)
    PROVE  /\ member' \in [Providers -> {"never", "in", "leaving", "out", "told out"}]
           /\ \/ /\ proc[q].file = "auth" /\ member' = told
                 /\ Carries(q, "delete", "migrated", proc[q].snap, proc[q].minted)
              \/ /\ proc[q].file = "migrated" /\ Ends(q)
                 /\ member' = IF /\ file["auth"].state # "unreadable"
                                 /\ told[proc[q].provider] = "leaving" /\ proc[q].alone
                              THEN [told EXCEPT ![proc[q].provider] = "out"] ELSE told
<1>1. proc[q].file \in {"auth", "migrated"} /\ proc[q].provider \in Providers
  BY ProcessFields DEF CredentialsTypeOK, Files
<1>2. CASE proc[q].file = "auth"
  <2>1. /\ proc' = [proc EXCEPT ![q].file = "migrated", ![q].at = "delete"]
        /\ member' = told
    BY <1>2 DEF AfterDelete
  <2>2. Carries(q, "delete", "migrated", proc[q].snap, proc[q].minted)
    BY <2>1, FileCarries DEF CredentialsTypeOK, AllPlaces, Files
  <2> QED
    BY <1>2, <2>1, <2>2
<1>3. CASE proc[q].file = "migrated"
  <2>1. /\ Finish(q)
        /\ member' = IF /\ file["auth"].state # "unreadable"
                        /\ told[proc[q].provider] = "leaving" /\ proc[q].alone
                     THEN [told EXCEPT ![proc[q].provider] = "out"] ELSE told
    BY <1>3 DEF AfterDelete
  <2>2. Ends(q)
    BY <2>1, FinishEnds DEF CredentialsTypeOK
  <2> QED
    BY <1>1, <1>3, <2>1, <2>2
<1> QED
  BY <1>1, <1>2, <1>3

\* A deletion holds no lock.
LEMMA DeletingLocks ==
    ASSUME CredentialsTypeOK, NEW q \in Processes, lock' = lock,
           OthersStay(q), proc'[q].at \in {"idle", "delete", "remove", "rename"}
    PROVE  LockHeld'
<1>1. ASSUME NEW r \in Processes, PastLock(r)' PROVE lock'[proc'[r].provider] = r
  <2>1. PastLock(r) /\ proc'[r] = proc[r]
    BY <1>1 DEF OthersStay, PastLock
  <2> QED
    BY <2>1 DEF CredentialsTypeOK, LockHeld
<1> QED
  BY <1>1 DEF LockHeld

LEMMA ReadForDeleteTypes ==
    ASSUME CredentialsTypeOK, NEW q \in Processes, ReadForDelete(q)
    PROVE  /\ CredentialsTypeOK'
           /\ \/ /\ file[proc[q].file].entries[proc[q].provider] = NoCredential
                 /\ \/ /\ proc[q].file = "auth" /\ member' = member
                       /\ Carries(q, "delete", "migrated", proc[q].snap, proc[q].minted)
                    \/ /\ proc[q].file = "migrated" /\ Ends(q)
                       /\ member' = IF /\ file["auth"].state # "unreadable"
                                       /\ member[proc[q].provider] = "leaving" /\ proc[q].alone
                                    THEN [member EXCEPT ![proc[q].provider] = "out"] ELSE member
              \/ /\ file[proc[q].file].entries[proc[q].provider] # NoCredential
                 /\ member' = member
                 /\ Carries(q, "remove", proc[q].file, file[proc[q].file].entries,
                            proc[q].minted)
<1>1. proc[q].file \in Files /\ file[proc[q].file].entries \in Entries
  BY ProcessFields, FileFields DEF CredentialsTypeOK
<1>2. UNCHANGED <<operations, file, keyring, lock, issued, live, expired, faults, displaced,
                  burnt, refused>>
  BY DEF ReadForDelete, disk, endpoint
<1>3. CASE file[proc[q].file].entries[proc[q].provider] = NoCredential
  <2>1. AfterDelete(q, member)
    BY <1>3 DEF ReadForDelete
  <2>2. member \in [Providers -> {"never", "in", "leaving", "out", "told out"}]
    BY DEF CredentialsTypeOK
  <2>3. /\ member' \in [Providers -> {"never", "in", "leaving", "out", "told out"}]
        /\ \/ /\ proc[q].file = "auth" /\ member' = member
              /\ Carries(q, "delete", "migrated", proc[q].snap, proc[q].minted)
           \/ /\ proc[q].file = "migrated" /\ Ends(q)
              /\ member' = IF /\ file["auth"].state # "unreadable"
                              /\ member[proc[q].provider] = "leaving" /\ proc[q].alone
                           THEN [member EXCEPT ![proc[q].provider] = "out"] ELSE member
    BY <2>1, <2>2, AfterDeleteMoves
  <2>4. OthersStay(q) /\ proc'[q].at \in {"idle", "delete"}
    BY <2>3, IdleFields DEF Carries, Ends
  <2>5. LockHeld'
    BY <1>2, <2>4, DeletingLocks
  <2>6. CredentialsTypeOK'
    BY <1>2, <2>3, <2>4, <2>5 DEF CredentialsTypeOK, OthersStay
  <2> QED
    BY <1>3, <2>3, <2>6
<1>4. CASE file[proc[q].file].entries[proc[q].provider] # NoCredential
  <2>1. /\ proc' = [proc EXCEPT ![q].at = "remove", ![q].snap = file[proc[q].file].entries]
        /\ member' = member
    BY <1>4 DEF ReadForDelete
  <2>2. Carries(q, "remove", proc[q].file, file[proc[q].file].entries, proc[q].minted)
    BY <1>1, <2>1, SnapCarries DEF CredentialsTypeOK, AllPlaces
  <2>3. LockHeld'
    BY <1>2, <2>2, DeletingLocks DEF Carries
  <2>4. CredentialsTypeOK'
    BY <1>2, <2>1, <2>2, <2>3 DEF CredentialsTypeOK, Carries, OthersStay
  <2> QED
    BY <1>4, <2>1, <2>2, <2>4
<1> QED
  BY <1>3, <1>4

Left(q) == [member EXCEPT ![proc[q].provider] = "leaving"]
LEMMA RemoveEntryTypes ==
    ASSUME CredentialsTypeOK, NEW q \in Processes, RemoveEntry(q)
    PROVE  /\ CredentialsTypeOK'
           /\ Writes(proc[q].file, Replaced(q))
           /\ \/ /\ proc[q].file = "auth" /\ member' = Left(q)
                 /\ Carries(q, "delete", "migrated", proc[q].snap, proc[q].minted)
              \/ /\ proc[q].file = "migrated" /\ Ends(q)
                 /\ member' = IF file["auth"].state # "unreadable" /\ proc[q].alone
                              THEN [Left(q) EXCEPT ![proc[q].provider] = "out"] ELSE Left(q)
<1> DEFINE p == proc[q].provider
<1>1. p \in Providers /\ proc[q].file \in Files
  BY ProcessFields DEF CredentialsTypeOK
<1>2. /\ UNCHANGED <<operations, keyring, lock, issued, live, expired, faults, burnt, refused>>
      /\ file' = [file EXCEPT ![proc[q].file] = Replaced(q)]
      /\ AfterDelete(q, Left(q))
  BY DEF RemoveEntry, endpoint, Replaced, Rest, Left
<1>3. Writes(proc[q].file, Replaced(q))
  BY <1>1, <1>2, SavedTyped, WritesTo
<1>4. Left(q) \in [Providers -> {"never", "in", "leaving", "out", "told out"}]
      /\ Left(q)[p] = "leaving"
  BY <1>1 DEF CredentialsTypeOK, Left
<1>5. /\ member' \in [Providers -> {"never", "in", "leaving", "out", "told out"}]
      /\ \/ /\ proc[q].file = "auth" /\ member' = Left(q)
            /\ Carries(q, "delete", "migrated", proc[q].snap, proc[q].minted)
         \/ /\ proc[q].file = "migrated" /\ Ends(q)
            /\ member' = IF file["auth"].state # "unreadable" /\ proc[q].alone
                         THEN [Left(q) EXCEPT ![proc[q].provider] = "out"] ELSE Left(q)
  BY <1>2, <1>4, AfterDeleteMoves
<1>6. OthersStay(q) /\ proc'[q].at \in {"idle", "delete"}
  BY <1>5, IdleFields DEF Carries, Ends
<1>7. LockHeld'
  BY <1>2, <1>6, DeletingLocks
<1>8. displaced' \subseteq Providers
  BY DEF RemoveEntry, CredentialsTypeOK, Overwritten, Backup
<1>9. CredentialsTypeOK'
  BY <1>2, <1>3, <1>5, <1>6, <1>7, <1>8
     DEF CredentialsTypeOK, FileState, OthersStay, Writes
<1> QED
  BY <1>3, <1>5, <1>9

LEMMA ResolveTypes ==
    ASSUME CredentialsTypeOK, NEW q \in Processes, NEW p \in Providers, Resolve(q, p)
    PROVE  CredentialsTypeOK' /\ Joins(q) /\ Begins(q, "resolve", p, "wait", Stored(p))
<1>1. Joins(q) /\ Begins(q, "resolve", p, "wait", Stored(p)) /\ Counted
  BY StartJoins, StoredTyped DEF CredentialsTypeOK, Resolve, Operations, StartWith
<1>2. LockHeld'
  BY <1>1, LockKept DEF Begins, PastLock, Resolve
<1>3. UNCHANGED <<file, keyring, lock, issued, live, expired, faults, member, displaced,
                  burnt, refused>>
  BY DEF Resolve, disk, endpoint, history
<1> QED
  BY <1>1, <1>2, <1>3, OperationCounted DEF CredentialsTypeOK, Joins

\* The grant of a login.
Grant(p) == OAuth(issued[p] + 1, issued[p] + 1)

LEMMA LoginTypes ==
    ASSUME CredentialsTypeOK, NEW q \in Processes, NEW p \in Providers, Login(q, p)
    PROVE  /\ CredentialsTypeOK' /\ Joins(q) /\ Begins(q, "login", p, "save", Grant(p))
           /\ Grant(p).kind = "oauth" /\ Grant(p).refresh = issued[p] + 1
<1>1. issued[p] + 1 \in 1..MaxTokens
  BY CountersTyped, CredentialsAssumption DEF Login
<1>2. Grant(p) \in Credential /\ Grant(p).kind = "oauth" /\ Grant(p).refresh = issued[p] + 1
  BY <1>1, OAuthFields DEF Grant
<1>3. StartWith(q, "login", p, "save", Grant(p))
  BY DEF Login, Grant
<1>4. Joins(q) /\ Begins(q, "login", p, "save", Grant(p)) /\ Counted
  BY <1>2, <1>3, StartJoins DEF CredentialsTypeOK, Operations, StartWith
<1>5. LockHeld'
  BY <1>4, LockKept DEF Begins, PastLock, Login
<1>6. /\ UNCHANGED <<file, keyring, lock, expired, faults, member, displaced, burnt, refused>>
      /\ issued' = [issued EXCEPT ![p] = issued[p] + 1]
      /\ live' = [live EXCEPT ![p] = live[p] \cup {issued[p] + 1}]
  BY DEF Login, disk, history
<1>7. issued' \in [Providers -> 0..MaxTokens]
  <2>1. issued[p] + 1 \in 0..MaxTokens
    BY <1>1
  <2> QED
    BY <1>6, <2>1 DEF CredentialsTypeOK
<1>8. live' \in [Providers -> SUBSET (1..MaxTokens)]
  <2>1. live[p] \cup {issued[p] + 1} \in SUBSET (1..MaxTokens)
    BY <1>1, CountersTyped
  <2> QED
    BY <1>6, <2>1 DEF CredentialsTypeOK
<1> QED
  BY <1>2, <1>4, <1>5, <1>6, <1>7, <1>8, OperationCounted DEF CredentialsTypeOK, Joins

LEMMA SetKeyTypes ==
    ASSUME CredentialsTypeOK, NEW q \in Processes, NEW p \in Providers, SetKey(q, p)
    PROVE  CredentialsTypeOK' /\ Joins(q) /\ Begins(q, "set_key", p, "save", NoCredential)
<1>1. StartWith(q, "set_key", p, "save", NoCredential)
  BY DEF SetKey, Start
<1>2. Joins(q) /\ Begins(q, "set_key", p, "save", NoCredential) /\ Counted
  BY <1>1, StartJoins, NoCredentialFields DEF CredentialsTypeOK, Operations, StartWith
<1>3. LockHeld'
  BY <1>2, LockKept DEF Begins, PastLock, SetKey
<1>4. /\ UNCHANGED <<file, lock, issued, live, expired, faults, displaced, burnt, refused>>
      /\ keyring' \subseteq Providers
      /\ member' \in [Providers -> {"never", "in", "leaving", "out", "told out"}]
  BY DEF SetKey, endpoint, CredentialsTypeOK
<1> QED
  BY <1>2, <1>3, <1>4, OperationCounted DEF CredentialsTypeOK, Joins

LEMMA LogoutTypes ==
    ASSUME CredentialsTypeOK, NEW q \in Processes, NEW p \in Providers, Logout(q, p)
    PROVE  /\ CredentialsTypeOK'
           /\ \/ /\ proc' = proc /\ keyring' = keyring
                 /\ member' = [member EXCEPT ![p] = "told out"]
              \/ /\ keyring' = keyring \ {p}
                 /\ member' = [member EXCEPT ![p] = "leaving"]
                 /\ Joins(q) /\ Begins(q, "logout", p, "delete", NoCredential)
<1>1. UNCHANGED <<file, lock, issued, live, expired, faults, displaced, burnt, refused>>
  BY DEF Logout, endpoint
<1>2. CASE Stored(p) = NoCredential
  <2>1. /\ proc' = proc /\ keyring' = keyring /\ Counted
        /\ member' = [member EXCEPT ![p] = "told out"]
    BY <1>2 DEF Logout
  <2>2. CredentialsTypeOK'
    BY <1>1, <2>1, OperationCounted DEF CredentialsTypeOK, LockHeld, PastLock
  <2> QED
    BY <2>1, <2>2
<1>3. CASE Stored(p) # NoCredential
  <2>1. /\ keyring' = keyring \ {p}
        /\ member' = [member EXCEPT ![p] = "leaving"]
        /\ StartWith(q, "logout", p, "delete", NoCredential)
    BY <1>3 DEF Logout, Start
  <2>2. Joins(q) /\ Begins(q, "logout", p, "delete", NoCredential) /\ Counted
    BY <2>1, StartJoins, NoCredentialFields DEF CredentialsTypeOK, Operations, StartWith
  <2>3. LockHeld'
    BY <1>1, <2>2, LockKept DEF Begins, PastLock
  <2>4. CredentialsTypeOK'
    BY <1>1, <2>1, <2>2, <2>3, OperationCounted DEF CredentialsTypeOK, Joins
  <2> QED
    BY <2>1, <2>2, <2>4
<1> QED
  BY <1>2, <1>3

Keys == {p \in Providers : file["auth"].entries[p].kind = "api_key"}
LEMMA MigrateTypes ==
    ASSUME CredentialsTypeOK, NEW q \in Processes, Migrate(q)
    PROVE  /\ CredentialsTypeOK'
           /\ file["auth"].state = "ok" /\ file["migrated"].state = "absent"
           /\ Joins(q)
           /\ \E copied \in SUBSET Keys : keyring' = keyring \cup copied
           /\ \/ Begins(q, "migrate", Nobody, "rename", NoCredential)
              \/ proc'[q] = Idle
<1>1. /\ UNCHANGED <<file, lock, issued, live, expired, faults, member, displaced, burnt, refused>>
      /\ proc[q] = Idle
      /\ file["auth"].state = "ok" /\ file["migrated"].state = "absent"
  BY DEF Migrate, endpoint, history
<1>2. CASE /\ keyring' = keyring \cup Keys
           /\ Start(q, "migrate", Nobody, "rename")
  <2>1. StartWith(q, "migrate", Nobody, "rename", NoCredential)
    BY <1>2 DEF Start
  <2>2. Joins(q) /\ Begins(q, "migrate", Nobody, "rename", NoCredential) /\ Counted
    BY <2>1, StartJoins, NoCredentialFields, NobodyTyped
       DEF CredentialsTypeOK, Operations, StartWith
  <2>3. LockHeld'
    BY <1>1, <2>2, LockKept DEF Begins, PastLock
  <2>4. keyring' \subseteq Providers
    BY <1>2 DEF CredentialsTypeOK, Keys
  <2>5. CredentialsTypeOK'
    BY <1>1, <2>2, <2>3, <2>4, OperationCounted DEF CredentialsTypeOK, Joins
  <2> QED
    BY <1>1, <1>2, <2>2, <2>5
<1>3. CASE /\ \E copied \in SUBSET Keys : keyring' = keyring \cup copied
           /\ proc' = Overlapped(q) /\ Counted
  <2>1. Joins(q) /\ proc'[q] = Idle
    BY <1>1, <1>3, OverlappedBeside DEF Joins, CredentialsTypeOK
  <2>2. LockHeld'
    BY <1>1, <2>1, LockKept, IdleFields DEF PastLock
  <2>3. keyring' \subseteq Providers
    BY <1>3 DEF CredentialsTypeOK, Keys
  <2>4. CredentialsTypeOK'
    BY <1>1, <1>3, <2>1, <2>2, <2>3, OperationCounted DEF CredentialsTypeOK, Joins
  <2> QED
    BY <1>1, <1>3, <2>1, <2>4
<1> QED
  BY <1>2, <1>3 DEF Migrate, Keys

LEMMA RenameTypes ==
    ASSUME CredentialsTypeOK, NEW q \in Processes, Rename(q)
    PROVE  /\ CredentialsTypeOK' /\ Ends(q)
           /\ \/ file["auth"].state = "absent" /\ file' = file
              \/ /\ file["auth"].state # "absent"
                 /\ file'["migrated"] = file["auth"] /\ file'["auth"] = Absent
<1>1. Ends(q)
  BY FinishEnds DEF CredentialsTypeOK, Rename
<1>2. LockHeld'
  BY <1>1, DeletingLocks, IdleFields DEF Rename, Ends
<1>3. UNCHANGED <<operations, keyring, lock, issued, live, expired, faults, member, displaced,
                  burnt, refused>>
  BY DEF Rename, endpoint, history
<1>4. /\ file' \in [Files -> FileState]
      /\ \/ file["auth"].state = "absent" /\ file' = file
         \/ /\ file["auth"].state # "absent"
            /\ file'["migrated"] = file["auth"] /\ file'["auth"] = Absent
  <2>1. file \in [Files -> FileState]
    BY DEF CredentialsTypeOK, FileState
  <2>2. CASE file["auth"].state = "absent"
    BY <2>1, <2>2 DEF Rename
  <2>3. CASE file["auth"].state # "absent"
    <3>1. file' = [file EXCEPT !["migrated"] = file["auth"], !["auth"] = Absent]
      BY <2>3 DEF Rename
    <3>2. Absent \in FileState
      BY NoEntriesFields DEF Absent, FileState
    <3> QED
      BY <2>1, <2>3, <3>1, <3>2 DEF Files
  <2> QED
    BY <2>2, <2>3
<1> QED
  BY <1>1, <1>2, <1>3, <1>4 DEF CredentialsTypeOK, FileState, Ends, OthersStay

LEMMA TokenExpiresTypes ==
    ASSUME CredentialsTypeOK, NEW p \in Providers, TokenExpires(p)
    PROVE  CredentialsTypeOK'
<1>1. UNCHANGED <<operations, file, keyring, lock, proc, issued, live, faults, member, displaced,
                  burnt, refused>>
  BY DEF TokenExpires, disk, history
<1>2. expired' \in [Providers -> 0..MaxTokens]
  BY DEF TokenExpires, CredentialsTypeOK
<1> QED
  BY <1>1, <1>2 DEF CredentialsTypeOK, LockHeld, PastLock

-----------------------------------------------------------------------------
(* The inductive invariant *)

Saves(q) == proc[q].at \in {"save", "write"}
Refreshes(q, p) == proc[q].op = "resolve" /\ proc[q].provider = p /\ Saves(q)

\* The places of each operation, and what it holds there.
InPlace(v) ==
    /\ v.op = "idle" => v = Idle
    /\ v.at = "idle" => v.op = "idle"
    /\ v.at \in {"wait", "recheck", "refresh"} => v.op = "resolve"
    /\ v.at \in {"save", "write"} => v.op \in {"resolve", "login", "set_key"}
    /\ v.op = "login" => v.at \in {"save", "write"}
    /\ v.at \in {"delete", "remove"} <=> v.op = "logout"
    /\ v.at = "rename" => v.op = "migrate"
    /\ v.op \in {"resolve", "login"} => v.minted.kind = "oauth"
    /\ v.file # "auth" => v.op = "logout"
Places == \A q \in Processes : InPlace(proc[q])

\* A file that is absent or unreadable shows no entry.
FilesInv == \A f \in Files : file[f].state # "ok" => file[f].entries = NoEntries

\* auth.json is unreadable from the start or never, and nobody writes on it then.
UnreadableInv ==
    file["auth"].state = "unreadable" =>
        /\ file["migrated"].state = "absent"
        /\ \A q \in Processes : proc[q].at \notin {"write", "rename", "remove"}

\* Every refresh token anywhere has been issued.
IssuedInv ==
    \A p \in Providers :
        /\ \A token \in live[p] : token <= issued[p]
        /\ \A f \in Files : file[f].entries[p].refresh <= issued[p]
        /\ \A q \in Processes :
              /\ proc[q].snap[p].refresh <= issued[p]
              /\ proc[q].provider = p => proc[q].minted.refresh <= issued[p]

\* The token of a login not yet saved is known to its process only.
Unknown(token, p, q) ==
    /\ \A f \in Files : file[f].entries[p].refresh # token
    /\ \A r \in Processes : proc[r].snap[p].refresh # token
    /\ \A r \in Processes \ {q} : proc[r].provider = p => proc[r].minted.refresh # token
FreshInv ==
    \A q \in Processes : proc[q].op = "login" =>
        Unknown(proc[q].minted.refresh, proc[q].provider, q)

\* What the endpoint minted is live until it is saved.
MintedInv ==
    \A q \in Processes : Saves(q) /\ proc[q].op # "set_key" =>
        proc[q].minted.refresh \in live[proc[q].provider]

\* The stored token is live, unless its provider rotates and a refresh has the next.
LiveOrNext(p) ==
    Stored(p).refresh # 0 =>
        \/ Stored(p).refresh \in live[p]
        \/ p \in Rotating /\ \E q \in Processes : Refreshes(q, p)
StoredLive == \A p \in Providers \ (displaced \cup burnt) : LiveOrNext(p)

\* A token about to be sent is live.
SentLive ==
    \A q \in Processes :
        proc[q].at = "refresh" /\ proc[q].provider \notin displaced \cup burnt =>
            proc[q].minted.refresh \in live[proc[q].provider]

StoredInv ==
    \A p \in Providers \ displaced :
        member[p] = "in" => p \in keyring \/ Stored(p) # NoCredential

\* What a logout that nobody disturbs has done so far.
Undisturbed(q) ==
    LET p == proc[q].provider
    IN  /\ \A r \in Processes \ {q} : proc[r] = Idle
        /\ p \notin keyring
        /\ proc[q].file = "migrated" => file["auth"].entries[p] = NoCredential
AloneInv == \A q \in Processes : proc[q].op = "logout" /\ proc[q].alone => Undisturbed(q)

\* After a completed logout no file, snapshot or process holds a credential.
Emptied(p) ==
    /\ p \notin keyring
    /\ \A f \in Files : file[f].entries[p] = NoCredential
    /\ \A q \in Processes :
          /\ proc[q].snap[p] = NoCredential
          /\ proc[q].op \in {"resolve", "logout"} => proc[q].provider # p
OutInv == \A p \in Providers : member[p] = "out" => Emptied(p)

PlacesInv == Places /\ FilesInv /\ UnreadableInv
TokensInv == IssuedInv /\ FreshInv /\ MintedInv /\ StoredLive /\ SentLive
MembersInv == StoredInv /\ AloneInv /\ OutInv
CredentialsInv == PlacesInv /\ TokensInv /\ MembersInv

-----------------------------------------------------------------------------
(* Steps that change no file, no member and nothing at the endpoint *)

LEMMA Tokens ==
    ASSUME CredentialsTypeOK, NEW p \in Providers
    PROVE  /\ \A f \in Files : file[f].entries[p].refresh \in Nat
           /\ \A q \in Processes : proc[q].snap[p].refresh \in Nat
                                   /\ proc[q].minted.refresh \in Nat
           /\ Stored(p).refresh \in Nat
           /\ issued[p] \in Nat
           /\ live[p] \subseteq Nat
<1>0. ASSUME NEW c \in Credential PROVE c.refresh \in Nat
  BY CredentialFields, CredentialsAssumption
<1>1. \A f \in Files : file[f].entries[p] \in Credential
  BY FileFields
<1>2. ASSUME NEW q \in Processes PROVE proc[q].snap[p] \in Credential /\ proc[q].minted \in Credential
  BY ProcessFields DEF CredentialsTypeOK
<1>3. Stored(p) \in Credential
  BY StoredTyped
<1>4. issued[p] \in Nat /\ live[p] \subseteq Nat
  BY CountersTyped
<1> QED
  BY <1>0, <1>1, <1>2, <1>3, <1>4

\* Stored(p) is the entry of one of the files.
LEMMA StoredEntry ==
    ASSUME NEW p \in Providers
    PROVE  \E f \in Files : Stored(p) = file[f].entries[p]
  BY DEF Stored, Files

LEMMA LoginToken ==
    ASSUME CredentialsTypeOK, Places, NEW q \in Processes, proc[q].op = "login"
    PROVE  proc[q].minted.refresh # 0
<1>1. proc[q].minted \in Credential
  BY ProcessFields DEF CredentialsTypeOK
<1>2. proc[q].minted.kind = "oauth"
  BY DEF Places, InPlace
<1> QED
  BY <1>1, <1>2, CredentialFields

LEMMA IdleInPlace == InPlace(Idle)
  BY IdleFields DEF InPlace

LEMMA PlacesKept ==
    ASSUME Places, NEW q \in Processes, OthersStay(q) \/ Joins(q), InPlace(proc'[q])
    PROVE  Places'
<1>1. ASSUME NEW r \in Processes, r # q PROVE InPlace(proc'[r])
  <2>1. InPlace(proc[r])
    BY DEF Places
  <2>2. CASE OthersStay(q)
    BY <1>1, <2>1, <2>2 DEF OthersStay
  <2>3. CASE Joins(q)
    <3>1. Beside(proc[r], proc'[r])
      BY <1>1, <2>3 DEF Joins
    <3> QED
      BY <2>1, <3>1 DEF Beside, InPlace
  <2> QED
    BY <2>2, <2>3
<1> QED
  BY <1>1 DEF Places, InPlace

\* A process ends; a token it was about to save is lost.
LEMMA QuietEnd ==
    ASSUME CredentialsTypeOK, CredentialsInv, NEW q \in Processes, Ends(q),
           UNCHANGED <<file, keyring, issued, live, displaced>>,
           \A p \in Providers :
              member'[p] = member[p] \/ (member'[p] = "out" /\ Emptied(p)'),
           burnt \subseteq burnt',
           \A p \in Rotating : Refreshes(q, p) => p \in burnt'
    PROVE  CredentialsInv'
<1> USE DEF CredentialsInv, PlacesInv, TokensInv, MembersInv
<1>1. Places'
  BY PlacesKept, IdleInPlace DEF Ends
<1>2. FilesInv' /\ UnreadableInv'
  BY IdleFields DEF FilesInv, UnreadableInv, Ends, OthersStay
<1>3. \A r \in Processes : r # q => proc'[r] = proc[r]
  BY DEF Ends, OthersStay
<1>4. proc'[q] = Idle
  BY DEF Ends
<1>5. IssuedInv'
  BY <1>3, <1>4, IdleFields, NoEntriesFields, NoCredentialFields, Tokens DEF IssuedInv
<1>6. FreshInv'
  <2>1. ASSUME NEW r \in Processes, proc'[r].op = "login"
        PROVE  Unknown(proc[r].minted.refresh, proc[r].provider, r)'
    <3>1. r # q /\ proc'[r] = proc[r] /\ proc[r].op = "login"
      BY <1>3, <1>4, <2>1, IdleFields
    <3>2. Unknown(proc[r].minted.refresh, proc[r].provider, r) /\ proc[r].minted.refresh # 0
      BY <3>1, LoginToken DEF FreshInv
    <3>3. proc[r].provider \in Providers
      BY ProcessFields DEF CredentialsTypeOK
    <3> QED
      BY <1>3, <1>4, <3>1, <3>2, <3>3, IdleFields, NoEntriesFields, NoCredentialFields
         DEF Unknown
  <2> QED
    BY <2>1 DEF FreshInv
<1>7. MintedInv'
  BY <1>3, <1>4, IdleFields DEF MintedInv, Saves
<1>8. StoredLive'
  <2>1. ASSUME NEW p \in Providers, p \notin displaced \cup burnt', Stored(p).refresh # 0,
               Stored(p).refresh \notin live[p]
        PROVE  p \in Rotating /\ \E r \in Processes : Refreshes(r, p)'
    <3>1. LiveOrNext(p)
      BY <2>1 DEF StoredLive
    <3>2. PICK r \in Processes : Refreshes(r, p)
      BY <2>1, <3>1 DEF LiveOrNext
    <3>3. p \in Rotating
      BY <2>1, <3>1 DEF LiveOrNext
    <3>4. r # q
      BY <2>1, <3>2, <3>3
    <3> QED
      BY <1>3, <3>2, <3>3, <3>4 DEF Refreshes, Saves
  <2> QED
    BY <2>1 DEF StoredLive, LiveOrNext, Stored
<1>9. SentLive'
  BY <1>3, <1>4, IdleFields DEF SentLive
<1>10. StoredInv'
  BY DEF StoredInv, Stored
<1>11. AloneInv'
  BY <1>3, <1>4, IdleFields DEF AloneInv, Undisturbed
<1>12. OutInv'
  <2>1. ASSUME NEW p \in Providers, Emptied(p) PROVE Emptied(p)'
    BY <1>3, <1>4, <2>1, IdleFields, NoEntriesFields DEF Emptied
  <2> QED
    BY <2>1 DEF OutInv
<1> QED
  BY <1>1, <1>2, <1>5, <1>6, <1>7, <1>8, <1>9, <1>10, <1>11, <1>12

\* A process moves on, having read a file perhaps.
LEMMA QuietCarry ==
    ASSUME CredentialsTypeOK, CredentialsInv, NEW q \in Processes,
           NEW place \in AllPlaces \ {"idle"}, NEW f \in Files, NEW snap \in Entries,
           NEW minted \in Credential, Carries(q, place, f, snap, minted),
           \/ f = proc[q].file
           \/ file["auth"].entries[proc[q].provider] = NoCredential,
           UNCHANGED <<file, keyring, issued, live, member, displaced, burnt>>,
           InPlace(proc'[q]),
           file["auth"].state = "unreadable" => place \notin {"write", "rename", "remove"},
           snap = proc[q].snap \/ \E g \in Files : snap = file[g].entries,
           \/ minted = proc[q].minted
           \/ proc[q].op = "resolve" /\ minted = Stored(proc[q].provider),
           place \in {"save", "write"} <=> Saves(q),
           Saves(q) => minted = proc[q].minted,
           place = "refresh" /\ proc[q].provider \notin displaced \cup burnt =>
              minted.refresh \in live[proc[q].provider]
    PROVE  CredentialsInv'
<1> USE DEF CredentialsInv, PlacesInv, TokensInv, MembersInv
<1>1. Places'
  BY PlacesKept DEF Carries
<1>2. FilesInv' /\ UnreadableInv'
  BY DEF FilesInv, UnreadableInv, Carries, OthersStay
<1>3. \A r \in Processes : r # q => proc'[r] = proc[r]
  BY DEF Carries, OthersStay
<1>4. /\ proc'[q].op = proc[q].op /\ proc'[q].at = place
      /\ proc'[q].provider = proc[q].provider /\ proc'[q].file = f
      /\ proc'[q].snap = snap /\ proc'[q].minted = minted /\ proc'[q].alone = proc[q].alone
  BY DEF Carries
<1>p. proc[q].provider \in Providers
  BY ProcessFields DEF CredentialsTypeOK
<1>5. IssuedInv'
  <2>1. ASSUME NEW p \in Providers PROVE snap[p].refresh <= issued[p]
    BY DEF IssuedInv
  <2>2. minted.refresh <= issued[proc[q].provider]
    BY <1>p, StoredEntry DEF IssuedInv
  <2> QED
    BY <1>3, <1>4, <2>1, <2>2 DEF IssuedInv
<1>6. FreshInv'
  <2>1. ASSUME NEW r \in Processes, proc'[r].op = "login"
        PROVE  Unknown(proc[r].minted.refresh, proc[r].provider, r)'
    <3>1. /\ proc'[r].provider = proc[r].provider /\ proc'[r].minted = proc[r].minted
          /\ proc[r].op = "login" /\ proc[r].provider \in Providers
      <4>1. proc[r].provider \in Providers
        BY ProcessFields DEF CredentialsTypeOK
      <4> QED
        BY <1>3, <1>4, <2>1, <4>1
    <3>2. Unknown(proc[r].minted.refresh, proc[r].provider, r)
      BY <3>1 DEF FreshInv
    <3>3. snap[proc[r].provider].refresh # proc[r].minted.refresh
      BY <3>1, <3>2 DEF Unknown
    <3>4. r # q /\ proc[q].provider = proc[r].provider =>
             minted.refresh # proc[r].minted.refresh
      BY <3>1, <3>2, StoredEntry DEF Unknown
    <3>5. PICK p \in Providers : p = proc[r].provider
      BY <3>1
    <3>6. PICK token : token = proc[r].minted.refresh
      OBVIOUS
    <3>7. ASSUME NEW f1 \in Files PROVE file'[f1].entries[p].refresh # token
      BY <3>2, <3>5, <3>6 DEF Unknown, Carries, OthersStay
    <3>8. ASSUME NEW z \in Processes PROVE proc'[z].snap[p].refresh # token
      BY <1>3, <1>4, <3>2, <3>3, <3>5, <3>6 DEF Unknown
    <3>9. ASSUME NEW z \in Processes \ {r}, proc'[z].provider = p
          PROVE  proc'[z].minted.refresh # token
      BY <1>3, <1>4, <3>2, <3>4, <3>5, <3>6, <3>9 DEF Unknown
    <3> QED
      BY <3>1, <3>5, <3>6, <3>7, <3>8, <3>9 DEF Unknown
  <2> QED
    BY <2>1 DEF FreshInv
<1>7. MintedInv'
  BY <1>3, <1>4 DEF MintedInv, Saves
<1>8. StoredLive'
  <2>1. ASSUME NEW p \in Providers, NEW r \in Processes, Refreshes(r, p) PROVE Refreshes(r, p)'
    BY <1>3, <1>4, <2>1 DEF Refreshes, Saves
  <2> QED
    BY <2>1 DEF StoredLive, LiveOrNext, Stored
<1>9. SentLive'
  BY <1>3, <1>4 DEF SentLive
<1>10. StoredInv'
  BY DEF StoredInv, Stored
<1>11. AloneInv'
  <2>1. ASSUME NEW r \in Processes, proc'[r].op = "logout" /\ proc'[r].alone
        PROVE  Undisturbed(r)'
    <3>1. proc[r].op = "logout" /\ proc[r].alone /\ Undisturbed(r)
      BY <1>3, <1>4, <2>1 DEF AloneInv
    <3>2. proc[q] # Idle
      BY <1>4, IdleFields DEF InPlace, Places, Carries
    <3>3. r = q
      BY <3>1, <3>2 DEF Undisturbed
    <3> QED
      BY <1>3, <1>4, <3>1, <3>3 DEF Undisturbed
  <2> QED
    BY <2>1 DEF AloneInv
<1>12. OutInv'
  <2>1. ASSUME NEW p \in Providers, member[p] = "out" PROVE snap[p] = NoCredential
    BY <2>1 DEF OutInv, Emptied
  <2> QED
    BY <1>3, <1>4, <2>1 DEF OutInv, Emptied
<1> QED
  BY <1>1, <1>2, <1>5, <1>6, <1>7, <1>8, <1>9, <1>10, <1>11, <1>12

-----------------------------------------------------------------------------
(* Refreshing *)

LEMMA TakeLockKeeps ==
    ASSUME CredentialsTypeOK, CredentialsInv, NEW q \in Processes, TakeLock(q)
    PROVE  CredentialsInv'
<1>1. Carries(q, "recheck", proc[q].file, proc[q].snap, proc[q].minted)
  BY TakeLockTypes
<1>2. /\ UNCHANGED <<file, keyring, issued, live, member, displaced, burnt>>
      /\ proc[q].at = "wait"
  BY DEF TakeLock, disk, endpoint, history
<1>3. InPlace(proc[q]) /\ proc[q].op = "resolve"
  BY <1>2 DEF CredentialsInv, PlacesInv, Places, InPlace
<1>4. InPlace(proc'[q])
  BY <1>1, <1>2, <1>3 DEF Carries, InPlace
<1>5. ~ Saves(q)
  BY <1>2 DEF Saves
<1>6. proc[q].snap \in Entries /\ proc[q].minted \in Credential /\ proc[q].file \in Files
  BY ProcessFields DEF CredentialsTypeOK
<1> QED
  BY <1>1, <1>2, <1>4, <1>5, <1>6, QuietCarry DEF AllPlaces

LEMMA LockTimeoutKeeps ==
    ASSUME CredentialsTypeOK, CredentialsInv, NEW q \in Processes, LockTimeout(q)
    PROVE  CredentialsInv'
<1>1. Ends(q)
  BY LockTimeoutTypes
<1>2. /\ UNCHANGED <<file, keyring, issued, live, member, displaced, burnt>>
      /\ proc[q].at = "wait"
  BY DEF LockTimeout, disk, endpoint, history
<1> QED
  BY <1>1, <1>2, QuietEnd DEF Refreshes, Saves

\* At most one refresh of a provider is past its lock.
LEMMA OneRefresh ==
    ASSUME CredentialsTypeOK, NEW q \in Processes, NEW r \in Processes,
           PastLock(q), PastLock(r), proc[q].provider = proc[r].provider
    PROVE  q = r
  BY DEF CredentialsTypeOK, LockHeld

LEMMA RecheckKeeps ==
    ASSUME CredentialsTypeOK, CredentialsInv, NEW q \in Processes, Recheck(q)
    PROVE  CredentialsInv'
<1>1. /\ UNCHANGED <<file, keyring, issued, live, member, displaced, burnt>>
      /\ proc[q].at = "recheck"
  BY DEF Recheck, disk, endpoint, history
<1>2. ~ Saves(q)
  BY <1>1 DEF Saves
<1>3. CASE Ends(q)
  BY <1>1, <1>2, <1>3, QuietEnd DEF Refreshes
<1>4. CASE /\ Stored(proc[q].provider).kind = "oauth"
           /\ Carries(q, "refresh", proc[q].file, proc[q].snap, Stored(proc[q].provider))
  <2>1. proc[q].op = "resolve" /\ InPlace(proc[q])
    BY <1>1 DEF CredentialsInv, PlacesInv, Places, InPlace
  <2>2. InPlace(proc'[q])
    BY <1>4, <2>1 DEF Carries, InPlace
  <2>3. /\ proc[q].snap \in Entries /\ proc[q].provider \in Providers /\ proc[q].file \in Files
        /\ Stored(proc[q].provider) \in Credential
    BY ProcessFields, StoredTyped DEF CredentialsTypeOK
  <2>4. ASSUME proc[q].provider \notin displaced \cup burnt
        PROVE  Stored(proc[q].provider).refresh \in live[proc[q].provider]
    <3>1. Stored(proc[q].provider).refresh # 0
      BY <1>4, <2>3, CredentialFields
    <3>2. LiveOrNext(proc[q].provider)
      BY <2>3, <2>4 DEF CredentialsInv, TokensInv, StoredLive
    <3>3. ASSUME NEW r \in Processes, Refreshes(r, proc[q].provider) PROVE FALSE
      <4>1. PastLock(r) /\ PastLock(q) /\ proc[r].provider = proc[q].provider
        BY <1>1, <2>1, <3>3 DEF Refreshes, Saves, PastLock
      <4>2. q = r
        BY <4>1, OneRefresh
      <4> QED
        BY <1>2, <3>3, <4>2 DEF Refreshes
    <3> QED
      BY <3>1, <3>2, <3>3 DEF LiveOrNext
  <2> QED
    BY <1>1, <1>2, <1>4, <2>1, <2>2, <2>3, <2>4, QuietCarry DEF AllPlaces
<1> QED
  BY <1>3, <1>4, RecheckTypes

\* The endpoint grants: the token sent is dead for a rotating provider, and the next
\* one is live; only this refresh had sent it.
LEMMA GrantedKeeps ==
    ASSUME CredentialsTypeOK, CredentialsInv, NEW q \in Processes,
           proc[q].at = "refresh", Granted(q),
           Minted(q).refresh =
              IF proc[q].provider \in Rotating THEN issued[proc[q].provider] + 1
              ELSE proc[q].minted.refresh,
           Minted(q).kind = "oauth",
           UNCHANGED <<file, keyring, member, displaced>>,
           \/ /\ Carries(q, "save", proc[q].file, proc[q].snap, Minted(q))
              /\ burnt' = burnt
           \/ /\ Ends(q)
              /\ burnt' = IF proc[q].provider \in Rotating THEN burnt \cup {proc[q].provider}
                          ELSE burnt
    PROVE  CredentialsInv'
<1> USE DEF CredentialsInv, PlacesInv, TokensInv, MembersInv
<1> DEFINE next == Minted(q).refresh
<1> HIDE DEF next
<1>1. /\ InPlace(proc[q]) /\ proc[q].op = "resolve" /\ PastLock(q)
      /\ proc[q].provider \in Providers
  BY ProcessFields DEF Places, InPlace, PastLock, CredentialsTypeOK
<1>2. PICK p \in Providers : p = proc[q].provider
  BY <1>1
<1>3. PICK spent : spent = proc[q].minted.refresh
  OBVIOUS
<1>4. PICK token : token = next
  OBVIOUS
<1>5. /\ spent \in live[p] /\ spent <= issued[p] /\ spent \in Nat /\ issued[p] \in Nat
      /\ token = IF p \in Rotating THEN issued[p] + 1 ELSE spent
  BY <1>1, <1>2, <1>3, <1>4, Tokens DEF next, Granted, IssuedInv
<1>6. /\ issued'[p] = issued[p] + 1
      /\ live'[p] = (live[p] \ {spent}) \cup {token}
      /\ \A r \in Providers \ {p} : issued'[r] = issued[r] /\ live'[r] = live[r]
  BY <1>2, <1>3, <1>4 DEF Granted, CredentialsTypeOK, next
<1>7. /\ OthersStay(q)
      /\ \A r \in Processes : r # q => proc'[r] = proc[r]
  BY DEF Carries, Ends, OthersStay
<1>8. \/ /\ proc'[q].op = "resolve" /\ proc'[q].at = "save" /\ proc'[q].provider = p
         /\ proc'[q].file = proc[q].file /\ proc'[q].snap = proc[q].snap
         /\ proc'[q].minted.refresh = token /\ proc'[q].minted.kind = "oauth"
         /\ proc'[q].alone = proc[q].alone /\ burnt' = burnt
      \/ /\ proc'[q] = Idle
         /\ burnt' = IF p \in Rotating THEN burnt \cup {p} ELSE burnt
  BY <1>1, <1>2, <1>4 DEF Carries, Ends, next
<1>9. ASSUME NEW r \in Processes, PastLock(r), proc[r].provider = p PROVE r = q
  BY <1>1, <1>2, <1>9, OneRefresh
<1>10. Places'
  <2>1. InPlace(proc'[q])
    BY <1>1, <1>8, IdleInPlace DEF InPlace
  <2> QED
    BY <1>7, <2>1, PlacesKept
<1>11. FilesInv' /\ UnreadableInv'
  BY <1>7, <1>8, IdleFields DEF FilesInv, UnreadableInv
<1>12. IssuedInv'
  <2>1. ASSUME NEW r \in Providers PROVE issued[r] <= issued'[r] /\ issued'[r] \in Nat
    BY <1>5, <1>6, Tokens
  <2>2. ASSUME NEW r \in Providers, NEW t \in live'[r] PROVE t <= issued'[r]
    <3>1. CASE r = p /\ t = token
      BY <1>5, <1>6, <3>1
    <3>2. CASE t \in live[r]
      <4>1. t <= issued[r] /\ t \in Nat /\ issued[r] \in Nat
        BY <3>2, Tokens DEF IssuedInv
      <4> QED
        BY <2>1, <4>1
    <3> QED
      BY <1>6, <2>2, <3>1, <3>2
  <2>3. ASSUME NEW r \in Providers, NEW f \in Files
        PROVE  file'[f].entries[r].refresh <= issued'[r]
    <3>1. /\ file[f].entries[r].refresh <= issued[r]
          /\ file[f].entries[r].refresh \in Nat /\ issued[r] \in Nat
      BY Tokens DEF IssuedInv
    <3> QED
      BY <2>1, <3>1
  <2>4. ASSUME NEW r \in Providers, NEW z \in Processes
        PROVE  proc'[z].snap[r].refresh <= issued'[r]
    <3>1. /\ proc[z].snap[r].refresh <= issued[r]
          /\ proc[z].snap[r].refresh \in Nat /\ issued[r] \in Nat
      BY Tokens DEF IssuedInv
    <3>2. proc'[z].snap[r].refresh \in {proc[z].snap[r].refresh, 0}
      BY <1>7, <1>8, IdleFields, NoEntriesFields, NoCredentialFields
    <3> QED
      BY <2>1, <3>1, <3>2
  <2>5. ASSUME NEW r \in Providers, NEW z \in Processes, proc'[z].provider = r
        PROVE  proc'[z].minted.refresh <= issued'[r]
    <3>1. CASE proc'[z] = proc[z]
      <4>1. /\ proc[z].minted.refresh <= issued[r]
            /\ proc[z].minted.refresh \in Nat /\ issued[r] \in Nat
        BY <2>5, <3>1, Tokens DEF IssuedInv
      <4> QED
        BY <2>1, <3>1, <4>1
    <3>2. CASE proc'[z] = Idle
      BY <2>1, <3>2, IdleFields, NoCredentialFields
    <3>3. CASE r = p /\ proc'[z].minted.refresh = token
      BY <1>5, <1>6, <3>3
    <3> QED
      BY <1>7, <1>8, <2>5, <3>1, <3>2, <3>3
  <2> QED
    BY <2>2, <2>3, <2>4, <2>5 DEF IssuedInv
<1>13. ASSUME NEW r \in Processes, proc[r].op = "login"
       PROVE  /\ r # q /\ proc'[r] = proc[r] /\ proc[r].provider \in Providers
              /\ Unknown(proc[r].minted.refresh, proc[r].provider, r)
              /\ proc[r].provider = p => proc[r].minted.refresh \notin {spent, token}
  <2>1. r # q /\ proc'[r] = proc[r] /\ proc[r].provider \in Providers
    BY <1>1, <1>7, <1>13, ProcessFields DEF CredentialsTypeOK
  <2>2. Unknown(proc[r].minted.refresh, proc[r].provider, r)
    BY <1>13 DEF FreshInv
  <2>3. ASSUME proc[r].provider = p PROVE proc[r].minted.refresh \notin {spent, token}
    <3>1. proc[r].minted.refresh # spent
      BY <1>2, <1>3, <2>1, <2>2, <2>3 DEF Unknown
    <3>2. proc[r].minted.refresh <= issued[p] /\ proc[r].minted.refresh \in Nat
      BY <2>3, Tokens DEF IssuedInv
    <3> QED
      BY <1>5, <3>1, <3>2
  <2> QED
    BY <2>1, <2>2, <2>3
<1>14. FreshInv'
  <2>1. ASSUME NEW r \in Processes, proc'[r].op = "login"
        PROVE  Unknown(proc[r].minted.refresh, proc[r].provider, r)'
    <3>1. proc[r].op = "login"
      BY <1>1, <1>7, <1>8, <2>1, IdleFields
    <3>2. proc[r].minted.refresh # 0
      BY <3>1, LoginToken
    <3>3. /\ r # q /\ proc'[r] = proc[r] /\ proc[r].provider \in Providers
          /\ Unknown(proc[r].minted.refresh, proc[r].provider, r)
          /\ proc[r].provider = p => proc[r].minted.refresh \notin {spent, token}
      BY <1>13, <3>1
    <3>4. ASSUME NEW f \in Files
          PROVE  file'[f].entries[proc'[r].provider].refresh # proc'[r].minted.refresh
      BY <1>1, <3>3 DEF Unknown
    <3>5. ASSUME NEW z \in Processes
          PROVE  proc'[z].snap[proc'[r].provider].refresh # proc'[r].minted.refresh
      <4>1. proc'[z].snap = proc[z].snap \/ proc'[z].snap = NoEntries
        BY <1>7, <1>8, IdleFields
      <4>3. NoEntries[proc[r].provider].refresh = 0
        BY <3>3, NoEntriesFields, NoCredentialFields
      <4>2. proc[z].snap[proc[r].provider].refresh # proc[r].minted.refresh
        BY <3>3 DEF Unknown
      <4> QED
        BY <3>2, <3>3, <4>1, <4>2, <4>3
    <3>6. ASSUME NEW z \in Processes \ {r}, proc'[z].provider = proc'[r].provider
          PROVE  proc'[z].minted.refresh # proc'[r].minted.refresh
      <4>1. CASE z # q
        BY <1>7, <3>3, <3>6, <4>1 DEF Unknown
      <4>2. CASE z = q /\ proc'[q] = Idle
        BY <3>2, <3>3, <4>2, IdleFields, NoCredentialFields
      <4>3. CASE z = q /\ proc'[q].provider = p /\ proc'[q].minted.refresh = token
        BY <3>3, <3>6, <4>3
      <4> QED
        BY <1>8, <4>1, <4>2, <4>3
    <3> QED
      BY <3>4, <3>5, <3>6 DEF Unknown
  <2> QED
    BY <2>1 DEF FreshInv
<1>15. MintedInv'
  <2>1. ASSUME NEW r \in Processes, Saves(r)', proc'[r].op # "set_key"
        PROVE  proc'[r].minted.refresh \in live'[proc'[r].provider]
    <3>1. CASE r = q
      BY <1>6, <1>8, <2>1, <3>1, IdleFields DEF Saves
    <3>2. CASE r # q
      <4>1. proc'[r] = proc[r] /\ Saves(r) /\ proc[r].op # "set_key"
        BY <1>7, <2>1, <3>2 DEF Saves
      <4>2. proc[r].minted.refresh \in live[proc[r].provider] /\ proc[r].provider \in Providers
        BY <4>1, ProcessFields DEF MintedInv, CredentialsTypeOK
      <4>3. CASE proc[r].provider = p /\ proc[r].op = "login"
        BY <1>6, <1>13, <4>1, <4>2, <4>3
      <4>4. CASE proc[r].provider = p /\ proc[r].op # "login"
        <5>1. proc[r].op = "resolve"
          BY <4>1, <4>4 DEF Saves, Places, InPlace
        <5> QED
          BY <1>9, <3>2, <4>1, <4>4, <5>1 DEF PastLock, Saves
      <4> QED
        BY <1>6, <4>1, <4>2, <4>3, <4>4
    <3> QED
      BY <3>1, <3>2
  <2> QED
    BY <2>1 DEF MintedInv
<1>16. StoredLive'
  <2>1. ASSUME NEW r \in Providers, r \notin displaced \cup burnt' PROVE LiveOrNext(r)'
    <3>1. LiveOrNext(r) /\ Stored(r)' = Stored(r)
      BY <1>8, <2>1 DEF StoredLive, Stored
    <3>2. CASE r # p
      <4>1. ASSUME NEW z \in Processes, Refreshes(z, r) PROVE Refreshes(z, r)'
        BY <1>2, <1>7, <3>2, <4>1 DEF Refreshes, Saves
      <4> QED
        BY <1>6, <3>1, <3>2, <4>1 DEF LiveOrNext
    <3>3. CASE r = p /\ p \in Rotating
      <4>1. Refreshes(q, p)'
        BY <1>8, <2>1, <3>3 DEF Refreshes, Saves
      <4> QED
        BY <3>3, <4>1 DEF LiveOrNext
    <3>4. CASE r = p /\ p \notin Rotating
      BY <1>5, <1>6, <3>1, <3>4 DEF LiveOrNext
    <3> QED
      BY <3>2, <3>3, <3>4
  <2> QED
    BY <2>1 DEF StoredLive
<1>17. SentLive'
  <2>1. ASSUME NEW r \in Processes, proc'[r].at = "refresh",
               proc'[r].provider \notin displaced \cup burnt'
        PROVE  proc'[r].minted.refresh \in live'[proc'[r].provider]
    <3>1. r # q /\ proc'[r] = proc[r] /\ proc[r].provider \in Providers
      BY <1>7, <1>8, <2>1, IdleFields, ProcessFields DEF CredentialsTypeOK
    <3>2. proc[r].provider # p
      BY <1>9, <2>1, <3>1 DEF PastLock, Places, InPlace
    <3> QED
      BY <1>6, <1>8, <2>1, <3>1, <3>2 DEF SentLive
  <2> QED
    BY <2>1 DEF SentLive
<1>18. StoredInv'
  BY DEF StoredInv, Stored
<1>19. AloneInv'
  <2>1. ASSUME NEW r \in Processes, proc[r].op = "logout", proc[r].alone PROVE FALSE
    BY <1>1, <2>1, IdleFields DEF AloneInv, Undisturbed
  <2> QED
    BY <1>7, <1>8, <2>1, IdleFields DEF AloneInv
<1>20. OutInv'
  BY <1>1, <1>2, <1>7, <1>8, IdleFields, NoEntriesFields DEF OutInv, Emptied
<1> QED
  BY <1>10, <1>11, <1>12, <1>14, <1>15, <1>16, <1>17, <1>18, <1>19, <1>20

LEMMA RefreshAnsweredKeeps ==
    ASSUME CredentialsTypeOK, CredentialsInv, NEW q \in Processes, RefreshAnswered(q)
    PROVE  CredentialsInv'
<1>1. UNCHANGED <<file, keyring, member, displaced>> /\ proc[q].at = "refresh"
  BY DEF RefreshAnswered, disk
<1>2. ~ Saves(q)
  BY <1>1 DEF Saves
<1>3. CASE /\ Ends(q) /\ issued' = issued /\ live' = live /\ burnt' = burnt
  BY <1>1, <1>2, <1>3, QuietEnd DEF Refreshes
<1>4. CASE Granted(q)
  BY <1>1, <1>4, RefreshAnsweredTypes, GrantedKeeps DEF Granted, Minted, OAuth
<1> QED
  BY <1>3, <1>4, RefreshAnsweredTypes

-----------------------------------------------------------------------------
(* Saving *)

LEMMA ReadForSaveKeeps ==
    ASSUME CredentialsTypeOK, CredentialsInv, NEW q \in Processes, ReadForSave(q)
    PROVE  CredentialsInv'
<1>1. UNCHANGED <<file, keyring, issued, live, member, displaced>> /\ proc[q].at = "save"
  BY DEF ReadForSave, disk, endpoint
<1>2. CASE /\ Ends(q)
           /\ burnt' = IF proc[q].op = "resolve" /\ proc[q].provider \in Rotating
                       THEN burnt \cup {proc[q].provider} ELSE burnt
  BY <1>1, <1>2, QuietEnd DEF Refreshes
<1>3. CASE /\ file["auth"].state # "unreadable" /\ burnt' = burnt
           /\ Carries(q, "write", proc[q].file, file["auth"].entries, proc[q].minted)
  <2>1. InPlace(proc[q])
    BY DEF CredentialsInv, PlacesInv, Places
  <2>2. InPlace(proc'[q])
    BY <1>1, <1>3, <2>1, IdleFields DEF Carries, InPlace
  <2>3. Saves(q)
    BY <1>1 DEF Saves
  <2>4. /\ file["auth"].entries \in Entries /\ proc[q].minted \in Credential
        /\ proc[q].file \in Files
    BY ProcessFields, FileFields DEF CredentialsTypeOK, Files
  <2>5. \E f \in Files : file["auth"].entries = file[f].entries
    BY DEF Files
  <2> QED
    BY <1>1, <1>3, <2>2, <2>3, <2>4, <2>5, QuietCarry DEF AllPlaces
<1> QED
  BY <1>2, <1>3, ReadForSaveTypes

LEMMA WriteFailsKeeps ==
    ASSUME CredentialsTypeOK, CredentialsInv, NEW q \in Processes, WriteFails(q)
    PROVE  CredentialsInv'
<1>1. /\ UNCHANGED <<file, keyring, issued, live, member, displaced>>
      /\ burnt' = IF proc[q].op = "resolve" /\ proc[q].provider \in Rotating
                  THEN burnt \cup {proc[q].provider} ELSE burnt
  BY DEF WriteFails, disk, endpoint
<1> QED
  BY <1>1, WriteFailsTypes, QuietEnd DEF Refreshes

LEMMA CrashKeeps ==
    ASSUME CredentialsTypeOK, CredentialsInv, NEW q \in Processes, Crash(q)
    PROVE  CredentialsInv'
<1>1. /\ UNCHANGED <<file, keyring, issued, live, member, displaced>>
      /\ burnt' = IF /\ proc[q].op = "resolve" /\ proc[q].at \in {"save", "write"}
                     /\ proc[q].provider \in Rotating
                  THEN burnt \cup {proc[q].provider} ELSE burnt
  BY DEF Crash, disk, endpoint
<1> QED
  BY <1>1, CrashTypes, QuietEnd DEF Refreshes, Saves

\* The other file, and which of the two a provider's credential is found in.
LEMMA StoredIn ==
    ASSUME NEW p \in Providers
    PROVE  /\ file["auth"].state = "ok" => Stored(p) = file["auth"].entries[p]
           /\ file["auth"].state # "ok" => Stored(p) = file["migrated"].entries[p]
  BY DEF Stored

\* A save changes the stored credential of its own provider, and of another one
\* only if that is displaced.
LEMMA SaveStored ==
    ASSUME CredentialsTypeOK, CredentialsInv, NEW q \in Processes, WriteSave(q)
    PROVE  /\ file'["auth"].state = "ok" /\ file'["auth"].entries = Saved(q)
           /\ file'["migrated"] = file["migrated"]
           /\ displaced \subseteq displaced'
           /\ \A p \in Providers \ {proc[q].provider} :
                 p \notin displaced' => Saved(q)[p] = Stored(p)
<1>1. Writes("auth", Holding(Saved(q))) /\ Saved(q) \in Entries
  BY WriteSaveTypes, SavedTyped
<1>2. file'["auth"].state = "ok" /\ file'["auth"].entries = Saved(q)
  BY <1>1, HoldingTyped DEF Writes
<1>3. file'["migrated"] = file["migrated"]
  BY <1>1 DEF Writes, Files
<1>4. displaced' = displaced \cup (Overwritten("auth", proc[q].snap) \ {proc[q].provider})
              \cup IF file["auth"].state = "ok" THEN {} ELSE Backup \ {proc[q].provider}
  BY DEF WriteSave
<1>5. ASSUME NEW p \in Providers, p # proc[q].provider, p \notin displaced'
      PROVE  Saved(q)[p] = Stored(p)
  <2>1. Saved(q)[p] = proc[q].snap[p]
    BY <1>5, SavedTyped
  <2>2. file["auth"].entries[p] = proc[q].snap[p]
    BY <1>4, <1>5 DEF Overwritten
  <2>3. CASE file["auth"].state = "ok"
    BY <2>1, <2>2, <2>3, StoredIn
  <2>4. CASE file["auth"].state # "ok"
    <3>1. file["migrated"].entries[p] = NoCredential
      BY <1>4, <1>5, <2>4 DEF Backup
    <3>2. file["auth"].entries[p] = NoCredential
      BY <2>4, NoEntriesFields DEF CredentialsInv, PlacesInv, FilesInv, Files
    <3> QED
      BY <2>1, <2>2, <2>4, <3>1, <3>2, StoredIn
  <2> QED
    BY <2>3, <2>4
<1> QED
  BY <1>2, <1>3, <1>4, <1>5

LEMMA WriteSaveKeeps ==
    ASSUME CredentialsTypeOK, CredentialsInv, NEW q \in Processes, WriteSave(q)
    PROVE  CredentialsInv'
<1> USE DEF CredentialsInv, PlacesInv, TokensInv, MembersInv
<1>1. /\ Ends(q) /\ proc'[q] = Idle /\ OthersStay(q)
      /\ \A r \in Processes : r # q => proc'[r] = proc[r]
  BY WriteSaveTypes DEF Ends, OthersStay
<1>2. /\ UNCHANGED <<keyring, issued, live, burnt>> /\ proc[q].at = "write"
      /\ member' = IF proc[q].op = "resolve" THEN member
                   ELSE [member EXCEPT ![proc[q].provider] = "in"]
  BY DEF WriteSave, endpoint
<1>3. /\ InPlace(proc[q]) /\ Saves(q) /\ proc[q].op \in {"resolve", "login", "set_key"}
      /\ proc[q].provider \in Providers /\ proc[q].minted \in Credential
  BY <1>2, ProcessFields DEF Places, InPlace, Saves, CredentialsTypeOK
<1>4. PICK p \in Providers : p = proc[q].provider
  BY <1>3
<1>5. /\ file'["auth"].state = "ok" /\ file'["auth"].entries = Saved(q)
      /\ file'["migrated"] = file["migrated"]
      /\ displaced \subseteq displaced'
      /\ \A r \in Providers \ {p} : r \notin displaced' => Saved(q)[r] = Stored(r)
  BY <1>4, SaveStored
<1>6. /\ Saved(q)[p] = Entry(q) /\ Entry(q) \in Credential
      /\ \A r \in Providers \ {p} : Saved(q)[r] = proc[q].snap[r]
  BY <1>4, SavedTyped
<1>7. /\ Entry(q) # NoCredential
      /\ Entry(q).refresh # 0 => /\ Entry(q) = proc[q].minted /\ proc[q].op # "set_key"
                                 /\ Entry(q).refresh \in live[p]
  BY <1>2, <1>3, <1>4, NoCredentialFields DEF Entry, InPlace, MintedInv, Saves
<1>8. Places'
  BY <1>1, PlacesKept, IdleInPlace
<1>9. FilesInv'
  BY <1>5 DEF FilesInv, Files
<1>10. UnreadableInv'
  BY <1>5 DEF UnreadableInv
<1>11. \A r \in Providers : Stored(r)' = Saved(q)[r]
  BY <1>5 DEF Stored
\* what the new file holds, by provider
<1>12. ASSUME NEW r \in Providers
       PROVE  \/ r = p /\ file'["auth"].entries[r] = Entry(q)
              \/ r # p /\ file'["auth"].entries[r] = proc[q].snap[r]
  BY <1>5, <1>6
<1>13. IssuedInv'
  <2>1. ASSUME NEW r \in Providers PROVE file'["auth"].entries[r].refresh <= issued[r]
    <3>1. Entry(q).refresh <= issued[p]
      <4>1. issued[p] \in Nat
        BY Tokens
      <4>2. proc[q].minted.refresh <= issued[p]
        BY <1>4 DEF IssuedInv
      <4> QED
        BY <4>1, <4>2, NoCredentialFields DEF Entry
    <3>2. proc[q].snap[r].refresh <= issued[r]
      BY DEF IssuedInv
    <3> QED
      BY <1>12, <3>1, <3>2
  <2>2. ASSUME NEW r \in Providers, NEW f \in Files
        PROVE  file'[f].entries[r].refresh <= issued[r]
    BY <1>5, <2>1 DEF IssuedInv, Files
  <2> QED
    BY <1>1, <1>2, <2>2, IdleFields, NoEntriesFields, NoCredentialFields, Tokens DEF IssuedInv
<1>14. FreshInv'
  <2>1. ASSUME NEW r \in Processes, proc'[r].op = "login"
        PROVE  Unknown(proc[r].minted.refresh, proc[r].provider, r)'
    <3>1. r # q /\ proc'[r] = proc[r] /\ proc[r].op = "login" /\ proc[r].provider \in Providers
      BY <1>1, <2>1, IdleFields, ProcessFields DEF CredentialsTypeOK
    <3>2. Unknown(proc[r].minted.refresh, proc[r].provider, r) /\ proc[r].minted.refresh # 0
      BY <3>1, LoginToken DEF FreshInv
    <3>3. file'["auth"].entries[proc[r].provider].refresh # proc[r].minted.refresh
      BY <1>4, <1>7, <1>12, <3>1, <3>2 DEF Unknown
    <3>4. \A f \in Files : file'[f].entries[proc[r].provider].refresh # proc[r].minted.refresh
      BY <1>5, <3>2, <3>3 DEF Unknown, Files
    <3> QED
      BY <1>1, <3>1, <3>2, <3>4, IdleFields, NoEntriesFields, NoCredentialFields DEF Unknown
  <2> QED
    BY <2>1 DEF FreshInv
<1>15. MintedInv' /\ SentLive'
  BY <1>1, <1>2, <1>5, IdleFields DEF MintedInv, SentLive, Saves
<1>16. StoredLive'
  <2>1. ASSUME NEW r \in Providers, r \notin displaced' \cup burnt' PROVE LiveOrNext(r)'
    <3>1. CASE r = p
      BY <1>2, <1>6, <1>7, <1>11, <3>1 DEF LiveOrNext
    <3>2. CASE r # p
      <4>1. Stored(r)' = Stored(r) /\ LiveOrNext(r)
        BY <1>2, <1>5, <1>11, <2>1, <3>2 DEF StoredLive
      <4>2. ASSUME NEW z \in Processes, Refreshes(z, r) PROVE Refreshes(z, r)'
        BY <1>1, <1>4, <3>2, <4>2 DEF Refreshes, Saves
      <4> QED
        BY <1>2, <4>1, <4>2 DEF LiveOrNext
    <3> QED
      BY <3>1, <3>2
  <2> QED
    BY <2>1 DEF StoredLive
<1>17. StoredInv'
  <2>1. ASSUME NEW r \in Providers, r \notin displaced', member'[r] = "in"
        PROVE  r \in keyring' \/ Stored(r)' # NoCredential
    <3>1. CASE r = p
      BY <1>6, <1>7, <1>11, <3>1
    <3>2. CASE r # p
      <4>1. member'[r] = member[r]
        BY <1>2, <1>4, <3>2 DEF CredentialsTypeOK
      <4>2. Stored(r)' = Stored(r) /\ r \notin displaced
        BY <1>5, <1>11, <2>1, <3>2
      <4> QED
        BY <1>2, <2>1, <4>1, <4>2 DEF StoredInv
    <3> QED
      BY <3>1, <3>2
  <2> QED
    BY <2>1 DEF StoredInv
<1>18. AloneInv'
  <2>1. ASSUME NEW r \in Processes, proc'[r].op = "logout", proc'[r].alone PROVE FALSE
    BY <1>1, <1>3, <2>1, IdleFields DEF AloneInv, Undisturbed
  <2> QED
    BY <2>1 DEF AloneInv
<1>19. OutInv'
  <2>1. ASSUME NEW r \in Providers, member'[r] = "out" PROVE Emptied(r)'
    <3>1. member[r] = "out" /\ Emptied(r)
      BY <1>2, <1>4, <2>1 DEF OutInv, CredentialsTypeOK
    <3>2. r # p
      BY <1>2, <1>3, <1>4, <2>1, <3>1 DEF Emptied, CredentialsTypeOK
    <3>3. file'["auth"].entries[r] = NoCredential
      BY <1>12, <3>1, <3>2 DEF Emptied
    <3>4. \A f \in Files : file'[f].entries[r] = NoCredential
      BY <1>5, <3>1, <3>3 DEF Emptied, Files
    <3> QED
      BY <1>1, <1>2, <3>1, <3>4, IdleFields, NoEntriesFields DEF Emptied
  <2> QED
    BY <2>1 DEF OutInv
<1> QED
  BY <1>8, <1>9, <1>10, <1>13, <1>14, <1>15, <1>16, <1>17, <1>18, <1>19

-----------------------------------------------------------------------------
(* Beginning something *)

\* What a process that begins with some token may know of it: nothing, what is
\* stored, or a token issued just now.
LEMMA JoinKeeps ==
    ASSUME CredentialsTypeOK, CredentialsTypeOK', CredentialsInv, NEW q \in Processes,
           NEW p \in Providers, proc[q] = Idle, Joins(q),
           proc'[q].snap = NoEntries, InPlace(proc'[q]),
           proc'[q] = Idle \/ proc'[q].provider = p,
           proc'[q].at \notin {"refresh", "write", "remove"},
           proc'[q].at = "rename" => file["auth"].state # "unreadable",
           UNCHANGED <<file, displaced, burnt>>,
           \/ /\ issued' = issued /\ live' = live /\ proc'[q].op # "login"
              /\ proc'[q].minted.refresh \in {0, Stored(p).refresh}
              /\ proc'[q].at = "save" => proc'[q].op = "set_key"
           \/ /\ issued' = [issued EXCEPT ![p] = issued[p] + 1]
              /\ live' = [live EXCEPT ![p] = live[p] \cup {issued[p] + 1}]
              /\ proc'[q].op = "login" /\ proc'[q].minted.refresh = issued[p] + 1
    PROVE  PlacesInv' /\ TokensInv'
<1> USE DEF CredentialsInv, PlacesInv, TokensInv
<1>1. ASSUME NEW r \in Processes, r # q
      PROVE  /\ proc'[r].op = proc[r].op /\ proc'[r].at = proc[r].at
             /\ proc'[r].provider = proc[r].provider /\ proc'[r].snap = proc[r].snap
             /\ proc'[r].minted = proc[r].minted /\ proc[r].provider \in Providers
  BY <1>1, ProcessFields DEF Joins, Beside, CredentialsTypeOK
<1>2. Places'
  BY PlacesKept
<1>3. FilesInv'
  BY DEF FilesInv
<1>4. UnreadableInv'
  BY <1>1 DEF UnreadableInv
<1>5. ASSUME NEW r \in Providers
      PROVE  /\ issued[r] <= issued'[r] /\ issued[r] \in Nat /\ issued'[r] \in Nat
             /\ live[r] \subseteq live'[r]
             /\ \A t \in live'[r] : t <= issued'[r]
  <2>1. issued[r] \in Nat /\ \A t \in live[r] : t \in Nat /\ t <= issued[r]
    BY Tokens DEF IssuedInv
  <2>2. CASE issued' = issued /\ live' = live
    BY <2>1, <2>2
  <2>3. CASE /\ issued' = [issued EXCEPT ![p] = issued[p] + 1]
             /\ live' = [live EXCEPT ![p] = live[p] \cup {issued[p] + 1}]
    <3>1. CASE r = p
      <4>1. issued'[r] = issued[r] + 1 /\ live'[r] = live[r] \cup {issued[r] + 1}
        BY <2>3, <3>1 DEF CredentialsTypeOK
      <4> QED
        BY <2>1, <4>1
    <3>2. CASE r # p
      <4>1. issued'[r] = issued[r] /\ live'[r] = live[r]
        BY <2>3, <3>2 DEF CredentialsTypeOK
      <4> QED
        BY <2>1, <4>1
    <3> QED
      BY <3>1, <3>2
  <2> QED
    BY <2>2, <2>3
<1>6. proc'[q].op = "login" =>
         /\ issued'[p] = issued[p] + 1 /\ issued[p] + 1 \in live'[p]
         /\ proc'[q].minted.refresh = issued[p] + 1 /\ proc'[q].provider = p
         /\ proc'[q] # Idle
  <2>1. ASSUME proc'[q].op = "login"
        PROVE  /\ issued' = [issued EXCEPT ![p] = issued[p] + 1]
               /\ live' = [live EXCEPT ![p] = live[p] \cup {issued[p] + 1}]
               /\ proc'[q].minted.refresh = issued[p] + 1
    BY <2>1
  <2>2. ASSUME proc'[q].op = "login" PROVE proc'[q] # Idle
    BY <2>2, IdleFields
  <2>3. ASSUME proc'[q].op = "login"
        PROVE  issued'[p] = issued[p] + 1 /\ issued[p] + 1 \in live'[p]
    <3>1. DOMAIN issued = Providers /\ DOMAIN live = Providers
      BY DEF CredentialsTypeOK
    <3>2. issued'[p] = issued[p] + 1
      BY <2>1, <2>3, <3>1
    <3>3. live'[p] = live[p] \cup {issued[p] + 1}
      BY <2>1, <2>3, <3>1
    <3> QED
      BY <3>2, <3>3
  <2> QED
    BY <2>1, <2>2, <2>3
<1>7. IssuedInv'
  <2>1. ASSUME NEW r \in Providers, NEW f \in Files
        PROVE  file'[f].entries[r].refresh <= issued'[r]
    <3>1. file[f].entries[r].refresh <= issued[r] /\ file[f].entries[r].refresh \in Nat
      BY Tokens DEF IssuedInv
    <3> QED
      BY <1>5, <3>1
  <2>2. ASSUME NEW r \in Providers, NEW z \in Processes
        PROVE  proc'[z].snap[r].refresh <= issued'[r]
    <3>1. proc[z].snap[r].refresh <= issued[r] /\ proc[z].snap[r].refresh \in Nat
      BY Tokens DEF IssuedInv
    <3>2. proc'[z].snap[r].refresh \in {proc[z].snap[r].refresh, 0}
      BY <1>1, NoEntriesFields, NoCredentialFields
    <3> QED
      BY <1>5, <3>1, <3>2
  <2>3. ASSUME NEW r \in Providers, NEW z \in Processes, proc'[z].provider = r
        PROVE  proc'[z].minted.refresh <= issued'[r]
    <3>1. CASE z # q
      <4>1. proc[z].minted.refresh <= issued[r] /\ proc[z].minted.refresh \in Nat
        BY <1>1, <2>3, <3>1, Tokens DEF IssuedInv
      <4> QED
        BY <1>1, <1>5, <3>1, <4>1
    <3>2. CASE z = q /\ proc'[q] = Idle
      BY <1>5, <3>2, IdleFields, NoCredentialFields
    <3>3. CASE z = q /\ proc'[q] # Idle
      <4>1. r = p
        BY <2>3, <3>3
      <4>2. CASE proc'[q].op = "login"
        BY <1>5, <1>6, <3>3, <4>1, <4>2
      <4>3. CASE proc'[q].op # "login"
        <5>1. Stored(p).refresh <= issued[p] /\ Stored(p).refresh \in Nat
          BY Tokens, StoredEntry DEF IssuedInv
        <5> QED
          BY <1>5, <3>3, <4>1, <4>3, <5>1
      <4> QED
        BY <4>2, <4>3
    <3> QED
      BY <3>1, <3>2, <3>3
  <2> QED
    BY <1>5, <2>1, <2>2, <2>3 DEF IssuedInv
<1>8. FreshInv'
  <2>1. ASSUME NEW r \in Processes, r # q, proc[r].op = "login"
        PROVE  Unknown(proc[r].minted.refresh, proc[r].provider, r)'
    <3>1. Unknown(proc[r].minted.refresh, proc[r].provider, r) /\ proc[r].minted.refresh # 0
      BY <2>1, LoginToken DEF FreshInv
    <3>2. ASSUME proc'[q].provider = proc[r].provider
          PROVE  proc'[q].minted.refresh # proc[r].minted.refresh
      <4>1. CASE proc'[q] = Idle
        BY <3>1, <4>1, IdleFields, NoCredentialFields
      <4>2. CASE proc'[q] # Idle /\ proc'[q].op # "login"
        <5>1. Stored(p).refresh # proc[r].minted.refresh
          BY <3>1, <3>2, <4>2, StoredEntry DEF Unknown
        <5> QED
          BY <3>1, <4>2, <5>1
      <4>3. CASE proc'[q].op = "login"
        <5>1. proc[r].minted.refresh <= issued[p] /\ proc[r].minted.refresh \in Nat
              /\ issued[p] \in Nat
          BY <1>6, <2>1, <3>2, <4>3, Tokens DEF IssuedInv
        <5> QED
          BY <1>6, <4>3, <5>1
      <4> QED
        BY <4>1, <4>2, <4>3
    <3>3. /\ proc'[r].minted = proc[r].minted /\ proc'[r].provider = proc[r].provider
          /\ proc[r].provider \in Providers
      BY <1>1, <2>1
    <3>4. ASSUME NEW z \in Processes
          PROVE  proc'[z].snap[proc[r].provider].refresh # proc[r].minted.refresh
      BY <1>1, <3>1, <3>3, NoEntriesFields, NoCredentialFields DEF Unknown
    <3>5. ASSUME NEW z \in Processes \ {r}, proc'[z].provider = proc[r].provider
          PROVE  proc'[z].minted.refresh # proc[r].minted.refresh
      BY <1>1, <3>1, <3>2, <3>5 DEF Unknown
    <3> QED
      BY <3>1, <3>3, <3>4, <3>5 DEF Unknown
  <2>2. ASSUME proc'[q].op = "login"
        PROVE  Unknown(proc[q].minted.refresh, proc[q].provider, q)'
    <3>1. ASSUME NEW f \in Files PROVE file'[f].entries[p].refresh # issued[p] + 1
      BY Tokens DEF IssuedInv
    <3>2. ASSUME NEW r \in Processes PROVE proc'[r].snap[p].refresh # issued[p] + 1
      <4>1. proc[r].snap[p].refresh # issued[p] + 1 /\ 0 # issued[p] + 1
        BY Tokens DEF IssuedInv
      <4> QED
        BY <1>1, <4>1, NoEntriesFields, NoCredentialFields
    <3>3. ASSUME NEW r \in Processes \ {q}, proc'[r].provider = p
          PROVE  proc'[r].minted.refresh # issued[p] + 1
      <4>1. proc[r].minted.refresh # issued[p] + 1
        BY <1>1, <3>3, Tokens DEF IssuedInv
      <4> QED
        BY <1>1, <3>3, <4>1
    <3> QED
      BY <1>6, <2>2, <3>1, <3>2, <3>3 DEF Unknown
  <2>3. ASSUME NEW r \in Processes, proc'[r].op = "login"
        PROVE  Unknown(proc[r].minted.refresh, proc[r].provider, r)'
    BY <1>1, <2>1, <2>2, <2>3
  <2> QED
    BY <2>3 DEF FreshInv
<1>9. MintedInv'
  <2>1. ASSUME NEW r \in Processes, Saves(r)', proc'[r].op # "set_key"
        PROVE  proc'[r].minted.refresh \in live'[proc'[r].provider]
    <3>1. CASE r = q
      BY <1>6, <2>1, <3>1 DEF Saves
    <3>2. CASE r # q
      <4>1. proc[r].minted.refresh \in live[proc[r].provider]
        BY <1>1, <2>1, <3>2 DEF MintedInv, Saves
      <4> QED
        BY <1>1, <1>5, <3>2, <4>1
    <3> QED
      BY <3>1, <3>2
  <2> QED
    BY <2>1 DEF MintedInv
<1>10. StoredLive'
  <2>1. ASSUME NEW r \in Providers, r \notin displaced \cup burnt PROVE LiveOrNext(r)'
    <3>1. LiveOrNext(r) /\ Stored(r)' = Stored(r)
      BY <2>1 DEF StoredLive, Stored
    <3>2. ASSUME NEW z \in Processes, Refreshes(z, r) PROVE Refreshes(z, r)'
      <4>1. z # q
        BY <3>2, IdleFields DEF Refreshes
      <4> QED
        BY <1>1, <3>2, <4>1 DEF Refreshes, Saves
    <3> QED
      BY <1>5, <3>1, <3>2 DEF LiveOrNext
  <2> QED
    BY <2>1 DEF StoredLive
<1>11. SentLive'
  <2>1. ASSUME NEW r \in Processes, proc'[r].at = "refresh",
               proc'[r].provider \notin displaced \cup burnt
        PROVE  proc'[r].minted.refresh \in live'[proc'[r].provider]
    <3>1. r # q
      BY <2>1
    <3>2. proc[r].minted.refresh \in live[proc[r].provider]
      BY <1>1, <2>1, <3>1 DEF SentLive
    <3> QED
      BY <1>1, <1>5, <3>1, <3>2
  <2> QED
    BY <2>1 DEF SentLive
<1> QED
  BY <1>2, <1>3, <1>4, <1>7, <1>8, <1>9, <1>10, <1>11

\* A logout that another process joins is disturbed.
LEMMA JoinAlone ==
    ASSUME CredentialsTypeOK, NEW q \in Processes, Joins(q),
           proc'[q].op = "logout" /\ proc'[q].alone =>
              /\ \A r \in Processes : proc[r] = Idle
              /\ proc'[q].provider \notin keyring' /\ proc'[q].file = "auth"
    PROVE  AloneInv'
<1>1. ASSUME NEW r \in Processes, proc'[r].op = "logout", proc'[r].alone
      PROVE  Undisturbed(r)'
  <2>1. CASE r # q
    <3>1. Beside(proc[r], proc'[r])
      BY <2>1 DEF Joins
    <3> QED
      BY <1>1, <3>1, IdleFields DEF Beside
  <2>2. CASE r = q
    <3>1. ASSUME NEW z \in Processes \ {q} PROVE proc'[z] = Idle
      <4>1. Beside(proc[z], proc'[z]) /\ proc[z] = Idle
        BY <1>1, <2>2 DEF Joins
      <4> QED
        BY <4>1 DEF Beside
    <3> QED
      BY <1>1, <2>2, <3>1 DEF Undisturbed
  <2> QED
    BY <2>1, <2>2
<1> QED
  BY <1>1 DEF AloneInv

\* A provider that is gone stays so while others begin something.
LEMMA JoinGone ==
    ASSUME CredentialsTypeOK, NEW p \in Providers, Emptied(p), NEW q \in Processes, Joins(q),
           UNCHANGED file, p \notin keyring', proc'[q].snap = NoEntries,
           proc'[q].op \in {"resolve", "logout"} => proc'[q].provider # p
    PROVE  Emptied(p)'
<1>1. ASSUME NEW r \in Processes, r # q
      PROVE  /\ proc'[r].op = proc[r].op /\ proc'[r].provider = proc[r].provider
             /\ proc'[r].snap = proc[r].snap
  BY <1>1 DEF Joins, Beside
<1> QED
  BY <1>1, NoEntriesFields DEF Emptied

LEMMA ResolveKeeps ==
    ASSUME CredentialsTypeOK, CredentialsInv, NEW q \in Processes, NEW p \in Providers,
           Resolve(q, p)
    PROVE  CredentialsInv'
<1>1. CredentialsTypeOK' /\ Joins(q) /\ Begins(q, "resolve", p, "wait", Stored(p))
  BY ResolveTypes
<1>2. /\ UNCHANGED <<file, keyring, issued, live, member, displaced, burnt>>
      /\ proc[q] = Idle /\ Stored(p).kind = "oauth"
  BY DEF Resolve, disk, endpoint, history
<1>3. InPlace(proc'[q])
  BY <1>1, <1>2, IdleFields DEF Begins, InPlace
<1>4. PlacesInv' /\ TokensInv'
  BY <1>1, <1>2, <1>3, JoinKeeps DEF Begins
<1>5. AloneInv'
  BY <1>1, JoinAlone DEF Begins
<1>6. StoredInv'
  BY <1>2 DEF CredentialsInv, MembersInv, StoredInv, Stored
<1>7. ASSUME NEW r \in Providers, member'[r] = "out" PROVE Emptied(r)'
  <2>1. Emptied(r)
    BY <1>2, <1>7 DEF CredentialsInv, MembersInv, OutInv
  <2>2. r # p
    BY <1>2, <2>1, StoredEntry, NoCredentialFields DEF Emptied
  <2> QED
    BY <1>1, <1>2, <2>1, <2>2, JoinGone DEF Begins, Emptied
<1> QED
  BY <1>4, <1>5, <1>6, <1>7 DEF CredentialsInv, MembersInv, OutInv

LEMMA LoginKeeps ==
    ASSUME CredentialsTypeOK, CredentialsInv, NEW q \in Processes, NEW p \in Providers,
           Login(q, p)
    PROVE  CredentialsInv'
<1>1. /\ CredentialsTypeOK' /\ Joins(q) /\ Begins(q, "login", p, "save", Grant(p))
      /\ Grant(p).kind = "oauth" /\ Grant(p).refresh = issued[p] + 1
  BY LoginTypes
<1>2. /\ UNCHANGED <<file, keyring, member, displaced, burnt>> /\ proc[q] = Idle
      /\ issued' = [issued EXCEPT ![p] = issued[p] + 1]
      /\ live' = [live EXCEPT ![p] = live[p] \cup {issued[p] + 1}]
  BY DEF Login, disk, history
<1>3. InPlace(proc'[q])
  BY <1>1, <1>2, IdleFields DEF Begins, InPlace
<1>4. PlacesInv' /\ TokensInv'
  BY <1>1, <1>2, <1>3, JoinKeeps DEF Begins
<1>5. AloneInv'
  BY <1>1, JoinAlone DEF Begins
<1>6. StoredInv'
  BY <1>2 DEF CredentialsInv, MembersInv, StoredInv, Stored
<1>7. ASSUME NEW r \in Providers, member'[r] = "out" PROVE Emptied(r)'
  <2>1. Emptied(r)
    BY <1>2, <1>7 DEF CredentialsInv, MembersInv, OutInv
  <2> QED
    BY <1>1, <1>2, <2>1, JoinGone DEF Begins, Emptied
<1> QED
  BY <1>4, <1>5, <1>6, <1>7 DEF CredentialsInv, MembersInv, OutInv

LEMMA SetKeyKeeps ==
    ASSUME CredentialsTypeOK, CredentialsInv, NEW q \in Processes, NEW p \in Providers,
           SetKey(q, p)
    PROVE  CredentialsInv'
<1>1. CredentialsTypeOK' /\ Joins(q) /\ Begins(q, "set_key", p, "save", NoCredential)
  BY SetKeyTypes
<1>2. /\ UNCHANGED <<file, issued, live, displaced, burnt>> /\ proc[q] = Idle
      /\ \/ keyring' = keyring \cup {p} /\ member' = [member EXCEPT ![p] = "in"]
         \/ keyring' = keyring /\ member' = member
  BY DEF SetKey, endpoint
<1>3. InPlace(proc'[q])
  BY <1>1, <1>2, IdleFields DEF Begins, InPlace
<1>4. PlacesInv' /\ TokensInv'
  BY <1>1, <1>2, <1>3, NoCredentialFields, JoinKeeps DEF Begins
<1>5. AloneInv'
  BY <1>1, JoinAlone DEF Begins
<1>6. StoredInv'
  <2>1. ASSUME NEW r \in Providers, r \notin displaced, member'[r] = "in"
        PROVE  r \in keyring' \/ Stored(r)' # NoCredential
    <3>1. Stored(r)' = Stored(r) /\ keyring \subseteq keyring'
      BY <1>2 DEF Stored
    <3>2. member'[r] = member[r] \/ r \in keyring'
      BY <1>2 DEF CredentialsTypeOK
    <3> QED
      BY <2>1, <3>1, <3>2 DEF CredentialsInv, MembersInv, StoredInv
  <2> QED
    BY <1>2, <2>1 DEF StoredInv
<1>7. ASSUME NEW r \in Providers, member'[r] = "out" PROVE Emptied(r)'
  <2>1. member[r] = "out" /\ (r = p => keyring' = keyring)
    BY <1>2, <1>7 DEF CredentialsTypeOK
  <2>2. Emptied(r)
    BY <2>1 DEF CredentialsInv, MembersInv, OutInv
  <2> QED
    BY <1>1, <1>2, <2>1, <2>2, JoinGone DEF Begins, Emptied
<1> QED
  BY <1>4, <1>5, <1>6, <1>7 DEF CredentialsInv, MembersInv, OutInv

LEMMA LogoutKeeps ==
    ASSUME CredentialsTypeOK, CredentialsInv, NEW q \in Processes, NEW p \in Providers,
           Logout(q, p)
    PROVE  CredentialsInv'
<1>1. UNCHANGED <<file, issued, live, displaced, burnt>> /\ proc[q] = Idle
  BY DEF Logout, endpoint
<1>2. CredentialsTypeOK'
  BY LogoutTypes
<1>3. CASE proc' = proc /\ keyring' = keyring /\ member' = [member EXCEPT ![p] = "told out"]
  <2>1. \A r \in Providers : member'[r] # "told out" => member'[r] = member[r]
    BY <1>3 DEF CredentialsTypeOK
  <2>2. StoredInv' /\ OutInv'
    BY <1>1, <1>3, <2>1 DEF CredentialsInv, MembersInv, StoredInv, OutInv, Emptied, Stored
  <2>3. PlacesInv' /\ AloneInv'
    BY <1>1, <1>3 DEF CredentialsInv, PlacesInv, MembersInv, Places, FilesInv, UnreadableInv,
                      AloneInv, Undisturbed
  <2>4. IssuedInv' /\ MintedInv' /\ SentLive'
    <3>1. IssuedInv'
      BY <1>1, <1>3 DEF CredentialsInv, TokensInv, IssuedInv
    <3>2. MintedInv'
      BY <1>1, <1>3 DEF CredentialsInv, TokensInv, MintedInv, Saves
    <3>3. SentLive'
      BY <1>1, <1>3 DEF CredentialsInv, TokensInv, SentLive
    <3> QED
      BY <3>1, <3>2, <3>3
  <2>5. StoredLive'
    <3>1. StoredLive
      BY DEF CredentialsInv, TokensInv
    <3>2. ASSUME NEW r \in Providers, LiveOrNext(r) PROVE LiveOrNext(r)'
      BY <1>1, <1>3, <3>2 DEF LiveOrNext, Stored, Refreshes, Saves
    <3> QED
      BY <1>1, <3>1, <3>2 DEF StoredLive
  <2>6. FreshInv'
    BY <1>1, <1>3 DEF CredentialsInv, TokensInv, FreshInv, Unknown
  <2> QED
    BY <2>2, <2>3, <2>4, <2>5, <2>6 DEF CredentialsInv, TokensInv, MembersInv
<1>4. CASE /\ keyring' = keyring \ {p}
           /\ member' = [member EXCEPT ![p] = "leaving"]
           /\ Joins(q) /\ Begins(q, "logout", p, "delete", NoCredential)
  <2>1. InPlace(proc'[q])
    BY <1>4, IdleFields DEF Begins, InPlace
  <2>2. PlacesInv' /\ TokensInv'
    BY <1>1, <1>2, <1>4, <2>1, NoCredentialFields, JoinKeeps DEF Begins
  <2>3. AloneInv'
    BY <1>4, JoinAlone DEF Begins
  <2>4. \A r \in Providers : member'[r] # "leaving" => member'[r] = member[r] /\ r # p
    BY <1>4 DEF CredentialsTypeOK
  <2>5. StoredInv'
    BY <1>1, <1>4, <2>4 DEF CredentialsInv, MembersInv, StoredInv, Stored
  <2>6. ASSUME NEW r \in Providers, member'[r] = "out" PROVE Emptied(r)'
    <3>1. Emptied(r) /\ r # p
      BY <2>4, <2>6 DEF CredentialsInv, MembersInv, OutInv
    <3> QED
      BY <1>1, <1>4, <3>1, JoinGone DEF Begins, Emptied
  <2> QED
    BY <2>2, <2>3, <2>5, <2>6 DEF CredentialsInv, MembersInv, OutInv
<1> QED
  BY <1>3, <1>4, LogoutTypes

LEMMA MigrateKeeps ==
    ASSUME CredentialsTypeOK, CredentialsInv, NEW q \in Processes, Migrate(q)
    PROVE  CredentialsInv'
<1>1. /\ CredentialsTypeOK' /\ Joins(q)
      /\ file["auth"].state = "ok" /\ file["migrated"].state = "absent"
      /\ \/ Begins(q, "migrate", Nobody, "rename", NoCredential)
         \/ proc'[q] = Idle
  BY MigrateTypes
<1>2. PICK copied \in SUBSET Keys : keyring' = keyring \cup copied
  BY MigrateTypes
<1>3. /\ UNCHANGED <<file, issued, live, member, displaced, burnt>> /\ proc[q] = Idle
  BY DEF Migrate, endpoint, history
<1>4. InPlace(proc'[q])
  BY <1>1, IdleInPlace, IdleFields DEF Begins, InPlace
<1>5. /\ proc'[q].snap = NoEntries /\ proc'[q].minted = NoCredential
      /\ proc'[q].op \notin {"resolve", "logout", "login"}
      /\ proc'[q].at \in {"idle", "rename"}
      /\ proc'[q] = Idle \/ proc'[q].provider = Nobody
  BY <1>1, IdleFields DEF Begins
<1>6. PlacesInv' /\ TokensInv'
  BY <1>1, <1>3, <1>4, <1>5, NoCredentialFields, NobodyTyped, JoinKeeps
<1>7. AloneInv'
  BY <1>1, <1>5, JoinAlone
<1>8. StoredInv'
  BY <1>2, <1>3 DEF CredentialsInv, MembersInv, StoredInv, Stored
<1>9. ASSUME NEW r \in Providers, member'[r] = "out" PROVE Emptied(r)'
  <2>1. Emptied(r)
    BY <1>3, <1>9 DEF CredentialsInv, MembersInv, OutInv
  <2>2. r \notin copied
    BY <1>2, <2>1, NoCredentialFields DEF Emptied, Keys, Files
  <2> QED
    BY <1>1, <1>2, <1>3, <1>5, <2>1, <2>2, JoinGone DEF Emptied
<1> QED
  BY <1>6, <1>7, <1>8, <1>9 DEF CredentialsInv, MembersInv, OutInv

-----------------------------------------------------------------------------
(* Logging out *)

LEMMA ReadForDeleteKeeps ==
    ASSUME CredentialsTypeOK, CredentialsInv, NEW q \in Processes, ReadForDelete(q)
    PROVE  CredentialsInv'
<1>1. /\ UNCHANGED <<file, keyring, issued, live, displaced, burnt>> /\ proc[q].at = "delete"
      /\ InPlace(proc[q]) /\ proc[q].op = "logout" /\ ~ Saves(q)
  BY DEF ReadForDelete, disk, endpoint, CredentialsInv, PlacesInv, Places, InPlace, Saves
<1>2. /\ proc[q].provider \in Providers /\ proc[q].file \in Files /\ proc[q].snap \in Entries
      /\ proc[q].minted \in Credential /\ file[proc[q].file].entries \in Entries
  BY ProcessFields, FileFields DEF CredentialsTypeOK
<1>3. CASE /\ proc[q].file = "auth" /\ member' = member
           /\ file["auth"].entries[proc[q].provider] = NoCredential
           /\ Carries(q, "delete", "migrated", proc[q].snap, proc[q].minted)
  <2>1. InPlace(proc'[q])
    BY <1>1, <1>3, IdleFields DEF Carries, InPlace
  <2> QED
    BY <1>1, <1>2, <1>3, <2>1, QuietCarry DEF AllPlaces, Files
<1>4. CASE /\ proc[q].file = "migrated" /\ Ends(q)
           /\ file["migrated"].entries[proc[q].provider] = NoCredential
           /\ member' = IF /\ file["auth"].state # "unreadable"
                           /\ member[proc[q].provider] = "leaving" /\ proc[q].alone
                        THEN [member EXCEPT ![proc[q].provider] = "out"] ELSE member
  <2>1. PICK p \in Providers : p = proc[q].provider
    BY <1>2
  <2>2. ASSUME proc[q].alone PROVE Emptied(p)'
    <3>1. Undisturbed(q)
      BY <1>1, <2>2 DEF CredentialsInv, MembersInv, AloneInv
    <3>2. \A r \in Processes : proc'[r] = Idle
      BY <1>4, <3>1 DEF Undisturbed, Ends, OthersStay
    <3> QED
      BY <1>1, <1>4, <2>1, <3>1, <3>2, IdleFields, NoEntriesFields DEF Emptied, Undisturbed, Files
  <2>3. \A r \in Providers : member'[r] = member[r] \/ (member'[r] = "out" /\ Emptied(r)')
    BY <1>4, <2>1, <2>2 DEF CredentialsTypeOK
  <2> QED
    BY <1>1, <1>4, <2>3, QuietEnd DEF Refreshes
<1>5. CASE /\ member' = member
           /\ file[proc[q].file].entries[proc[q].provider] # NoCredential
           /\ Carries(q, "remove", proc[q].file, file[proc[q].file].entries, proc[q].minted)
  <2>1. InPlace(proc'[q])
    BY <1>1, <1>5, IdleFields DEF Carries, InPlace
  <2>2. file["auth"].state # "unreadable"
    <3>1. \A f \in Files : file[f].state # "ok" => file[f].entries = NoEntries
      BY DEF CredentialsInv, PlacesInv, FilesInv
    <3>2. file[proc[q].file].state = "ok"
      BY <1>2, <1>5, <3>1, NoEntriesFields
    <3>3. proc[q].file = "auth" \/ proc[q].file = "migrated"
      BY <1>2 DEF Files
    <3> QED
      BY <3>2, <3>3 DEF CredentialsInv, PlacesInv, UnreadableInv
  <2> QED
    BY <1>1, <1>2, <1>5, <2>1, <2>2, QuietCarry DEF AllPlaces
<1> QED
  BY <1>3, <1>4, <1>5, ReadForDeleteTypes

\* A removal changes the stored credential of its own provider, and of another one
\* only if that is displaced.
LEMMA RemoveStored ==
    ASSUME CredentialsTypeOK, CredentialsInv, NEW q \in Processes, RemoveEntry(q),
           NEW p \in Providers, p \notin displaced'
    PROVE  /\ p \notin displaced
           /\ Stored(p)' = Stored(p) \/ (p = proc[q].provider /\ Stored(p)' = NoCredential)
<1> DEFINE f == proc[q].file
<1>1. /\ Writes(f, Replaced(q)) /\ f \in {"auth", "migrated"}
      /\ Replaced(q).entries = Rest(q)
      /\ Replaced(q).state = IF Rest(q) = NoEntries THEN "absent" ELSE "ok"
      /\ Rest(q)[proc[q].provider] = NoCredential
      /\ p # proc[q].provider => Rest(q)[p] = proc[q].snap[p]
  BY RemoveEntryTypes, SavedTyped, ProcessFields DEF CredentialsTypeOK, Files
<1>2. displaced' = displaced \cup (Overwritten(f, proc[q].snap) \ {proc[q].provider})
              \cup IF f = "auth" /\ (file["auth"].state = "ok" <=> Rest(q) = NoEntries)
                   THEN Backup ELSE {}
  BY DEF RemoveEntry, Rest
<1>3. p # proc[q].provider => file[f].entries[p] = proc[q].snap[p]
  BY <1>2 DEF Overwritten
<1>4. file["auth"].state # "ok" => file["auth"].entries[p] = NoCredential
  BY NoEntriesFields DEF CredentialsInv, PlacesInv, FilesInv, Files
<1>5. Rest(q) = NoEntries => Rest(q)[p] = NoCredential
  BY NoEntriesFields
<1>6. CASE f = "auth"
  <2>1. /\ file'["auth"] = Replaced(q) /\ file'["migrated"] = file["migrated"]
    BY <1>1, <1>6 DEF Writes, Files
  <2>2. Stored(p)' = IF Rest(q) = NoEntries THEN file["migrated"].entries[p] ELSE Rest(q)[p]
    BY <1>1, <2>1 DEF Stored
  <2>3. (file["auth"].state = "ok" <=> Rest(q) = NoEntries) =>
           file["migrated"].entries[p] = NoCredential
    BY <1>2, <1>6 DEF Backup
  <2> QED
    BY <1>1, <1>2, <1>3, <1>4, <1>5, <1>6, <2>2, <2>3, StoredIn
<1>7. CASE f = "migrated"
  <2>1. /\ file'["migrated"] = Replaced(q) /\ file'["auth"] = file["auth"]
    BY <1>1, <1>7 DEF Writes, Files
  <2>2. Stored(p)' = IF file["auth"].state = "ok" THEN file["auth"].entries[p] ELSE Rest(q)[p]
    BY <1>1, <2>1 DEF Stored
  <2> QED
    BY <1>1, <1>2, <1>3, <1>7, <2>2, StoredIn
<1> QED
  BY <1>1, <1>6, <1>7

LEMMA RemoveEntryKeeps ==
    ASSUME CredentialsTypeOK, CredentialsInv, NEW q \in Processes, RemoveEntry(q)
    PROVE  CredentialsInv'
<1> USE DEF CredentialsInv, PlacesInv, TokensInv, MembersInv
<1>1. /\ UNCHANGED <<keyring, issued, live, burnt>> /\ proc[q].at = "remove"
      /\ displaced \subseteq displaced'
  BY DEF RemoveEntry, endpoint
<1>2. /\ InPlace(proc[q]) /\ proc[q].op = "logout" /\ proc[q] # Idle
      /\ proc[q].provider \in Providers /\ proc[q].file \in {"auth", "migrated"}
  BY <1>1, ProcessFields, IdleFields DEF Places, InPlace, CredentialsTypeOK, Files
<1>3. PICK p \in Providers : p = proc[q].provider
  BY <1>2
<1>4. PICK f \in Files : f = proc[q].file
  BY <1>2 DEF Files
<1>5. /\ file'[f].entries = Rest(q)
      /\ file'[f].state = IF Rest(q) = NoEntries THEN "absent" ELSE "ok"
      /\ \A g \in Files \ {f} : file'[g] = file[g]
      /\ Rest(q)[p] = NoCredential
      /\ \A r \in Providers \ {p} : Rest(q)[r] = proc[q].snap[r]
  BY <1>3, <1>4, RemoveEntryTypes, SavedTyped DEF Writes
<1>6. \/ /\ f = "auth" /\ member' = Left(q) /\ OthersStay(q)
         /\ proc'[q].op = "logout" /\ proc'[q].at = "delete" /\ proc'[q].provider = p
         /\ proc'[q].file = "migrated" /\ proc'[q].snap = proc[q].snap
         /\ proc'[q].minted = proc[q].minted /\ proc'[q].alone = proc[q].alone
      \/ /\ f = "migrated" /\ OthersStay(q) /\ proc'[q] = Idle
         /\ member' = IF file["auth"].state # "unreadable" /\ proc[q].alone
                      THEN [Left(q) EXCEPT ![p] = "out"] ELSE Left(q)
  BY <1>2, <1>3, <1>4, RemoveEntryTypes DEF Carries, Ends
<1>7. /\ OthersStay(q)
      /\ \A r \in Processes : r # q => proc'[r] = proc[r]
  BY <1>6 DEF OthersStay
<1>8. \A r \in Providers : Rest(q)[r] = proc[q].snap[r] \/ Rest(q)[r] = NoCredential
  BY <1>5
<1>9. \A z \in Processes, r \in Providers :
         proc'[z].snap[r] = proc[z].snap[r] \/ proc'[z].snap[r] = NoCredential
  BY <1>6, <1>7, IdleFields, NoEntriesFields
<1>10. \A g \in Files, r \in Providers :
          \/ file'[g].entries[r] = file[g].entries[r]
          \/ file'[g].entries[r] = proc[q].snap[r]
          \/ file'[g].entries[r] = NoCredential
  BY <1>5, <1>8
<1>11. Places'
  <2>1. InPlace(proc'[q])
    BY <1>2, <1>6, IdleInPlace, IdleFields DEF InPlace
  <2> QED
    BY <1>7, <2>1, PlacesKept
<1>12. FilesInv'
  BY <1>5 DEF FilesInv
<1>13. UnreadableInv'
  <2>1. file["auth"].state # "unreadable"
    BY <1>1 DEF UnreadableInv
  <2>2. file'["auth"].state # "unreadable"
    BY <1>5, <2>1 DEF Files
  <2> QED
    BY <2>2 DEF UnreadableInv
<1>14. IssuedInv'
  <2>1. ASSUME NEW r \in Providers
        PROVE  /\ \A g \in Files : file'[g].entries[r].refresh <= issued[r]
               /\ \A z \in Processes : proc'[z].snap[r].refresh <= issued[r]
    BY <1>9, <1>10, NoCredentialFields, Tokens DEF IssuedInv
  <2>2. ASSUME NEW z \in Processes, NEW r \in Providers, proc'[z].provider = r
        PROVE  proc'[z].minted.refresh <= issued[r]
    <3>1. CASE proc'[z] = Idle
      BY <3>1, IdleFields, NoCredentialFields, Tokens
    <3>2. CASE proc'[z].provider = proc[z].provider /\ proc'[z].minted = proc[z].minted
      BY <2>2, <3>2 DEF IssuedInv
    <3> QED
      BY <1>3, <1>6, <1>7, <3>1, <3>2
  <2> QED
    BY <1>1, <2>1, <2>2 DEF IssuedInv
<1>15. FreshInv'
  <2>1. ASSUME NEW r \in Processes, proc'[r].op = "login"
        PROVE  Unknown(proc[r].minted.refresh, proc[r].provider, r)'
    <3>1. r # q /\ proc'[r] = proc[r] /\ proc[r].op = "login" /\ proc[r].provider \in Providers
      BY <1>6, <1>7, <2>1, IdleFields, ProcessFields DEF CredentialsTypeOK
    <3>2. Unknown(proc[r].minted.refresh, proc[r].provider, r) /\ proc[r].minted.refresh # 0
      BY <3>1, LoginToken DEF FreshInv
    <3>3. ASSUME NEW g \in Files
          PROVE  file'[g].entries[proc[r].provider].refresh # proc[r].minted.refresh
      BY <1>10, <3>1, <3>2, NoCredentialFields DEF Unknown
    <3>4. ASSUME NEW z \in Processes
          PROVE  proc'[z].snap[proc[r].provider].refresh # proc[r].minted.refresh
      BY <1>9, <3>1, <3>2, NoCredentialFields DEF Unknown
    <3>5. ASSUME NEW z \in Processes \ {r}, proc'[z].provider = proc[r].provider
          PROVE  proc'[z].minted.refresh # proc[r].minted.refresh
      <4>1. CASE proc'[z] = Idle
        BY <3>2, <4>1, IdleFields, NoCredentialFields
      <4>2. CASE proc'[z].provider = proc[z].provider /\ proc'[z].minted = proc[z].minted
        BY <3>2, <3>5, <4>2 DEF Unknown
      <4> QED
        BY <1>3, <1>6, <1>7, <4>1, <4>2
    <3> QED
      BY <3>1, <3>3, <3>4, <3>5 DEF Unknown
  <2> QED
    BY <2>1 DEF FreshInv
<1>16. MintedInv' /\ SentLive'
  BY <1>1, <1>6, <1>7, IdleFields DEF MintedInv, SentLive, Saves
<1>17. StoredLive'
  <2>1. ASSUME NEW r \in Providers, r \notin displaced' \cup burnt' PROVE LiveOrNext(r)'
    <3>1. LiveOrNext(r) /\ (Stored(r)' = Stored(r) \/ Stored(r)' = NoCredential)
      BY <1>1, <2>1, RemoveStored DEF StoredLive
    <3>2. ASSUME NEW z \in Processes, Refreshes(z, r) PROVE Refreshes(z, r)'
      BY <1>2, <1>7, <3>2 DEF Refreshes, Saves
    <3> QED
      BY <1>1, <3>1, <3>2, NoCredentialFields DEF LiveOrNext
  <2> QED
    BY <2>1 DEF StoredLive
<1>18. /\ member'[p] \in {"leaving", "out"}
       /\ \A r \in Providers \ {p} : member'[r] = member[r]
  BY <1>3, <1>6 DEF Left, CredentialsTypeOK
<1>19. StoredInv'
  <2>1. ASSUME NEW r \in Providers, r \notin displaced', member'[r] = "in"
        PROVE  r \in keyring' \/ Stored(r)' # NoCredential
    <3>1. r # p /\ member[r] = "in"
      BY <1>18, <2>1
    <3>2. r \notin displaced /\ Stored(r)' = Stored(r)
      BY <1>3, <2>1, <3>1, RemoveStored
    <3> QED
      BY <1>1, <3>1, <3>2 DEF StoredInv
  <2> QED
    BY <2>1 DEF StoredInv
<1>20. AloneInv'
  <2>1. ASSUME NEW r \in Processes, proc'[r].op = "logout", proc'[r].alone
        PROVE  Undisturbed(r)'
    <3>1. r = q
      BY <1>2, <1>7, <2>1 DEF AloneInv, Undisturbed
    <3>2. proc[q].alone /\ f = "auth" /\ proc'[q].provider = p
      BY <1>6, <2>1, <3>1, IdleFields
    <3>3. Undisturbed(q)
      BY <1>2, <3>2 DEF AloneInv
    <3>4. file'["auth"].entries[p] = NoCredential
      BY <1>5, <3>2
    <3> QED
      BY <1>1, <1>3, <1>7, <3>1, <3>2, <3>3, <3>4 DEF Undisturbed
  <2> QED
    BY <2>1 DEF AloneInv
<1>21. OutInv'
  <2>1. ASSUME NEW r \in Providers, member'[r] = "out" PROVE Emptied(r)'
    <3>1. CASE r # p
      <4>1. Emptied(r)
        BY <1>18, <2>1, <3>1 DEF OutInv
      <4>2. \A g \in Files : file'[g].entries[r] = NoCredential
        BY <1>10, <4>1 DEF Emptied
      <4>3. \A z \in Processes : proc'[z].snap[r] = NoCredential
        BY <1>9, <4>1 DEF Emptied
      <4>4. \A z \in Processes : proc'[z].op \in {"resolve", "logout"} => proc'[z].provider # r
        BY <1>6, <1>7, <3>1, <4>1, IdleFields DEF Emptied
      <4> QED
        BY <1>1, <4>1, <4>2, <4>3, <4>4 DEF Emptied
    <3>2. CASE r = p
      <4>1. f = "migrated" /\ proc[q].alone /\ proc'[q] = Idle
        BY <1>3, <1>6, <2>1, <3>2 DEF Left, CredentialsTypeOK
      <4>2. Undisturbed(q)
        BY <1>2, <4>1 DEF AloneInv
      <4>3. \A z \in Processes : proc'[z] = Idle
        BY <1>7, <4>1, <4>2 DEF Undisturbed
      <4>4. \A g \in Files : file'[g].entries[p] = NoCredential
        BY <1>3, <1>4, <1>5, <4>1, <4>2 DEF Undisturbed, Files
      <4>5. p \notin keyring'
        BY <1>1, <1>3, <4>2 DEF Undisturbed
      <4> QED
        BY <3>2, <4>3, <4>4, <4>5, IdleFields, NoEntriesFields DEF Emptied
    <3> QED
      BY <3>1, <3>2
  <2> QED
    BY <2>1 DEF OutInv
<1> QED
  BY <1>11, <1>12, <1>13, <1>14, <1>15, <1>16, <1>17, <1>19, <1>20, <1>21

-----------------------------------------------------------------------------
(* The migration, the clock, and the theorem *)

LEMMA RenameKeeps ==
    ASSUME CredentialsTypeOK, CredentialsInv, NEW q \in Processes, Rename(q)
    PROVE  CredentialsInv'
<1> USE DEF CredentialsInv, PlacesInv, TokensInv, MembersInv
<1>1. /\ UNCHANGED <<keyring, issued, live, member, displaced, burnt>> /\ proc[q].at = "rename"
      /\ Ends(q)
  BY RenameTypes DEF Rename, endpoint, history
<1>2. proc[q].op = "migrate" /\ ~ Saves(q) /\ file["auth"].state # "unreadable"
  BY <1>1 DEF Places, InPlace, Saves, UnreadableInv
<1>3. CASE file' = file
  BY <1>1, <1>2, <1>3, QuietEnd DEF Refreshes
<1>4. CASE file'["migrated"] = file["auth"] /\ file'["auth"] = Absent
           /\ file["auth"].state # "absent"
  <2>1. /\ file["auth"].state = "ok" /\ Absent.state = "absent" /\ Absent.entries = NoEntries
    BY <1>2, <1>4, HoldingTyped, NoEntriesFields, FileFields DEF FileState, Files
  <2>2. \A r \in Processes : r # q => proc'[r] = proc[r]
    BY <1>1 DEF Ends, OthersStay
  <2>3. proc'[q] = Idle
    BY <1>1 DEF Ends
  <2>4. \A r \in Providers : Stored(r)' = Stored(r)
    BY <1>4, <2>1 DEF Stored
  <2>5. \A f \in Files, r \in Providers :
           \/ file'[f].entries[r] = file["auth"].entries[r]
           \/ file'[f].entries[r] = NoCredential
    BY <1>4, <2>1, NoEntriesFields DEF Files
  <2>6. Places'
    BY <1>1, PlacesKept, IdleInPlace DEF Ends
  <2>7. FilesInv' /\ UnreadableInv'
    BY <1>4, <2>1 DEF FilesInv, UnreadableInv, Files
  <2>8. IssuedInv'
    <3>1. \A f \in Files, r \in Providers : file'[f].entries[r].refresh <= issued[r]
      BY <2>5, NoCredentialFields, Tokens DEF IssuedInv, Files
    <3> QED
      BY <1>1, <2>2, <2>3, <3>1, IdleFields, NoEntriesFields, NoCredentialFields, Tokens
         DEF IssuedInv
  <2>9. FreshInv'
    <3>1. ASSUME NEW r \in Processes, proc'[r].op = "login"
          PROVE  Unknown(proc[r].minted.refresh, proc[r].provider, r)'
      <4>1. /\ r # q /\ proc'[r] = proc[r] /\ proc[r].op = "login"
            /\ proc[r].provider \in Providers
        BY <2>2, <2>3, <3>1, IdleFields, ProcessFields DEF CredentialsTypeOK
      <4>2. Unknown(proc[r].minted.refresh, proc[r].provider, r) /\ proc[r].minted.refresh # 0
        BY <4>1, LoginToken DEF FreshInv
      <4>3. ASSUME NEW f \in Files
            PROVE  file'[f].entries[proc[r].provider].refresh # proc[r].minted.refresh
        BY <2>5, <4>1, <4>2, NoCredentialFields DEF Unknown, Files
      <4> QED
        BY <2>2, <2>3, <4>1, <4>2, <4>3, IdleFields, NoEntriesFields, NoCredentialFields
           DEF Unknown
    <3> QED
      BY <3>1 DEF FreshInv
  <2>10. MintedInv' /\ SentLive'
    BY <1>1, <2>2, <2>3, IdleFields DEF MintedInv, SentLive, Saves
  <2>11. StoredLive'
    <3>1. ASSUME NEW r \in Providers, NEW z \in Processes, Refreshes(z, r)
          PROVE  Refreshes(z, r)'
      BY <1>2, <2>2, <3>1 DEF Refreshes, Saves
    <3> QED
      BY <1>1, <2>4, <3>1 DEF StoredLive, LiveOrNext
  <2>12. StoredInv'
    BY <1>1, <2>4 DEF StoredInv
  <2>13. AloneInv'
    <3>1. ASSUME NEW r \in Processes, proc[r].op = "logout", proc[r].alone PROVE FALSE
      BY <1>2, <3>1, IdleFields DEF AloneInv, Undisturbed
    <3> QED
      BY <2>2, <2>3, <3>1, IdleFields DEF AloneInv
  <2>14. OutInv'
    <3>1. ASSUME NEW r \in Providers, Emptied(r) PROVE Emptied(r)'
      <4>1. \A f \in Files : file'[f].entries[r] = NoCredential
        BY <2>5, <3>1 DEF Emptied, Files
      <4> QED
        BY <1>1, <2>2, <2>3, <3>1, <4>1, IdleFields, NoEntriesFields DEF Emptied
    <3> QED
      BY <1>1, <3>1 DEF OutInv
  <2> QED
    BY <2>6, <2>7, <2>8, <2>9, <2>10, <2>11, <2>12, <2>13, <2>14
<1> QED
  BY <1>3, <1>4, RenameTypes

\* Nothing the invariant speaks of changes.
LEMMA NothingChanges ==
    ASSUME CredentialsInv,
           UNCHANGED <<file, keyring, proc, issued, live, member, displaced, burnt>>
    PROVE  CredentialsInv'
<1>1. PlacesInv'
  BY DEF CredentialsInv, PlacesInv, Places, FilesInv, UnreadableInv
<1>2. IssuedInv' /\ FreshInv' /\ MintedInv' /\ SentLive'
  BY DEF CredentialsInv, TokensInv, IssuedInv, FreshInv, MintedInv, SentLive, Unknown, Saves
<1>3. StoredLive'
  BY DEF CredentialsInv, TokensInv, StoredLive, LiveOrNext, Stored, Refreshes, Saves
<1>4. MembersInv'
  BY DEF CredentialsInv, MembersInv, StoredInv, AloneInv, OutInv, Undisturbed, Emptied, Stored
<1> QED
  BY <1>1, <1>2, <1>3, <1>4 DEF CredentialsInv, TokensInv

LEMMA TokenExpiresKeeps ==
    ASSUME CredentialsInv, NEW p \in Providers, TokenExpires(p)
    PROVE  CredentialsInv'
  BY NothingChanges DEF TokenExpires, disk, history

LEMMA InitInv == CredentialsInit => CredentialsInv
<1> SUFFICES ASSUME CredentialsInit PROVE CredentialsInv
  OBVIOUS
<1> USE DEF Files
<1>0. CredentialsTypeOK
  BY InitTypes
<1>1. \A q \in Processes : proc[q] = Idle
  BY DEF CredentialsInit
<1>2. /\ file["migrated"] = Absent
      /\ \/ file["auth"] = Absent
         \/ file["auth"] = [state |-> "unreadable", entries |-> NoEntries]
         \/ \E e \in [Providers -> {NoCredential, ApiKey, OAuth(1, 1)}] : file["auth"] = Holding(e)
  BY DEF CredentialsInit
<1>a. /\ Absent.state = "absent" /\ Absent.entries = NoEntries
      /\ \A e : Holding(e).state = "ok" /\ Holding(e).entries = e
  BY DEF Absent, Holding
<1>b. \/ file["auth"].entries = NoEntries
      \/ /\ file["auth"].state = "ok"
         /\ file["auth"].entries \in [Providers -> {NoCredential, ApiKey, OAuth(1, 1)}]
  BY <1>2, <1>a
<1>3. FilesInv /\ UnreadableInv
  BY <1>1, <1>2, <1>a, <1>b, IdleFields DEF FilesInv, UnreadableInv
<1>4. PlacesInv
  BY <1>1, <1>3, IdleInPlace DEF PlacesInv, Places
<1>5. \A p \in Providers :
         /\ file["migrated"].entries[p] = NoCredential
         /\ file["auth"].entries[p] \in {NoCredential, ApiKey, OAuth(1, 1)}
  BY <1>2, <1>a, <1>b, NoEntriesFields
<1>6. ASSUME NEW p \in Providers
      PROVE  /\ issued[p] = IF file["auth"].entries[p].kind = "oauth" THEN 1 ELSE 0
             /\ live[p] = 1..issued[p]
             /\ member[p] = "in" => file["auth"].entries[p] # NoCredential
             /\ member[p] # "out"
  BY DEF CredentialsInit
<1>7. OAuth(1, 1).kind = "oauth" /\ OAuth(1, 1).refresh = 1
  BY DEF OAuth
<1>8. \A p \in Providers : file["auth"].entries[p].refresh = issued[p]
  BY <1>5, <1>6, <1>7, NoCredentialFields
<1>9. IssuedInv
  BY <1>0, <1>1, <1>5, <1>6, <1>8, IdleFields, NoEntriesFields, NoCredentialFields, Tokens
     DEF IssuedInv
<1>10. FreshInv /\ MintedInv /\ SentLive
  BY <1>1, IdleFields DEF FreshInv, MintedInv, SentLive, Saves
<1>11. StoredLive
  <2>1. ASSUME NEW p \in Providers, Stored(p).refresh # 0 PROVE Stored(p).refresh \in live[p]
    <3>1. Stored(p).refresh = issued[p]
      BY <1>5, <1>8, <2>1, NoCredentialFields DEF Stored
    <3> QED
      BY <1>0, <1>6, <2>1, <3>1, Tokens
  <2> QED
    BY <2>1 DEF StoredLive, LiveOrNext
<1>12. StoredInv
  <2>1. ASSUME NEW p \in Providers, file["auth"].entries[p] # NoCredential
        PROVE  Stored(p) # NoCredential
    BY <1>3, <2>1, NoEntriesFields DEF Stored, FilesInv
  <2> QED
    BY <1>6, <2>1 DEF StoredInv
<1>13. AloneInv /\ OutInv
  BY <1>1, <1>6, IdleFields DEF AloneInv, OutInv
<1> QED
  BY <1>4, <1>9, <1>10, <1>11, <1>12, <1>13 DEF CredentialsInv, TokensInv, MembersInv

LEMMA TypesStep ==
    CredentialsTypeOK /\ [CredentialsNext]_credentialVars => CredentialsTypeOK'
<1> SUFFICES ASSUME CredentialsTypeOK, [CredentialsNext]_credentialVars
             PROVE  CredentialsTypeOK'
  OBVIOUS
<1>1. ASSUME NEW q \in Processes, Step(q) PROVE CredentialsTypeOK'
  BY <1>1, TakeLockTypes, LockTimeoutTypes, RecheckTypes, RefreshAnsweredTypes,
     ReadForSaveTypes, WriteSaveTypes, WriteFailsTypes, ReadForDeleteTypes,
     RemoveEntryTypes, RenameTypes DEF Step
<1>2. ASSUME NEW q \in Processes, Begin(q) PROVE CredentialsTypeOK'
  BY <1>2, MigrateTypes, ResolveTypes, LoginTypes, SetKeyTypes, LogoutTypes DEF Begin
<1>3. ASSUME NEW q \in Processes, Crash(q) PROVE CredentialsTypeOK'
  BY <1>3, CrashTypes
<1>4. ASSUME NEW p \in Providers, TokenExpires(p) PROVE CredentialsTypeOK'
  BY <1>4, TokenExpiresTypes
<1>5. CASE UNCHANGED credentialVars
  BY <1>5 DEF credentialVars, CredentialsTypeOK, LockHeld, PastLock
<1> QED
  BY <1>1, <1>2, <1>3, <1>4, <1>5 DEF CredentialsNext

LEMMA InvStep ==
    CredentialsTypeOK /\ CredentialsInv /\ [CredentialsNext]_credentialVars => CredentialsInv'
<1> SUFFICES ASSUME CredentialsTypeOK, CredentialsInv, [CredentialsNext]_credentialVars
             PROVE  CredentialsInv'
  OBVIOUS
<1>1. ASSUME NEW q \in Processes, Step(q) PROVE CredentialsInv'
  BY <1>1, TakeLockKeeps, LockTimeoutKeeps, RecheckKeeps, RefreshAnsweredKeeps,
     ReadForSaveKeeps, WriteSaveKeeps, WriteFailsKeeps, ReadForDeleteKeeps,
     RemoveEntryKeeps, RenameKeeps DEF Step
<1>2. ASSUME NEW q \in Processes, Begin(q) PROVE CredentialsInv'
  BY <1>2, MigrateKeeps, ResolveKeeps, LoginKeeps, SetKeyKeeps, LogoutKeeps DEF Begin
<1>3. ASSUME NEW q \in Processes, Crash(q) PROVE CredentialsInv'
  BY <1>3, CrashKeeps
<1>4. ASSUME NEW p \in Providers, TokenExpires(p) PROVE CredentialsInv'
  BY <1>4, TokenExpiresKeeps
<1>5. CASE UNCHANGED credentialVars
  BY <1>5, NothingChanges DEF credentialVars
<1> QED
  BY <1>1, <1>2, <1>3, <1>4, <1>5 DEF CredentialsNext

\* A dead token is sent only for a provider whose entry was displaced or whose token
\* was lost: refused is an inductive consequence of SentLive.
LEMMA RefusedStep ==
    CredentialsInv /\ NoTokenSpentTwice /\ [CredentialsNext]_credentialVars =>
        NoTokenSpentTwice'
<1> SUFFICES ASSUME CredentialsInv, NoTokenSpentTwice, [CredentialsNext]_credentialVars
             PROVE  NoTokenSpentTwice'
  OBVIOUS
<1>1. ASSUME NEW q \in Processes, RefreshAnswered(q) PROVE NoTokenSpentTwice'
  <2>1. displaced' = displaced /\ burnt \subseteq burnt' /\ proc[q].at = "refresh"
    BY <1>1 DEF RefreshAnswered
  <2>2. CASE refused' = refused
    BY <2>1, <2>2 DEF NoTokenSpentTwice
  <2>3. CASE /\ refused' = refused \cup {proc[q].provider}
             /\ proc[q].minted.refresh \notin live[proc[q].provider]
    <3>1. proc[q].provider \in displaced \cup burnt
      BY <2>1, <2>3 DEF CredentialsInv, TokensInv, SentLive
    <3> QED
      BY <2>1, <2>3, <3>1 DEF NoTokenSpentTwice
  <2> QED
    BY <1>1, <2>2, <2>3 DEF RefreshAnswered
<1>2. ASSUME refused' = refused, displaced \subseteq displaced', burnt \subseteq burnt'
      PROVE  NoTokenSpentTwice'
  BY <1>2 DEF NoTokenSpentTwice
<1>3. ASSUME NEW q \in Processes, Step(q), ~ RefreshAnswered(q) PROVE NoTokenSpentTwice'
  BY <1>2, <1>3 DEF Step, TakeLock, LockTimeout, Recheck, ReadForSave, WriteSave, WriteFails,
                    ReadForDelete, RemoveEntry, Rename, history
<1>4. ASSUME NEW q \in Processes, Begin(q) PROVE NoTokenSpentTwice'
  BY <1>2, <1>4 DEF Begin, Migrate, Resolve, Login, SetKey, Logout, history
<1>5. ASSUME NEW q \in Processes, Crash(q) PROVE NoTokenSpentTwice'
  BY <1>2, <1>5 DEF Crash
<1>6. ASSUME NEW p \in Providers, TokenExpires(p) PROVE NoTokenSpentTwice'
  BY <1>2, <1>6 DEF TokenExpires, history
<1>7. CASE UNCHANGED credentialVars
  BY <1>2, <1>7 DEF credentialVars
<1> QED
  BY <1>1, <1>3, <1>4, <1>5, <1>6, <1>7 DEF CredentialsNext

\* The invariant carries the promises to the user.
LEMMA InvPromises == CredentialsInv => SignedInKept /\ SignedOutGone
<1> SUFFICES ASSUME CredentialsInv PROVE SignedInKept /\ SignedOutGone
  OBVIOUS
<1> USE DEF CredentialsInv, PlacesInv, MembersInv, Files
<1>1. ASSUME NEW p \in Providers, Stored(p) # NoCredential PROVE Bearer(p)
  BY <1>1, NoEntriesFields DEF Stored, Bearer, FilesInv
<1>2. SignedInKept
  BY <1>1 DEF SignedInKept, StoredInv, Bearer
<1>3. SignedOutGone
  BY DEF SignedOutGone, OutInv, Emptied, Bearer
<1> QED
  BY <1>2, <1>3

LEMMA UnreadableStep ==
    CredentialsTypeOK /\ CredentialsInv /\ [CredentialsNext]_credentialVars =>
        (file["auth"].state = "unreadable" => file'["auth"] = file["auth"])
<1> SUFFICES ASSUME CredentialsTypeOK, CredentialsInv, [CredentialsNext]_credentialVars,
                    file["auth"].state = "unreadable"
             PROVE  file'["auth"] = file["auth"]
  OBVIOUS
<1>1. \A q \in Processes : proc[q].at \notin {"write", "rename", "remove"}
  BY DEF CredentialsInv, PlacesInv, UnreadableInv
<1>2. ASSUME NEW q \in Processes, Step(q) PROVE file' = file
  BY <1>1, <1>2 DEF Step, TakeLock, LockTimeout, Recheck, RefreshAnswered, ReadForSave,
                    WriteSave, WriteFails, ReadForDelete, RemoveEntry, Rename, disk
<1>3. ASSUME NEW q \in Processes, Begin(q) PROVE file' = file
  BY <1>3 DEF Begin, Migrate, Resolve, Login, SetKey, Logout, disk
<1>4. ASSUME NEW q \in Processes, Crash(q) PROVE file' = file
  BY <1>4 DEF Crash, disk
<1>5. ASSUME NEW p \in Providers, TokenExpires(p) PROVE file' = file
  BY <1>5 DEF TokenExpires, disk
<1>6. CASE UNCHANGED credentialVars
  BY <1>6 DEF credentialVars
<1> QED
  BY <1>2, <1>3, <1>4, <1>5, <1>6 DEF CredentialsNext

LEMMA InitRefused == CredentialsInit => NoTokenSpentTwice
  BY DEF CredentialsInit, NoTokenSpentTwice

\* No credential is lost, spent twice, left behind or overwritten unread
\* (anie-auth's store, refresh and logout), for every number of processes,
\* providers, tokens, faults and operations.
THEOREM CredentialsSafe == CredentialsSpec => CredentialsSound
<1>1. CredentialsInit => CredentialsTypeOK /\ CredentialsInv /\ NoTokenSpentTwice
  BY InitTypes, InitInv, InitRefused
<1>2. CredentialsTypeOK /\ CredentialsInv /\ NoTokenSpentTwice
         /\ [CredentialsNext]_credentialVars =>
            (CredentialsTypeOK /\ CredentialsInv /\ NoTokenSpentTwice)'
  BY TypesStep, InvStep, RefusedStep
<1>3. CredentialsTypeOK /\ CredentialsInv /\ NoTokenSpentTwice =>
         CredentialsTypeOK /\ NoTokenSpentTwice /\ SignedInKept /\ SignedOutGone
  BY InvPromises
<1>4. CredentialsTypeOK /\ CredentialsInv /\ [CredentialsNext]_credentialVars =>
         [file["auth"].state = "unreadable" => file'["auth"] = file["auth"]]_credentialVars
  BY UnreadableStep
<1> QED
  BY <1>1, <1>2, <1>3, <1>4, PTL DEF CredentialsSpec, CredentialsSound, UnreadableKept

-----------------------------------------------------------------------------
(* The cached prompt: PromptSound of PromptCache.tla.                        *)
(*                                                                           *)
(* A stamp that matches says nothing by itself.  What carries it is what     *)
(* was read of each candidate and when: as long as a file is what the stamp  *)
(* says, it was read so (AgreeOn), for a refresh because no change has a     *)
(* time the stamp knows, for a build because nothing changed; and the stamp  *)
(* knows every file the prompt holds (Stamped).                              *)

LEMMA LeastMember ==
    ASSUME NEW T, T \subseteq Nat, T # {}
    PROVE  \E x \in T : \A y \in T : x <= y
<1>1. \E x \in T : \A y \in T : ~(<<y, x>> \in OpToRel(<, Nat))
    BY WFMin, NatLessThanWellFounded
<1>2. PICK x \in T : \A y \in T : ~(<<y, x>> \in OpToRel(<, Nat))
    BY <1>1
<1>3. ASSUME NEW y \in T PROVE x <= y
    <2>1. x \in Nat /\ y \in Nat
        OBVIOUS
    <2>2. ~(y < x)
        BY <1>2, <2>1 DEF OpToRel
    <2> QED BY <2>1, <2>2
<1> QED BY <1>3

\* Induction over the numbers, with a set for the formula.
LEMMA Induction ==
    ASSUME NEW S, 0 \in S, \A n \in Nat : n \in S => n + 1 \in S
    PROVE  Nat \subseteq S
<1> SUFFICES ASSUME Nat \ S # {} PROVE FALSE
    OBVIOUS
<1>1. PICK n \in Nat \ S : \A y \in Nat \ S : n <= y
    BY LeastMember
<1>2. n # 0 /\ n - 1 \in Nat
    BY <1>1
<1>3. n - 1 \in S
    BY <1>1, <1>2
<1>4. (n - 1) + 1 \in S
    BY <1>2, <1>3
<1> QED BY <1>1, <1>4

\* Loaded up to each of the first m parts.
IsLoading(f, parts, m) == f = [n \in 0..m |-> IF n = 0 THEN 0 ELSE f[n - 1] + parts[n].kept]

LEMMA LoadingAt ==
    ASSUME NEW parts, NEW m \in Nat, NEW f, IsLoading(f, parts, m)
    PROVE  f[0] = 0 /\ \A n \in 1..m : f[n] = f[n - 1] + parts[n].kept
<1>1. 0 \in 0..m /\ \A n \in 1..m : n \in 0..m /\ n # 0
    OBVIOUS
<1> QED BY <1>1 DEF IsLoading

LEMMA LoadingExists ==
    ASSUME NEW parts, NEW m \in Nat PROVE \E f : IsLoading(f, parts, m)
<1> DEFINE P == {n \in Nat : \E f : IsLoading(f, parts, n)}
<1>1. 0 \in P
    <2>1. IsLoading([n \in 0..0 |-> 0], parts, 0)
        BY DEF IsLoading
    <2> QED BY <2>1
<1>2. ASSUME NEW k \in Nat, k \in P PROVE k + 1 \in P
    <2>1. PICK f : IsLoading(f, parts, k)
        BY <1>2
    <2> DEFINE last == f[k] + parts[k + 1].kept
               g == [n \in 0..k + 1 |-> IF n = k + 1 THEN last ELSE f[n]]
    <2>2. g[k + 1] = last /\ (\A n \in 0..k : g[n] = f[n]) /\ g = [n \in 0..k + 1 |-> g[n]]
        OBVIOUS
    <2>5. f[0] = 0 /\ \A n \in 1..k : f[n] = f[n - 1] + parts[n].kept
        BY <2>1, LoadingAt
    <2> HIDE DEF g
    <2>3. ASSUME NEW n \in 0..k + 1
          PROVE  g[n] = IF n = 0 THEN 0 ELSE g[n - 1] + parts[n].kept
        <3>1. CASE n = 0
            <4>1. 0 \in 0..k
                OBVIOUS
            <4> QED BY <2>2, <2>5, <3>1, <4>1
        <3>2. CASE n = k + 1
            <4>1. n # 0 /\ n - 1 = k /\ k \in 0..k
                BY <3>2
            <4>2. g[n - 1] = f[k]
                BY <2>2, <4>1
            <4> QED BY <2>2, <3>2, <4>1, <4>2
        <3>3. CASE n \in 1..k
            <4>1. n # 0 /\ n - 1 \in 0..k /\ n \in 0..k
                BY <3>3
            <4>2. g[n] = f[n] /\ g[n - 1] = f[n - 1]
                BY <2>2, <4>1
            <4>3. f[n] = f[n - 1] + parts[n].kept
                BY <2>5, <3>3
            <4> QED BY <4>1, <4>2, <4>3
        <3> QED BY <3>1, <3>2, <3>3
    <2>4. IsLoading(g, parts, k + 1)
        BY <2>2, <2>3 DEF IsLoading
    <2> QED BY <2>4
<1> HIDE DEF P
<1>3. Nat \subseteq P
    BY <1>1, <1>2, Induction
<1> QED BY <1>3 DEF P

LEMMA LoadedIs ==
    ASSUME NEW S, NEW parts \in Seq(S)
    PROVE  \E f : IsLoading(f, parts, Len(parts)) /\ Loaded(parts) = f[Len(parts)]
<1>1. Len(parts) \in Nat
    OBVIOUS
<1>2. \E f : IsLoading(f, parts, Len(parts))
    BY <1>1, LoadingExists
<1> QED BY <1>2 DEF Loaded, IsLoading

LEMMA LoadingAgrees ==
    ASSUME NEW s, NEW t, NEW m \in Nat, \A i \in 1..m : s[i] = t[i],
           NEW f, IsLoading(f, s, m), NEW g, IsLoading(g, t, m + 1)
    PROVE  f[m] = g[m]
<1> DEFINE P == {n \in Nat : n <= m => f[n] = g[n]}
<1>1. f[0] = 0 /\ \A n \in 1..m : f[n] = f[n - 1] + s[n].kept
    BY LoadingAt
<1>2. g[0] = 0 /\ \A n \in 1..m + 1 : g[n] = g[n - 1] + t[n].kept
    <2>1. PICK n \in Nat : n = m + 1
        OBVIOUS
    <2>2. IsLoading(g, t, n)
        BY <2>1
    <2>3. g[0] = 0 /\ \A i \in 1..n : g[i] = g[i - 1] + t[i].kept
        BY <2>2, LoadingAt
    <2> QED BY <2>1, <2>3
<1>3. 0 \in P
    BY <1>1, <1>2
<1>4. ASSUME NEW n \in Nat, n \in P PROVE n + 1 \in P
    <2> SUFFICES ASSUME n + 1 <= m PROVE f[n + 1] = g[n + 1]
        OBVIOUS
    <2>1. f[n] = g[n] /\ (n + 1) - 1 = n /\ n + 1 \in 1..m /\ n + 1 \in 1..m + 1
        BY <1>4
    <2>2. f[n + 1] = f[n] + s[n + 1].kept
        BY <1>1, <2>1
    <2>3. g[n + 1] = g[n] + t[n + 1].kept
        BY <1>2, <2>1
    <2>4. s[n + 1] = t[n + 1]
        BY <2>1
    <2> QED BY <2>1, <2>2, <2>3, <2>4
<1> HIDE DEF P
<1>5. Nat \subseteq P
    BY <1>3, <1>4, Induction
<1> QED BY <1>5 DEF P

LEMMA NothingLoaded == Loaded(<<>>) = 0
<1>0. PICK none : none = <<>>
    OBVIOUS
<1>1. none \in Seq({}) /\ Len(none) \in Nat
    BY <1>0
<1>2. Len(none) = 0
    BY <1>0
<1>3. PICK f : IsLoading(f, none, Len(none)) /\ Loaded(none) = f[Len(none)]
    BY <1>1, LoadedIs
<1>4. f[0] = 0
    BY <1>1, <1>3, LoadingAt
<1> QED BY <1>0, <1>2, <1>3, <1>4

\* One more part.
LEMMA LoadedAppend ==
    ASSUME NEW S, NEW parts \in Seq(S), NEW part \in S
    PROVE  Loaded(Append(parts, part)) = Loaded(parts) + part.kept
<1> DEFINE m == Len(parts)
           t == Append(parts, part)
<1>1. /\ m \in Nat /\ t \in Seq(S) /\ Len(t) = m + 1 /\ t[m + 1] = part
      /\ \A i \in 1..m : parts[i] = t[i]
    OBVIOUS
<1>2. PICK f : IsLoading(f, parts, m) /\ Loaded(parts) = f[m]
    BY LoadedIs
<1>3. PICK g : IsLoading(g, t, m + 1) /\ Loaded(t) = g[m + 1]
    BY <1>1, LoadedIs
<1> HIDE DEF m, t
<1>4. f[m] = g[m]
    BY <1>1, <1>2, <1>3, LoadingAgrees
<1>5. g[m + 1] = g[(m + 1) - 1] + t[m + 1].kept
    <2>1. PICK n \in Nat : n = m + 1 /\ n \in 1..n
        BY <1>1
    <2>2. IsLoading(g, t, n)
        BY <1>3, <2>1
    <2>3. g[n] = g[n - 1] + t[n].kept
        BY <2>1, <2>2, LoadingAt
    <2> QED BY <2>1, <2>3
<1>6. (m + 1) - 1 = m
    BY <1>1
<1> QED BY <1>1, <1>2, <1>3, <1>4, <1>5, <1>6 DEF t

-----------------------------------------------------------------------------
(* What the candidates leave, one after the other. *)
Candidates == Len(Paths)

IsGathering(f, reads, n) ==
    f = [k \in 0..n |-> IF k = 0 THEN <<>> ELSE Take(f[k - 1], Paths[k], reads[k])]

LEMMA GatheringAt ==
    ASSUME NEW reads, NEW n \in Nat, NEW f, IsGathering(f, reads, n)
    PROVE  f[0] = <<>> /\ \A k \in 1..n : f[k] = Take(f[k - 1], Paths[k], reads[k])
<1>1. 0 \in 0..n /\ \A k \in 1..n : k \in 0..n /\ k # 0
    OBVIOUS
<1> QED BY <1>1 DEF IsGathering

LEMMA GatheringExists ==
    ASSUME NEW reads, NEW m \in Nat PROVE \E f : IsGathering(f, reads, m)
<1> DEFINE P == {n \in Nat : \E f : IsGathering(f, reads, n)}
<1>1. 0 \in P
    <2>1. IsGathering([n \in 0..0 |-> <<>>], reads, 0)
        BY DEF IsGathering
    <2> QED BY <2>1
<1>2. ASSUME NEW k \in Nat, k \in P PROVE k + 1 \in P
    <2>1. PICK f : IsGathering(f, reads, k)
        BY <1>2
    <2> DEFINE last == Take(f[k], Paths[k + 1], reads[k + 1])
               g == [n \in 0..k + 1 |-> IF n = k + 1 THEN last ELSE f[n]]
    <2>2. g[k + 1] = last /\ (\A n \in 0..k : g[n] = f[n]) /\ g = [n \in 0..k + 1 |-> g[n]]
        OBVIOUS
    <2>5. f[0] = <<>> /\ \A n \in 1..k : f[n] = Take(f[n - 1], Paths[n], reads[n])
        BY <2>1, GatheringAt
    <2> HIDE DEF g
    <2>3. ASSUME NEW n \in 0..k + 1
          PROVE  g[n] = IF n = 0 THEN <<>> ELSE Take(g[n - 1], Paths[n], reads[n])
        <3>1. CASE n = 0
            <4>1. 0 \in 0..k
                OBVIOUS
            <4> QED BY <2>2, <2>5, <3>1, <4>1
        <3>2. CASE n = k + 1
            <4>1. n # 0 /\ n - 1 = k /\ k \in 0..k
                BY <3>2
            <4>2. g[n - 1] = f[k]
                BY <2>2, <4>1
            <4> QED BY <2>2, <3>2, <4>1, <4>2
        <3>3. CASE n \in 1..k
            <4>1. n # 0 /\ n - 1 \in 0..k /\ n \in 0..k
                BY <3>3
            <4>2. g[n] = f[n] /\ g[n - 1] = f[n - 1]
                BY <2>2, <4>1
            <4>3. f[n] = Take(f[n - 1], Paths[n], reads[n])
                BY <2>5, <3>3
            <4> QED BY <4>1, <4>2, <4>3
        <3> QED BY <3>1, <3>2, <3>3
    <2>4. IsGathering(g, reads, k + 1)
        BY <2>2, <2>3 DEF IsGathering
    <2> QED BY <2>4
<1> HIDE DEF P
<1>3. Nat \subseteq P
    BY <1>1, <1>2, Induction
<1> QED BY <1>3 DEF P

LEMMA GatherIs ==
    ASSUME NEW reads, NEW n \in Nat
    PROVE  \E f : IsGathering(f, reads, n) /\ Gather(reads, n) = f[n]
BY GatheringExists DEF Gather, IsGathering

SameUpTo(r, s, m) == \A i \in 1..m : r[i] = s[i]

\* What the first m of them leave depends on how those were read.
LEMMA GatheringAgrees ==
    ASSUME NEW r, NEW s, NEW m \in Nat, NEW k \in Nat, NEW l \in Nat, m <= k, m <= l,
           SameUpTo(r, s, m),
           NEW f, IsGathering(f, r, k), NEW g, IsGathering(g, s, l)
    PROVE  f[m] = g[m]
<1> DEFINE P == {n \in Nat : n <= m => f[n] = g[n]}
<1>1. f[0] = <<>> /\ \A n \in 1..k : f[n] = Take(f[n - 1], Paths[n], r[n])
    BY GatheringAt
<1>2. g[0] = <<>> /\ \A n \in 1..l : g[n] = Take(g[n - 1], Paths[n], s[n])
    BY GatheringAt
<1>3. 0 \in P
    BY <1>1, <1>2
<1>4. ASSUME NEW n \in Nat, n \in P PROVE n + 1 \in P
    <2> SUFFICES ASSUME n + 1 <= m PROVE f[n + 1] = g[n + 1]
        OBVIOUS
    <2>1. f[n] = g[n] /\ (n + 1) - 1 = n /\ n + 1 \in 1..m /\ n + 1 \in 1..k /\ n + 1 \in 1..l
        BY <1>4
    <2>2. f[n + 1] = Take(f[n], Paths[n + 1], r[n + 1])
        BY <1>1, <2>1
    <2>3. g[n + 1] = Take(g[n], Paths[n + 1], s[n + 1])
        BY <1>2, <2>1
    <2>4. r[n + 1] = s[n + 1]
        BY <2>1 DEF SameUpTo
    <2> QED BY <2>1, <2>2, <2>3, <2>4
<1> HIDE DEF P
<1>5. Nat \subseteq P
    BY <1>3, <1>4, Induction
<1> QED BY <1>5 DEF P

LEMMA NothingGathered == ASSUME NEW reads PROVE Gather(reads, 0) = <<>>
<1>1. PICK f : IsGathering(f, reads, 0) /\ Gather(reads, 0) = f[0]
    BY GatherIs
<1> QED BY <1>1, GatheringAt

LEMMA GatherSame ==
    ASSUME NEW r, NEW s, NEW m \in Nat, SameUpTo(r, s, m)
    PROVE  Gather(r, m) = Gather(s, m)
<1>1. PICK f : IsGathering(f, r, m) /\ Gather(r, m) = f[m]
    BY GatherIs
<1>2. PICK g : IsGathering(g, s, m) /\ Gather(s, m) = g[m]
    BY GatherIs
<1>3. m <= m
    OBVIOUS
<1>4. f[m] = g[m]
    BY <1>1, <1>2, <1>3, GatheringAgrees
<1> QED BY <1>1, <1>2, <1>4

\* One more candidate.
LEMMA GatherNext ==
    ASSUME NEW r, NEW s, NEW m \in Nat, SameUpTo(r, s, m)
    PROVE  Gather(s, m + 1) = Take(Gather(r, m), Paths[m + 1], s[m + 1])
<1>1. PICK f : IsGathering(f, r, m) /\ Gather(r, m) = f[m]
    BY GatherIs
<1>2. PICK n \in Nat : n = m + 1 /\ n \in 1..n /\ n - 1 = m /\ m <= n /\ m <= m
    OBVIOUS
<1>3. PICK g : IsGathering(g, s, n) /\ Gather(s, n) = g[n]
    BY <1>2, GatherIs
<1>4. f[m] = g[m]
    <2>1. IsGathering(f, r, m) /\ IsGathering(g, s, n)
        BY <1>1, <1>3
    <2>2. m <= m /\ m <= n
        BY <1>2
    <2> QED BY <2>1, <2>2, GatheringAgrees
<1>5. g[n] = Take(g[n - 1], Paths[n], s[n])
    BY <1>2, <1>3, GatheringAt
<1> QED BY <1>1, <1>2, <1>3, <1>4, <1>5

LEMMA GatherOneMore ==
    ASSUME NEW r, NEW m \in Nat
    PROVE  Gather(r, m + 1) = Take(Gather(r, m), Paths[m + 1], r[m + 1])
<1>1. SameUpTo(r, r, m)
    BY DEF SameUpTo
<1> QED BY <1>1, GatherNext

-----------------------------------------------------------------------------
(* Types and limits of the parts. *)
File == [size : Sizes, mtime : Nat, readable : BOOLEAN]
Part == [path : Range(Paths), mtime : Nat, kept : 0..MaxFile]
Reads == [1..Candidates -> {Gone} \cup File]

LEMMA PathsTyped ==
    /\ Candidates \in Nat /\ Paths \in Seq(Range(Paths))
    /\ \A k \in 1..Candidates : Paths[k] \in Range(Paths)
    /\ \A p \in Range(Paths) : \E k \in 1..Candidates : Paths[k] = p
<1>1. Paths \in Seq(Range(Paths))
    BY PromptAssumption
<1>2. DOMAIN Paths = 1..Len(Paths) /\ Len(Paths) \in Nat
    BY <1>1, LenProperties
<1> QED BY <1>1, <1>2 DEF Candidates, Range

\* The limits of PromptWithinLimits, for any parts.
WithinLimits(parts) ==
    /\ parts \in Seq(Part)
    /\ Loaded(parts) \in 0..MaxTotal
    /\ \A i \in 1..Len(parts) : Loaded(SubSeq(parts, 1, i - 1)) < MaxTotal

LEMMA BeginningsSame ==
    ASSUME NEW S, NEW q \in Seq(S), NEW x \in S, NEW j \in 0..Len(q)
    PROVE  SubSeq(Append(q, x), 1, j) = SubSeq(q, 1, j)
<1>1. Len(q) \in Nat /\ j \in Nat /\ \A i \in 1..j : Append(q, x)[i] = q[i] /\ q[i] \in S
    OBVIOUS
<1>2. /\ SubSeq(q, 1, j) \in Seq(S) /\ Len(SubSeq(q, 1, j)) = j
      /\ \A i \in 1..j : SubSeq(q, 1, j)[i] = q[i]
    BY <1>1
<1>3. PICK t : t = Append(q, x)
    OBVIOUS
<1>4. \A i \in 1..j : t[i] = q[i] /\ t[i] \in S
    BY <1>1, <1>3
<1>5. t \in Seq(S) /\ Len(t) = Len(q) + 1
    BY <1>3
<1>6. /\ SubSeq(t, 1, j) \in Seq(S) /\ Len(SubSeq(t, 1, j)) = j
      /\ \A i \in 1..j : SubSeq(t, 1, j)[i] = t[i]
    BY <1>1, <1>4, <1>5
<1>7. SubSeq(t, 1, j) = SubSeq(q, 1, j)
    BY <1>1, <1>2, <1>4, <1>6, SeqEqual
<1> QED BY <1>3, <1>7

\* One more file is read within the limits.
LEMMA TakeWithin ==
    ASSUME NEW parts, WithinLimits(parts), NEW p \in Range(Paths), NEW seen \in {Gone} \cup File
    PROVE  WithinLimits(Take(parts, p, seen))
<1>1. CASE seen = Gone \/ Loaded(parts) >= MaxTotal
    BY <1>1 DEF Take
<1>2. CASE ~(seen = Gone \/ Loaded(parts) >= MaxTotal)
    <2> DEFINE kept == Least(seen.size, Least(MaxFile, MaxTotal - Loaded(parts)))
               part == [path |-> p, mtime |-> seen.mtime, kept |-> kept]
    <2>1. MaxFile \in Nat /\ MaxTotal \in Nat /\ Loaded(parts) \in Nat /\ Loaded(parts) < MaxTotal
        BY <1>2, PromptAssumption DEF WithinLimits
    <2>2. seen.size \in Nat /\ seen.mtime \in Nat
        BY <1>2, PromptAssumption DEF File
    <2>3. kept \in 0..MaxFile /\ kept <= MaxTotal - Loaded(parts) /\ kept \in Nat
        BY <2>1, <2>2 DEF Least
    <2>4. part \in Part /\ part.kept = kept
        BY <2>2, <2>3 DEF Part
    <2>5. Take(parts, p, seen) = Append(parts, part)
        BY <1>2 DEF Take
    <2> HIDE DEF part, kept
    <2>6. parts \in Seq(Part) /\ Len(parts) \in Nat
        BY DEF WithinLimits
    <2>7. Loaded(Append(parts, part)) = Loaded(parts) + kept
        BY <2>4, <2>6, LoadedAppend
    <2>8. Append(parts, part) \in Seq(Part) /\ Len(Append(parts, part)) = Len(parts) + 1
        BY <2>4, <2>6
    <2>9. ASSUME NEW i \in 1..Len(parts) + 1
          PROVE  Loaded(SubSeq(Append(parts, part), 1, i - 1)) < MaxTotal
        <3>1. i - 1 \in 0..Len(parts)
            BY <2>6
        <3>2. SubSeq(Append(parts, part), 1, i - 1) = SubSeq(parts, 1, i - 1)
            BY <2>4, <2>6, <3>1, BeginningsSame
        <3>3. CASE i = Len(parts) + 1
            <4>1. i - 1 = Len(parts)
                BY <2>6, <3>3
            <4>2. SubSeq(parts, 1, Len(parts)) = parts
                BY <2>6, SubSeqFull
            <4> QED BY <2>1, <3>2, <4>1, <4>2
        <3>4. CASE i \in 1..Len(parts)
            BY <3>2, <3>4 DEF WithinLimits
        <3> QED BY <2>6, <3>3, <3>4
    <2> QED BY <2>1, <2>3, <2>5, <2>7, <2>8, <2>9 DEF WithinLimits
<1> QED BY <1>1, <1>2

LEMMA GatherWithin ==
    ASSUME NEW r \in Reads, NEW n \in 0..Candidates
    PROVE  WithinLimits(Gather(r, n))
<1> DEFINE P == {k \in Nat : k <= Candidates => WithinLimits(Gather(r, k))}
<1>1. 0 \in P
    <2>1. PICK none : none = <<>>
        OBVIOUS
    <2>2. none \in Seq(Part) /\ Len(none) = 0
        BY <2>1
    <2>3. Loaded(none) = 0 /\ MaxTotal \in Nat
        BY <2>1, NothingLoaded, PromptAssumption
    <2>4. WithinLimits(none)
        BY <2>2, <2>3 DEF WithinLimits
    <2>5. Gather(r, 0) = none
        BY <2>1, NothingGathered
    <2> QED BY <2>4, <2>5
<1>2. ASSUME NEW k \in Nat, k \in P PROVE k + 1 \in P
    <2> SUFFICES ASSUME k + 1 <= Candidates PROVE WithinLimits(Gather(r, k + 1))
        OBVIOUS
    <2>1. WithinLimits(Gather(r, k))
        BY <1>2, PathsTyped
    <2>2. Gather(r, k + 1) = Take(Gather(r, k), Paths[k + 1], r[k + 1])
        BY GatherOneMore
    <2>3. k + 1 \in 1..Candidates
        BY PathsTyped
    <2>4. Paths[k + 1] \in Range(Paths) /\ r[k + 1] \in {Gone} \cup File
        BY <2>3, PathsTyped DEF Reads
    <2> QED BY <2>1, <2>2, <2>4, TakeWithin
<1> HIDE DEF P
<1>3. Nat \subseteq P
    BY <1>1, <1>2, Induction
<1>4. n \in Nat /\ n <= Candidates
    BY PathsTyped
<1> QED BY <1>3, <1>4 DEF P

\* What is in the prompt was there to be read.
Named(parts, r, n) ==
    \A i \in 1..Len(parts) : \E k \in 1..n : parts[i].path = Paths[k] /\ r[k] # Gone

LEMMA TakeIs ==
    ASSUME NEW parts, WithinLimits(parts), NEW p \in Range(Paths), NEW seen \in {Gone} \cup File
    PROVE  \/ Take(parts, p, seen) = parts
           \/ /\ seen # Gone
              /\ \E part \in Part : part.path = p /\ Take(parts, p, seen) = Append(parts, part)
<1>1. CASE seen = Gone \/ Loaded(parts) >= MaxTotal
    BY <1>1 DEF Take
<1>2. CASE ~(seen = Gone \/ Loaded(parts) >= MaxTotal)
    <2> DEFINE part == [path |-> p, mtime |-> seen.mtime,
                        kept |-> Least(seen.size, Least(MaxFile, MaxTotal - Loaded(parts)))]
    <2>1. MaxFile \in Nat /\ MaxTotal \in Nat /\ Loaded(parts) \in Nat /\ Loaded(parts) < MaxTotal
        BY <1>2, PromptAssumption DEF WithinLimits
    <2>2. seen.size \in Nat /\ seen.mtime \in Nat
        BY <1>2, PromptAssumption DEF File
    <2>3. Least(seen.size, Least(MaxFile, MaxTotal - Loaded(parts))) \in 0..MaxFile
        BY <2>1, <2>2 DEF Least
    <2>4. part \in Part /\ part.path = p
        BY <2>2, <2>3 DEF Part
    <2>5. Take(parts, p, seen) = Append(parts, part)
        BY <1>2 DEF Take
    <2> QED BY <1>2, <2>4, <2>5
<1> QED BY <1>1, <1>2

LEMMA GatherNamed ==
    ASSUME NEW r \in Reads, NEW n \in 0..Candidates
    PROVE  Named(Gather(r, n), r, n)
<1> DEFINE P == {k \in Nat : k <= Candidates => Named(Gather(r, k), r, k)}
<1>1. 0 \in P
    <2>1. PICK none : none = <<>>
        OBVIOUS
    <2>2. Len(none) = 0 /\ Gather(r, 0) = none
        BY <2>1, NothingGathered
    <2>3. Named(none, r, 0)
        BY <2>2 DEF Named
    <2> QED BY <2>2, <2>3
<1>2. ASSUME NEW k \in Nat, k \in P PROVE k + 1 \in P
    <2> SUFFICES ASSUME k + 1 <= Candidates PROVE Named(Gather(r, k + 1), r, k + 1)
        OBVIOUS
    <2> DEFINE old == Gather(r, k)
               new == Gather(r, k + 1)
    <2>1. Named(old, r, k) /\ k \in 0..Candidates /\ k + 1 \in 1..Candidates /\ k + 1 \in 1..k + 1
          /\ 1..k \subseteq 1..k + 1
        BY <1>2, PathsTyped
    <2>2. new = Take(old, Paths[k + 1], r[k + 1])
        BY GatherOneMore
    <2>3. Paths[k + 1] \in Range(Paths) /\ r[k + 1] \in {Gone} \cup File
        BY <2>1, PathsTyped DEF Reads
    <2>4. WithinLimits(old)
        BY <2>1, GatherWithin
    <2> HIDE DEF old, new
    <2>5. CASE new = old
        BY <2>1, <2>5 DEF Named, new
    <2>6. ASSUME r[k + 1] # Gone, NEW part \in Part, part.path = Paths[k + 1], new = Append(old, part)
          PROVE  Named(new, r, k + 1)
        <3>1. /\ old \in Seq(Part) /\ Len(old) \in Nat /\ Len(new) = Len(old) + 1
              /\ new[Len(old) + 1] = part /\ \A i \in 1..Len(old) : new[i] = old[i]
            BY <2>4, <2>6 DEF WithinLimits
        <3>2. ASSUME NEW i \in 1..Len(new)
              PROVE  \E j \in 1..k + 1 : new[i].path = Paths[j] /\ r[j] # Gone
            <4>1. CASE i = Len(old) + 1
                BY <2>1, <2>6, <3>1, <4>1
            <4>2. CASE i \in 1..Len(old)
                BY <2>1, <3>1, <4>2 DEF Named
            <4> QED BY <3>1, <4>1, <4>2
        <3> QED BY <3>2 DEF Named
    <2>7. \/ new = old
          \/ /\ r[k + 1] # Gone
             /\ \E part \in Part : part.path = Paths[k + 1] /\ new = Append(old, part)
        BY <2>2, <2>3, <2>4, TakeIs
    <2> QED BY <2>5, <2>6, <2>7 DEF new
<1> HIDE DEF P
<1>3. Nat \subseteq P
    BY <1>1, <1>2, Induction
<1>4. n \in Nat /\ n <= Candidates
    BY PathsTyped
<1> QED BY <1>3, <1>4 DEF P

-----------------------------------------------------------------------------
(* A stamp that matches vouches for what was read under it. *)
AgreeOn(r, n, stamp, f) ==
    \A k \in 1..n :
        f[Paths[k]] # Gone /\ <<Paths[k], f[Paths[k]].mtime>> \in stamp => r[k] = f[Paths[k]]

Stamped(parts, stamp) == \A i \in 1..Len(parts) : \E e \in stamp : e[1] = parts[i].path

Dated(f, n) ==
    /\ n \in Nat /\ f \in [Range(Paths) -> {Gone} \cup File]
    /\ \A p \in Range(Paths) : f[p] # Gone => f[p].mtime \in 1..n

Stamps == SUBSET (Range(Paths) \X Nat)

StampedBy(stamp, n) == stamp \in Stamps /\ \A e \in stamp : e[2] <= n

LEMMA StampIs ==
    ASSUME NEW f, NEW p \in Range(Paths), f[p] # Gone
    PROVE  <<p, f[p].mtime>> \in Stamp(f)
BY DEF Stamp

LEMMA StampNames ==
    ASSUME NEW f, NEW e \in Stamp(f)
    PROVE  e[1] \in Range(Paths) /\ f[e[1]] # Gone /\ e[2] = f[e[1]].mtime
BY DEF Stamp

LEMMA StampDated ==
    ASSUME NEW f, NEW n, Dated(f, n)
    PROVE  StampedBy(Stamp(f), n)
<1>1. ASSUME NEW e \in Stamp(f) PROVE e \in Range(Paths) \X Nat /\ e[2] <= n
    <2>1. PICK p \in Range(Paths) : f[p] # Gone /\ e = <<p, f[p].mtime>>
        BY DEF Stamp
    <2>2. f[p].mtime \in 1..n /\ n \in Nat
        BY <2>1 DEF Dated
    <2> QED BY <2>1, <2>2
<1> QED BY <1>1 DEF StampedBy, Stamps

LEMMA StandingRead ==
    ASSUME NEW f, NEW n, Dated(f, n)
    PROVE  Standing(f) \in Reads /\ \A k \in 1..Candidates : Standing(f)[k] = f[Paths[k]]
<1>1. \A k \in 1..Candidates : f[Paths[k]] \in {Gone} \cup File
    BY PathsTyped DEF Dated
<1> QED BY <1>1 DEF Standing, Reads, Candidates

LEMMA StampedShorter ==
    ASSUME NEW old \in Seq(Part), NEW part \in Part, NEW stamp, Stamped(Append(old, part), stamp)
    PROVE  Stamped(old, stamp) /\ \E e \in stamp : e[1] = part.path
<1> DEFINE new == Append(old, part)
<1>1. /\ Len(old) \in Nat /\ Len(new) = Len(old) + 1 /\ new[Len(old) + 1] = part
      /\ \A i \in 1..Len(old) : new[i] = old[i]
    OBVIOUS
<1>2. Stamped(new, stamp)
    OBVIOUS
<1> HIDE DEF new
<1>3. Len(old) + 1 \in 1..Len(new) /\ 1..Len(old) \subseteq 1..Len(new)
    BY <1>1
<1>4. \E e \in stamp : e[1] = new[Len(old) + 1].path
    BY <1>2, <1>3 DEF Stamped
<1>5. \A i \in 1..Len(old) : \E e \in stamp : e[1] = new[i].path
    BY <1>2, <1>3 DEF Stamped
<1>6. \A i \in 1..Len(old) : \E e \in stamp : e[1] = old[i].path
    BY <1>1, <1>5
<1> QED BY <1>1, <1>4, <1>6 DEF Stamped

LEMMA Vouches ==
    ASSUME NEW f, NEW m, Dated(f, m), NEW r \in Reads, AgreeOn(r, Candidates, Stamp(f), f),
           Stamped(Gather(r, Candidates), Stamp(f))
    PROVE  Gather(r, Candidates) = Collect(f)
<1> DEFINE s == Standing(f)
           P == {k \in Nat : k <= Candidates /\ Stamped(Gather(r, k), Stamp(f))
                              => Gather(r, k) = Gather(s, k)}
<1>0. Candidates \in Nat /\ s \in Reads /\ \A k \in 1..Candidates : s[k] = f[Paths[k]]
    BY PathsTyped, StandingRead
<1> HIDE DEF s
<1>1. 0 \in P
    BY NothingGathered
<1>2. ASSUME NEW k \in Nat, k \in P PROVE k + 1 \in P
    <2> DEFINE old == Gather(r, k)
               new == Gather(r, k + 1)
               path == Paths[k + 1]
    <2> SUFFICES ASSUME k + 1 <= Candidates, Stamped(new, Stamp(f))
                 PROVE  new = Gather(s, k + 1)
        OBVIOUS
    <2>1. k \in 0..Candidates /\ k + 1 \in 1..Candidates /\ k <= Candidates
        BY <1>0
    <2>2. path \in Range(Paths) /\ r[k + 1] \in {Gone} \cup File
        BY <2>1, PathsTyped DEF Reads
    <2>3. WithinLimits(old)
        BY <2>1, GatherWithin
    <2>4. new = Take(old, path, r[k + 1])
        BY GatherOneMore
    <2>5. Gather(s, k + 1) = Take(Gather(s, k), path, f[path])
        <3>1. Gather(s, k + 1) = Take(Gather(s, k), path, s[k + 1])
            BY GatherOneMore
        <3> QED BY <1>0, <2>1, <3>1
    <2>6. Stamped(old, Stamp(f)) => old = Gather(s, k)
        BY <1>2, <2>1
    <2>7. old \in Seq(Part)
        BY <2>3 DEF WithinLimits
    <2> HIDE DEF old, new, P
    <2>8. Stamped(old, Stamp(f))
        <3>1. CASE new = old
            BY <3>1
        <3>2. ASSUME NEW part \in Part, new = Append(old, part) PROVE Stamped(old, Stamp(f))
            <4>1. Stamped(Append(old, part), Stamp(f))
                BY <3>2
            <4> QED BY <2>7, <4>1, StampedShorter
        <3> QED BY <2>2, <2>3, <2>4, <3>1, <3>2, TakeIs
    <2>9. CASE f[path] # Gone
        <3>1. <<path, f[path].mtime>> \in Stamp(f)
            BY <2>2, <2>9, StampIs
        <3>2. r[k + 1] = f[path]
            BY <2>1, <2>9, <3>1 DEF AgreeOn
        <3> QED BY <2>4, <2>5, <2>6, <2>8, <3>2
    <2>10. CASE f[path] = Gone
        <3>1. Gather(s, k + 1) = Gather(s, k)
            BY <2>5, <2>10 DEF Take
        <3>2. ASSUME NEW part \in Part, part.path = path, new = Append(old, part) PROVE FALSE
            <4>1. Stamped(Append(old, part), Stamp(f))
                BY <3>2
            <4>2. PICK e \in Stamp(f) : e[1] = path
                BY <2>7, <3>2, <4>1, StampedShorter
            <4> QED BY <2>10, <4>2, StampNames
        <3>3. new = old
            BY <2>2, <2>3, <2>4, <3>2, TakeIs
        <3> QED BY <2>6, <2>8, <3>1, <3>3
    <2> QED BY <2>9, <2>10
<1> HIDE DEF P
<1>3. Nat \subseteq P
    BY <1>1, <1>2, Induction
<1>4. Candidates <= Candidates
    BY <1>0
<1>5. Gather(r, Candidates) = Gather(s, Candidates)
    BY <1>0, <1>3, <1>4 DEF P
<1> QED BY <1>5 DEF Collect, Candidates, s

\* Files that stand still are what their stamp says.
LEMMA StandingAgrees ==
    ASSUME NEW f, NEW n, Dated(f, n), NEW r \in Reads,
           \A k \in 1..Candidates : r[k] = f[Paths[k]]
    PROVE  AgreeOn(r, Candidates, Stamp(f), f) /\ Stamped(Gather(r, Candidates), Stamp(f))
<1>1. AgreeOn(r, Candidates, Stamp(f), f)
    BY DEF AgreeOn
<1>2. Named(Gather(r, Candidates), r, Candidates)
    <2>1. Candidates \in 0..Candidates
        BY PathsTyped
    <2> QED BY <2>1, GatherNamed
<1>3. ASSUME NEW i \in 1..Len(Gather(r, Candidates))
      PROVE  \E e \in Stamp(f) : e[1] = Gather(r, Candidates)[i].path
    <2>1. PICK k \in 1..Candidates : Gather(r, Candidates)[i].path = Paths[k] /\ r[k] # Gone
        BY <1>2 DEF Named
    <2>2. f[Paths[k]] # Gone /\ Paths[k] \in Range(Paths)
        BY <2>1, PathsTyped
    <2>3. <<Paths[k], f[Paths[k]].mtime>> \in Stamp(f)
        BY <2>2, StampIs
    <2> QED BY <2>1, <2>3
<1> QED BY <1>1, <1>3 DEF Stamped

\* A change is not what an earlier stamp was taken of.
LEMMA AgreeAfterChange ==
    ASSUME NEW f, NEW m, Dated(f, m), NEW stamp, StampedBy(stamp, m),
           NEW r, NEW n \in 0..Candidates, AgreeOn(r, n, stamp, f),
           NEW p \in Range(Paths), NEW seen, seen = Gone \/ seen.mtime = m + 1
    PROVE  AgreeOn(r, n, stamp, [f EXCEPT ![p] = seen])
<1> DEFINE g == [f EXCEPT ![p] = seen]
<1>1. ASSUME NEW k \in 1..n, g[Paths[k]] # Gone, <<Paths[k], g[Paths[k]].mtime>> \in stamp
      PROVE  r[k] = g[Paths[k]]
    <2>1. Paths[k] \in Range(Paths) /\ m \in Nat
        <3>1. k \in 1..Candidates
            BY PathsTyped
        <3> QED BY <3>1, PathsTyped DEF Dated
    <2>2. CASE Paths[k] = p
        <3>1. g[Paths[k]] = seen
            BY <2>1, <2>2 DEF Dated
        <3>2. seen.mtime = m + 1
            BY <1>1, <3>1
        <3>3. <<Paths[k], m + 1>> \in stamp
            BY <1>1, <3>1, <3>2
        <3>4. m + 1 <= m
            BY <3>3 DEF StampedBy
        <3> QED BY <2>1, <3>4
    <2>3. CASE Paths[k] # p
        <3>1. g[Paths[k]] = f[Paths[k]]
            BY <2>1, <2>3 DEF Dated
        <3> QED BY <1>1, <3>1 DEF AgreeOn
    <2> QED BY <2>2, <2>3
<1> QED BY <1>1 DEF AgreeOn

-----------------------------------------------------------------------------
(* The invariant of the cache. *)
Unread(n) == SubSeq(Paths, n + 1, Candidates)

Jobs == [kind : {"idle", "refresh", "build"}, stamp : Stamps, todo : Seq(Range(Paths)),
         parts : Seq(Part)]

\* The cache holds what was read of each candidate; unless it was raced, whatever is still
\* as its stamp says was read so, and the stamp knows everything the prompt holds.
CacheHolds(r) ==
    /\ cache.parts = Gather(r, Candidates)
    /\ ~raced => AgreeOn(r, Candidates, cache.stamp, files) /\ Stamped(cache.parts, cache.stamp)

ReadsStand(r, n) == \A k \in 1..n : r[k] = files[Paths[k]]

\* The job has read the first n candidates as r says: a refresh, under the stamp it took;
\* a build, with what still stands when nothing changed.
JobReached(r, n) ==
    /\ job.todo = Unread(n) /\ job.parts = Gather(r, n)
    /\ job.kind = "refresh" => AgreeOn(r, n, job.stamp, files)
    /\ job.kind = "build" /\ ~dirty => ReadsStand(r, n)

PromptInv ==
    /\ Dated(files, edits)
    /\ StampedBy(job.stamp, edits) /\ StampedBy(cache.stamp, edits)
    /\ job \in Jobs /\ dirty \in BOOLEAN /\ raced \in BOOLEAN
    /\ cache = [parts |-> cache.parts, stamp |-> cache.stamp]
    /\ \E r \in Reads : CacheHolds(r)
    /\ \/ job = IdleJob
       \/ job.kind # "idle" /\ \E n \in 0..Candidates, r \in Reads : JobReached(r, n)

LEMMA UnreadAt ==
    ASSUME NEW n \in 0..Candidates
    PROVE  /\ Unread(n) \in Seq(Range(Paths))
           /\ Unread(n) = <<>> => n = Candidates
           /\ Unread(n) # <<>> => n < Candidates /\ Head(Unread(n)) = Paths[n + 1]
                                /\ Tail(Unread(n)) = Unread(n + 1)
<1>1. Paths \in Seq(Range(Paths)) /\ Candidates \in Nat /\ Candidates = Len(Paths) /\ n \in Nat
      /\ n <= Candidates
    BY PathsTyped DEF Candidates
<1>2. n + 1 \in 1..Len(Paths) + 1 /\ n + 1 \in Int
    BY <1>1
<1>3. CASE n = Candidates
    <2>1. Unread(n) = <<>>
        BY <1>1, <1>3 DEF Unread
    <2>2. Unread(n) \in Seq(Range(Paths))
        BY <2>1
    <2> QED BY <1>3, <2>1, <2>2
<1>4. CASE n < Candidates
    <2>1. \A i \in n + 1..Candidates : Paths[i] \in Range(Paths)
        BY <1>1, PathsTyped
    <2>2. Unread(n) \in Seq(Range(Paths)) /\ Len(Unread(n)) = Candidates - n
        BY <1>1, <1>4, <2>1 DEF Unread
    <2>3. Unread(n) # <<>>
        BY <1>1, <1>4, <2>2
    <2>4. Head(Unread(n)) = Paths[n + 1] /\ Tail(Unread(n)) = Unread(n + 1)
        <3>1. PICK i \in Int : i = n + 1 /\ i \in 1..Candidates
            BY <1>1, <1>4
        <3>2. \A j \in i..Candidates : Paths[j] \in Range(Paths)
            BY <2>1, <3>1
        <3>3. /\ Head(SubSeq(Paths, i, Candidates)) = Paths[i]
              /\ Tail(SubSeq(Paths, i, Candidates)) = SubSeq(Paths, i + 1, Candidates)
            BY <1>1, <3>1, <3>2, HeadTailOfSubSeq
        <3> QED BY <3>1, <3>3 DEF Unread
    <2> QED BY <1>4, <2>2, <2>3, <2>4
<1> QED BY <1>1, <1>3, <1>4

LEMMA IdleIsTyped ==
    ASSUME NEW n PROVE IdleJob \in Jobs /\ StampedBy(IdleJob.stamp, n)
<1>1. IdleJob.stamp = {} /\ {} \in Stamps
    BY DEF IdleJob, Stamps
<1>2. <<>> \in Seq(Range(Paths)) /\ <<>> \in Seq(Part)
    OBVIOUS
<1> QED BY <1>1, <1>2 DEF Jobs, IdleJob, StampedBy

LEMMA StampedLater ==
    ASSUME NEW stamp, NEW n \in Nat, StampedBy(stamp, n) PROVE StampedBy(stamp, n + 1)
BY DEF StampedBy, Stamps

LEMMA PromptStarts == PromptInit => PromptInv
<1> SUFFICES ASSUME PromptInit PROVE PromptInv
    OBVIOUS
<1>1. Dated(files, edits)
    <2>1. files \in [Range(Paths) -> {Gone} \cup [size : Sizes, mtime : {1}, readable : {TRUE}]]
          /\ edits = 1
        BY DEF PromptInit
    <2>2. ASSUME NEW p \in Range(Paths)
          PROVE  files[p] \in {Gone} \cup File /\ (files[p] # Gone => files[p].mtime \in 1..edits)
        <3>1. files[p] \in {Gone} \cup [size : Sizes, mtime : {1}, readable : {TRUE}]
            BY <2>1
        <3>2. CASE files[p] = Gone
            BY <3>2
        <3>3. CASE files[p] \in [size : Sizes, mtime : {1}, readable : {TRUE}]
            <4>1. PICK size \in Sizes : files[p] = [size |-> size, mtime |-> 1, readable |-> TRUE]
                BY <3>3
            <4>2. files[p].mtime = 1 /\ files[p] \in File
                BY <4>1 DEF File
            <4> QED BY <2>1, <4>2
        <3> QED BY <3>1, <3>2, <3>3
    <2>3. files \in [Range(Paths) -> {Gone} \cup File]
        BY <2>1, <2>2
    <2> QED BY <2>1, <2>2, <2>3 DEF Dated
<1>2. Standing(files) \in Reads /\ \A k \in 1..Candidates : Standing(files)[k] = files[Paths[k]]
    BY <1>1, StandingRead
<1>3. /\ AgreeOn(Standing(files), Candidates, Stamp(files), files)
      /\ Stamped(Gather(Standing(files), Candidates), Stamp(files))
    BY <1>1, <1>2, StandingAgrees
<1>4. cache.parts = Gather(Standing(files), Candidates) /\ cache.stamp = Stamp(files)
      /\ cache = [parts |-> cache.parts, stamp |-> cache.stamp]
    BY DEF PromptInit, Collect, Candidates
<1>5. CacheHolds(Standing(files))
    BY <1>3, <1>4 DEF CacheHolds
<1>6. StampedBy(cache.stamp, edits)
    BY <1>1, <1>4, StampDated
<1>7. job = IdleJob /\ dirty = FALSE /\ raced = FALSE
    BY DEF PromptInit
<1>8. job \in Jobs /\ StampedBy(job.stamp, edits)
    BY <1>7, IdleIsTyped
<1> QED BY <1>1, <1>2, <1>4, <1>5, <1>6, <1>7, <1>8 DEF PromptInv

LEMMA BeginKeeps ==
    ASSUME PromptInv, NEW kind \in {"refresh", "build"}, BeginRead(kind) PROVE PromptInv'
<1>1. /\ job' = [kind |-> kind, stamp |-> Stamp(files), todo |-> Paths, parts |-> <<>>]
      /\ dirty' = FALSE /\ files' = files /\ edits' = edits /\ cache' = cache /\ raced' = raced
    BY DEF BeginRead
<1>2. Dated(files, edits) /\ StampedBy(cache.stamp, edits) /\ raced \in BOOLEAN
      /\ cache = [parts |-> cache.parts, stamp |-> cache.stamp]
    BY DEF PromptInv
<1>3. StampedBy(Stamp(files), edits)
    BY <1>2, StampDated
<1>4. PICK r \in Reads : CacheHolds(r)
    BY DEF PromptInv
<1>5. CacheHolds(r)'
    BY <1>1, <1>4 DEF CacheHolds
<1>6. job' \in Jobs /\ job'.kind # "idle" /\ job'.stamp = Stamp(files)
    <2>1. Paths \in Seq(Range(Paths)) /\ <<>> \in Seq(Part) /\ Stamp(files) \in Stamps
        BY <1>3, PathsTyped DEF StampedBy
    <2> QED BY <1>1, <2>1 DEF Jobs
<1>7. JobReached(r, 0)'
    <2>1. Unread(0) = Paths
        <3>1. Paths \in Seq(Range(Paths))
            BY PathsTyped
        <3>2. SubSeq(Paths, 1, Len(Paths)) = Paths
            BY <3>1, SubSeqFull
        <3> QED BY <3>2 DEF Unread, Candidates
    <2>2. Gather(r, 0) = <<>>
        BY NothingGathered
    <2>3. AgreeOn(r, 0, Stamp(files), files) /\ ReadsStand(r, 0)'
        BY DEF AgreeOn, ReadsStand
    <2> QED BY <1>1, <2>1, <2>2, <2>3 DEF JobReached
<1>8. 0 \in 0..Candidates
    BY PathsTyped
<1>9. (\E n \in 0..Candidates, q \in Reads : JobReached(q, n))'
    BY <1>7, <1>8
<1> QED BY <1>1, <1>2, <1>3, <1>5, <1>6, <1>9 DEF PromptInv

LEMMA ReadKeeps == ASSUME PromptInv, ReadNext PROVE PromptInv'
<1>1. /\ Dated(files, edits) /\ StampedBy(cache.stamp, edits) /\ raced \in BOOLEAN
      /\ StampedBy(job.stamp, edits) /\ job \in Jobs /\ dirty \in BOOLEAN
      /\ cache = [parts |-> cache.parts, stamp |-> cache.stamp]
    BY DEF PromptInv
<1>2. /\ job.todo # <<>> /\ files' = files /\ edits' = edits /\ cache' = cache
      /\ dirty' = dirty /\ raced' = raced
    BY DEF ReadNext
<1>3. PICK c \in Reads : CacheHolds(c)
    BY DEF PromptInv
<1>4. CacheHolds(c)'
    BY <1>2, <1>3 DEF CacheHolds
<1>5. CASE job' = IdleJob
    <2>1. job' \in Jobs /\ StampedBy(job'.stamp, edits)
        BY <1>5, IdleIsTyped
    <2> QED BY <1>1, <1>2, <1>4, <1>5, <2>1 DEF PromptInv
<1>6. CASE job' = [job EXCEPT !.parts = Take(@, Head(job.todo), files[Head(job.todo)]),
                              !.todo = Tail(@)]
    <2>0. job # IdleJob
        BY <1>2 DEF IdleJob
    <2>1. PICK n \in 0..Candidates, r \in Reads : JobReached(r, n)
        BY <2>0 DEF PromptInv
    <2>2. job.kind # "idle" /\ job.todo = Unread(n) /\ job.parts = Gather(r, n)
        BY <2>0, <2>1 DEF PromptInv, JobReached
    <2>3. n < Candidates /\ Head(job.todo) = Paths[n + 1] /\ Tail(job.todo) = Unread(n + 1)
        BY <1>2, <2>2, UnreadAt
    <2>4. PICK m \in 1..Candidates : m = n + 1 /\ m \in 0..Candidates /\ n \in Nat
        BY <2>3, PathsTyped
    <2>5. Paths[m] \in Range(Paths) /\ files[Paths[m]] \in {Gone} \cup File
        BY <1>1, PathsTyped DEF Dated
    <2>6. PICK q : q = [r EXCEPT ![m] = files[Paths[m]]]
        OBVIOUS
    <2>7. q \in Reads /\ q[m] = files[Paths[m]] /\ \A i \in 1..n : q[i] = r[i]
        <3>1. r \in [1..Candidates -> {Gone} \cup File]
            BY DEF Reads
        <3>2. q \in [1..Candidates -> {Gone} \cup File] /\ q[m] = files[Paths[m]]
            BY <2>5, <2>6, <3>1
        <3>3. ASSUME NEW i \in 1..n PROVE q[i] = r[i]
            <4>1. i \in 1..Candidates /\ i # m
                BY <2>3, <2>4, PathsTyped
            <4> QED BY <2>6, <3>1, <4>1
        <3> QED BY <3>2, <3>3 DEF Reads
    <2>8. Gather(q, m) = Take(Gather(r, n), Paths[m], files[Paths[m]])
        <3>1. SameUpTo(r, q, n)
            BY <2>7 DEF SameUpTo
        <3>2. Gather(q, n + 1) = Take(Gather(r, n), Paths[n + 1], q[n + 1])
            BY <2>4, <3>1, GatherNext
        <3> QED BY <2>4, <2>7, <3>2
    <2>9. /\ job'.parts = Gather(q, m) /\ job'.todo = Unread(m)
          /\ job'.kind = job.kind /\ job'.stamp = job.stamp
          /\ job' = [kind |-> job.kind, stamp |-> job.stamp, todo |-> job'.todo,
                     parts |-> job'.parts]
        BY <1>1, <1>6, <2>2, <2>3, <2>4, <2>8 DEF Jobs
    <2>10. job' \in Jobs
        <3>1. WithinLimits(Gather(q, m))
            BY <2>4, <2>7, GatherWithin
        <3>2. Gather(q, m) \in Seq(Part)
            BY <3>1 DEF WithinLimits
        <3>3. Unread(m) \in Seq(Range(Paths))
            BY <2>4, UnreadAt
        <3> QED BY <1>1, <2>9, <3>2, <3>3 DEF Jobs
    <2>11. job.kind = "refresh" => AgreeOn(q, m, job.stamp, files)
        <3> SUFFICES ASSUME job.kind = "refresh",
                            NEW k \in 1..m, files[Paths[k]] # Gone,
                            <<Paths[k], files[Paths[k]].mtime>> \in job.stamp
                     PROVE  q[k] = files[Paths[k]]
            BY DEF AgreeOn
        <3>1. AgreeOn(r, n, job.stamp, files)
            BY <2>1 DEF JobReached
        <3>2. CASE k = m
            BY <2>7, <3>2
        <3>3. CASE k \in 1..n
            BY <2>7, <3>1, <3>3 DEF AgreeOn
        <3> QED BY <2>4, <3>2, <3>3
    <2>12. job.kind = "build" /\ ~dirty => \A k \in 1..m : q[k] = files[Paths[k]]
        <3> SUFFICES ASSUME job.kind = "build", ~dirty, NEW k \in 1..m
                     PROVE  q[k] = files[Paths[k]]
            OBVIOUS
        <3>1. ReadsStand(r, n)
            BY <2>1 DEF JobReached
        <3>2. CASE k = m
            BY <2>7, <3>2
        <3>3. CASE k \in 1..n
            BY <2>7, <3>1, <3>3 DEF ReadsStand
        <3> QED BY <2>4, <3>2, <3>3
    <2>13. JobReached(q, m)'
        BY <1>2, <2>9, <2>11, <2>12 DEF JobReached, ReadsStand
    <2>14. (\E k \in 0..Candidates, s \in Reads : JobReached(s, k))'
        BY <2>4, <2>7, <2>13
    <2> QED BY <1>1, <1>2, <1>4, <2>2, <2>9, <2>10, <2>14 DEF PromptInv
<1> QED BY <1>5, <1>6 DEF ReadNext

LEMMA StoreKeeps == ASSUME PromptInv, StorePrompt PROVE PromptInv'
<1>1. /\ Dated(files, edits) /\ StampedBy(cache.stamp, edits) /\ raced \in BOOLEAN
      /\ StampedBy(job.stamp, edits) /\ job \in Jobs /\ dirty \in BOOLEAN
    BY DEF PromptInv
<1>2. /\ job # IdleJob /\ job.todo = <<>> /\ files' = files /\ edits' = edits /\ dirty' = dirty
      /\ cache' = [parts |-> job.parts, stamp |-> StoredStamp] /\ job' = IdleJob
    BY DEF StorePrompt
<1>3. PICK n \in 0..Candidates, r \in Reads : JobReached(r, n)
    BY <1>2 DEF PromptInv
<1>4. n = Candidates
    BY <1>2, <1>3, UnreadAt DEF JobReached
<1>5. job.kind \in {"refresh", "build"} /\ job.parts = Gather(r, Candidates)
    BY <1>1, <1>2, <1>3, <1>4 DEF PromptInv, Jobs, JobReached
<1>6. cache'.parts = Gather(r, Candidates) /\ cache'.stamp = StoredStamp
      /\ cache' = [parts |-> cache'.parts, stamp |-> cache'.stamp]
    BY <1>2, <1>5
<1>7. CASE job.kind = "refresh"
    <2>1. cache'.stamp = job.stamp
        BY <1>6, <1>7 DEF StoredStamp
    <2>2. raced' = \E part \in Range(job.parts) : \A e \in job.stamp : e[1] # part.path
        BY <1>7 DEF StorePrompt
    <2>3. AgreeOn(r, Candidates, job.stamp, files)
        BY <1>3, <1>4, <1>7 DEF JobReached
    <2>4. ~raced' => Stamped(job.parts, job.stamp)
        <3> SUFFICES ASSUME ~raced', NEW i \in 1..Len(job.parts)
                     PROVE  \E e \in job.stamp : e[1] = job.parts[i].path
            BY DEF Stamped
        <3>1. job.parts \in Seq(Part)
            BY <1>1 DEF Jobs
        <3>2. job.parts[i] \in Range(job.parts)
            BY <3>1 DEF Range
        <3> QED BY <2>2, <3>2
    <2>5. CacheHolds(r)' /\ raced' \in BOOLEAN /\ StampedBy(cache'.stamp, edits)
        BY <1>1, <1>2, <1>5, <1>6, <2>1, <2>2, <2>3, <2>4 DEF CacheHolds
    <2> QED BY <2>5, <1>1, <1>2, <1>6, IdleIsTyped DEF PromptInv
<1>8. CASE job.kind = "build"
    <2>1. cache'.stamp = Stamp(files) /\ raced' = dirty
        BY <1>6, <1>8 DEF StoredStamp, StorePrompt
    <2>2. ~dirty => /\ AgreeOn(r, Candidates, Stamp(files), files)
                    /\ Stamped(Gather(r, Candidates), Stamp(files))
        <3> SUFFICES ASSUME ~dirty
                     PROVE  /\ AgreeOn(r, Candidates, Stamp(files), files)
                            /\ Stamped(Gather(r, Candidates), Stamp(files))
            OBVIOUS
        <3>1. \A k \in 1..Candidates : r[k] = files[Paths[k]]
            BY <1>3, <1>4, <1>8 DEF JobReached, ReadsStand
        <3> QED BY <1>1, <3>1, StandingAgrees
    <2>3. StampedBy(Stamp(files), edits)
        BY <1>1, StampDated
    <2>4. CacheHolds(r)' /\ raced' \in BOOLEAN /\ StampedBy(cache'.stamp, edits)
        BY <1>1, <1>2, <1>6, <2>1, <2>2, <2>3 DEF CacheHolds
    <2> QED BY <2>4, <1>1, <1>2, <1>6, IdleIsTyped DEF PromptInv
<1> QED BY <1>5, <1>7, <1>8

LEMMA ChangeKeeps == ASSUME PromptInv, Change PROVE PromptInv'
<1>1. /\ Dated(files, edits) /\ StampedBy(cache.stamp, edits) /\ raced \in BOOLEAN
      /\ StampedBy(job.stamp, edits) /\ job \in Jobs /\ edits \in Nat
      /\ cache = [parts |-> cache.parts, stamp |-> cache.stamp]
    BY DEF PromptInv, Dated
<1>2. edits' = edits + 1 /\ dirty' = TRUE /\ cache' = cache /\ job' = job /\ raced' = raced
    BY DEF Change
<1>3. PICK p \in Range(Paths), seen \in {Gone} \cup File :
          files' = [files EXCEPT ![p] = seen] /\ (seen = Gone \/ seen.mtime = edits + 1)
    <2>1. PICK p \in Range(Paths) :
              \/ \E size \in Sizes, readable \in BOOLEAN :
                   files' = [files EXCEPT ![p] =
                               [size |-> size, mtime |-> edits + 1, readable |-> readable]]
              \/ files[p] # Gone /\ files' = [files EXCEPT ![p] = Gone]
        BY DEF Change
    <2>2. ASSUME NEW size \in Sizes, NEW readable \in BOOLEAN,
                 files' = [files EXCEPT ![p] =
                             [size |-> size, mtime |-> edits + 1, readable |-> readable]]
          PROVE  \E q \in Range(Paths), seen \in {Gone} \cup File :
                   files' = [files EXCEPT ![q] = seen] /\ (seen = Gone \/ seen.mtime = edits + 1)
        <3>1. PICK seen : seen = [size |-> size, mtime |-> edits + 1, readable |-> readable]
            OBVIOUS
        <3>2. seen \in File /\ seen.mtime = edits + 1
            BY <1>1, <3>1 DEF File
        <3> QED BY <2>2, <3>1, <3>2
    <2> QED BY <2>1, <2>2
<1>4. Dated(files, edits)'
    <2>1. files \in [Range(Paths) -> {Gone} \cup File]
        BY <1>1 DEF Dated
    <2>2. files' \in [Range(Paths) -> {Gone} \cup File]
        BY <1>3, <2>1
    <2>3. ASSUME NEW q \in Range(Paths), files'[q] # Gone PROVE files'[q].mtime \in 1..edits + 1
        <3>1. CASE q = p
            BY <1>1, <1>3, <2>1, <2>3, <3>1
        <3>2. CASE q # p
            <4>1. files'[q] = files[q]
                BY <1>3, <2>1, <3>2
            <4>2. files[q].mtime \in 1..edits
                BY <1>1, <2>3, <4>1 DEF Dated
            <4> QED BY <1>1, <4>1, <4>2
        <3> QED BY <3>1, <3>2
    <2>4. edits + 1 \in Nat
        BY <1>1
    <2> QED BY <1>2, <2>2, <2>3, <2>4 DEF Dated
<1>5. StampedBy(job.stamp, edits + 1) /\ StampedBy(cache.stamp, edits + 1)
    BY <1>1, StampedLater
<1>6. \A stamp, r : \A n \in 0..Candidates :
          StampedBy(stamp, edits) /\ AgreeOn(r, n, stamp, files) => AgreeOn(r, n, stamp, files')
    BY <1>1, <1>3, AgreeAfterChange
<1>7. (\E r \in Reads : CacheHolds(r))'
    <2>1. PICK r \in Reads : CacheHolds(r)
        BY DEF PromptInv
    <2>2. Candidates \in 0..Candidates
        BY PathsTyped
    <2>3. CacheHolds(r)'
        BY <1>1, <1>2, <1>6, <2>1, <2>2 DEF CacheHolds
    <2> QED BY <2>3
<1>8. CASE job = IdleJob
    BY <1>1, <1>2, <1>4, <1>5, <1>7, <1>8 DEF PromptInv
<1>9. CASE job # IdleJob
    <2>1. PICK n \in 0..Candidates, r \in Reads : JobReached(r, n)
        BY <1>9 DEF PromptInv
    <2>2. job.kind # "idle"
        BY <1>9 DEF PromptInv
    <2>3. JobReached(r, n)'
        BY <1>1, <1>2, <1>6, <2>1 DEF JobReached
    <2>4. (\E k \in 0..Candidates, s \in Reads : JobReached(s, k))'
        BY <2>3
    <2> QED BY <1>1, <1>2, <1>4, <1>5, <1>7, <2>2, <2>4 DEF PromptInv
<1> QED BY <1>8, <1>9

LEMMA PromptKeeps == PromptInv /\ [PromptNext]_promptVars => PromptInv'
<1> SUFFICES ASSUME PromptInv, [PromptNext]_promptVars PROVE PromptInv'
    OBVIOUS
<1>1. CASE RefreshIfStale
    BY <1>1, BeginKeeps DEF RefreshIfStale
<1>2. CASE Replace
    BY <1>2, BeginKeeps DEF Replace
<1>3. CASE ReadNext
    BY <1>3, ReadKeeps
<1>4. CASE StorePrompt
    BY <1>4, StoreKeeps
<1>5. CASE Change
    BY <1>5, ChangeKeeps
<1>6. CASE UNCHANGED promptVars
    <2>1. /\ files' = files /\ edits' = edits /\ cache' = cache /\ job' = job
          /\ dirty' = dirty /\ raced' = raced
        BY <1>6 DEF promptVars
    <2> QED BY <2>1 DEF PromptInv, CacheHolds, JobReached, ReadsStand
<1> QED BY <1>1, <1>2, <1>3, <1>4, <1>5, <1>6 DEF PromptNext

LEMMA PromptHolds == PromptInv => PromptSound
<1> SUFFICES ASSUME PromptInv PROVE PromptSound
    OBVIOUS
<1>1. PICK r \in Reads : CacheHolds(r)
    BY DEF PromptInv
<1>2. cache.parts = Gather(r, Candidates)
    BY <1>1 DEF CacheHolds
<1>3. WithinLimits(cache.parts)
    <2>1. Candidates \in 0..Candidates
        BY PathsTyped
    <2> QED BY <1>2, <2>1, GatherWithin
<1>4. PromptWithinLimits
    <2>1. cache.parts \in Seq(Part) /\ MaxTotal \in Nat /\ MaxFile \in Nat
        BY <1>3, PromptAssumption DEF WithinLimits
    <2>2. DOMAIN cache.parts = 1..Len(cache.parts) /\ \A i \in 1..Len(cache.parts) : cache.parts[i] \in Part
        BY <2>1
    <2>3. \A i \in DOMAIN cache.parts : cache.parts[i].kept <= MaxFile
        BY <2>1, <2>2 DEF Part
    <2> QED BY <1>3, <2>1, <2>2, <2>3 DEF PromptWithinLimits, WithinLimits
<1>5. StampVouches
    <2> SUFFICES ASSUME cache.stamp = Stamp(files), ~raced PROVE cache.parts = Collect(files)
        BY DEF StampVouches
    <2>1. AgreeOn(r, Candidates, Stamp(files), files) /\ Stamped(Gather(r, Candidates), Stamp(files))
        BY <1>1, <1>2 DEF CacheHolds
    <2>2. Dated(files, edits)
        BY DEF PromptInv
    <2> QED BY <1>2, <2>1, <2>2, Vouches
<1> QED BY <1>4, <1>5 DEF PromptSound

\* A stamp that still matches the files vouches for the cached prompt, whatever changed
\* between the stamp and the reads of a refresh, and the prompt keeps within its limits:
\* prompt_cache.rs, collect_context_files of anie-config.
THEOREM PromptStaysSound == PromptSpec => []PromptSound
<1> USE PromptStarts, PromptKeeps, PromptHolds
<1>1. PromptInit => PromptInv
    OBVIOUS
<1>2. PromptInv /\ [PromptNext]_promptVars => PromptInv'
    OBVIOUS
<1>3. PromptInv => PromptSound
    OBVIOUS
<1> QED BY <1>1, <1>2, <1>3, PTL DEF PromptSpec

-----------------------------------------------------------------------------
(* Requests: RequestsSound of ProviderRequest.tla                            *)

Kinds == {"Nested", "TopLevel", "Flag", "Template"}
Plain == "NoNativeFields"
FieldNames == {"reasoning.effort", "reasoning_effort", "reasoning.summary", "enable_thinking",
               "chat_template_kwargs", "think"}

RequestType ==
    [api : {"openai", "ollama", "anthropic"}, model : OpenAiModels \cup {NoModel},
     thinking : ThinkingLevels, requested : Requested \cup {NotGiven},
     ladder : Seq(Kinds \cup {Plain}), stream_options : BOOLEAN, num_ctx : Nat, ceiling : Nat,
     capable : BOOLEAN, think : BOOLEAN, dropped : BOOLEAN, halved : BOOLEAN]
BodyType == [stream_options : BOOLEAN, fields : SUBSET FieldNames, num_ctx : Nat]
Replies ==
    {Ok, Reply(400, {"stream_options"}), Reply(400, {"reasoning", "unsupported"}),
     Reply(500, {"memory"})} \cup Faults
EntryType == [body : BodyType, reply : Replies]

\* The rungs of a request that are left, and what it says of its own history.
LadderOk ==
    /\ request.api = "openai" =>
         /\ request.requested \in Requested /\ server.memory = 0
         /\ \/ request.ladder = <<Plain>>
            \/ \E s \in Kinds : request.ladder = <<s, Plain>>
    /\ request.api = "ollama" => request.think = (request.capable /\ ~request.dropped)
    /\ request.api = "anthropic" => request.ceiling \in Ceilings

TypedRequests == request \in RequestType /\ sent \in Seq(EntryType) /\ LadderOk

\* The body that is sent next, and how often the request can still be changed.
NextBody ==
    IF request.api = "openai" THEN OpenAiBody(request)
    ELSE IF request.api = "ollama" THEN OllamaBody(request) ELSE Body(FALSE, {}, 0)
ChangesLeft ==
    IF request.api = "openai"
    THEN 2 * (Len(request.ladder) - 1) + (IF request.stream_options THEN 1 ELSE 0)
    ELSE IF request.api = "ollama"
    THEN (IF request.halved THEN 0 ELSE 2) + (IF request.dropped THEN 0 ELSE 1)
    ELSE 0

\* A body the request has left behind, by a change that is never taken back.
LeftBehind(b) ==
    \/ /\ request.api = "openai"
       /\ \/ b.fields = NextBody.fields /\ b.stream_options /\ ~request.stream_options
          \/ b.fields # NextBody.fields /\ request.ladder = <<Plain>>
    \/ /\ request.api = "ollama"
       /\ \/ b.fields = {"think"} /\ ~request.think /\ b.num_ctx = request.num_ctx
          \/ request.halved /\ (b.num_ctx # request.num_ctx \/ b.num_ctx = MIN_SUGGESTED_NUM_CTX)

Apart(b, c) == b # c \/ b.num_ctx = MIN_SUGGESTED_NUM_CTX

\* The reply of e is the reason for the next body, for a server and a model.
HostedEffort(api, model, next) ==
    /\ api = "openai" /\ model.supports_reasoning /\ ~IsLocal(model)
    /\ next.fields = {"reasoning_effort", "reasoning.summary"}
CausedFor(api, model, e, next) ==
    \/ /\ "stream_options" \in e.reply.topics /\ e.body.stream_options
       /\ next = [e.body EXCEPT !.stream_options = FALSE]
    \/ /\ "reasoning" \in e.reply.topics /\ e.body.fields # {} /\ next.num_ctx = e.body.num_ctx
       /\ next.fields = {} \/ HostedEffort(api, model, next)
       /\ \/ next.stream_options = e.body.stream_options
          \/ api = "openai" /\ next.stream_options /\ ~e.body.stream_options
    \/ /\ "memory" \in e.reply.topics /\ next = [e.body EXCEPT !.num_ctx = next.num_ctx]
       /\ next.num_ctx < e.body.num_ctx \/ e.body.num_ctx <= MIN_SUGGESTED_NUM_CTX
Causes(e, next) == CausedFor(request.api, request.model, e, next)

AllApart == \A i, j \in DOMAIN sent : i # j => Apart(sent[i].body, sent[j].body)
AllCaused == \A i \in 1..(Len(sent) - 1) : Causes(sent[i], sent[i + 1].body)

\* While the request goes on.
GoingOn ==
    /\ \A i \in 1..Len(sent) : LeftBehind(sent[i].body)
    /\ Len(sent) + ChangesLeft <= 3
    /\ sent # <<>> => Causes(sent[Len(sent)], NextBody)

RequestInv ==
    /\ TypedRequests /\ AllApart /\ AllCaused /\ PlainRequestsSucceed
    /\ result = "none" => GoingOn

LEMMA AskedIs == AskedAgainForCause <=> AllApart /\ AllCaused
BY DEF AskedAgainForCause, AllApart, AllCaused, Apart, Causes, CausedFor, HostedEffort,
       OffersOptionsAgain, NamesHostedEffort

-----------------------------------------------------------------------------
LEMMA TwoRungs == ASSUME NEW s, NEW p PROVE <<s>> \o <<p>> = <<s, p>>
<1>1. PICK S : S = {s, p}
    OBVIOUS
<1>2. PICK a, b, c : a = <<s>> /\ b = <<p>> /\ c = <<s, p>>
    OBVIOUS
<1>3. /\ a \in Seq(S) /\ Len(a) = 1 /\ a[1] = s /\ b \in Seq(S) /\ Len(b) = 1 /\ b[1] = p
      /\ c \in Seq(S) /\ Len(c) = 2 /\ c[1] = s /\ c[2] = p
    BY <1>1, <1>2
<1>4. PICK d : d = a \o b
    OBVIOUS
<1>5. d \in Seq(S) /\ Len(d) = 2 /\ d[1] = s /\ d[2] = p
    <2>1. /\ d \in Seq(S) /\ Len(d) = Len(a) + Len(b)
          /\ \A i \in 1..(Len(a) + Len(b)) : d[i] = IF i <= Len(a) THEN a[i] ELSE b[i - Len(a)]
        BY <1>3, <1>4, ConcatProperties
    <2>2. \A i \in 1..2 : d[i] = IF i <= 1 THEN a[i] ELSE b[i - 1]
        BY <1>3, <2>1
    <2>3. 1 \in 1..2 /\ 2 \in 1..2 /\ 1 <= 1 /\ ~(2 <= 1) /\ 2 - 1 = 1
        OBVIOUS
    <2> QED BY <1>3, <2>1, <2>2, <2>3
<1>6. \A i \in 1..Len(d) : d[i] = c[i]
    <2>1. \A i \in 1..2 : i = 1 \/ i = 2
        OBVIOUS
    <2> QED BY <1>3, <1>5, <2>1
<1>7. d = c
    BY <1>3, <1>5, <1>6, SeqEqual
<1> QED BY <1>2, <1>4, <1>7

LEMMA StrategiesAre ==
    ASSUME NEW model, NEW thinking
    PROVE  \/ Strategies(model, thinking) = <<Plain>>
           \/ \E s \in Kinds : Strategies(model, thinking) = <<s, Plain>>
<1>1. <<>> \o <<Plain>> = <<Plain>>
    BY DEF Plain
<1>2. \A s \in Kinds : <<s>> \o <<Plain>> = <<s, Plain>>
    BY TwoRungs
<1>3. PICK first : /\ Strategies(model, thinking) = first \o <<Plain>>
                   /\ first = <<>> \/ \E s \in Kinds : first = <<s>>
    <2>1. DEFINE caps == EffectiveCapabilities(model)
                 mode == caps.request_mode
                 ofMode == CASE mode = "NestedReasoning" -> <<"Nested">>
                    [] mode = "EnableThinkingFlag" -> <<"Flag">>
                    [] mode = "ChatTemplateEnableThinking" -> <<"Template">>
                    [] mode = "ReasoningEffort" -> <<"TopLevel">>
                    [] mode = "none" -> IF Backend(model) = "LmStudio" THEN <<"Nested">> ELSE <<"TopLevel">>
                    [] OTHER -> <<>>
    <2>2. ofMode = <<>> \/ \E s \in Kinds : ofMode = <<s>>
        <3> HIDE DEF mode
        <3> QED BY DEF Kinds
    <2> QED BY <2>2 DEF Strategies, Plain
<1> QED BY <1>1, <1>2, <1>3

\* The fields of each rung.
LEMMA FieldsAre ==
    ASSUME NEW model, NEW thinking
    PROVE  /\ \A s \in Kinds : Fields(s, model, thinking) = {}
                               \/ \E f \in FieldNames : Fields(s, model, thinking) = {f}
           /\ \/ Fields(Plain, model, thinking) = {}
              \/ Fields(Plain, model, thinking) = {"reasoning_effort", "reasoning.summary"}
<1>1. Fields("Nested", model, thinking) = {"reasoning.effort"}
    BY DEF Fields
<1>2. Fields("TopLevel", model, thinking) = IF thinking = "off" THEN {} ELSE {"reasoning_effort"}
    BY DEF Fields
<1>3. Fields("Flag", model, thinking) = {"enable_thinking"}
    BY DEF Fields
<1>4. Fields("Template", model, thinking) = {"chat_template_kwargs"}
    BY DEF Fields
<1>5. \/ Fields("NoNativeFields", model, thinking) = {}
      \/ Fields("NoNativeFields", model, thinking) = {"reasoning_effort", "reasoning.summary"}
    BY DEF Fields
<1>6. \A f \in {"reasoning.effort", "reasoning_effort", "enable_thinking", "chat_template_kwargs"} :
          f \in FieldNames
    BY DEF FieldNames
<1>7. ASSUME NEW s \in Kinds
      PROVE  Fields(s, model, thinking) = {} \/ \E f \in FieldNames : Fields(s, model, thinking) = {f}
    <2>1. s = "Nested" \/ s = "TopLevel" \/ s = "Flag" \/ s = "Template"
        BY DEF Kinds
    <2>2. \/ Fields(s, model, thinking) = {"reasoning.effort"}
          \/ Fields(s, model, thinking) = {"enable_thinking"}
          \/ Fields(s, model, thinking) = {"chat_template_kwargs"}
          \/ Fields(s, model, thinking) = IF thinking = "off" THEN {} ELSE {"reasoning_effort"}
        BY <1>1, <1>2, <1>3, <1>4, <2>1, Zenon
    <2> QED BY <1>6, <2>2
<1> QED BY <1>5, <1>7 DEF Plain

LEMMA FieldsDiffer ==
    ASSUME NEW model, NEW thinking, NEW s \in Kinds, Fields(s, model, thinking) # {}
    PROVE  Fields(s, model, thinking) # Fields(Plain, model, thinking)
<1>0. \A r \in Kinds : Fields(r, model, thinking) = {}
                        \/ \E f \in FieldNames : Fields(r, model, thinking) = {f}
    BY FieldsAre
<1>1. PICK f \in FieldNames : Fields(s, model, thinking) = {f}
    BY <1>0
<1>2. "reasoning_effort" # "reasoning.summary"
    OBVIOUS
<1> QED BY <1>1, <1>2, FieldsAre

LEMMA FieldsTyped ==
    ASSUME NEW model, NEW thinking, NEW s \in Kinds \cup {Plain}
    PROVE  Fields(s, model, thinking) \in SUBSET FieldNames
<1>1. CASE s \in Kinds
    BY <1>1, FieldsAre
<1>2. CASE s = Plain
    <2>1. PICK f : f = Fields(s, model, thinking)
        OBVIOUS
    <2>2. f = {} \/ f = {"reasoning_effort", "reasoning.summary"}
        BY <1>2, <2>1, FieldsAre
    <2>3. "reasoning_effort" \in FieldNames /\ "reasoning.summary" \in FieldNames
        BY DEF FieldNames
    <2>4. f \subseteq FieldNames
        BY <2>2, <2>3, Zenon
    <2> QED BY <2>1, <2>4
<1> QED BY <1>1, <1>2

LEMMA PlainOfLocal ==
    ASSUME NEW model, NEW thinking, IsLocal(model)
    PROVE  Fields(Plain, model, thinking) = {}
BY DEF Fields, Plain

-----------------------------------------------------------------------------
(* What is left for the answer                                               *)

LEMMA LevelsAre ==
    /\ Len(Levels) = 5 /\ DOMAIN Levels = 1..5
    /\ Levels[1] = "off" /\ Levels[2] = "minimal" /\ Levels[3] = "low"
    /\ Levels[4] = "medium" /\ Levels[5] = "high"
BY DEF Levels

LEMMA ThinkingIs ==
    ASSUME NEW thinking \in ThinkingLevels
    PROVE  \/ thinking = "off" \/ thinking = "minimal" \/ thinking = "low" \/ thinking = "medium"
           \/ thinking = "high"
<1>1. PICK i \in DOMAIN Levels : thinking = Levels[i]
    BY DEF ThinkingLevels, ToSet
<1>2. i = 1 \/ i = 2 \/ i = 3 \/ i = 4 \/ i = 5
    BY LevelsAre
<1> QED BY <1>1, <1>2, LevelsAre

Share(n, thinking) ==
    CASE thinking = "off" -> 0 [] thinking = "minimal" -> n \div 20
      [] thinking = "low" -> n \div 10 [] thinking = "medium" -> n \div 5
      [] thinking = "high" -> n \div 4
Extra(output, thinking) ==
    IF ~output THEN 0
    ELSE CASE thinking = "off" -> 0 [] thinking = "minimal" -> 64 [] thinking = "low" -> 128
           [] thinking = "medium" -> 256 [] thinking = "high" -> 512
Kept(n, cost) == IF n - cost < 1 THEN 1 ELSE n - cost

LEMMA SharesGrow ==
    ASSUME NEW n \in Nat, NEW output
    PROVE  /\ Share(n, "off") = 0 /\ Share(n, "minimal") = n \div 20
           /\ Share(n, "low") = n \div 10 /\ Share(n, "medium") = n \div 5
           /\ Share(n, "high") = n \div 4
           /\ {n \div 20, n \div 10, n \div 5, n \div 4} \subseteq Nat
           /\ n \div 20 <= n \div 10 /\ n \div 10 <= n \div 5 /\ n \div 5 <= n \div 4
           /\ Extra(output, "off") = 0
           /\ Extra(output, "minimal") = IF ~output THEN 0 ELSE 64
           /\ Extra(output, "low") = IF ~output THEN 0 ELSE 128
           /\ Extra(output, "medium") = IF ~output THEN 0 ELSE 256
           /\ Extra(output, "high") = IF ~output THEN 0 ELSE 512
<1>1. /\ Share(n, "off") = 0 /\ Share(n, "minimal") = n \div 20
      /\ Share(n, "low") = n \div 10 /\ Share(n, "medium") = n \div 5
      /\ Share(n, "high") = n \div 4
    BY DEF Share
<1>2. /\ Extra(output, "off") = 0
      /\ Extra(output, "minimal") = IF ~output THEN 0 ELSE 64
      /\ Extra(output, "low") = IF ~output THEN 0 ELSE 128
      /\ Extra(output, "medium") = IF ~output THEN 0 ELSE 256
      /\ Extra(output, "high") = IF ~output THEN 0 ELSE 512
    BY DEF Extra
<1>3. n \div 20 \in Nat /\ n \div 10 \in Nat /\ n \div 5 \in Nat /\ n \div 4 \in Nat
    OBVIOUS
<1>4. n \div 20 <= n \div 10
    OBVIOUS
<1>5. n \div 10 <= n \div 5
    OBVIOUS
<1>6. n \div 5 <= n \div 4
    OBVIOUS
<1> QED BY <1>1, <1>2, <1>3, <1>4, <1>5, <1>6

LEMMA MaxIs ==
    ASSUME NEW n \in Nat, NEW model, NEW thinking,
           Share(n, thinking) \in Nat, Extra(EffectiveCapabilities(model).output, thinking) \in Nat
    PROVE  EffectiveMax(n, model, thinking) =
               IF ~IsLocal(model) THEN n
               ELSE Kept(n, Share(n, thinking) + Extra(EffectiveCapabilities(model).output, thinking))
<1>1. PICK part \in Nat : part = Share(n, thinking)
    OBVIOUS
<1>2. PICK shown \in Nat : shown = Extra(EffectiveCapabilities(model).output, thinking)
    OBVIOUS
<1>3. PICK room \in Nat : room = IF n = 0 THEN 0 ELSE n - 1
    OBVIOUS
<1>4. PICK headroom \in Nat : headroom = IF part + shown < room THEN part + shown ELSE room
    OBVIOUS
<1>5. EffectiveMax(n, model, thinking) =
          IF ~IsLocal(model) THEN n ELSE IF n - headroom < 1 THEN 1 ELSE n - headroom
    BY <1>1, <1>2, <1>3, <1>4 DEF EffectiveMax, Share, Extra
<1>6. (IF n - headroom < 1 THEN 1 ELSE n - headroom) = Kept(n, part + shown)
    BY <1>3, <1>4 DEF Kept
<1> QED BY <1>1, <1>2, <1>5, <1>6

LEMMA TokensLeft ==
    ASSUME RequestInv PROVE AnswerTokensLeft
<1> SUFFICES ASSUME request.api = "openai" PROVE AnswerTokensLeft
    BY DEF AnswerTokensLeft
<1>1. PICK n \in Nat : n = request.requested
    BY ProviderRequestAssumption DEF RequestInv, TypedRequests, LadderOk
<1>2. PICK model : model = request.model
    OBVIOUS
<1>10. PICK thinking \in ThinkingLevels : thinking = request.thinking
    BY DEF RequestInv, TypedRequests, RequestType
<1>3. PICK output : output = EffectiveCapabilities(model).output
    OBVIOUS
<1>4. PICK cost : cost = [l \in ThinkingLevels |-> Share(n, l) + Extra(output, l)]
    OBVIOUS
<1>5. ASSUME NEW l \in ThinkingLevels
      PROVE  Share(n, l) \in Nat /\ Extra(output, l) \in Nat /\ cost[l] \in Nat
    <2>1. Share(n, l) \in Nat
        BY SharesGrow, ThinkingIs
    <2>2. Extra(output, l) \in Nat
        BY SharesGrow, ThinkingIs
    <2> QED BY <1>4, <2>1, <2>2
<1>6. ASSUME NEW l \in ThinkingLevels
      PROVE  EffectiveMax(n, model, l) = IF ~IsLocal(model) THEN n ELSE Kept(n, cost[l])
    BY <1>3, <1>4, <1>5, MaxIs
<1>7. n > 0 => /\ EffectiveMax(n, model, thinking) >= 1
               /\ EffectiveMax(n, model, thinking) <= n
    <2>1. PICK c \in Nat : c = cost[thinking]
        BY <1>5
    <2>2. n > 0 => Kept(n, c) >= 1 /\ Kept(n, c) <= n
        BY DEF Kept
    <2> QED BY <1>6, <2>1, <2>2
<1>9. /\ cost["off"] <= cost["minimal"] /\ cost["minimal"] <= cost["low"]
      /\ cost["low"] <= cost["medium"] /\ cost["medium"] <= cost["high"]
    <2>1. /\ "off" \in ThinkingLevels /\ "minimal" \in ThinkingLevels /\ "low" \in ThinkingLevels
          /\ "medium" \in ThinkingLevels /\ "high" \in ThinkingLevels
        <3>1. 1 \in DOMAIN Levels /\ 2 \in DOMAIN Levels /\ 3 \in DOMAIN Levels
              /\ 4 \in DOMAIN Levels /\ 5 \in DOMAIN Levels
            BY LevelsAre
        <3> QED BY <3>1, LevelsAre DEF ThinkingLevels, ToSet
    <2>2. PICK extra : extra = [l \in ThinkingLevels |-> Extra(output, l)]
        OBVIOUS
    <2>3. /\ extra["off"] = 0 /\ extra["minimal"] = (IF ~output THEN 0 ELSE 64)
          /\ extra["low"] = (IF ~output THEN 0 ELSE 128)
          /\ extra["medium"] = (IF ~output THEN 0 ELSE 256)
          /\ extra["high"] = (IF ~output THEN 0 ELSE 512)
        BY <2>1, <2>2, SharesGrow
    <2>4. /\ cost["off"] = 0 + extra["off"] /\ cost["minimal"] = n \div 20 + extra["minimal"]
          /\ cost["low"] = n \div 10 + extra["low"] /\ cost["medium"] = n \div 5 + extra["medium"]
          /\ cost["high"] = n \div 4 + extra["high"]
        BY <1>4, <2>1, <2>2, SharesGrow
    <2>5. PICK s1, s2, s3, s4 \in Nat :
              /\ s1 = n \div 20 /\ s2 = n \div 10 /\ s3 = n \div 5 /\ s4 = n \div 4
              /\ s1 <= s2 /\ s2 <= s3 /\ s3 <= s4
        BY SharesGrow
    <2> QED BY <2>3, <2>4, <2>5
<1>8. ASSUME NEW i \in 1..(Len(Levels) - 1)
      PROVE  EffectiveMax(n, model, Levels[i + 1]) <= EffectiveMax(n, model, Levels[i])
    <2>1. i \in 1..4 /\ i \in DOMAIN Levels /\ i + 1 \in DOMAIN Levels
        BY LevelsAre
    <2>2. Levels[i] \in ThinkingLevels /\ Levels[i + 1] \in ThinkingLevels
        BY <2>1 DEF ThinkingLevels, ToSet
    <2>3. PICK a, b \in ThinkingLevels : a = Levels[i] /\ b = Levels[i + 1]
        BY <2>2
    <2>4. \/ a = "off" /\ b = "minimal"
          \/ a = "minimal" /\ b = "low"
          \/ a = "low" /\ b = "medium"
          \/ a = "medium" /\ b = "high"
        <3>1. i = 1 \/ i = 2 \/ i = 3 \/ i = 4
            BY <2>1
        <3>3. CASE i = 1
            <4>1. i + 1 = 2
                BY <3>3
            <4>2. a = Levels[1] /\ b = Levels[2]
                BY <2>3, <3>3, <4>1
            <4> QED BY <4>2, LevelsAre
        <3>4. CASE i = 2
            <4>1. i + 1 = 3
                BY <3>4
            <4>2. a = Levels[2] /\ b = Levels[3]
                BY <2>3, <3>4, <4>1
            <4> QED BY <4>2, LevelsAre
        <3>5. CASE i = 3
            <4>1. i + 1 = 4
                BY <3>5
            <4>2. a = Levels[3] /\ b = Levels[4]
                BY <2>3, <3>5, <4>1
            <4> QED BY <4>2, LevelsAre
        <3>6. CASE i = 4
            <4>1. i + 1 = 5
                BY <3>6
            <4>2. a = Levels[4] /\ b = Levels[5]
                BY <2>3, <3>6, <4>1
            <4> QED BY <4>2, LevelsAre
        <3> QED BY <3>1, <3>3, <3>4, <3>5, <3>6
    <2>5. PICK c, d : c \in Nat /\ d \in Nat /\ c = cost[a] /\ d = cost[b] /\ c <= d
        <3>1. cost[a] <= cost[b]
            BY <1>9, <2>4
        <3> QED BY <1>5, <2>3, <3>1
    <2>6. Kept(n, d) <= Kept(n, c)
        BY <2>5 DEF Kept
    <2> QED BY <1>6, <2>3, <2>5, <2>6
<1> QED BY <1>1, <1>2, <1>7, <1>8, <1>10 DEF AnswerTokensLeft

\* The same for the budget and the ceiling of Anthropic's models.
LEMMA BudgetsFit ==
    ASSUME RequestInv PROVE BudgetFits
<1> SUFFICES ASSUME request.api = "anthropic", request.thinking # "off" PROVE BudgetFits
    BY DEF BudgetFits
<1>1. PICK ceiling \in Nat : ceiling = request.ceiling
    BY ProviderRequestAssumption DEF RequestInv, TypedRequests, LadderOk
<1>2. PICK base \in Nat : base = IF request.requested = NotGiven THEN ceiling ELSE request.requested
    BY ProviderRequestAssumption DEF RequestInv, TypedRequests, RequestType
<1>3. PICK budget \in Nat : budget = BudgetOf(request.thinking) /\ budget >= 1024
    <2>1. request.thinking \in ThinkingLevels
        BY DEF RequestInv, TypedRequests, RequestType
    <2>2. PICK thinking : thinking = request.thinking
        OBVIOUS
    <2>3. thinking = "minimal" \/ thinking = "low" \/ thinking = "medium" \/ thinking = "high"
        BY <2>1, <2>2, ThinkingIs
    <2>4. BudgetOf(thinking) \in {1024, 2048, 8192, 16384}
        BY <2>3 DEF BudgetOf
    <2> QED BY <2>2, <2>4
<1>4. PICK effective \in Nat : effective = IF base + budget < ceiling THEN base + budget ELSE ceiling
    OBVIOUS
<1>5. PICK left \in Nat : left = IF effective > 1024 THEN effective - 1024 ELSE 0
    OBVIOUS
<1>6. PICK given \in Nat : given = IF effective <= budget + 1024 THEN left ELSE budget
    OBVIOUS
<1>7. ThinkingConfig(request.requested, request.ceiling, request.thinking) =
          [max_tokens |-> effective, budget |-> given]
    BY <1>1, <1>2, <1>3, <1>4, <1>5, <1>6 DEF ThinkingConfig, MIN_OUTPUT_TOKENS
<1>8. /\ effective <= ceiling
      /\ effective >= 1024 => given + 1024 <= effective
      /\ ceiling >= 2 * 1024 => given >= 1024 \/ effective < 2 * 1024
    BY <1>3, <1>4, <1>5, <1>6
<1> QED BY <1>1, <1>7, <1>8 DEF BudgetFits, MIN_OUTPUT_TOKENS

-----------------------------------------------------------------------------
(* What a step adds                                                          *)

LEMMA LadderIs ==
    ASSUME TypedRequests, request.api = "openai"
    PROVE  /\ Head(request.ladder) \in Kinds \cup {Plain}
           /\ Head(request.ladder) = Plain => request.ladder = <<Plain>>
           /\ Head(request.ladder) # Plain =>
                 /\ Head(request.ladder) \in Kinds
                 /\ Len(request.ladder) = 2 /\ Tail(request.ladder) = <<Plain>>
           /\ request.ladder = <<Plain>> => Head(request.ladder) = Plain /\ Len(request.ladder) = 1
<1>1. PICK l : l = request.ladder
    OBVIOUS
<1>2. Plain \notin Kinds
    BY DEF Plain, Kinds
<1>3. CASE l = <<Plain>>
    <2>1. Head(l) = Plain /\ Len(l) = 1
        BY <1>3
    <2> QED BY <1>1, <1>2, <1>3, <2>1
<1>4. ASSUME NEW s \in Kinds, l = <<s, Plain>>
      PROVE  Head(l) = s /\ Len(l) = 2 /\ Tail(l) = <<Plain>> /\ l # <<Plain>>
    <2>1. PICK p : p = Plain
        OBVIOUS
    <2>2. Head(<<s, p>>) = s /\ Len(<<s, p>>) = 2 /\ Tail(<<s, p>>) = <<p>>
        OBVIOUS
    <2>3. Len(<<p>>) = 1
        OBVIOUS
    <2> QED BY <1>4, <2>1, <2>2, <2>3
<1>5. CASE \E s \in Kinds : l = <<s, Plain>>
    BY <1>1, <1>2, <1>4, <1>5
<1>6. l = <<Plain>> \/ \E s \in Kinds : l = <<s, Plain>>
    BY <1>1 DEF TypedRequests, LadderOk
<1> QED BY <1>3, <1>5, <1>6

LEMMA NextIs ==
    /\ request.api = "openai" =>
          /\ NextBody.stream_options = request.stream_options /\ NextBody.num_ctx = 0
          /\ NextBody.fields = Fields(Head(request.ladder), request.model, request.thinking)
    /\ request.api = "ollama" =>
          /\ NextBody.stream_options = FALSE /\ NextBody.num_ctx = request.num_ctx
          /\ NextBody.fields = IF request.think THEN {"think"} ELSE {}
BY DEF NextBody, OpenAiBody, OllamaBody, Body

LEMMA NextTyped == ASSUME TypedRequests PROVE NextBody \in BodyType
<1>1. CASE request.api = "openai"
    <2>1. PICK f : f = Fields(Head(request.ladder), request.model, request.thinking)
        OBVIOUS
    <2>2. f \in SUBSET FieldNames
        BY <1>1, <2>1, LadderIs, FieldsTyped
    <2>3. request.stream_options \in BOOLEAN
        BY DEF TypedRequests, RequestType
    <2> QED BY <1>1, <2>1, <2>2, <2>3 DEF NextBody, OpenAiBody, Body, BodyType
<1>2. CASE request.api = "ollama"
    <2>1. request.num_ctx \in Nat
        BY DEF TypedRequests, RequestType
    <2>2. (IF request.think THEN {"think"} ELSE {}) \in SUBSET FieldNames
        BY DEF FieldNames
    <2> QED BY <1>2, <2>1, <2>2 DEF NextBody, OllamaBody, Body, BodyType
<1>3. CASE request.api = "anthropic"
    BY <1>3 DEF NextBody, Body, BodyType
<1> QED BY <1>1, <1>2, <1>3 DEF TypedRequests, RequestType

\* What the server says it has reason to say.
LEMMA AnswersAre ==
    ASSUME NEW body, NEW reply \in ServerAnswers(body)
    PROVE  /\ "stream_options" \in reply.topics => body.stream_options
           /\ "reasoning" \in reply.topics => body.fields # {}
<1>1. CASE reply \in Complaints(body)
    <2>1. \/ reply = Reply(400, {"stream_options"}) /\ body.stream_options
          \/ reply = Reply(400, {"reasoning", "unsupported"}) /\ body.fields \cap server.refuses # {}
          \/ reply = Reply(500, {"memory"})
        BY <1>1 DEF Complaints
    <2> QED BY <2>1 DEF Reply
<1>2. CASE reply = Ok
    BY <1>2 DEF Ok, Reply
<1>3. CASE reply \in Faults
    BY <1>3 DEF Faults, Lost, Reply
<1> QED BY <1>1, <1>2, <1>3 DEF ServerAnswers

LEMMA ComplaintsAre ==
    ASSUME TypedRequests, request.api = "openai", NEW reply \in Complaints(NextBody)
    PROVE  \/ reply = Reply(400, {"stream_options"}) /\ request.stream_options
           \/ reply = Reply(400, {"reasoning", "unsupported"}) /\ NextBody.fields # {}
<1>1. server.memory = 0
    BY DEF TypedRequests, LadderOk
<1>2. NextBody.num_ctx = 0 /\ NextBody.stream_options = request.stream_options
    BY NextIs
<1>3. ~(NextBody.num_ctx > server.memory)
    BY <1>1, <1>2
<1> QED BY <1>2, <1>3 DEF Complaints

LEMMA BehindApart ==
    ASSUME TypedRequests, NEW b \in BodyType, LeftBehind(b)
    PROVE  Apart(b, NextBody) /\ Apart(NextBody, b)
<1>1. CASE request.api = "openai"
    BY <1>1, NextIs DEF LeftBehind, Apart
<1>2. CASE request.api = "ollama"
    <2>1. CASE b.fields = {"think"} /\ ~request.think
        BY <1>2, <2>1, NextIs DEF Apart
    <2>2. CASE b.num_ctx # request.num_ctx
        BY <1>2, <2>2, NextIs DEF Apart
    <2>3. CASE b.num_ctx = MIN_SUGGESTED_NUM_CTX /\ b.num_ctx = request.num_ctx
        BY <1>2, <2>3, NextIs DEF Apart
    <2> QED BY <1>2, <2>1, <2>2, <2>3 DEF LeftBehind
<1> QED BY <1>1, <1>2 DEF LeftBehind

Goes(reply) ==
    /\ result = "none" /\ reply \in Replies
    /\ sent' = Append(sent, [body |-> NextBody, reply |-> reply])
    /\ server' = server /\ request'.api = request.api /\ request'.model = request.model

LEMMA SentGrows ==
    ASSUME RequestInv, NEW reply, Goes(reply)
    PROVE  /\ sent' \in Seq(EntryType) /\ Len(sent') = Len(sent) + 1 /\ Len(sent) \in Nat
           /\ \A i \in 1..Len(sent) : sent'[i] = sent[i]
           /\ sent'[Len(sent) + 1] = [body |-> NextBody, reply |-> reply]
           /\ AllApart' /\ AllCaused' /\ Len(sent') <= 4
<1>1. PICK e \in EntryType : e = [body |-> NextBody, reply |-> reply]
    BY NextTyped DEF RequestInv, EntryType, Goes
<1>2. sent \in Seq(EntryType) /\ sent' = Append(sent, e) /\ GoingOn /\ TypedRequests
    BY <1>1 DEF RequestInv, TypedRequests, Goes
<1>3. /\ sent' \in Seq(EntryType) /\ Len(sent') = Len(sent) + 1 /\ Len(sent) \in Nat
      /\ \A i \in 1..Len(sent) : sent'[i] = sent[i]
      /\ sent'[Len(sent) + 1] = e
    BY <1>2, AppendProperties
<1>4. PICK s, n : s = sent' /\ n = Len(sent) /\ n \in Nat
    BY <1>3
<1>5. \A i \in 1..n : sent[i] \in EntryType /\ sent[i].body \in BodyType /\ LeftBehind(sent[i].body)
    <2>1. ASSUME NEW i \in 1..n PROVE sent[i] \in EntryType /\ LeftBehind(sent[i].body)
        BY <1>2, <1>4 DEF GoingOn
    <2>2. \A x \in EntryType : x.body \in BodyType
        BY DEF EntryType
    <2> QED BY <2>1, <2>2
<1>6. \A i \in 1..n : Apart(sent[i].body, e.body) /\ Apart(e.body, sent[i].body)
    BY <1>1, <1>2, <1>5, BehindApart
<1>7. DOMAIN s = 1..(n + 1) /\ DOMAIN sent = 1..n /\ Len(s) = n + 1
    BY <1>2, <1>3, <1>4
<1>8. ASSUME NEW i \in DOMAIN s, NEW j \in DOMAIN s, i # j PROVE Apart(s[i].body, s[j].body)
    <2>1. CASE i \in 1..n /\ j \in 1..n
        BY <1>3, <1>4, <1>7, <1>8, <2>1 DEF RequestInv, AllApart
    <2>2. CASE i = n + 1
        <3>1. j \in 1..n
            BY <1>4, <1>7, <1>8, <2>2
        <3> QED BY <1>3, <1>4, <1>6, <2>2, <3>1
    <2>3. CASE j = n + 1
        <3>1. i \in 1..n
            BY <1>4, <1>7, <1>8, <2>3
        <3> QED BY <1>3, <1>4, <1>6, <2>3, <3>1
    <2>4. (i \in 1..n /\ j \in 1..n) \/ i = n + 1 \/ j = n + 1
        BY <1>4, <1>7
    <2> QED BY <2>1, <2>2, <2>3, <2>4
<1>9. ASSUME NEW i \in 1..(Len(s) - 1) PROVE Causes(s[i], s[i + 1].body)
    <2>1. CASE i = n
        <3>1. sent # <<>> /\ n \in 1..n /\ i \in 1..n
            BY <1>2, <1>4, <1>7, <1>9, <2>1
        <3>2. Causes(sent[n], e.body)
            BY <1>1, <1>2, <1>4, <3>1 DEF GoingOn
        <3> QED BY <1>3, <1>4, <2>1, <3>1, <3>2
    <2>2. CASE i # n
        <3>1. i \in 1..n /\ i + 1 \in 1..n /\ i \in 1..(n - 1)
            BY <1>4, <1>7, <1>9, <2>2
        <3>2. Causes(sent[i], sent[i + 1].body)
            BY <1>4, <3>1 DEF RequestInv, AllCaused
        <3> QED BY <1>3, <1>4, <3>1, <3>2
    <2> QED BY <2>1, <2>2
<1>10. AllApart' /\ AllCaused'
    <2>1. AllApart'
        BY <1>4, <1>8 DEF AllApart
    <2>2. AllCaused'
        BY <1>4, <1>9 DEF AllCaused, Causes, Goes
    <2> QED BY <2>1, <2>2
<1>11. n + 1 <= 4
    <2>1. ChangesLeft \in Nat
        <3>1. CASE request.api = "openai"
            <4>1. Len(request.ladder) = 1 \/ Len(request.ladder) = 2
                <5>1. CASE Head(request.ladder) = Plain
                    BY <1>2, <3>1, <5>1, LadderIs
                <5>2. CASE Head(request.ladder) # Plain
                    BY <1>2, <3>1, <5>2, LadderIs
                <5> QED BY <5>1, <5>2
            <4>2. PICK m : m = Len(request.ladder)
                OBVIOUS
            <4>3. PICK c : c = IF request.stream_options THEN 1 ELSE 0
                OBVIOUS
            <4>4. ChangesLeft = 2 * (m - 1) + c
                BY <3>1, <4>2, <4>3 DEF ChangesLeft
            <4>5. 2 * (m - 1) + c \in Nat
                <5>1. c = 0 \/ c = 1
                    BY <4>3
                <5>2. m = 1 \/ m = 2
                    BY <4>1, <4>2
                <5> QED BY <5>1, <5>2
            <4> QED BY <4>4, <4>5
        <3>2. CASE request.api # "openai"
            BY <3>2 DEF ChangesLeft
        <3> QED BY <3>1, <3>2
    <2> QED BY <1>2, <1>4, <2>1 DEF GoingOn
<1> QED BY <1>1, <1>3, <1>4, <1>10, <1>11

\* The request ends.
LEMMA RequestEnds ==
    ASSUME RequestInv, NEW reply, Goes(reply), request' = request, result' # "none",
           (/\ request.api = "openai" /\ IsLocal(request.model)
            /\ reply \in Complaints(NextBody) \cup {Ok}) => result' = "ok"
    PROVE  RequestInv'
<1>1. TypedRequests'
    BY SentGrows DEF RequestInv, TypedRequests, LadderOk, Goes
<1>2. PlainRequestsSucceed'
    <2>3. PICK s, n : s = sent' /\ n = Len(sent) /\ n \in Nat /\ s \in Seq(EntryType)
                      /\ Len(s) = n + 1 /\ s[n + 1] = [body |-> NextBody, reply |-> reply]
        BY SentGrows
    <2>1. n + 1 \in DOMAIN s
        BY <2>3
    <2>2. ASSUME \A i \in DOMAIN s : s[i].reply \in Complaints(s[i].body)' \cup {Ok},
                 request'.api = "openai", IsLocal(request'.model)
          PROVE  result' = "ok"
        <3>1. n + 1 \in DOMAIN s /\ s[n + 1].reply = reply /\ s[n + 1].body = NextBody
            BY <2>1, <2>3
        <3>2. PICK b : b = NextBody
            OBVIOUS
        <3>3. Complaints(b)' = Complaints(b)
            BY DEF Goes, Complaints
        <3>4. reply \in Complaints(b) \cup {Ok}
            BY <2>2, <3>1, <3>2, <3>3
        <3> QED BY <2>2, <3>2, <3>4
    <2> QED BY <2>2, <2>3, SentGrows DEF PlainRequestsSucceed
<1> QED BY <1>1, <1>2, SentGrows DEF RequestInv

\* The request goes on.
LEMMA RequestGoesOn ==
    ASSUME RequestInv, NEW reply, Goes(reply), result' = result, LadderOk', request' \in RequestType,
           ChangesLeft' \in Int, ChangesLeft' < ChangesLeft, ChangesLeft \in Int,
           NEW b \in BodyType, b = NextBody, LeftBehind(b)',
           \A c \in BodyType : LeftBehind(c) => LeftBehind(c)',
           NEW d, d = NextBody', Causes([body |-> b, reply |-> reply], d)
    PROVE  RequestInv'
<1>1. TypedRequests'
    BY SentGrows DEF RequestInv, TypedRequests
<1>2. PICK s, n : s = sent' /\ n = Len(sent) /\ n \in Nat /\ Len(s) = n + 1
                  /\ s[n + 1] = [body |-> b, reply |-> reply]
    BY SentGrows
<1>3. PlainRequestsSucceed'
    BY SentGrows DEF PlainRequestsSucceed, Goes
<1>4. \A i \in 1..n : LeftBehind(sent[i].body) /\ sent[i].body \in BodyType
    <2>1. ASSUME NEW i \in 1..n PROVE sent[i] \in EntryType /\ LeftBehind(sent[i].body)
        BY <1>2 DEF RequestInv, TypedRequests, GoingOn, Goes
    <2>2. \A x \in EntryType : x.body \in BodyType
        BY DEF EntryType
    <2> QED BY <2>1, <2>2
<1>5. ASSUME NEW i \in 1..Len(s) PROVE LeftBehind(s[i].body)'
    <2>1. CASE i \in 1..n
        <3>1. s[i] = sent[i]
            BY <1>2, <2>1, SentGrows
        <3>2. PICK c \in BodyType : c = sent[i].body /\ LeftBehind(c)
            BY <1>4, <2>1
        <3>3. LeftBehind(c)'
            BY <3>2
        <3>4. c = s[i].body
            BY <3>1, <3>2
        <3> QED BY <3>3, <3>4
    <2>2. CASE i = n + 1
        <3>1. s[i].body = b
            BY <1>2, <2>2
        <3> QED BY <3>1
    <2> QED BY <1>2, <2>1, <2>2
<1>6. Len(s) + ChangesLeft' <= 3
    BY <1>2 DEF RequestInv, GoingOn, Goes
<1>7. GoingOn'
    <2>1. (Causes(sent[Len(sent)], NextBody))'
        <3>1. Causes(s[Len(s)], d)
            BY <1>2
        <3> QED BY <1>2, <3>1 DEF Causes, Goes
    <2> QED BY <1>2, <1>5, <1>6, <2>1 DEF GoingOn
<1> QED BY <1>1, <1>3, <1>7, SentGrows DEF RequestInv

LEMMA ClassesAre ==
    ASSUME NEW reply
    PROVE  /\ ClassifyOpenAi(reply) # "none" /\ ClassifyAnthropic(reply) # "none"
           /\ ClassifyOllama(reply) # "none"
           /\ ClassifyOpenAi(reply) = "NativeReasoningUnsupported" => "reasoning" \in reply.topics
           /\ ClassifyOllama(reply) = "NativeReasoningUnsupported" => "reasoning" \in reply.topics
           /\ ClassifyOllama(reply) = "ModelLoadResources" => "memory" \in reply.topics
<1>1. ClassifyHttp(reply) \in {"Transport", "Auth", "RateLimited", "ContextOverflow", "Http"}
    BY DEF ClassifyHttp
<1>2. PICK h \in {"Transport", "Auth", "RateLimited", "ContextOverflow", "Http"} : h = ClassifyHttp(reply)
    BY <1>1
<1>3. /\ h # "none" /\ h # "NativeReasoningUnsupported" /\ h # "ModelLoadResources"
    OBVIOUS
<1>4. /\ ClassifyOpenAi(reply) # "none"
      /\ ClassifyOpenAi(reply) = "NativeReasoningUnsupported" => "reasoning" \in reply.topics
    BY <1>2, <1>3 DEF ClassifyOpenAi
<1>5. ClassifyAnthropic(reply) # "none"
    BY <1>2, <1>3 DEF ClassifyAnthropic
<1>6. /\ ClassifyOllama(reply) # "none"
      /\ ClassifyOllama(reply) = "NativeReasoningUnsupported" => "reasoning" \in reply.topics
      /\ ClassifyOllama(reply) = "ModelLoadResources" => "memory" \in reply.topics
    BY <1>2, <1>3 DEF ClassifyOllama
<1> QED BY <1>4, <1>5, <1>6

LEMMA OpenAiKeeps ==
    ASSUME RequestInv, NEW reply \in Replies, SendStreamRequest(reply)
    PROVE  RequestInv'
<1>1. request.api = "openai" /\ TypedRequests /\ request \in RequestType
    BY DEF SendStreamRequest, RequestInv, TypedRequests
<1>2. NextBody = OpenAiBody(request)
    BY <1>1 DEF NextBody
<1>3. Goes(reply) /\ reply \in ServerAnswers(NextBody)
    <2>1. request'.api = request.api /\ request'.model = request.model
        BY <1>1 DEF SendStreamRequest, Returns, GoesOn, RequestType
    <2> QED BY <1>2, <2>1 DEF SendStreamRequest, Sends, Goes
<1>4. \/ reply = Ok /\ request' = request /\ result' = "ok"
      \/ /\ request.stream_options /\ "stream_options" \in reply.topics
         /\ request' = [request EXCEPT !.stream_options = FALSE] /\ result' = result
      \/ /\ Head(request.ladder) # Plain /\ ClassifyOpenAi(reply) = "NativeReasoningUnsupported"
         /\ request' = [request EXCEPT !.ladder = Tail(@), !.stream_options = TRUE]
         /\ result' = result
      \/ /\ request' = request /\ result' = ClassifyOpenAi(reply) /\ reply # Ok
         /\ ~(request.stream_options /\ reply.status = 400 /\ "stream_options" \in reply.topics)
         /\ ~(Head(request.ladder) # Plain /\ ClassifyOpenAi(reply) = "NativeReasoningUnsupported")
    BY DEF SendStreamRequest, Returns, GoesOn, Plain
<1>5. CASE reply = Ok /\ request' = request /\ result' = "ok"
    BY <1>3, <1>5, RequestEnds
<1>6. CASE /\ request.stream_options /\ "stream_options" \in reply.topics
           /\ request' = [request EXCEPT !.stream_options = FALSE] /\ result' = result
    <2>1. PICK q : q = request' /\ q = [request EXCEPT !.stream_options = FALSE]
        BY <1>6
    <2>2. /\ q \in RequestType /\ q.api = "openai" /\ q.ladder = request.ladder
          /\ q.model = request.model /\ q.thinking = request.thinking
          /\ q.requested = request.requested /\ ~q.stream_options
        BY <1>1, <2>1 DEF RequestType
    <2>3. LadderOk'
        BY <1>1, <1>3, <2>1, <2>2 DEF TypedRequests, LadderOk, Goes
    <2>4. PICK b \in BodyType : b = NextBody
        BY <1>1, NextTyped
    <2>5. PICK d : d = NextBody' /\ d = Body(FALSE, b.fields, 0) /\ b = Body(TRUE, b.fields, 0)
        <3>1. PICK f : f = Fields(Head(request.ladder), request.model, request.thinking)
            OBVIOUS
        <3>2. b = Body(TRUE, f, 0)
            <4>1. request.stream_options = TRUE
                BY <1>1, <1>6 DEF RequestType
            <4> QED BY <1>2, <2>4, <3>1, <4>1 DEF OpenAiBody
        <3>3. NextBody' = Body(FALSE, f, 0)
            <4>1. q.stream_options = FALSE
                BY <2>2 DEF RequestType
            <4> QED BY <2>1, <2>2, <3>1, <4>1 DEF NextBody, OpenAiBody
        <3> QED BY <3>2, <3>3 DEF Body
    <2>6. ChangesLeft' = 2 * (Len(request.ladder) - 1) /\ ChangesLeft = 2 * (Len(request.ladder) - 1) + 1
        BY <1>1, <1>6, <2>1, <2>2 DEF ChangesLeft
    <2>7. Len(request.ladder) \in Nat
        BY <1>1 DEF RequestType
    <2>8. LeftBehind(b)' /\ \A c \in BodyType : LeftBehind(c) => LeftBehind(c)'
        BY <1>1, <1>6, <2>1, <2>2, <2>4, <2>5 DEF LeftBehind, Body
    <2>9. Causes([body |-> b, reply |-> reply], d)
        <3>1. PICK f : b = Body(TRUE, f, 0) /\ d = Body(FALSE, f, 0)
            BY <2>5
        <3>2. d = [b EXCEPT !.stream_options = FALSE]
            <4>1. /\ b = [stream_options |-> TRUE, fields |-> f, num_ctx |-> 0]
                  /\ d = [stream_options |-> FALSE, fields |-> f, num_ctx |-> 0]
                BY <3>1 DEF Body
            <4>2. [[stream_options |-> TRUE, fields |-> f, num_ctx |-> 0] EXCEPT !.stream_options = FALSE]
                      = [stream_options |-> FALSE, fields |-> f, num_ctx |-> 0]
                <5>1. PICK t, u, z : t = TRUE /\ u = FALSE /\ z = 0
                    OBVIOUS
                <5>2. [[stream_options |-> t, fields |-> f, num_ctx |-> z] EXCEPT !.stream_options = u]
                          = [stream_options |-> u, fields |-> f, num_ctx |-> z]
                    OBVIOUS
                <5> QED BY <5>1, <5>2, Zenon
            <4> QED BY <4>1, <4>2, Zenon
        <3>3. PICK e : e = [body |-> b, reply |-> reply]
            OBVIOUS
        <3>4. e.body = b /\ e.reply = reply
            BY <3>3
        <3>5. b.stream_options
            BY <3>1 DEF Body
        <3> QED BY <1>6, <3>2, <3>3, <3>4, <3>5 DEF Causes, CausedFor
    <2>10. ChangesLeft' \in Int /\ ChangesLeft \in Int /\ ChangesLeft' < ChangesLeft
        BY <2>6, <2>7
    <2> QED BY <1>3, <1>6, <2>1, <2>2, <2>3, <2>4, <2>5, <2>8, <2>9, <2>10, RequestGoesOn
<1>7. CASE /\ Head(request.ladder) # Plain /\ ClassifyOpenAi(reply) = "NativeReasoningUnsupported"
           /\ request' = [request EXCEPT !.ladder = Tail(@), !.stream_options = TRUE]
           /\ result' = result
    <2>1. PICK q : q = request' /\ q = [request EXCEPT !.ladder = Tail(@), !.stream_options = TRUE]
        BY <1>7
    <2>2. PICK s \in Kinds : /\ s = Head(request.ladder) /\ Tail(request.ladder) = <<Plain>>
                             /\ Len(request.ladder) = 2 /\ request.ladder # <<Plain>>
        BY <1>1, <1>7, LadderIs
    <2>3. <<Plain>> \in Seq(Kinds \cup {Plain}) /\ Len(<<Plain>>) = 1 /\ Head(<<Plain>>) = Plain
        <3>1. PICK p : p = Plain
            OBVIOUS
        <3>2. <<p>> \in Seq(Kinds \cup {p}) /\ Len(<<p>>) = 1 /\ Head(<<p>>) = p
            OBVIOUS
        <3> QED BY <3>1, <3>2
    <2>4. /\ q \in RequestType /\ q.api = "openai" /\ q.ladder = <<Plain>>
          /\ q.model = request.model /\ q.thinking = request.thinking
          /\ q.requested = request.requested /\ q.stream_options
        <3>1. PICK t \in Seq(Kinds \cup {Plain}) : t = <<Plain>>
            BY <2>3
        <3>2. q = [request EXCEPT !.ladder = t, !.stream_options = TRUE]
            BY <2>1, <2>2, <3>1
        <3>3. /\ q \in RequestType /\ q.api = request.api /\ q.ladder = t
              /\ q.model = request.model /\ q.thinking = request.thinking
              /\ q.requested = request.requested /\ q.stream_options
            BY <1>1, <3>2 DEF RequestType
        <3> QED BY <1>1, <3>1, <3>3
    <2>5. LadderOk'
        BY <1>1, <1>3, <2>1, <2>4 DEF TypedRequests, LadderOk, Goes
    <2>6. PICK b \in BodyType : b = NextBody
        BY <1>1, NextTyped
    <2>7. PICK d : d = NextBody'
        OBVIOUS
    <2>8. d.fields # b.fields
        <3>1. b.fields = Fields(s, request.model, request.thinking)
            BY <1>1, <2>2, <2>6, NextIs
        <3>2. d.fields = Fields(Plain, request.model, request.thinking)
            BY <2>1, <2>3, <2>4, <2>7 DEF NextBody, OpenAiBody, Body
        <3>3. b.fields # {}
            BY <1>3, <1>7, <2>6, AnswersAre, ClassesAre
        <3> QED BY <3>1, <3>2, <3>3, FieldsDiffer
    <2>9. ChangesLeft' = 1 /\ ChangesLeft \in Int /\ ChangesLeft >= 2
        <3>1. ChangesLeft' = 1
            <4>1. Len(q.ladder) = 1
                BY <2>3, <2>4
            <4>2. ChangesLeft' = 2 * (Len(q.ladder) - 1) + 1
                BY <2>1, <2>4 DEF ChangesLeft
            <4> QED BY <4>1, <4>2
        <3>2. PICK c : c = (IF request.stream_options THEN 1 ELSE 0)
            OBVIOUS
        <3>3. c = 0 \/ c = 1
            BY <3>2
        <3>4. ChangesLeft = 2 * (2 - 1) + c
            BY <1>1, <2>2, <3>2 DEF ChangesLeft
        <3> QED BY <3>1, <3>3, <3>4
    <2>10. LeftBehind(b)'
        BY <2>1, <2>4, <2>7, <2>8 DEF LeftBehind
    <2>11. ASSUME NEW c \in BodyType, LeftBehind(c) PROVE LeftBehind(c)'
        <3>1. c.fields = b.fields
            BY <1>1, <2>2, <2>6, <2>11 DEF LeftBehind
        <3> QED BY <2>1, <2>4, <2>7, <2>8, <3>1 DEF LeftBehind
    <2>12. Causes([body |-> b, reply |-> reply], d)
        <3>1. PICK e : e = [body |-> b, reply |-> reply] /\ e.body = b /\ e.reply = reply
            <4>1. PICK e : e = [body |-> b, reply |-> reply]
                OBVIOUS
            <4> QED BY <4>1
        <3>2. "reasoning" \in reply.topics /\ b.fields # {}
            BY <1>3, <1>7, <2>6, AnswersAre, ClassesAre
        <3>3. d = Body(q.stream_options, Fields(Plain, request.model, request.thinking), 0)
            BY <2>1, <2>3, <2>4, <2>7 DEF NextBody, OpenAiBody
        <3>4. d.num_ctx = 0 /\ d.stream_options = q.stream_options /\ b.num_ctx = 0
            BY <1>1, <2>6, <3>3, NextIs DEF Body
        <3>5. d.fields = {} \/ HostedEffort(request.api, request.model, d)
            BY <1>1, <3>3 DEF Body, Fields, Plain, HostedEffort
        <3>6. \/ d.stream_options = b.stream_options
              \/ d.stream_options /\ ~b.stream_options
            <4>1. b.stream_options \in BOOLEAN
                BY DEF BodyType
            <4>2. q.stream_options = TRUE
                BY <2>4 DEF RequestType
            <4> QED BY <3>4, <4>1, <4>2
        <3> QED BY <1>1, <3>1, <3>2, <3>4, <3>5, <3>6 DEF Causes, CausedFor
    <2> QED BY <1>3, <1>7, <2>1, <2>4, <2>5, <2>6, <2>7, <2>9, <2>10, <2>11, <2>12, RequestGoesOn
<1>8. CASE /\ request' = request /\ result' = ClassifyOpenAi(reply) /\ reply # Ok
           /\ ~(request.stream_options /\ reply.status = 400 /\ "stream_options" \in reply.topics)
           /\ ~(Head(request.ladder) # Plain /\ ClassifyOpenAi(reply) = "NativeReasoningUnsupported")
    <2>1. ASSUME IsLocal(request.model), reply \in Complaints(NextBody) PROVE FALSE
        <3>1. CASE reply = Reply(400, {"stream_options"}) /\ request.stream_options
            BY <1>8, <3>1 DEF Reply
        <3>2. CASE reply = Reply(400, {"reasoning", "unsupported"}) /\ NextBody.fields # {}
            <4>1. ClassifyOpenAi(reply) = "NativeReasoningUnsupported"
                BY <3>2 DEF ClassifyOpenAi, Reply
            <4>2. Head(request.ladder) = Plain
                BY <1>8, <4>1
            <4> QED BY <1>1, <2>1, <3>2, <4>2, NextIs, PlainOfLocal
        <3> QED BY <1>1, <2>1, <3>1, <3>2, ComplaintsAre
    <2> QED BY <1>3, <1>8, <2>1, ClassesAre, RequestEnds
<1> QED BY <1>4, <1>5, <1>6, <1>7, <1>8

LEMMA SuggestedIs ==
    ASSUME NEW n \in Nat
    PROVE  /\ Suggested(n) \in Nat
           /\ Suggested(n) # n \/ n = MIN_SUGGESTED_NUM_CTX
           /\ Suggested(n) < n \/ n <= MIN_SUGGESTED_NUM_CTX
<1>1. PICK h : h = n \div 2 /\ h \in Nat /\ (h < n \/ n = 0) /\ (n = 0 => h = 0)
    <2>1. n \div 2 \in Nat /\ (n \div 2 < n \/ n = 0) /\ (n = 0 => n \div 2 = 0)
        OBVIOUS
    <2> QED BY <2>1
<1>2. Suggested(n) = IF h > 2048 THEN h ELSE 2048
    BY <1>1 DEF Suggested, MIN_SUGGESTED_NUM_CTX
<1> QED BY <1>1, <1>2 DEF MIN_SUGGESTED_NUM_CTX

LEMMA OllamaKeeps ==
    ASSUME RequestInv, NEW reply \in Replies, SendOllama(reply)
    PROVE  RequestInv'
<1>1. /\ request.api = "ollama" /\ TypedRequests /\ request \in RequestType
      /\ request.think = (request.capable /\ ~request.dropped)
    BY DEF SendOllama, RequestInv, TypedRequests, LadderOk
<1>2. NextBody = OllamaBody(request)
    BY <1>1 DEF NextBody
<1>3. Goes(reply) /\ reply \in ServerAnswers(NextBody)
    <2>1. request'.api = request.api /\ request'.model = request.model
        BY <1>1 DEF SendOllama, LoadRetry, Returns, GoesOn, RequestType
    <2> QED BY <1>2, <2>1 DEF SendOllama, Sends, Goes
<1>4. \/ request' = request /\ result' # "none"
      \/ /\ ~request.dropped /\ ClassifyOllama(reply) = "NativeReasoningUnsupported"
         /\ request' = [request EXCEPT !.dropped = TRUE, !.think = FALSE] /\ result' = result
      \/ /\ ~request.dropped /\ ~request.halved /\ ClassifyOllama(reply) = "ModelLoadResources"
         /\ request' = [request EXCEPT !.halved = TRUE, !.num_ctx = Suggested(@), !.dropped = FALSE,
                                       !.think = request.capable]
         /\ result' = result
    <2>1. CASE reply = Ok
        BY <2>1 DEF SendOllama, Returns
    <2>2. CASE reply # Ok /\ request.dropped
        BY <2>2 DEF SendOllama, LoadRetry, Returns
    <2>3. CASE /\ reply # Ok /\ ~request.dropped
               /\ ClassifyOllama(reply) = "NativeReasoningUnsupported"
        BY <2>3 DEF SendOllama, GoesOn
    <2>4. CASE /\ reply # Ok /\ ~request.dropped
               /\ ClassifyOllama(reply) # "NativeReasoningUnsupported"
        <3>1. LoadRetry(ClassifyOllama(reply))
            BY <2>4 DEF SendOllama
        <3> QED BY <2>4, <3>1, ClassesAre DEF LoadRetry, Returns, GoesOn
    <2> QED BY <2>1, <2>2, <2>3, <2>4
<1>5. CASE request' = request /\ result' # "none"
    BY <1>1, <1>3, <1>5, RequestEnds
<1>6. PICK b \in BodyType : b = NextBody
    BY <1>1, NextTyped
<1>7. PICK d : d = NextBody'
    OBVIOUS
<1>8. PICK e : e = [body |-> b, reply |-> reply] /\ e.body = b /\ e.reply = reply
    <2>1. PICK e : e = [body |-> b, reply |-> reply]
        OBVIOUS
    <2> QED BY <2>1
<1>9. CASE /\ ~request.dropped /\ ClassifyOllama(reply) = "NativeReasoningUnsupported"
           /\ request' = [request EXCEPT !.dropped = TRUE, !.think = FALSE] /\ result' = result
    <2>1. PICK q : q = request' /\ q = [request EXCEPT !.dropped = TRUE, !.think = FALSE]
        BY <1>9
    <2>2. /\ q \in RequestType /\ q.api = "ollama" /\ q.num_ctx = request.num_ctx
          /\ q.halved = request.halved /\ q.dropped /\ ~q.think
        BY <1>1, <2>1 DEF RequestType
    <2>3. LadderOk'
        <3>1. q.think = (q.capable /\ ~q.dropped)
            BY <2>2 DEF RequestType
        <3> QED BY <2>1, <2>2, <3>1 DEF LadderOk
    <2>4. "reasoning" \in reply.topics /\ b.fields # {}
        BY <1>3, <1>6, <1>9, AnswersAre, ClassesAre
    <2>5. request.think /\ b.fields = {"think"} /\ b.num_ctx = request.num_ctx
        BY <1>1, <1>6, <2>4, NextIs
    <2>6. d.fields = {} /\ d.num_ctx = request.num_ctx /\ d.stream_options = FALSE
        BY <1>7, <2>1, <2>2 DEF NextBody, OllamaBody, Body
    <2>7. ChangesLeft' \in Int /\ ChangesLeft \in Int /\ ChangesLeft' < ChangesLeft
        <3>1. PICK h : h = IF request.halved THEN 0 ELSE 2
            OBVIOUS
        <3>2. ChangesLeft = h + 1
            BY <1>1, <1>9, <3>1 DEF ChangesLeft
        <3>3. ChangesLeft' = h + 0
            BY <2>1, <2>2, <3>1 DEF ChangesLeft
        <3>4. h = 0 \/ h = 2
            BY <3>1
        <3> QED BY <3>2, <3>3, <3>4
    <2>8. LeftBehind(b)'
        BY <2>1, <2>2, <2>5 DEF LeftBehind
    <2>9. ASSUME NEW c \in BodyType, LeftBehind(c) PROVE LeftBehind(c)'
        <3>1. request.halved /\ (c.num_ctx # request.num_ctx \/ c.num_ctx = MIN_SUGGESTED_NUM_CTX)
            BY <1>1, <2>5, <2>9 DEF LeftBehind
        <3> QED BY <2>1, <2>2, <3>1 DEF LeftBehind, MIN_SUGGESTED_NUM_CTX
    <2>10. Causes(e, d)
        <3>1. b.stream_options = FALSE
            BY <1>1, <1>6, NextIs
        <3> QED BY <1>8, <2>4, <2>5, <2>6, <3>1 DEF Causes, CausedFor
    <2> QED BY <1>3, <1>6, <1>7, <1>8, <1>9, <2>1, <2>2, <2>3, <2>7, <2>8, <2>9, <2>10, RequestGoesOn
<1>10. CASE /\ ~request.dropped /\ ~request.halved /\ ClassifyOllama(reply) = "ModelLoadResources"
            /\ request' = [request EXCEPT !.halved = TRUE, !.num_ctx = Suggested(@), !.dropped = FALSE,
                                          !.think = request.capable]
            /\ result' = result
    <2>1. PICK n \in Nat : n = request.num_ctx
        BY <1>1 DEF RequestType
    <2>2. PICK m \in Nat : /\ m = Suggested(n) /\ (m # n \/ n = MIN_SUGGESTED_NUM_CTX)
                           /\ m < n \/ n <= MIN_SUGGESTED_NUM_CTX
        BY SuggestedIs
    <2>3. PICK q : /\ q = request'
                   /\ q = [request EXCEPT !.halved = TRUE, !.num_ctx = m, !.dropped = FALSE,
                                          !.think = request.capable]
        BY <1>10, <2>1, <2>2
    <2>4. /\ q \in RequestType /\ q.api = "ollama" /\ q.num_ctx = m /\ q.halved /\ ~q.dropped
          /\ q.think = request.capable /\ q.capable = request.capable
        <3>1. PICK r : r = [request EXCEPT !.halved = TRUE, !.num_ctx = m]
            OBVIOUS
        <3>2. /\ r \in RequestType /\ r.api = request.api /\ r.num_ctx = m /\ r.halved
              /\ r.capable = request.capable
            BY <1>1, <3>1 DEF RequestType
        <3>3. request.capable \in BOOLEAN
            BY <1>1 DEF RequestType
        <3>4. q = [r EXCEPT !.dropped = FALSE, !.think = request.capable]
            BY <2>3, <3>1
        <3>5. /\ q \in RequestType /\ q.api = r.api /\ q.num_ctx = r.num_ctx
              /\ q.halved = r.halved /\ ~q.dropped
              /\ q.think = request.capable /\ q.capable = r.capable
            BY <3>2, <3>3, <3>4 DEF RequestType
        <3> QED BY <1>1, <3>2, <3>5
    <2>5. LadderOk'
        <3>1. q.think = (q.capable /\ ~q.dropped)
            BY <2>4 DEF RequestType
        <3> QED BY <2>3, <2>4, <3>1 DEF LadderOk
    <2>6. b.num_ctx = n
        BY <1>1, <1>6, <2>1, NextIs
    <2>7. d.num_ctx = m
        BY <1>7, <2>3, <2>4 DEF NextBody, OllamaBody, Body
    <2>8. ChangesLeft' \in Int /\ ChangesLeft \in Int /\ ChangesLeft' < ChangesLeft
        <3>1. ChangesLeft = 2 + 1
            BY <1>1, <1>10 DEF ChangesLeft
        <3>2. ChangesLeft' = 0 + 1
            BY <2>3, <2>4 DEF ChangesLeft
        <3> QED BY <3>1, <3>2
    <2>9. ASSUME NEW c \in BodyType, c.num_ctx = n PROVE LeftBehind(c)'
        <3>1. q.halved /\ (c.num_ctx # q.num_ctx \/ c.num_ctx = MIN_SUGGESTED_NUM_CTX)
            BY <2>2, <2>4, <2>9
        <3> QED BY <2>3, <2>4, <3>1 DEF LeftBehind, MIN_SUGGESTED_NUM_CTX
    <2>10. LeftBehind(b)'
        BY <2>6, <2>9
    <2>11. ASSUME NEW c \in BodyType, LeftBehind(c) PROVE LeftBehind(c)'
        <3>1. c.num_ctx = n
            BY <1>1, <1>10, <2>1, <2>11 DEF LeftBehind
        <3> QED BY <2>9, <3>1
    <2>12. Causes(e, d)
        <3>1. PICK f : f = IF request.capable THEN {"think"} ELSE {}
            OBVIOUS
        <3>2. request.think = request.capable
            BY <1>1, <1>10 DEF RequestType
        <3>3. b = [stream_options |-> FALSE, fields |-> f, num_ctx |-> n]
            BY <1>2, <1>6, <2>1, <3>1, <3>2 DEF OllamaBody, Body
        <3>4. d = [stream_options |-> FALSE, fields |-> f, num_ctx |-> m]
            BY <1>7, <2>3, <2>4, <3>1 DEF NextBody, OllamaBody, Body
        <3>5. PICK o : o = FALSE
            OBVIOUS
        <3>6. [[stream_options |-> o, fields |-> f, num_ctx |-> n] EXCEPT !.num_ctx = m] =
                  [stream_options |-> o, fields |-> f, num_ctx |-> m]
            OBVIOUS
        <3>7. d = [b EXCEPT !.num_ctx = d.num_ctx]
            BY <2>7, <3>3, <3>4, <3>5, <3>6, Zenon
        <3> QED BY <1>8, <1>10, <2>2, <2>6, <2>7, <3>7, ClassesAre DEF Causes, CausedFor
    <2> QED BY <1>3, <1>6, <1>7, <1>8, <1>10, <2>3, <2>4, <2>5, <2>8, <2>10, <2>11, <2>12, RequestGoesOn
<1> QED BY <1>4, <1>5, <1>9, <1>10

LEMMA AnthropicKeeps ==
    ASSUME RequestInv, NEW reply \in Replies, SendAnthropic(reply)
    PROVE  RequestInv'
<1>1. request.api = "anthropic" /\ NextBody = Body(FALSE, {}, 0)
    BY DEF SendAnthropic, NextBody
<1>2. Goes(reply)
    BY <1>1 DEF SendAnthropic, Sends, Goes, Returns
<1>3. request' = request /\ result' # "none"
    BY ClassesAre DEF SendAnthropic, Returns
<1> QED BY <1>1, <1>2, <1>3, RequestEnds

OllamaRequest(n, c) ==
    [Fresh("ollama", NoModel, "off", NotGiven) EXCEPT !.num_ctx = n, !.capable = c, !.think = c]

LEMMA RequestStarts == ASSUME ProviderRequestInit PROVE RequestInv
<1>1. sent = <<>> /\ result = "none" /\ Len(sent) = 0 /\ sent \in Seq(EntryType) /\ DOMAIN sent = {}
    BY DEF ProviderRequestInit
<1>3. request \in RequestType /\ LadderOk
    <2>1. ASSUME NEW model \in OpenAiModels, NEW thinking \in ThinkingLevels, NEW n \in Requested,
                 request = Fresh("openai", model, thinking, n)
          PROVE  request \in RequestType /\ LadderOk
        <3>1. PICK l : l = Strategies(model, thinking)
            OBVIOUS
        <3>2. l = <<Plain>> \/ \E s \in Kinds : l = <<s, Plain>>
            BY <3>1, StrategiesAre
        <3>3. l \in Seq(Kinds \cup {Plain})
            <4>1. PICK p, R : p = Plain /\ R = Kinds \cup {Plain}
                OBVIOUS
            <4>2. <<p>> \in Seq(R) /\ \A s \in Kinds : <<s, p>> \in Seq(R)
                BY <4>1
            <4> QED BY <3>2, <4>1, <4>2
        <3>4. request = [api |-> "openai", model |-> model, thinking |-> thinking, requested |-> n,
                         ladder |-> l, stream_options |-> TRUE, num_ctx |-> 0, ceiling |-> 0,
                         capable |-> FALSE, think |-> FALSE, dropped |-> FALSE, halved |-> FALSE]
            BY <2>1, <3>1 DEF Fresh
        <3>5. server.memory = 0
            <4>1. server \in Servers("openai")
                BY <3>4 DEF ProviderRequestInit
            <4> QED BY <4>1 DEF Servers
        <3>6. request \in RequestType
            BY <3>3, <3>4 DEF RequestType
        <3>7. LadderOk
            BY <3>2, <3>4, <3>5 DEF LadderOk
        <3> QED BY <3>6, <3>7
    <2>2. ASSUME NEW n \in Contexts, NEW c \in BOOLEAN,
                 request = [Fresh("ollama", NoModel, "off", NotGiven)
                               EXCEPT !.num_ctx = n, !.capable = c, !.think = c]
          PROVE  request \in RequestType /\ LadderOk
        <3>1. request = [api |-> "ollama", model |-> NoModel, thinking |-> "off", requested |-> NotGiven,
                         ladder |-> <<>>, stream_options |-> TRUE, num_ctx |-> n, ceiling |-> 0,
                         capable |-> c, think |-> c, dropped |-> FALSE, halved |-> FALSE]
            <4>1. PICK fresh : fresh = Fresh("ollama", NoModel, "off", NotGiven)
                OBVIOUS
            <4>2. fresh = [api |-> "ollama", model |-> NoModel, thinking |-> "off", requested |-> NotGiven,
                           ladder |-> <<>>, stream_options |-> TRUE, num_ctx |-> 0, ceiling |-> 0,
                           capable |-> FALSE, think |-> FALSE, dropped |-> FALSE, halved |-> FALSE]
                BY <4>1 DEF Fresh
            <4>3. request = [fresh EXCEPT !.num_ctx = n, !.capable = c, !.think = c]
                BY <2>2, <4>1
            <4> QED BY <4>2, <4>3
        <3>2. "off" \in ThinkingLevels
            BY LevelsAre DEF ThinkingLevels, ToSet
        <3>3. n \in Nat
            BY ProviderRequestAssumption
        <3>4. request \in RequestType
            BY <3>1, <3>2, <3>3 DEF RequestType
        <3>5. LadderOk
            BY <3>1 DEF LadderOk
        <3> QED BY <3>4, <3>5
    <2>3. ASSUME NEW thinking \in ThinkingLevels, NEW ceiling \in Ceilings,
                 NEW n \in Requested \cup {NotGiven},
                 request = [Fresh("anthropic", NoModel, thinking, n) EXCEPT !.ceiling = ceiling]
          PROVE  request \in RequestType /\ LadderOk
        <3>1. request = [api |-> "anthropic", model |-> NoModel, thinking |-> thinking, requested |-> n,
                         ladder |-> <<>>, stream_options |-> TRUE, num_ctx |-> 0, ceiling |-> ceiling,
                         capable |-> FALSE, think |-> FALSE, dropped |-> FALSE, halved |-> FALSE]
            <4>1. PICK fresh : fresh = Fresh("anthropic", NoModel, thinking, n)
                OBVIOUS
            <4>2. fresh = [api |-> "anthropic", model |-> NoModel, thinking |-> thinking, requested |-> n,
                           ladder |-> <<>>, stream_options |-> TRUE, num_ctx |-> 0, ceiling |-> 0,
                           capable |-> FALSE, think |-> FALSE, dropped |-> FALSE, halved |-> FALSE]
                BY <4>1 DEF Fresh
            <4>3. request = [fresh EXCEPT !.ceiling = ceiling]
                BY <2>3, <4>1
            <4> QED BY <4>2, <4>3
        <3>2. ceiling \in Nat
            BY ProviderRequestAssumption
        <3>3. request \in RequestType
            BY <3>1, <3>2 DEF RequestType
        <3>4. LadderOk
            BY <3>1 DEF LadderOk
        <3> QED BY <3>3, <3>4
    <2>4. CASE request \in OpenAiRequests
        BY <2>1, <2>4 DEF OpenAiRequests
    <2>5. CASE request \in OllamaRequests
        <3>1. OllamaRequests = {OllamaRequest(n, c) : n \in Contexts, c \in BOOLEAN}
            BY DEF OllamaRequests, OllamaRequest
        <3>2. PICK n \in Contexts, c \in BOOLEAN : request = OllamaRequest(n, c)
            BY <2>5, <3>1
        <3> QED BY <2>2, <3>2 DEF OllamaRequest
    <2>6. CASE request \in AnthropicRequests
        BY <2>3, <2>6 DEF AnthropicRequests
    <2> QED BY <2>4, <2>5, <2>6 DEF ProviderRequestInit
<1>4. AllApart /\ AllCaused
    BY <1>1 DEF AllApart, AllCaused
<1>5. PlainRequestsSucceed
    BY <1>1 DEF PlainRequestsSucceed
<1>6. GoingOn
    <2>1. ChangesLeft <= 3
        <3>1. CASE request.api = "openai"
            <4>1. Len(request.ladder) = 1 \/ Len(request.ladder) = 2
                <5>1. TypedRequests
                    BY <1>1, <1>3 DEF TypedRequests
                <5>2. CASE Head(request.ladder) = Plain
                    BY <3>1, <5>1, <5>2, LadderIs
                <5>3. CASE Head(request.ladder) # Plain
                    BY <3>1, <5>1, <5>3, LadderIs
                <5> QED BY <5>2, <5>3
            <4>2. PICK m, c : /\ m = Len(request.ladder)
                              /\ c = IF request.stream_options THEN 1 ELSE 0
                OBVIOUS
            <4>3. ChangesLeft = 2 * (m - 1) + c
                BY <3>1, <4>2 DEF ChangesLeft
            <4>4. c = 0 \/ c = 1
                BY <4>2
            <4>5. m = 1 \/ m = 2
                BY <4>1, <4>2
            <4> QED BY <4>3, <4>4, <4>5
        <3>2. CASE request.api # "openai"
            BY <3>2 DEF ChangesLeft
        <3> QED BY <3>1, <3>2
    <2>2. ChangesLeft \in Int
        <3>1. CASE request.api = "openai"
            BY <1>3, <3>1 DEF ChangesLeft, RequestType
        <3>2. CASE request.api # "openai"
            BY <3>2 DEF ChangesLeft
        <3> QED BY <3>1, <3>2
    <2> QED BY <1>1, <2>1, <2>2 DEF GoingOn
<1> QED BY <1>1, <1>3, <1>4, <1>5, <1>6 DEF RequestInv, TypedRequests

LEMMA RequestStep == ASSUME RequestInv, [ProviderRequestNext]_requestVars PROVE RequestInv'
<1>1. CASE ProviderRequestNext
    <2>1. PICK reply \in Replies : SendStreamRequest(reply) \/ SendOllama(reply) \/ SendAnthropic(reply)
        BY <1>1 DEF ProviderRequestNext, Replies
    <2> QED BY <2>1, OpenAiKeeps, OllamaKeeps, AnthropicKeeps
<1>2. CASE UNCHANGED requestVars
    <2>1. /\ TypedRequests' = TypedRequests /\ AllApart' = AllApart /\ AllCaused' = AllCaused
          /\ PlainRequestsSucceed' = PlainRequestsSucceed /\ GoingOn' = GoingOn /\ result' = result
        BY <1>2 DEF requestVars, TypedRequests, LadderOk, AllApart, AllCaused, PlainRequestsSucceed,
                    Complaints, GoingOn, Causes, LeftBehind, ChangesLeft, NextBody, OpenAiBody,
                    OllamaBody
    <2> QED BY <2>1 DEF RequestInv
<1> QED BY <1>1, <1>2

\* Requests are repeated for a reason only and at most four times, and leave room for
\* the answer, for every set of models, context windows and limits (send_stream_request,
\* thinking_config and their siblings).
THEOREM RequestsStaySound == ProviderRequestSpec => []RequestsSound
<1>1. RequestInv => RequestsSound
    BY AskedIs, TokensLeft, BudgetsFit DEF RequestInv, RequestsSound
<1> QED BY <1>1, RequestStarts, RequestStep, PTL DEF ProviderRequestSpec
=============================================================================
