---------------------------- MODULE Credentials ----------------------------
(***************************************************************************)
(* The stored credentials of every provider and the processes that share   *)
(* them: anie-auth/src/store.rs, refresh.rs, the store and the resolver of *)
(* lib.rs, the end of `anie login` and `anie logout`, and the migration a  *)
(* start of anie runs.  A file is read in one step and replaced by another *)
(* (load_auth_store_at, atomic_write): anything may happen in between.     *)
(*                                                                         *)
(* The token endpoint rotates: a refresh token it has answered is dead.    *)
(***************************************************************************)
EXTENDS Integers, FiniteSets

CONSTANTS
    Processes,
    Providers,
    Rotating,       \* providers whose refresh answers with a new refresh token
    KeyringNative,  \* a native keyring is built in and enabled
    MaxTokens,      \* bound: tokens a provider issues
    MaxFaults,      \* bound: crashes, failing writes and lost answers
    MaxOperations   \* bound: operations that change something

NoOne == "no one"

ASSUME CredentialsAssumption ==
    /\ Providers # {} /\ Rotating \subseteq Providers
    /\ NoOne \notin Processes
    /\ KeyringNative \in BOOLEAN
    /\ MaxTokens \in Nat \ {0} /\ MaxFaults \in Nat /\ MaxOperations \in Nat

Files == {"auth", "migrated"}     \* auth.json and auth.json.migrated
Operations == {"resolve", "login", "logout", "set_key", "migrate"}

NoCredential == [kind |-> "none", access |-> 0, refresh |-> 0]
ApiKey == [kind |-> "api_key", access |-> 0, refresh |-> 0]
OAuth(access, refresh) == [kind |-> "oauth", access |-> access, refresh |-> refresh]
Credential ==
    {NoCredential, ApiKey} \cup [kind : {"oauth"}, access : 1..MaxTokens, refresh : 1..MaxTokens]
Entries == [Providers -> Credential]
NoEntries == [p \in Providers |-> NoCredential]

Nobody == CHOOSE p \in Providers : TRUE

VARIABLES
    file,       \* what each file holds, or that it is absent or unreadable
    keyring,    \* providers with a key in the native keyring
    lock,       \* holder of auth.lock/<provider>.lock
    proc,       \* what every process is in the middle of
    issued,     \* the endpoint: tokens issued so far
    live,       \* the endpoint: refresh tokens it still accepts
    expired,    \* the newest access token that is near its expiry
    faults,
    operations, \* operations begun
    \* history
    member,     \* what the user was last told: "in", "leaving", "out", "told out"
    displaced,  \* providers whose entry another operation overwrote or hid
    burnt,      \* providers whose rotated token never reached the file
    refused     \* providers whose endpoint was sent a dead refresh token

disk == <<file, keyring>>
endpoint == <<issued, live, expired>>
history == <<member, displaced, burnt, refused>>
credentialVars == <<file, keyring, lock, proc, issued, live, expired, faults,
                    operations, member, displaced, burnt, refused>>

Idle == [op |-> "idle", at |-> "idle", provider |-> Nobody, file |-> "auth",
         snap |-> NoEntries, minted |-> NoCredential,
         alone |-> TRUE]   \* history: no other process has been active meanwhile
Absent == [state |-> "absent", entries |-> NoEntries]
Holding(entries) == [state |-> "ok", entries |-> entries]

\* A first start, a file that does not parse, keys, or a login to a rotating
\* provider that needs a refresh (the others come by logging in).
CredentialsInit ==
    /\ \E auth \in {Absent, [state |-> "unreadable", entries |-> NoEntries]} \cup
                   {Holding(entries) : entries \in
                        {e \in [Providers -> {NoCredential, ApiKey, OAuth(1, 1)}] :
                            \A p \in Providers \ Rotating : e[p].kind # "oauth"}} :
          file = [f \in Files |-> IF f = "auth" THEN auth ELSE Absent]
    /\ keyring = {}
    /\ lock = [p \in Providers |-> NoOne]
    /\ proc = [q \in Processes |-> Idle]
    /\ issued = [p \in Providers |-> IF file["auth"].entries[p].kind = "oauth" THEN 1 ELSE 0]
    /\ live = [p \in Providers |-> 1..issued[p]]
    /\ expired = issued
    /\ faults = 0 /\ operations = 0
    /\ member = [p \in Providers |->
                    IF file["auth"].entries[p] = NoCredential THEN "never" ELSE "in"]
    /\ displaced = {} /\ burnt = {} /\ refused = {}

-----------------------------------------------------------------------------
(* Reading and replacing files *)

\* What get_credential finds: the first file that loads, never the keyring.
Stored(p) ==
    IF file["auth"].state = "ok" THEN file["auth"].entries[p]
    ELSE file["migrated"].entries[p]

\* What get finds for a request: the keyring, then either file.
Bearer(p) ==
    \/ p \in keyring
    \/ \E f \in Files : file[f].state = "ok" /\ file[f].entries[p] # NoCredential

NearExpiry(p, credential) == credential.access <= expired[p]

Goto(q, place) == proc' = [proc EXCEPT ![q].at = place]
Finish(q) == proc' = [proc EXCEPT ![q] = Idle]
Unlock(q) == lock' = [p \in Providers |-> IF lock[p] = q THEN NoOne ELSE lock[p]]
Overlapped(q) ==
    [r \in Processes |-> IF r = q \/ proc[r] = Idle THEN proc[r] ELSE [proc[r] EXCEPT !.alone = FALSE]]
Counted == operations < MaxOperations /\ operations' = operations + 1
StartWith(q, op, p, place, minted) ==
    /\ Counted
    /\ proc' = [Overlapped(q) EXCEPT ![q] =
                   [Idle EXCEPT !.op = op, !.provider = p, !.at = place, !.minted = minted,
                                !.alone = \A r \in Processes : proc[r] = Idle]]
Start(q, op, p, place) == StartWith(q, op, p, place, NoCredential)

\* Entries whose content on disk is not what was read before.
Overwritten(f, snap) == {p \in Providers : file[f].entries[p] # snap[p]}

\* What the backup has shows only while auth.json is not there.
Backup == {p \in Providers : file["migrated"].entries[p] # NoCredential}

\* load_auth_store_at for a save: an absent file is an empty store, an unreadable
\* one is copied aside and the save fails; what the endpoint minted is lost then.
ReadForSave(q) ==
    LET p == proc[q].provider
        auth == file["auth"]
    IN  /\ proc[q].at = "save"
        /\ IF auth.state = "unreadable"
           THEN /\ Finish(q) /\ Unlock(q)
                /\ burnt' = IF proc[q].op = "resolve" /\ p \in Rotating
                            THEN burnt \cup {p} ELSE burnt
           ELSE /\ proc' = [proc EXCEPT ![q].at = "write", ![q].snap = auth.entries]
                /\ UNCHANGED <<lock, burnt>>
        /\ UNCHANGED <<operations, disk, endpoint, faults, member, displaced, refused>>

\* The store as read, with one entry inserted, replaces the file.
WriteSave(q) ==
    LET p == proc[q].provider
        entry == IF proc[q].op = "set_key" THEN ApiKey ELSE proc[q].minted
    IN  /\ proc[q].at = "write"
        /\ file' = [file EXCEPT !["auth"] = Holding([proc[q].snap EXCEPT ![p] = entry])]
        /\ member' = IF proc[q].op = "resolve" THEN member ELSE [member EXCEPT ![p] = "in"]
        \* a save that makes auth.json exist again hides what only the backup has
        /\ displaced' = displaced \cup (Overwritten("auth", proc[q].snap) \ {p})
              \cup IF file["auth"].state = "ok" THEN {} ELSE Backup \ {p}
        /\ Finish(q) /\ Unlock(q)
        /\ UNCHANGED <<operations, keyring, endpoint, faults, burnt, refused>>

\* atomic_write fails and leaves the file as it was.
WriteFails(q) ==
    LET p == proc[q].provider
    IN  /\ proc[q].at = "write" /\ faults < MaxFaults
        /\ faults' = faults + 1
        /\ burnt' = IF proc[q].op = "resolve" /\ p \in Rotating THEN burnt \cup {p} ELSE burnt
        \* the key is in the keyring already, and the JSON store keeps another
        /\ Finish(q) /\ Unlock(q)
        /\ UNCHANGED <<operations, disk, endpoint, member, displaced, refused>>

-----------------------------------------------------------------------------
(* Resolving a request's token, refreshing it under the lock *)

\* AuthResolver::resolve and the fast path of resolve_access_token.  A credential
\* with headroom, an API key or none at all changes nothing.
Resolve(q, p) ==
    /\ proc[q] = Idle
    /\ Stored(p).kind = "oauth" /\ NearExpiry(p, Stored(p))
    /\ StartWith(q, "resolve", p, "wait", Stored(p))
    /\ UNCHANGED <<disk, lock, endpoint, faults, history>>

TakeLock(q) ==
    LET p == proc[q].provider
    IN  /\ proc[q].at = "wait" /\ lock[p] = NoOne
        /\ lock' = [lock EXCEPT ![p] = q]
        /\ Goto(q, "recheck")
        /\ UNCHANGED <<operations, disk, endpoint, faults, history>>

\* The lock stayed taken for lock_timeout.
LockTimeout(q) ==
    /\ proc[q].at = "wait" /\ lock[proc[q].provider] # NoOne
    /\ Finish(q)
    /\ UNCHANGED <<operations, disk, lock, endpoint, faults, history>>

\* Variant of Recheck with a bug: the credential read before the wait is refreshed.
BugNoSecondLook(q) ==
    /\ proc[q].at = "recheck"
    /\ Goto(q, "refresh")
    /\ UNCHANGED <<operations, disk, lock, endpoint, faults, history>>

\* refresh_under_lock reads the credential again: somebody may have refreshed it,
\* logged out, or put an API key in its place.
Recheck(q) ==
    LET p == proc[q].provider
        current == Stored(p)
    IN  /\ proc[q].at = "recheck"
        /\ IF current.kind = "oauth" /\ NearExpiry(p, current)
           THEN /\ proc' = [proc EXCEPT ![q].at = "refresh", ![q].minted = current]
                /\ UNCHANGED lock
           ELSE Finish(q) /\ Unlock(q)
        /\ UNCHANGED <<operations, disk, endpoint, faults, history>>

\* The endpoint answers: a live token buys a new access token, and a new refresh
\* token where the provider rotates; a dead one is refused.
RefreshAnswered(q) ==
    LET p == proc[q].provider
        sent == proc[q].minted.refresh
        fresh == issued[p] + 1
        next == IF p \in Rotating THEN fresh ELSE sent
    IN  /\ proc[q].at = "refresh"
        /\ \/ /\ sent \in live[p] /\ fresh <= MaxTokens
              /\ issued' = [issued EXCEPT ![p] = fresh]
              /\ live' = [live EXCEPT ![p] = (@ \ {sent}) \cup {next}]
              /\ \/ /\ proc' = [proc EXCEPT ![q].at = "save", ![q].minted = OAuth(fresh, next)]
                    /\ UNCHANGED <<lock, burnt, faults>>
                 \/ /\ faults < MaxFaults       \* the answer is lost
                    /\ faults' = faults + 1
                    /\ burnt' = IF p \in Rotating THEN burnt \cup {p} ELSE burnt
                    /\ Finish(q) /\ Unlock(q)
              /\ UNCHANGED refused
           \/ /\ sent \notin live[p]
              /\ refused' = refused \cup {p}
              /\ Finish(q) /\ Unlock(q)
              /\ UNCHANGED <<issued, live, burnt, faults>>
        /\ UNCHANGED <<operations, disk, expired, member, displaced>>

-----------------------------------------------------------------------------
(* Logging in and out, and the API keys of the TUI *)

\* complete_login has answered: a grant of its own.
Login(q, p) ==
    LET token == issued[p] + 1
    IN  /\ proc[q] = Idle /\ token <= MaxTokens
        /\ issued' = [issued EXCEPT ![p] = token]
        /\ live' = [live EXCEPT ![p] = @ \cup {token}]
        /\ StartWith(q, "login", p, "save", OAuth(token, token))
        /\ UNCHANGED <<disk, lock, expired, faults, history>>

\* CredentialStore::set: the keyring first, then its mirror in auth.json.
SetKey(q, p) ==
    /\ proc[q] = Idle
    /\ \/ /\ KeyringNative
          /\ keyring' = keyring \cup {p}
          /\ member' = [member EXCEPT ![p] = "in"]
       \/ UNCHANGED <<keyring, member>>
    /\ Start(q, "set_key", p, "save")
    /\ UNCHANGED <<file, lock, endpoint, faults, displaced, burnt, refused>>

\* run_logout: the credential is looked up in the files; without one there is
\* nothing to remove.
Logout(q, p) ==
    /\ proc[q] = Idle
    /\ IF Stored(p) = NoCredential
       THEN /\ member' = [member EXCEPT ![p] = "told out"]
            /\ Counted
            /\ UNCHANGED <<keyring, proc>>
       ELSE /\ keyring' = keyring \ {p}
            /\ Start(q, "logout", p, "delete")
            /\ member' = [member EXCEPT ![p] = "leaving"]
    /\ UNCHANGED <<file, lock, endpoint, faults, displaced, burnt, refused>>

\* After the last file.  The deletion failed if a file could not be read, and says
\* nothing of what another process had under way meanwhile.
AfterDelete(q, told) ==
    LET p == proc[q].provider
    IN  IF proc[q].file = "auth"
        THEN /\ proc' = [proc EXCEPT ![q].file = "migrated", ![q].at = "delete"]
             /\ member' = told
        ELSE /\ Finish(q)
             /\ member' = IF /\ file["auth"].state # "unreadable"
                             /\ told[p] = "leaving" /\ proc[q].alone
                          THEN [told EXCEPT ![p] = "out"] ELSE told

\* delete_provider_from_path: a file that is absent, unreadable or without the
\* provider is left alone.
ReadForDelete(q) ==
    LET p == proc[q].provider
        f == proc[q].file
    IN  /\ proc[q].at = "delete"
        /\ IF file[f].entries[p] = NoCredential
           THEN AfterDelete(q, member)
           ELSE /\ proc' = [proc EXCEPT ![q].at = "remove", ![q].snap = file[f].entries]
                /\ UNCHANGED member
        /\ UNCHANGED <<operations, disk, lock, endpoint, faults, displaced, burnt, refused>>

\* The store as read, without the provider; without anything the file goes.
RemoveEntry(q) ==
    LET p == proc[q].provider
        f == proc[q].file
        rest == [proc[q].snap EXCEPT ![p] = NoCredential]
    IN  /\ proc[q].at = "remove"
        /\ file' = [file EXCEPT ![f] = IF rest = NoEntries THEN Absent ELSE Holding(rest)]
        \* auth.json goes, or is there again: what only the backup has shows or hides
        /\ displaced' = displaced \cup (Overwritten(f, proc[q].snap) \ {p})
              \cup IF f = "auth" /\ (file["auth"].state = "ok" <=> rest = NoEntries)
                   THEN Backup ELSE {}
        /\ AfterDelete(q, [member EXCEPT ![p] = "leaving"])
        /\ UNCHANGED <<operations, keyring, lock, endpoint, faults, burnt, refused>>

-----------------------------------------------------------------------------
(* The migration a start of anie runs *)

\* should_migrate and the keys of the store, copied to the keyring one by one; an
\* error leaves the rest, and the file where it was.
Migrate(q) ==
    LET keys == {p \in Providers : file["auth"].entries[p].kind = "api_key"}
    IN  /\ proc[q] = Idle /\ KeyringNative
        /\ file["auth"].state = "ok" /\ file["migrated"].state = "absent"
        /\ \/ /\ keyring' = keyring \cup keys
              /\ Start(q, "migrate", Nobody, "rename")
           \/ /\ \E copied \in SUBSET keys : copied # keys /\ keyring' = keyring \cup copied
              /\ proc' = Overlapped(q) /\ Counted
        /\ UNCHANGED <<file, lock, endpoint, faults, history>>

\* The file becomes the backup, whatever it holds by now.
Rename(q) ==
    /\ proc[q].at = "rename"
    /\ IF file["auth"].state = "absent" THEN UNCHANGED file
       ELSE file' = [file EXCEPT !["migrated"] = file["auth"], !["auth"] = Absent]
    /\ Finish(q)
    /\ UNCHANGED <<operations, keyring, lock, endpoint, faults, history>>

-----------------------------------------------------------------------------
(* The environment *)

\* The newest access token of a provider comes near its expiry.
TokenExpires(p) ==
    /\ expired[p] < issued[p]
    /\ expired' = [expired EXCEPT ![p] = issued[p]]
    /\ UNCHANGED <<operations, disk, lock, proc, issued, live, faults, history>>

\* A process dies: the kernel drops its lock, a token not yet saved is lost.
Crash(q) ==
    LET p == proc[q].provider
    IN  /\ proc[q] # Idle /\ faults < MaxFaults
        /\ faults' = faults + 1
        /\ burnt' = IF proc[q].op = "resolve" /\ proc[q].at \in {"save", "write"} /\ p \in Rotating
                    THEN burnt \cup {p} ELSE burnt
        /\ Finish(q) /\ Unlock(q)
        /\ UNCHANGED <<operations, disk, endpoint, member, displaced, refused>>

Step(q) ==
    \/ TakeLock(q) \/ LockTimeout(q) \/ Recheck(q) \/ RefreshAnswered(q)
    \/ ReadForSave(q) \/ WriteSave(q) \/ WriteFails(q)
    \/ ReadForDelete(q) \/ RemoveEntry(q) \/ Rename(q)

Begin(q) ==
    \/ Migrate(q)
    \/ \E p \in Providers : Resolve(q, p) \/ Login(q, p) \/ SetKey(q, p) \/ Logout(q, p)

CredentialsNext ==
    \/ \E q \in Processes : Step(q) \/ Begin(q) \/ Crash(q)
    \/ \E p \in Providers : TokenExpires(p)

\* The wait for the lock polls it until its deadline.
Waiting(q) == TakeLock(q) \/ LockTimeout(q)
CredentialsSpec ==
    /\ CredentialsInit /\ [][CredentialsNext]_credentialVars
    /\ \A q \in Processes : WF_credentialVars(Waiting(q))
-----------------------------------------------------------------------------
(* Properties *)

ProcessState ==
    [op : Operations \cup {"idle"},
     at : {"idle", "wait", "recheck", "refresh", "save", "write", "delete", "remove", "rename"},
     provider : Providers, file : Files, snap : Entries, minted : Credential,
     alone : BOOLEAN]

\* From the second look on, a refresh holds its provider's lock.
PastLock(q) == proc[q].op = "resolve" /\ proc[q].at \in {"recheck", "refresh", "save", "write"}
LockHeld == \A q \in Processes : PastLock(q) => lock[proc[q].provider] = q

\* Types, and that a refresh holds its provider's lock from the second look to the
\* end of its save (resolve_access_token keeps the lock file open until then).
CredentialsTypeOK ==
    /\ file \in [Files -> [state : {"absent", "ok", "unreadable"}, entries : Entries]]
    /\ keyring \subseteq Providers
    /\ lock \in [Providers -> Processes \cup {NoOne}]
    /\ proc \in [Processes -> ProcessState]
    /\ issued \in [Providers -> 0..MaxTokens]
    /\ live \in [Providers -> SUBSET (1..MaxTokens)]
    /\ expired \in [Providers -> 0..MaxTokens]
    /\ faults \in 0..MaxFaults
    /\ operations \in 0..MaxOperations
    /\ member \in [Providers -> {"never", "in", "leaving", "out", "told out"}]
    /\ displaced \subseteq Providers
    /\ burnt \subseteq Providers
    /\ refused \subseteq Providers
    /\ LockHeld

\* A refresh token is spent by one process only: the endpoint is never sent a token
\* it has already rotated away, unless the answer or its save was lost or another
\* save put the old entry back (the lock and the second look of refresh_under_lock).
NoTokenSpentTwice == refused \subseteq displaced \cup burnt

\* A login or a stored key is found again by the next request, whatever refreshes,
\* logouts of other providers, migrations, crashes and failing writes came in
\* between, unless a save overlapped with another or hid the backup.
SignedInKept ==
    \A p \in Providers \ displaced : member[p] = "in" => Bearer(p)

\* A completed logout leaves no key behind in any of the three places.
SignedOutGone ==
    \A p \in Providers : member[p] = "out" => ~ Bearer(p)

\* A store that cannot be parsed is never overwritten, renamed or removed.
UnreadableKept ==
    [][file["auth"].state = "unreadable" => file'["auth"] = file["auth"]]_credentialVars

\* No credential is lost, spent twice, left behind or overwritten unread.
CredentialsSound ==
    []( CredentialsTypeOK /\ NoTokenSpentTwice /\ SignedInKept /\ SignedOutGone ) /\ UnreadableKept
=============================================================================
