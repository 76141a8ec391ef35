--------------------------- MODULE CredentialStore ---------------------------
(***************************************************************************)
(* The per-identity credentials of a daemon: CredentialManager's copy in   *)
(* memory, its queue of transactions and reloads, credentials.json, and    *)
(* the pooled connections made with a credential                           *)
(* (credentials/credential-manager.ts, daemon/routes/credentials.ts,       *)
(* daemon/server.ts 112-171, daemon/file-watch.ts).                        *)
(*                                                                         *)
(* There is one service.  A connection under a pool key is the credential  *)
(* it was made with, and how it came to have it; the caller whose identity *)
(* replaces the templates is left out: a default with templates is         *)
(* expanded for the caller that connects first, and the bare connection    *)
(* serves the others with it (server.ts 141-151).  The schema caches that  *)
(* a change clears are SchemaCache's.                                      *)
(***************************************************************************)
EXTENDS CredentialRules, TLC

CONSTANTS MaxCred,      \* bound: different credentials of one identity
          MaxCredRequests, \* bound: management requests, numbered as they arrive
          MaxConnects,  \* bound: connect attempts under way at once
          Templated,    \* the service has ${caller.} templates, in its own configuration or the credentials
          Required,     \* requiresCredentials
          None,
          Unreadable    \* credentials.json is missing, malformed or invalid

VARIABLES credConfig,   \* this.config
          credFile,     \* credentials.json
          credWatched,  \* the file watcher could be started
          credTimer,    \* the watcher's debounce timer runs
          credQueue,    \* this.writeQueue
          credOp,       \* each operation: pc, what it changes, the snapshot
          credPool,     \* the connection of each pool key, [cred, how], see Connection
          credPending,  \* the connect attempts under way, a set of [key, cred, how]
          credEdited    \* history: the file was changed by somebody else and not read since

credVars == <<credConfig, credFile, credWatched, credTimer, credQueue, credOp, credPool,
              credPending, credEdited>>

Creds == 1..MaxCred
GroupOrders == {<<>>} \cup {<<g>> : g \in [name : Groups, members : SUBSET Users]}
CredConfigs == [creds : [Identities -> 0..MaxCred], groups : GroupOrders, default : 0..MaxCred]

Change(kind, who, members, cred) == [kind |-> kind, who |-> who, members |-> members, cred |-> cred]

\* The write operations behind /api/credentials and /api/credentials/defaults
CredentialChanges ==
    [kind : {"setCredential"}, who : Identities, members : {{}}, cred : Creds]
    \cup [kind : {"setDefault"}, who : {None}, members : {{}}, cred : Creds]
    \cup [kind : {"removeCredential"}, who : Identities, members : {{}}, cred : {0}]
    \cup [kind : {"removeDefault"}, who : {None}, members : {{}}, cred : {0}]

\* Those behind /api/credentials/groups
GroupChanges ==
    [kind : {"addGroup", "addGroupMembers", "removeGroupMembers"}, who : Groups,
     members : SUBSET Users \ {{}}, cred : {0}]
    \cup [kind : {"removeGroup"}, who : Groups, members : {{}}, cred : {0}]

\* /api/credentials/reload, and the watcher
Reload == Change("reload", None, {}, 0)

\* The guards of the mutators, the errors of which the transaction rolls back
Refuses(c, ch) ==
    CASE ch.kind = "removeCredential" -> c.creds[ch.who] = 0
      [] ch.kind = "removeDefault" -> c.default = 0
      [] ch.kind = "addGroup" -> ch.who \in GroupNames(c)
      [] ch.kind \in {"addGroupMembers", "removeGroupMembers", "removeGroup"} -> ch.who \notin GroupNames(c)
      [] OTHER -> FALSE

WithMembers(c, g, members) ==
    [c EXCEPT !.groups = [i \in DOMAIN @ |-> IF @[i].name = g THEN [@[i] EXCEPT !.members = members] ELSE @[i]]]

\* The mutators
Mutated(c, ch) ==
    CASE ch.kind \in {"setCredential", "removeCredential"} -> [c EXCEPT !.creds[ch.who] = ch.cred]
      [] ch.kind \in {"setDefault", "removeDefault"} -> [c EXCEPT !.default = ch.cred]
      [] ch.kind = "addGroup" -> [c EXCEPT !.groups = Append(@, [name |-> ch.who, members |-> ch.members])]
      [] ch.kind = "addGroupMembers" -> WithMembers(c, ch.who, Members(c, ch.who) \cup ch.members)
      [] ch.kind = "removeGroupMembers" -> WithMembers(c, ch.who, Members(c, ch.who) \ ch.members)
      [] OTHER -> [c EXCEPT !.groups = SelectSeq(@, LAMBDA g : g.name # ch.who), !.creds[ch.who] = 0]

\* Mutant: a changed default closes like a changed credential
ClosesPattern(ch, had) ==
    IF ch.kind = "reload" THEN PoolKeys
    ELSE IF ch.kind \in {"setCredential", "removeCredential", "setDefault", "removeDefault"} \/ had
    THEN PoolKeys \ {BareKey} ELSE {}

\* The keys a change closes: closeServicePattern for a credential, closeService for a default, and
\* for a group that has a credential of the service (had)
Closes(ch, had) ==
    IF ch.kind \in {"setCredential", "removeCredential"} THEN PoolKeys \ {BareKey}
    ELSE IF ch.kind \in {"reload", "setDefault", "removeDefault"} \/ had THEN PoolKeys
    ELSE {}

\* The requests, and the reload of the file watcher
CredWatcher == 0
CredRequests == 1..MaxCredRequests
CredOps == CredRequests \cup {CredWatcher}

\* An operation: where it is, what it changes, the configuration before or what a reload read, whether
\* the group had a credential
CredOp(pc, change, snapshot, had) == [pc |-> pc, change |-> change, snapshot |-> snapshot, had |-> had]
EndedCredOp == CredOp("done", Reload, None, FALSE)

CredInit ==
    /\ credConfig \in {c \in CredConfigs : c.default = 0}
    /\ credFile = credConfig
    /\ credWatched \in BOOLEAN
    /\ credTimer = FALSE
    /\ credQueue = <<>>
    /\ credOp = [o \in CredOps |-> IF o = CredWatcher THEN EndedCredOp ELSE CredOp("idle", Reload, None, FALSE)]
    /\ credPool = [k \in PoolKeys |-> None]
    /\ credPending = {}
    /\ credEdited = FALSE

InTransaction == \E o \in CredOps : credOp[o].pc = "writing"
HoldsQueue(o) == credQueue # <<>> /\ Head(credQueue) = o

\* A connection: the credential it was made with, and (history) how it came to have it:
\*   own    it was resolved for its key
\*   bare   it was begun without the default there was, by preconnect or a status request
\*   late   its credential was changed, or taken back, after it had been resolved
\*   left   a close that was rejected left it with an old credential
Connection(cred, how) == [cred |-> cred, how |-> how]

DropConnections(keys) == credPool' = [k \in PoolKeys |-> IF k \in keys THEN None ELSE credPool[k]]

\* Whether the group of an operation has a credential of the service, removeGroup: had one
HasCredential(o) ==
    LET ch == credOp[o].change IN
    IF ch.kind = "removeGroup" THEN credOp[o].had ELSE ch.who \in Groups /\ credConfig.creds[ch.who] # 0

-------------------------------------------------------------------------------
\* A request, or the timer, puts its operation into the queue. addGroup compares its name with the
\* identities of the moment, not inside the transaction.
Enqueue(o, change) ==
    /\ credOp[o].pc = (IF o = CredWatcher THEN "done" ELSE "idle")
    /\ change.kind = "addGroup" => credConfig.creds[change.who] = 0
    /\ credOp' = [credOp EXCEPT ![o] = CredOp("queued", change, None, FALSE)]
    /\ credQueue' = Append(credQueue, o)

AskChange(o, change) ==
    /\ \A p \in CredRequests : p < o => credOp[p].pc # "idle"
    /\ Enqueue(o, change)
    /\ UNCHANGED <<credConfig, credFile, credWatched, credTimer, credPool, credPending, credEdited>>

\* The timer fires; the reload before it has ended
CredTimerFires ==
    /\ credTimer
    /\ Enqueue(CredWatcher, Reload)
    /\ credTimer' = FALSE
    /\ UNCHANGED <<credConfig, credFile, credWatched, credPool, credPending, credEdited>>

\* The transaction takes its snapshot and changes the live configuration, or the mutator throws
BeginTransaction(o) ==
    LET ch == credOp[o].change IN
    /\ HoldsQueue(o) /\ credOp[o].pc = "queued" /\ ch.kind # "reload"
    /\ IF Refuses(credConfig, ch)
       THEN /\ credOp' = [credOp EXCEPT ![o] = EndedCredOp]
            /\ credQueue' = Tail(credQueue)
            /\ UNCHANGED credConfig
       ELSE /\ credConfig' = Mutated(credConfig, ch)
            /\ credOp' = [credOp EXCEPT ![o] = CredOp("writing", ch, credConfig,
                             ch.who \in Groups /\ credConfig.creds[ch.who] # 0)]
            /\ UNCHANGED credQueue
    /\ UNCHANGED <<credFile, credWatched, credTimer, credPool, credPending, credEdited>>

\* doWrite: the temporary file is written and renamed
CommitTransaction(o) ==
    /\ credOp[o].pc = "writing"
    /\ credFile' = credConfig
    /\ credTimer' = credWatched
    /\ credEdited' = FALSE
    /\ credQueue' = Tail(credQueue)
    /\ credOp' = [credOp EXCEPT ![o] = CredOp("closing", credOp[o].change, None, credOp[o].had)]
    /\ UNCHANGED <<credConfig, credWatched, credPool, credPending>>

\* Mutant: no rollback
FailWithoutRollback(o) ==
    /\ credOp[o].pc = "writing"
    /\ credQueue' = Tail(credQueue)
    /\ credOp' = [credOp EXCEPT ![o] = EndedCredOp]
    /\ UNCHANGED <<credConfig, credFile, credWatched, credTimer, credPool, credPending, credEdited>>

\* The connection of k after the configuration before is back: own, if it has the credential of that,
\* and late, if it was made with the one that is taken back
AfterRollback(k, before) ==
    LET e == credPool[k] IN
    IF e = None \/ e.how \in {"bare", "left"} THEN e
    ELSE IF e.cred = KeyCredential(before, k) THEN Connection(e.cred, "own")
    ELSE IF e.cred = KeyCredential(credConfig, k) THEN Connection(e.cred, "late")
    ELSE e

\* doWrite throws: the snapshot is the configuration again. Connections made meanwhile stay.
FailTransaction(o) ==
    /\ credOp[o].pc = "writing"
    /\ credConfig' = credOp[o].snapshot
    /\ credPool' = [k \in PoolKeys |-> AfterRollback(k, credOp[o].snapshot)]
    /\ credQueue' = Tail(credQueue)
    /\ credOp' = [credOp EXCEPT ![o] = EndedCredOp]
    /\ UNCHANGED <<credFile, credWatched, credTimer, credPending, credEdited>>

\* After the transaction, and a reload before it ends: the connections that the change concerns. What
\* addGroup, addGroupMembers and removeGroupMembers close depends on the group's credential by now.
CloseChanged(o) ==
    LET ch == credOp[o].change IN
    /\ credOp[o].pc = "closing"
    /\ DropConnections(Closes(ch, HasCredential(o)))
    /\ credOp' = [credOp EXCEPT ![o] = EndedCredOp]
    /\ credQueue' = IF ch.kind = "reload" THEN Tail(credQueue) ELSE credQueue
    /\ UNCHANGED <<credConfig, credFile, credWatched, credTimer, credPending, credEdited>>

\* The connection of k after a close that ended with the bare one
AfterRejection(k) ==
    LET e == credPool[k] IN
    IF k = BareKey \/ e = None THEN None
    ELSE IF e.cred = KeyCredential(credConfig, k) THEN e
    ELSE Connection(e.cred, "left")

\* closeService closes the bare connection first; when that is rejected the others stay
CloseChangedRejected(o) ==
    LET ch == credOp[o].change IN
    /\ credOp[o].pc = "closing" /\ ch.kind # "reload"
    /\ credPool[BareKey] # None /\ BareKey \in Closes(ch, HasCredential(o))
    /\ credPool' = [k \in PoolKeys |-> AfterRejection(k)]
    /\ credOp' = [credOp EXCEPT ![o] = EndedCredOp]
    /\ UNCHANGED <<credConfig, credFile, credWatched, credTimer, credQueue, credPending, credEdited>>

\* reloadFromDisk reads the file, in its turn of the queue; one that is missing, malformed or invalid
\* ends it with nothing changed
ReadCredentials(o) ==
    /\ HoldsQueue(o) /\ credOp[o].pc = "queued" /\ credOp[o].change.kind = "reload"
    /\ IF credFile = Unreadable
       THEN /\ credOp' = [credOp EXCEPT ![o] = EndedCredOp]
            /\ credQueue' = Tail(credQueue)
            /\ UNCHANGED credEdited
       ELSE /\ credOp' = [credOp EXCEPT ![o] = CredOp("reading", Reload, credFile, FALSE)]
            /\ credEdited' = FALSE
            /\ UNCHANGED credQueue
    /\ UNCHANGED <<credConfig, credFile, credWatched, credTimer, credPool, credPending>>

\* It stores what it read, which may be an older file by now; the connections are closed next
ReloadCredentials(o) ==
    /\ credOp[o].pc = "reading"
    /\ credConfig' = credOp[o].snapshot
    /\ credOp' = [credOp EXCEPT ![o] = CredOp("closing", Reload, None, FALSE)]
    /\ UNCHANGED <<credFile, credWatched, credTimer, credQueue, credPool, credPending, credEdited>>

\* Somebody else writes the file
WriteCredentials(file) ==
    /\ credFile' = file
    /\ credTimer' = credWatched
    /\ credEdited' = TRUE
    /\ UNCHANGED <<credConfig, credWatched, credQueue, credOp, credPool, credPending>>

\* An administrator edits it, for which a changed default stands, or breaks or removes it
EditCredentials(d) ==
    /\ ~credEdited /\ credFile.default # d
    /\ WriteCredentials([credFile EXCEPT !.default = d])
BreakCredentials == ~credEdited /\ WriteCredentials(Unreadable)

-------------------------------------------------------------------------------
\* An attempt to connect key begins with cred
BeginConnecting(key, cred) ==
    /\ credPool[key] = None
    /\ \A p \in credPending : p.key # key
    /\ Cardinality(credPending) < MaxConnects
    /\ credPending' = credPending \cup
          {[key |-> key, cred |-> cred,
            how |-> IF cred = KeyCredential(credConfig, key) THEN "own" ELSE "bare"]}
    /\ UNCHANGED <<credConfig, credFile, credWatched, credTimer, credQueue, credOp, credPool, credEdited>>

\* A call of u: its credential is resolved from the live configuration, merged into the service's and
\* expanded for u; the connection of its key is used, or the attempt under way, or a new one begun
CredentialCall(u) ==
    /\ ~(Resolve(credConfig, u) = NoResolution /\ Required)
    /\ BeginConnecting(PoolKey(credConfig, u, Templated), Resolve(credConfig, u).cred)

\* The bare service is connected without any credential, even when there is a default: at the start, by
\* MCP2CLI_PRECONNECT, and by GET /api/services/:name/status, which counts the tools of a service that is
\* connected under whatever key
Preconnect == ~Required /\ BeginConnecting(BareKey, 0)
AskStatus == (\E k \in PoolKeys : credPool[k] # None) /\ BeginConnecting(BareKey, 0)

\* An attempt registers its connection, or fails. What it was begun with may not be the credential of its
\* key any more.
EndConnecting(p, ok) ==
    /\ p \in credPending
    /\ credPending' = credPending \ {p}
    /\ IF ok
       THEN credPool' = [credPool EXCEPT ![p.key] = Connection(p.cred,
                           IF p.cred = KeyCredential(credConfig, p.key) THEN "own"
                           ELSE IF p.how = "own" THEN "late"
                           ELSE "bare")]
       ELSE UNCHANGED credPool
    /\ UNCHANGED <<credConfig, credFile, credWatched, credTimer, credQueue, credOp, credEdited>>

CredNext ==
    \/ \E o \in CredRequests, change \in CredentialChanges \cup GroupChanges \cup {Reload} : AskChange(o, change)
    \/ CredTimerFires
    \/ \E o \in CredOps :
          \/ BeginTransaction(o) \/ CommitTransaction(o) \/ FailTransaction(o)
          \/ CloseChanged(o) \/ CloseChangedRejected(o) \/ ReadCredentials(o) \/ ReloadCredentials(o)
    \/ \E d \in 0..MaxCred : EditCredentials(d)
    \/ BreakCredentials
    \/ \E u \in Users : CredentialCall(u)
    \/ Preconnect \/ AskStatus
    \/ \E p \in credPending, ok \in BOOLEAN : EndConnecting(p, ok)

CredSpec == CredInit /\ [][CredNext]_credVars

-------------------------------------------------------------------------------
CredSettled == credQueue = <<>> /\ ~credTimer /\ \A o \in CredOps : credOp[o].pc \in {"idle", "done"}

\* While no transaction or reload is in the queue, memory and file agree, unless somebody else changed
\* the file: a change whose write failed leaves no trace (credential-manager.ts 418-428).
CredentialsInFile == credQueue = <<>> /\ ~credEdited => credConfig = credFile

\* Changing credentials evicts stale connections (credential-manager.ts 189, 205, 230, 250, 307, 330,
\* 363), as far as it does: once every change has ended, a pooled connection has the credential that its
\* key stands for, unless that was changed between its resolution and its registration or was taken back
\* by a failed write (late), or the close was rejected (left).  Only the bare connection is ever begun
\* without its credential: preconnect and the status request do not look for the default (bare).
StaleEvicted ==
    /\ CredSettled => \A k \in PoolKeys :
          credPool[k] # None /\ credPool[k].how = "own" => credPool[k].cred = KeyCredential(credConfig, k)
    /\ \A k \in PoolKeys : credPool[k] # None /\ credPool[k].how = "bare" => k = BareKey
===============================================================================
