# mcp2cli in TLA+

A verification project for mcp2cli, the command line client that turns MCP
servers into shell commands through a daemon. The specifications are written
from the code under `src/`; this file says which part each one models, what the
model checker and the prover establish, and what is still missing.

## 1. The system

`mcp2cli <service> <tool> ...` runs as a short-lived process. It finds a local
daemon (or a remote one), starts it if there is none, and posts the call to it.
The daemon keeps one connection per service (per service and user where
credentials differ) to the MCP servers behind it, over stdio, HTTP or
WebSocket.

| Component | State it keeps | Operations | What is hard about it |
|---|---|---|---|
| Connection pool (`daemon/pool.ts`) | `connections`, `pending` maps | getConnection, closeService, closeServicePattern, closeAll, preconnectAll | every operation awaits in the middle; entries are read before an await and deleted by key after it |
| Circuit breaker (`resilience/circuit-breaker.ts`) | one file per pool key: state, failureCount, openedAt | shouldAttemptHttp, recordFailure, recordSuccess | unlocked read-modify-write by the daemon and by CLI processes, cooldown, a lost or unwritable file |
| Daemon lifecycle (`process/client.ts`, `process/liveness.ts`, `daemon/index.ts`, `daemon/idle.ts`, `cli/commands/daemon.ts`) | PID file, socket, start lock; the daemon's active-request count and idle timer | ensureDaemon, getDaemonStatus, cleanStaleDaemon, startDaemon, gracefulShutdown, stop | several CLI processes and several daemons act on the same paths, one file operation at a time; crashes leave files behind |
| Service configuration (`daemon/config-manager.ts`, `daemon/file-watch.ts`) | configuration in memory and on disk, write lock | add, update, remove, import, reload (by request and by the watcher) | each closes pool connections between reading and storing |
| Credentials (`credentials/*`, `daemon/credential-merge.ts`) | users, groups, defaults in memory and on disk; a promise queue | set, remove, group operations, reload | transactions expose uncommitted state; caches and connections must be invalidated for everyone affected |
| Tokens (`daemon/auth-provider.ts`) | token entries, lookup maps, file | authenticate, refresh, reload | refresh and the watcher's reload replace the same array around awaits |
| Schema cache (`cache/*`, `schema/cached.ts`, `daemon/drift-hook.ts`) | one file per service or credential key | read with TTL, temp-and-rename write, clear, drift check | late fire-and-forget writes, a temporary name shared within a process |
| Client routing (`process/client.ts`, `process/remote-discovery.ts`) | none that lasts | local, remote, remote with local fallback, retries with backoff, auth recovery | a lost answer looks like a failed call |
| Server (`daemon/server.ts`) | metrics, rate and session state | one handler per route | order of validation, access, pool, timeout, audit and metrics; shutdown under calls |
| Transports (`connection/*`) | child process, stdout buffer | start, send, close with escalation | close during reads, buffer limit |
| Audit log (`logger/audit.ts`) | write queue, file | write, rotate, flush | rotation by several processes |
| Skill files (`generation/*`) | files with generated and manual sections | generate, merge, preserve, regenerate on drift | manual edits between read and write |
| Access filter, validation, parsing, introspection, config loading, formats, CLI commands | none | pure functions and sequential commands | only their algorithms |

Interactions: the CLI talks to the daemon over the socket; server handlers call
the configuration and credential managers and the pool; both managers call
`pool.closeService`; the pool calls the transports and the breaker, and after a
new connection the drift hook, which writes the cache and the skill files; the
file watcher calls the three reload functions.

`PROJECT.json` lists every component with its status, and every hazard with the
line where it bites and the properties aimed at it.

## 2. Modules

| Module | What it is |
|---|---|
| `ConnectionPool`, `MCConnectionPool`, `ConnectionPoolProofs` | the pool from await to await, its instance for TLC, theorems about it |
| `BreakerMachine`, `CircuitBreaker`, `CircuitBreakerProofs` | the breaker as its header promises it, and as processes and a file; theorems about it |
| `DaemonLifecycle`, `MCDaemonLifecycle`, `DaemonLifecycleProofs` | CLI processes, runtime files and daemons, their instance, theorems about them |
| `RequestRules` | what is decided about one request: its route, the tool that a name stands for, the access policy |
| `Requests`, `RequestsProofs` | tool calls from the client through retries, fallback and both daemons' handlers, or made directly; theorems about them, `RequestRules` and `TokenStore` |
| `TokenStore` | bearer tokens: authentication, rotation, the file and its reload |
| `StdioTransport` | one child process, its output cut into messages, and its end |
| `MCRequestPath` | the instance of the four modules above |
| `ConfigStore`, `ConfigStoreProofs` | services.json, the copy in memory, the connections made with it, imports, bootstrap; theorems about them |
| `CredentialRules`, `CredentialStore` | who gets which credential; credentials.json, transactions and the connections they close |
| `SchemaCache`, `SchemaCacheProofs` | the cache files of a service under listings, drift checks and commands; theorems about them and the skills of `StoreRules` |
| `SkillFiles` | SKILL.md under its regenerations and its user |
| `AuditLog` | the log, its backup and the processes that rotate it |
| `StoresProofs` | theorems about `CredentialRules`, `CredentialStore`, the sources of `StoreRules` and `AuditLog` |
| `Orders` | the elements of a set in their order, and the part of a sequence at a set of places |
| `TextProofs` | theorems about `StdioTransport` and `SkillFiles` |
| `StoreRules` | what is computed from the stores: sources of credentials, grouping, diff, hashes, drift |
| `MCDaemonStores` | the instance of the six groups above |

Comments marked "Mutant" precede variants of an action or operator that contain
a plausible bug. No specification uses them; each is named in `PROJECT.json` with
the property that catches it.

How they compose. The server's handlers are where the parts meet, and each
module takes from its neighbours what its own properties need: `Requests` has a
pool of one key per daemon whose entries may break, be replaced or be evicted at
any time, which is what `ConnectionPool` does in detail; `ConfigStore` and
`CredentialStore` have the pool as the version each connection was made with,
and an attempt under way with the version it read; `SchemaCache` starts a drift
check with a connection, whose regeneration is an action of `SkillFiles`; the
policy that a handler asks is `RequestRules`. `MCRequestPath` and
`MCDaemonStores` put the parts of one request, and the stores of one daemon,
into one specification. Those parts share no variable: a behaviour explores one,
its `focus`, while the others rest in one initial state, so that their product,
which would say nothing that the parts do not, is not enumerated.

### ConnectionPool

JavaScript runs from one await to the next without interruption, so an action is
the code between two awaits, with everything that code changes. A call `r` of
`getConnection` has a program counter `pc[r]`: it checks a pooled connection
(`health`), closes a stale one (`closingStale`), waits for a connect promise
(`waiting`, the promise of call `joined[r]`), and has `returned` or `threw`. The
connect promise that call `r` created has its own counter `attempt[r]`, because
others may wait for it: `gate` (secrets, then `shouldAttemptHttp`), `primary`,
`recordSuccess`, `recordFailure`, `fallback`, and the two settled states. HTTP
and WebSocket share this shape; a stdio backend goes from `gate` to `primary` to
the end. A `closer` is one invocation of the three close operations with the
snapshot (`todo`) it still walks, the connection it is closing (`now`), and the
connections it found when it began (`had`, history).

Abstractions: a connection is the pair of the call that made it and the leg
(configured backend or stdio fallback); the clock is left out, so a health check
may fail at any time; waiters of a promise resume in the step that settles it,
since their continuations run before the next event; a rejected `close()` leaves
the status `closing`. Pool keys are the base64url of a JSON pair
(`credential-merge.ts:102`), injective, hence model values with a `Base`.
`preconnectAll` issues plain `getConnection` calls; its 15 second timeout stops
its own waiting and cancels nothing, so it adds no behaviour.

### BreakerMachine and CircuitBreaker

`CircuitBreaker` has the file, and for each process the step of
`connectHttpWithFallback` it is at and the state it has computed but not saved.
`recordFailure` is two steps (load and compute, save); `recordSuccess` saves a
constant. Data: `failureCount` saturates at the threshold, the only number it is
compared with; `openedAt` is kept as an age that saturates at the cooldown. `up`
and `diskOk` are the backend and the disk; a save may fail, and the file may be
lost between calls. A save takes less than the cooldown (a millisecond against
thirty seconds). `streak` is history: failures saved since the last saved
success. `BreakerMachine` is the three-state machine in the code's header;
`Machine` maps `resolveState(file)` and the count to it.

### DaemonLifecycle

The three runtime files are variables, and every file operation, health request
and spawn is a step. A CLI process runs `ensureDaemon` and one request, or
`daemon stop`; process `c` spawns at most one daemon, which is also called `c`.
The daemon side is `startDaemon` step by step, the idle timer and
`gracefulShutdown`. `activeCount` and `timer` are the two fields of `IdleTimer`:
a handler (`server[c]`) begins with `OnRequestStart` and ends with
`OnRequestEnd`, also after its client has given up, and the callback,
`IdleTimeout`, asks for neither. `/shutdown` is answered first and acts 100 ms
later (`shutdownAsked`); it may be refused, since `daemon stop` sends no token.
A bound socket path that another daemon has bound since is replaced or refused
by the runtime: both are allowed. `MayBeSlow` lets a serving daemon miss the one
second of the health request and the startup timeout of a waiting process, so
that it counts as stale. `LongStartup` is a `MCP2CLI_STARTUP_TIMEOUT` above the
30 seconds after which a lock is stale: then the lock of a live holder may be
stolen. Bounds: each process runs once, so there are at most as many daemons as
processes. Left out are `MCP2CLI_IDLE_TIMEOUT=0`, which disables the idle exit,
and TCP mode, which has no runtime files.

### RequestRules and Requests

`RouteOf` is `resolveSource` with the default of `fetchDaemon`: an entry of the
configuration, or none, its platforms, and what discovery answers. A policy is
two sets of names, because what a glob pattern does is match some names; a name
is a base with the prefix of the service before it or not, which is all that
`resolveToolName` looks at. A case has two policies, because the CLI's
services.json and the daemon's need not be the same file: a remote daemon has its
own, and a service that the CLI's file lacks has no policy there (`Listed` is
then every tool). `ToolCalls`, `DirectCalls` and `BatchCalls` are the tools that
a name reaches by each way: a direct call asks the CLI's policy about the name
that was typed and resolves it afterwards, the daemon asks about the tool, and
does not know the prefix when the pool key is that of a credential (`keyed`).

A call `c` of `Requests` is one `fetchDaemon` or, with `MCP2CLI_NO_DAEMON`, one
connection made by the CLI; a request is the triple of call, daemon and attempt,
and has a handler that goes on when its client has given up. The client's steps
are the outcomes of one fetch: lost or out of time (`LoseRequest`), or answered
(`ReceiveLocal`, `ReceiveRemote`), each with everything up to the next await:
the next attempt, the fallback or the end. The handler's steps are those between
the awaits of `POST /call`: authentication, `getConnection`, resolving the name
and calling the tool, the answer or the timer, the eviction of the connection
and the answer to the client. `ran` records that the tool was run; a broken
connection may have run it or not. A direct call opens a transport, shakes hands,
for HTTP falls back to SSE with a second transport, resolves, calls and closes.
Abstractions: the remote daemons are one, the deadline and the backoff are a step
that may happen at any time, and an attempt is numbered through, first those at
the remote daemon.

### TokenStore

A token is its number in the order of issue: 32 random bytes do not repeat. The
file, the entries, and the map that authenticates are three sets, since
`persistTokens` writes the entries while the map still has the old ones. The
chain of promises of `withRefreshLock` is a queue. `Rotate` replaces the entry
and issues the number, `WriteTokens` takes the entries of that moment, which a
reload may have replaced in between: `clobbered` remembers for which refreshes.
Entries may be added and removed by hand, also into an invalid file.

### StdioTransport

The output of the child is a sequence of units, each a fixed part of
`MAX_LINE_BUFFER`: the line it is of, its place in it and whether it ends it. A
chunk is any prefix of what is in the pipe. `Kept` is the guard against overflow,
`Messages` the lines that parse, since a line without its beginning does not.
`InOrder` of `Orders`, which sorts a set, stands where `SetToSortSeq` would: the
prover cannot look into a recursive operator.
`close` escalates from end-of-file to SIGTERM to SIGKILL; what the child heeds is
its own choice until it is killed.

### ConfigStore

A configuration maps a service to a version, 0 for none. The file is a
configuration or `Torn`: `Bun.write` truncates and then writes, and a reader in
between fails to parse. An operation walks from reading or comparing through one
close per await to storing and writing; update, remove and a merge share the
close of one service, reload and replace the walk over those that differ. A
write that finds another under way throws after memory was changed: `Persist`
ends the operation and leaves memory as it is. History: `excused` says that
memory may differ from the file for good (a start with imported services or a
file edited before it was watched, a failed write or close, a reload that stores
what the file no longer has); `raced` names services connected with an old
version while it was replaced. `BootstrapReads` and `BootstrapWrites` are another
process.

### CredentialRules and CredentialStore

One service; credentials are numbers, 0 for none. `Resolve` is
`resolveWithSource`, `ReportedSource` the rule that the route of the admin works
out again. An operation waits in the queue, changes the live configuration,
writes, and then closes what `Closes` says for its kind; a reload closes inside
the queue. A connection is kept under the key of `PoolKey`, and `KeyCredential`
says what credential that key stands for. A reload reads the file, stores what it
read in a later step, and closes; one that finds no file, or one that does not
parse, changes nothing. A connection carries how it came to have its credential:
`own`, the one of its key; `bare`, begun without the default there was, as
`preconnectAll` and the status request do; `late`, with one that was changed or
taken back meanwhile; `left` behind by a close that was rejected. `credEdited` is
a file changed by hand and not read yet. The connections of a transaction are
closed in one step; the awaits inside are those of `ConnectionPool`. Two
coincidences of keys are left out: a user whose id begins with `user:` or
`group:` would share the key of a credential (`server.ts:165`), and a default
with `${caller.}` templates is expanded for the caller that connects the bare key
first, whose connection then serves the others (`server.ts:141-151`).

### SchemaCache

The tools of the service are its version. A writer is a listing, a drift check
or a command; those of the daemon share the temporary file of a key, a command
has its own. `MissCache` to `RenameTemp` is a listing that stores without being
waited for, `FindDrift` to `Regenerated` the drift check that clears key by key,
`AskSchema` to `StoreEntry` the schema command, which puts one tool of an answer
into the entry it reads afterwards: an entry is as old as its oldest tool.
`Reconcile` is the client's comparison of fingerprints. `checkedSchema` is the
newest version for which a drift check found drift, and so cleared the keys; a
check that finds none clears nothing (`NoDrift`). `overtaken` names the keys
stored by a writer that had listed before, or whose removal failed.

### SkillFiles

A file is a sequence of parts: frontmatter, markers, generated text, MANUAL
sections and other text. `InjectManualSections` and `MergeContent` do to the
parts what the code does to the lines, including that a second MANUAL section is
put before the end marker and stays after it too. A regeneration reads, plans
after reading again, and writes; `edited` names those during which the user has
saved.

### AuditLog

A file is named by its generation, because an open file is written to after it
was renamed. A task of a process looks at the size, unlinks the backup, renames,
opens and appends, each a step; it may fail or its process exit at any of them.
`overlapped` says that a rotation fell between the steps of another process.

### StoreRules

Operators over one case, which is a variable only so that TLC enumerates it: a
credentials configuration with up to three groups in any order, or the tools of a
service before and now. A hash is the value that is hashed, so collisions are
left out; the placeholder for a missing description is what the mapper does.

## 3. What TLC checks

| Run | Instance | Properties |
|---|---|---|
| `pool` | 3 calls, 1 close operation, a service and two user keys, limit 2, stdio and remote with fallback | `TypeOK`, `PendingExact`, `KeyIsolation`, `PooledIsOpen`, `EvictionComplete`, `DroppedOnlyByStaleReader` |
| `pool_live` | 2 calls, 1 close operation, 2 keys, limit 1, all backends and none | `CallsSettle`, `ClosersSettle` |
| `breaker` | 2 processes, threshold 3, cooldown 2 | `TypeOK`, `OpenAtThreshold`, `Recovers`, `OpensWhenDown` |
| `breaker_serial` | 1 process, the default threshold 5 | `NoSpuriousOpen`, `RefinesMachine` |
| `lifecycle` | 3 processes, one of which may be killed, calls and stops, failing and slow daemons, the default startup timeout | `TypeOK`, `LockHeldByStarter`, `StartSerialized`, `OnlyStopCutsCalls` |
| `lifecycle_live` | 2 processes, both may be killed, failing and slow daemons, `LongStartup` | `ProcsSettle`, `DaemonsExit` |
| `calls` | 2 refreshes, 3 tokens, 1 id; one call on every route with 3 attempts at the remote daemon, 1 before a fallback, and 3 connections per daemon; 2 names under every pair of policies, 1 base name; 3 lines of up to 4 units and a buffer of 2 | `AcceptsTheFile`, `RotatedOnce`, `RefreshesEnd`; `LocalRunsOnce`, `SentWhereServed`, `TimedOutDropped`, `CallsEnd`, `HandlersDrain`; `PolicyDecides`; `FramesIntact`, `ChildEnds` |
| `stores` | 1 service in 2 versions, 2 operations at once; 1 user, 1 group, 2 credential requests and the watcher, 1 connect at once; 2 cache keys, 1 listing, 2 drift checks, 1 command, 3 writers at once; 2 regenerations, 2 edits, 6 parts; 2 processes and 6 audit entries, a log of 2; 3 groups, 8 tool names | `MemoryFollowsFile`, `ConnectedAsConfigured`; `CredentialsInFile`, `StaleEvicted`; `NoStaleEntry`; `UserTextKept`; `KeepsNewest`; `ReportedAsResolved`, `SkillShowsDrift` |
| `pool_orphan` | 3 calls, 2 keys | `OneConnectionPerKey` is violated |
| `pool_limit` | 2 calls, limit 1 | `SizeBounded` is violated |
| `breaker_spurious` | 2 processes | `NoSpuriousOpen` is violated |
| `lifecycle_two` | 2 processes, no crash, no failure | `OneDaemonServes` is violated |

Why these bounds. In the pool, three calls are the smallest number for a
registered connection, a stale check and a reconnect at once, and two user keys
with their service are the smallest key set on which the exact key and the
scoped keys of `closeService` differ; the limit of 2 is reached. In the breaker
a threshold of 3 leaves room for a count lost, a count revived and the opening.
In the lifecycle three processes are a crashed holder and two that steal its
lock, or two calls that overlap in one daemon and a stop. One base name is two
tools, the prefixed and the short one, which is all that a resolution confuses.
In `calls`, one call is enough for what its properties tell apart, because its
handlers outlive their attempts and compete with each other for the pooled
connection: up to three of them in one daemon; with two calls and two attempts
(5 million states) the properties hold as well. Three tokens are the initial one
and two rotations or edits. A buffer of two units overflows with and without a
newline in it, and lines of four units are longer than it. In `stores`, two
operations are the smallest number of which one finds the other's write under
way, and one service is enough because no action treats two of them together but
the walk over closes. Two credential requests and the watcher are a transaction,
one queued behind it and a reload; no group has the service's credential and
another at the start (`SmallCredConfig`), but requests give them. Three groups
in any order tell the first from the first that is able. Two drift checks and a
listing or a command are one that clears, one that finds the cleared cache and
one that writes late. Two edits and two regenerations give every order of
reading, saving and writing; six parts hold two MANUAL sections and the copy of
one. Six audit entries fill the log of two entries three times. Symmetry is used
in the safety runs of the first three components only, over calls, user keys and
processes that the specification treats alike. Deadlock checking is off for the
pool, the lifecycle, the calls and the stores, whose calls, processes, requests
and edits all come to an end; the breaker never stops.

The four violated properties are what the code's own comments say of it, and the
runs show that it does otherwise; `PROJECT.json` quotes them under "findings".
`DroppedOnlyByStaleReader` states the positive side of the first: the only way a
usable connection leaves the pool unclosed is a reader of an older one.

What the properties of the last two runs say, in one sentence each.
`AcceptsTheFile`: after edits, rotations and failed writes the daemon accepts
exactly the tokens of the file. `RotatedOnce`: a token is exchanged once,
however many offer it. `LocalRunsOnce`: a call that only the local daemon can
serve runs its tool at most once. `SentWhereServed`: no attempt reaches a daemon
that the route, the credentials or a refusal exclude. `TimedOutDropped`: whoever
is told of a timeout leaves no hanging connection behind. `PolicyDecides`: a
listed tool is called itself or refused by the daemon, a daemon runs nothing it
blocks under any name, and a hidden tool is reached by its short name only.
`FramesIntact`: chunks and overflow lose nothing but the lines they must.
`MemoryFollowsFile` and `CredentialsInFile`: memory and disk agree when nothing
is under way. `ConnectedAsConfigured` and `StaleEvicted`: no connection outlives
what it was made with, but those of the named races and, for the default
credential, those begun without it. `NoStaleEntry`: after a drift check that
found drift no key has older tools. `UserTextKept`: regeneration keeps the
user's text and its order. `ReportedAsResolved`: the admin page tells the source
that is used. `SkillShowsDrift`: diff, drift, fingerprint and staleness tell the
same story. `KeepsNewest`: a crash during rotation never costs the newest
generation. The history variables in them (`excused`, `raced`, `late` and `left`
connections, `clobbered`, `overtaken`, `edited`, `overlapped`) name the races
that the code does lose; each property says that there is no other way to lose
it.

Disagreements that were met and that no run is spent on:

- `docs/REFERENCE.md:683` says that MANUAL sections are preserved; with two of
  them in a file, regeneration (`generation/preserve.ts:117`,
  `file-manager.ts:146-176`) puts a second copy of the second one before the end
  marker each time, which is why `UserText` looks outside the markers only.
- `docs/REFERENCE.md:239-241` says that a call is not retried blindly;
  `process/client.ts:424-459` and `494-505` send it again after a timeout, so
  that a tool may run at each attempt and once more locally: adding
  `\A c \in Calls : Cardinality(Ran(c)) <= 1` to the invariants of `calls`
  shows it.
- `docs/REFERENCE.md:520` says that changing credentials evicts stale
  connections. A connection made across the change, from a credential resolved
  before it or one that a failed write takes back, stays (`late`), as do those
  behind a close that is rejected (`left`). And with nothing changing,
  `preconnectAll` and the status request (`server.ts:832`) connect the bare key
  without the default credential; callers of the default are served from that
  connection then (`server.ts:141-151`). Without the guard `how = "own"`,
  `StaleEvicted` is violated by each of the three.
- `docs/REFERENCE.md:546` says that a policy restricts which tools are exposed. A
  direct call checks the name that was typed and resolves it afterwards
  (`tool-call.ts:151`, `278-288`): a blocked prefixed tool runs under its short
  name. The listings of the daemon (`/list-tools` and `/schema`,
  `server.ts:446-527`), grep, and the help of a service that the CLI's file lacks
  (`service-help.ts:34-46`) tell blocked tools too. `PolicyDecides` states the
  first exactly; for the second it says which listed tools the daemon refuses.
- A credential key of the schema cache may be older than the bare entry after a
  check that finds no drift, since `drift-hook.ts:40-51` looks at the bare entry
  only and `cache warm` renews just that one.

Fairness. The pool's awaits are bounded by the health check's timeout, the
transports' connect timeouts and the escalation of `close()`, so every started
call, attempt and close operation has weak fairness; nobody is obliged to start
one. The breaker's clients keep calling and time passes: weak fairness per client
and on `Tick`. CLI processes run on, a daemon's startup and shutdown do not hang
(shutdown is forced after ten seconds), and the idle timer of an idle daemon
fires. A client of `Requests` has a timer around each fetch and a bounded number
of attempts, so its steps are fair, as are the steps of a handler that the
daemon's own timers drive (connect, call, time out, reply) and those of a direct
call; that a tool answers is not assumed. A refresh that was asked for goes on,
the watcher's timer fires and its reload ends; `close()` waits for bounded times,
an exit is noticed, and a killed child exits, but a child that was only asked to
need not. A backend, a disk, a crash or a failure has no fairness.

## 4. What is proved

`ConnectionPoolProofs`, for every number of calls, close operations and keys and
every limit, from the assumptions that the three "none" values are not members of
the sets they complete and that `Base` maps keys to keys:

| Theorem | States |
|---|---|
| `TypeCorrect` | `Spec => []TypeOK` |
| `OneAttemptPerKey` | `Spec => []PendingExact` |
| `KeysIsolated` | `Spec => []KeyIsolation` |
| `PoolServesOpen` | `Spec => []PooledIsOpen` |
| `EvictsAllItFound` | `Spec => []EvictionComplete` |
| `DroppedByStaleReader` | `Spec => DroppedOnlyByStaleReader` |

The argument is one inductive invariant in five layers. `TypeInv` adds to the
types that a started call has a key. `AttemptInv` adds that a call before the
pending check has no attempt, and that a waiting call waits for an attempt of
its own key: without these two, `PendingExact` could be broken by a call whose
attempt is already under way. `Isolated` says that everything the pool holds, a
call checks or returned, and a close operation walks or closes was connected for
the key it stands under; it is preserved because the key of a started call and a
connected attempt never change (`MadeForGood`). `Shut` says that whatever a
health check or a close operation is closing is not open any more, and that an
attempt that is recording its success is; with `Isolated` a step that begins a
close removes the only key the connection can be under, which gives
`PooledIsOpen`. `Evicting` says that what a close operation found, and what is
pooled still, it has yet to close: a scoped key after the exact one, or an entry
of the snapshot; what it found was connected for good, so no attempt can put it
back. The action property needs no layer of its own: a step that empties or
replaces an entry closes what `Isolated` says was under that key, or works from
another connection of the key. `CloserReach` and `CloserCloses` summarise what
the seven close actions may do, `AttemptSummary` the eleven attempt actions, so
that each layer has a short proof per summary.

`RequestsProofs`, for every number of calls, attempts and connections, under
`RequestBounds` (the bounds are naturals, and at least one attempt is made):

| Theorem | States |
|---|---|
| `SentOnlyWhereServed` | `RequestSpec => []SentWhereServed` |
| `LocalCallRunsOnce` | `RequestSpec => []LocalRunsOnce` |
| `TimedOutIsDropped` | `RequestSpec => []TimedOutDropped` |

The invariant has five layers. `TypeInv` are the types. `FreshInv` says that a
request that a call has not come to yet has an untouched handler: a new attempt
never takes over an old handler, which is what makes the others stable.
`RouteInv` ties the target and the attempts of a call to its route, and with
`FreshInv` gives `SentWhereServed`: by it no handler but those on the route ever
left "idle". `RefusedInv` says that a local call which has come to its second
attempt was refused at its first, and a refused request has run nothing, so
`LocalRunsOnce` follows although the request is sent twice. `DroppedInv` says
that a connection on which a timeout was reported is closed and not pooled;
since a closed connection is never open again and only fresh ones enter the
pool, it is stable whoever acts on the pool in between. The actions are
summarised by what they may change (`CallSummary`, `HandlerSummary`,
`DirectSummary` and their parts), so that the layers have a proof per summary
and not one per action.

The same module has the theorems about what else a request passes, for any tools
and policies, and for any number of entries, refreshes and tokens, under
`TokenBounds` and `NothingRead` (the value for "nothing read" is no content):

| Theorem | States |
|---|---|
| `PoliciesDecide` | `PolicyDecides`, for every case of tools, key and two policies |
| `AcceptsWhatTheFileHas` | `TokenSpec => []AcceptsTheFile` |
| `TokenExchangedOnce` | `TokenSpec => []RotatedOnce` |

For the tokens, `Exclusive` says that a refresh under way is at the head of the
lock's queue, `FreshReads` that what a refresh or a reload has read is the file
unless a change still waits for its timer, `MapFollows` that the map is the file
once that is applied. For the second theorem `Gone` follows a token that was
exchanged: it is in no file, in no content that somebody will write, and so in
nothing that the next refresh may find; `clobbered` is where a reload put it back.

`CircuitBreakerProofs`, for every threshold and cooldown above zero:

| Theorem | States |
|---|---|
| `BreakerTypes` | `Spec => []TypeOK` |
| `OpensAtThreshold` | `Spec => []OpenAtThreshold` |
| `OneProcessRefines` | `Spec => RefinesMachine`, for one process |
| `OneProcessOpensRightly` | `Spec => []NoSpuriousOpen`, for one process |

The first two hold for any number of processes, however their saves overlap: a
computed state that is open has counted up to the threshold, whatever it
overwrites. The others assume `Clients = {p}`, because the run
`breaker_spurious` shows that two processes break them. `SerialInv` says that the
count in the file is the streak, and that what the process has computed is what
`recordFailure` makes of the file as it is now, up to an age that has grown
meanwhile; with it every step of the process is a step of `BreakerMachine` or
leaves it alone.

`DaemonLifecycleProofs`, for any number of processes, any of which may be killed:

| Theorem | States |
|---|---|
| `TypeCorrect` | `Spec => []TypeOK` |
| `LockBelongsToStarter` | `Spec => []LockHeldByStarter` |
| `StartsOneAtATime` | `Spec => []StartSerialized` |
| `IdleTimerSparesCalls` | `Spec => OnlyStopCutsCalls` |

`StartSerialized` is not inductive: `LockedIn` adds that before the first crash,
and without `LongStartup`, the lock is never old, nobody is about to unlink a
stale one, and every process between taking and releasing the lock is its owner,
hence the only one. After a crash, two processes may steal the same stale lock.
`IdleTimerSparesCalls` does not follow from the timer's step, which looks at
nothing: `IdleInv` says that a process has at most one handler, that the count of
a daemon is the number of its handlers (a cardinality, which each handler that
begins or ends moves by one), and that the timer runs only when there are none.

`ConfigStoreProofs`, for any number of services and operations and every bound
on the versions (`ConfigBounds`):

| Theorem | States |
|---|---|
| `MemoryIsTheFile` | `ConfigSpec => []MemoryFollowsFile` |
| `NoOutdatedConnection` | `ConfigSpec => []ConnectedAsConfigured` |

`WalkCovers` says that the walk of a reload or a replacement has still to pass
every service that differs between what it compared and what it will store, or
has closed it; `ClosedStays` that what an operation has closed is not connected
again but by somebody `raced` names. So storing the new configuration leaves no
connection behind, and `Agrees`, which is `ConnectedAsConfigured` at every
moment, is inductive. This is the case of two services at once that the run
leaves out.

`SchemaCacheProofs`, for any number of keys, listings, checks and commands, and
any two lists of tools:

| Theorem | States |
|---|---|
| `DriftLeavesNothingStale` | `CacheSpec => []NoStaleEntry` |
| `SkillsShowDrift` | `SkillShowsDrift`, for any two finite lists of tools with a name each |

`CurrentOrCleared` says that a key which no late writer has overtaken is empty,
at least as new as the newest check that found drift, or still to be cleared by
a check under way. For the skills, `SetToSeqLists` says that the order in which
`DetectPrefixGroups` takes a set of names has each of them once, so that its
chunks are disjoint and cover the names; by `FamilyPartition` and its companions
every way of forming the groups gives a partition of the tools, which is why the
rows of the reference files, read back by `--diff`, are the cached tools. That
the fingerprint tells drift and that the hash hides only a schema are facts
about two tools of one name, `FingerprintTellsDrift`, `NotStaleShows` and
`StaleWithoutDrift`.

`StoresProofs`, for any number of requests, any configuration, and any size of
the log and number of processes (`AuditBounds`):

| Theorem | States |
|---|---|
| `CredentialsAreInFile` | `CredSpec => []CredentialsInFile` |
| `StaleIsEvicted` | `CredSpec => []StaleEvicted` |
| `KeyStandsForCredential` | the key under which the pool keeps a caller's connection stands for the caller's credential |
| `ReportIsResolution` | `ReportedAsResolved` |
| `RotationKeepsNewest` | `AuditSpec => []KeepsNewest` |

`QueueInv` says that a transaction that has changed the live configuration, and
a reload until it has closed what it must, is alone at the head of the queue;
`RollbackFollows` that the snapshot such a transaction would go back to is the
file. `StaleEvicted` says nothing of a moment at which a change is under way,
and `EvictionInv` fills that gap: whatever `own` connection `ToBeClosed` does
not name, since no change that is stored has it still to close, is fresh with
respect to the configuration in force or, while a transaction may still fail, to
its snapshot. The heart is `ClosesWhatChanges`: when a mutator changes what a
key stands for, the close that belongs to its kind includes that key, for every
kind of change. That a key stands for the credential which its caller gets is
`KeyStandsForCredential`; the first group with a credential is a minimum over
places, which both sides of it name alike, and needs no induction. `BareInv` is
the other half: an attempt begins with the credential of its key, but for the
bare key. For the log, `Orderly` says that the log goes up to the newest entry
without a gap, that log and backup hold the newest entries between them, and
that whoever is rotating holds a log which has them all: by `FullHasNewest`, a
count of at least the limit without a gap leaves out none of them.

`TextProofs`, for any buffer and any number and length of lines
(`TransportAssumption`: the bounds are naturals and a line is not empty), and any
texts, sections and regenerations (`SkillAssumption`: `NoFile` is not a file):

| Theorem | States |
|---|---|
| `LinesDelivered` | `TransportSpec => []FramesIntact` |
| `UserTextSurvives` | `SkillSpec => []UserTextKept` |

For the transport, `Output` is what was read and not cut into lines followed by
what was not read, and `IsOutput` says that it is a piece of the child's output:
on every stretch of it places count up by one, and a line ends where the next
begins (`Stretch`). The piece stays one when its end grows (a unit written) and
when its beginning goes (`CutStep`: lines delivered, or an overflow). `Accounted`
says that the lines before the one at the start of the buffer were delivered in
their order or spoiled, and that this one is spoiled exactly when its beginning
is gone. `MessagesOf` is the step that matters: what a chunk's newlines cut off,
parsed, is the lines that end there in their order, without the first if its
beginning is gone. Orders of sets are unique (`OrderIsUnique`), so a sequence
built by appending is compared with `InOrder` of a set that grows.

For the skill files, `MarkersAt` says that a file has one start marker, and after
it one end marker; a skill file has both (`IsMarked`) or neither. `Assembled` and
`TakenApart` say that cutting such a file at its markers gives three parts
without others, and that a block between two such parts is a file whose text
outside the markers is theirs; with `TextAfterFront`, since the generated
frontmatter has no key of the user, `MergeKeeps` follows: a merge keeps the text
of the user and leaves one block. `InjectIsContent` says that what is generated
from the template has this shape, whatever MANUAL sections it takes over.
`SkillInv` adds what a planned write holds, content that keeps what the user
saved, unless somebody else has replaced that since (`edited`) or the mode is
`force`; this makes it inductive over the interleavings of regenerations and user.

Only model-checked: the liveness properties `CallsSettle`, `ClosersSettle`,
`Recovers`, `OpensWhenDown`, `ProcsSettle`, `DaemonsExit`, `RefreshesEnd`,
`CallsEnd`, `HandlersDrain` and `ChildEnds`, because the prover reaches neither
fairness nor ENABLED. Every invariant and action property of a passing run has a
theorem.

## 5. What could come next

A composition of `CredentialStore` with the cache keys of `SchemaCache`, in which
an identity names both: the hazard at `credential-manager.ts:479` needs it. Login
sessions. The reference files of a skill with the files that a new grouping
leaves behind. The window in which two processes probe a half-open circuit, as a
property of how many attempts a backend sees.

## 6. What is not modelled

`PROJECT.json` gives the reason per component. Text layout (formats, help,
templates, the admin page), parsing and validation of texts, the schema of files,
secret look-up, redaction and the MCP protocol itself stay outside; the pool and
the handlers see a connect, a health check or a call only as succeeding, failing
or not answering. Metrics are counters that nothing reads. TCP mode of the
daemon, signals other than those of `daemon stop`, login sessions and their rate
limit, and `open-brain-bootstrap`, which sets one credential through
`setCredential`, are left out. So are the scripts, the deployment files and the
tests of the repository, which are not part of the program.
