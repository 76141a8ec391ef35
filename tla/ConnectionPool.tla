---------------------------- MODULE ConnectionPool ----------------------------
(***************************************************************************)
(* The daemon's connection pool (src/daemon/pool.ts): getConnection,       *)
(* closeService, closeServicePattern and closeAll, interleaved at every    *)
(* await.  Between two awaits JavaScript runs without interruption, so     *)
(* each action below is the code from one await to the next.               *)
(*                                                                         *)
(* A connection is named <<r, leg>>: the call r whose connect attempt made *)
(* it, and whether it is the configured backend or the stdio fallback.     *)
(* Whoever waits for a promise resumes in the step that settles it: its    *)
(* continuation runs before the event loop takes the next event.           *)
(***************************************************************************)
EXTENDS Naturals, FiniteSets

CONSTANTS
    Calls,      \* invocations of getConnection
    Closers,    \* invocations of closeService, closeServicePattern, closeAll
    Keys,       \* pool keys: a service, or a service and a user
    Base,       \* the service (baseServiceName) a key belongs to
    MaxSize,    \* MCP2CLI_POOL_MAX
    Backends,   \* the configurations a call may come with, "absent" for none
    NoCall, NoConn, NoKey

ASSUME BaseAssumption == Base \in [Keys -> Keys]
ASSUME MaxSizeAssumption == MaxSize \in Nat
ASSUME NoCallAssumption == NoCall \notin Calls
ASSUME NoKeyAssumption == NoKey \notin Keys
ASSUME BackendsAssumption ==
    Backends \subseteq {"stdio", "remote", "remoteWithFallback", "absent"}

Legs  == {"primary", "fallback"}
Conns == Calls \X Legs
ASSUME NoConnAssumption == NoConn \notin Conns

VARIABLES
    connections,    \* key -> the pooled connection, or NoConn
    pending,        \* key -> the call whose connect promise is stored, or NoCall
    status,         \* connection -> none, open, closing, closed
    attempt,        \* call -> how far its connect promise is
    pc,             \* call -> where getConnection is
    key,            \* call -> its poolKey
    backend,        \* call -> the configuration it was given
    conn,           \* call -> the connection it checks, closes or returned
    joined,         \* call -> the call whose connect promise it awaits
    closer          \* closer -> [pc, target, todo, now, had]

callVars == <<pc, key, backend, conn, joined>>
vars == <<connections, pending, status, attempt, pc, key, backend, conn, joined, closer>>

AttemptStates == {"none", "gate", "primary", "recordSuccess", "recordFailure",
                  "fallback", "connected", "failed"}
InFlight == {"gate", "primary", "recordSuccess", "recordFailure", "fallback"}

Pooled(c)      == \E k \in Keys : connections[k] = c
Size           == Cardinality({k \in Keys : connections[k] # NoConn})
HasFallback(r) == backend[r] = "remoteWithFallback"
Remote(r)      == backend[r] \in {"remote", "remoteWithFallback"}

(* McpConnection.close() starts once: the second caller finds it closed.   *)
BeginClose(st, C) ==
    [c \in Conns |-> IF c \in C /\ st[c] = "open" THEN "closing" ELSE st[c]]

(***************************************************************************)
(* getConnection                                                           *)
(***************************************************************************)

(* From the pending check to the stored connect promise: no await between. *)
JoinOrConnect(r, k, b) ==
    \/ /\ pending[k] # NoCall
       /\ pc' = [pc EXCEPT ![r] = "waiting"]
       /\ joined' = [joined EXCEPT ![r] = pending[k]]
       /\ UNCHANGED <<pending, attempt>>
    \/ /\ pending[k] = NoCall
       /\ \/ connections[k] = NoConn /\ Size >= MaxSize
          \/ b = "absent"
       /\ pc' = [pc EXCEPT ![r] = "threw"]
       /\ UNCHANGED <<pending, attempt, joined>>
    \/ /\ pending[k] = NoCall
       /\ connections[k] # NoConn \/ Size < MaxSize
       /\ b # "absent"
       /\ pc' = [pc EXCEPT ![r] = "waiting"]
       /\ joined' = [joined EXCEPT ![r] = r]
       /\ pending' = [pending EXCEPT ![k] = r]
       /\ attempt' = [attempt EXCEPT ![r] = "gate"]

GetConnection(r, k, b) ==
    /\ pc[r] = "idle"
    /\ key' = [key EXCEPT ![r] = k]
    /\ backend' = [backend EXCEPT ![r] = b]
    /\ IF connections[k] # NoConn
       THEN /\ pc' = [pc EXCEPT ![r] = "health"]
            /\ conn' = [conn EXCEPT ![r] = connections[k]]
            /\ UNCHANGED <<pending, attempt, joined>>
       ELSE /\ JoinOrConnect(r, k, b)
            /\ UNCHANGED conn
    /\ UNCHANGED <<connections, status, closer>>

(* A connection that is being closed may still answer the ping.            *)
HealthOk(r) ==
    /\ pc[r] = "health"
    /\ status[conn[r]] \in {"open", "closing"}
    /\ pc' = [pc EXCEPT ![r] = "returned"]
    /\ UNCHANGED <<connections, pending, status, attempt, key, backend, conn, joined, closer>>

(* Mutant: the stale entry stays in the pool.                              *)
HealthFailKeepsEntry(r) ==
    /\ pc[r] = "health"
    /\ status' = BeginClose(status, {conn[r]})
    /\ pc' = [pc EXCEPT ![r] = "closingStale"]
    /\ UNCHANGED <<connections, pending, attempt, key, backend, conn, joined, closer>>

(* listTools failed or the health check timed out: the entry under the key *)
(* goes, whichever it is by now, and the connection that was checked is    *)
(* closed.                                                                 *)
HealthFail(r) ==
    /\ pc[r] = "health"
    /\ connections' = [connections EXCEPT ![key[r]] = NoConn]
    /\ status' = BeginClose(status, {conn[r]})
    /\ pc' = [pc EXCEPT ![r] = "closingStale"]
    /\ UNCHANGED <<pending, attempt, key, backend, conn, joined, closer>>

(* close() settled, either way: the code swallows its error.               *)
StaleClosed(r) ==
    /\ pc[r] = "closingStale"
    /\ \E ended \in {"closing", "closed"} :
         status' = [status EXCEPT ![conn[r]] = IF @ = "closed" THEN @ ELSE ended]
    /\ JoinOrConnect(r, key[r], backend[r])
    /\ conn' = [conn EXCEPT ![r] = NoConn]
    /\ UNCHANGED <<connections, key, backend, closer>>

(***************************************************************************)
(* The connect promise of call r                                           *)
(***************************************************************************)

Awaits(w, r) == pc[w] = "waiting" /\ joined[w] = r

Resolve(r, c) ==
    /\ attempt' = [attempt EXCEPT ![r] = "connected"]
    /\ pc' = [w \in Calls |-> IF Awaits(w, r) THEN "returned" ELSE pc[w]]
    /\ conn' = [w \in Calls |-> IF Awaits(w, r) THEN c ELSE conn[w]]
    /\ UNCHANGED <<key, backend, joined>>

(* Mutants: the promise instead of its connection is stored; the entry goes *)
(* under the base service; the settled promise stays in `pending'.          *)
RegisterStoresPromise(r, c) ==
    /\ connections' = [connections EXCEPT ![key[r]] = r]
    /\ pending' = [pending EXCEPT ![key[r]] = NoCall]
    /\ Resolve(r, c)
RegisterUnderBase(r, c) ==
    /\ connections' = [connections EXCEPT ![Base[key[r]]] = c]
    /\ pending' = [pending EXCEPT ![key[r]] = NoCall]
    /\ Resolve(r, c)
RegisterKeepsPending(r, c) ==
    /\ connections' = [connections EXCEPT ![key[r]] = c]
    /\ UNCHANGED pending
    /\ Resolve(r, c)

Register(r, c) ==
    /\ connections' = [connections EXCEPT ![key[r]] = c]
    /\ pending' = [pending EXCEPT ![key[r]] = NoCall]
    /\ Resolve(r, c)

(* Mutant: only the success path clears `pending'.                         *)
RejectKeepsPending(r) ==
    /\ attempt' = [attempt EXCEPT ![r] = "failed"]
    /\ pc' = [w \in Calls |-> IF Awaits(w, r) THEN "threw" ELSE pc[w]]
    /\ UNCHANGED <<connections, pending, key, backend, conn, joined>>

Reject(r) ==
    /\ pending' = [pending EXCEPT ![key[r]] = NoCall]
    /\ attempt' = [attempt EXCEPT ![r] = "failed"]
    /\ pc' = [w \in Calls |-> IF Awaits(w, r) THEN "threw" ELSE pc[w]]
    /\ UNCHANGED <<connections, key, backend, conn, joined>>

Proceed(r, phase) ==
    /\ attempt' = [attempt EXCEPT ![r] = phase]
    /\ UNCHANGED <<connections, pending, pc, key, backend, conn, joined>>

(* Secrets resolved, and for a remote backend shouldAttemptHttp said yes.  *)
GateOpen(r) ==
    /\ attempt[r] = "gate"
    /\ Proceed(r, "primary")
    /\ UNCHANGED <<status, closer>>

(* shouldAttemptHttp said no: the circuit is open.                         *)
CircuitOpen(r) ==
    /\ attempt[r] = "gate" /\ Remote(r)
    /\ IF HasFallback(r) THEN Proceed(r, "fallback") ELSE Reject(r)
    /\ UNCHANGED <<status, closer>>

SecretsFail(r) ==
    /\ attempt[r] = "gate"
    /\ Reject(r)
    /\ UNCHANGED <<status, closer>>

PrimaryOk(r) ==
    /\ attempt[r] = "primary"
    /\ status' = [status EXCEPT ![<<r, "primary">>] = "open"]
    /\ IF Remote(r) THEN Proceed(r, "recordSuccess")
                    ELSE Register(r, <<r, "primary">>)
    /\ UNCHANGED closer

PrimaryFail(r) ==
    /\ attempt[r] = "primary"
    /\ IF Remote(r) THEN Proceed(r, "recordFailure") ELSE Reject(r)
    /\ UNCHANGED <<status, closer>>

SuccessRecorded(r) ==
    /\ attempt[r] = "recordSuccess"
    /\ Register(r, <<r, "primary">>)
    /\ UNCHANGED <<status, closer>>

(* The breaker file could not be written.  The catch block around the      *)
(* connect runs although the connection is up, and nobody holds it.        *)
SuccessNotRecorded(r) ==
    /\ attempt[r] = "recordSuccess"
    /\ Proceed(r, "recordFailure")
    /\ UNCHANGED <<status, closer>>

FailureRecorded(r) ==
    /\ attempt[r] = "recordFailure"
    /\ IF HasFallback(r) THEN Proceed(r, "fallback") ELSE Reject(r)
    /\ UNCHANGED <<status, closer>>

FailureNotRecorded(r) ==
    /\ attempt[r] = "recordFailure"
    /\ Reject(r)
    /\ UNCHANGED <<status, closer>>

FallbackOk(r) ==
    /\ attempt[r] = "fallback"
    /\ status' = [status EXCEPT ![<<r, "fallback">>] = "open"]
    /\ Register(r, <<r, "fallback">>)
    /\ UNCHANGED closer

FallbackFail(r) ==
    /\ attempt[r] = "fallback"
    /\ Reject(r)
    /\ UNCHANGED <<status, closer>>

(***************************************************************************)
(* closeService, closeServicePattern, closeAll                             *)
(***************************************************************************)

ScopedEntries(s) ==
    {<<k, connections[k]>> : k \in {j \in Keys :
        j # s /\ Base[j] = s /\ connections[j] # NoConn}}

Evicts(s) == {e[2] : e \in ScopedEntries(s)} \cup ({connections[s]} \ {NoConn})

Progress(p, s, todo, c, had) ==
    [pc |-> p, target |-> s, todo |-> todo, now |-> c, had |-> had]

Idle == Progress("idle", NoKey, {}, NoConn, {})

(* Mutant: the loop closes the first entry of its snapshot again and again. *)
CloseNextRepeats(x, s, todo, st, had) ==
    IF todo = {}
    THEN /\ closer' = [closer EXCEPT ![x] =
              Progress("done", s, {}, NoConn, had)]
         /\ status' = st
         /\ UNCHANGED connections
    ELSE \E e \in todo :
         /\ connections' = [connections EXCEPT ![e[1]] = NoConn]
         /\ status' = BeginClose(st, {e[2]})
         /\ closer' = [closer EXCEPT ![x] =
              Progress("pattern", s, todo, e[2], had)]

(* The loop of closeServicePattern: drop the next entry of the snapshot by *)
(* its key and start closing the connection the snapshot holds.            *)
CloseNext(x, s, todo, st, had) ==
    IF todo = {}
    THEN /\ closer' = [closer EXCEPT ![x] =
              Progress("done", s, {}, NoConn, had)]
         /\ status' = st
         /\ UNCHANGED connections
    ELSE \E e \in todo :
         /\ connections' = [connections EXCEPT ![e[1]] = NoConn]
         /\ status' = BeginClose(st, {e[2]})
         /\ closer' = [closer EXCEPT ![x] =
              Progress("pattern", s, todo \ {e}, e[2], had)]

CloseServicePattern(x, s) ==
    /\ closer[x].pc = "idle"
    /\ CloseNext(x, s, ScopedEntries(s), status, {e[2] : e \in ScopedEntries(s)})
    /\ UNCHANGED <<pending, attempt, callVars>>

CloseService(x, s) ==
    /\ closer[x].pc = "idle"
    /\ IF connections[s] # NoConn
       THEN /\ connections' = [connections EXCEPT ![s] = NoConn]
            /\ status' = BeginClose(status, {connections[s]})
            /\ closer' = [closer EXCEPT ![x] =
                 Progress("exact", s, {}, connections[s], Evicts(s))]
       ELSE CloseNext(x, s, ScopedEntries(s), status, Evicts(s))
    /\ UNCHANGED <<pending, attempt, callVars>>

(* close() settled: ended is "closing" when it rejected.                   *)
AfterClose(x, ended) ==
    [status EXCEPT ![closer[x].now] = IF @ = "closed" THEN @ ELSE ended]

(* Mutant: closeService stops after the exact key.                         *)
ExactClosedOnly(x) ==
    /\ closer[x].pc = "exact"
    /\ CloseNext(x, closer[x].target, {}, AfterClose(x, "closed"), closer[x].had)
    /\ UNCHANGED <<pending, attempt, callVars>>

ExactClosed(x) ==
    /\ closer[x].pc = "exact"
    /\ CloseNext(x, closer[x].target, ScopedEntries(closer[x].target),
                 AfterClose(x, "closed"), closer[x].had)
    /\ UNCHANGED <<pending, attempt, callVars>>

(* The close of the exact entry is awaited without a catch: closeService   *)
(* rejects and the scoped connections stay.                                *)
ExactCloseThrew(x) ==
    /\ closer[x].pc = "exact"
    /\ closer' = [closer EXCEPT ![x] =
         Progress("threw", closer[x].target, {}, NoConn, closer[x].had)]
    /\ UNCHANGED <<connections, pending, status, attempt, callVars>>

ScopedClosed(x) ==
    /\ closer[x].pc = "pattern"
    /\ \E ended \in {"closing", "closed"} :
         CloseNext(x, closer[x].target, closer[x].todo, AfterClose(x, ended), closer[x].had)
    /\ UNCHANGED <<pending, attempt, callVars>>

AllEntries == {<<k, connections[k]>> : k \in {j \in Keys : connections[j] # NoConn}}

(* Mutant: the map is cleared before its entries are read.                 *)
CloseAllClearsFirst(x) ==
    /\ closer[x].pc = "idle"
    /\ closer' = [closer EXCEPT ![x] = Progress("done", NoKey, {}, NoConn, {})]
    /\ connections' = [k \in Keys |-> NoConn]
    /\ UNCHANGED <<status, pending, attempt, callVars>>

CloseAll(x) ==
    /\ closer[x].pc = "idle"
    /\ closer' = [closer EXCEPT ![x] =
         Progress(IF AllEntries = {} THEN "done" ELSE "all", NoKey, AllEntries, NoConn,
                  {e[2] : e \in AllEntries})]
    /\ status' = BeginClose(status, {e[2] : e \in AllEntries})
    /\ connections' = [k \in Keys |-> NoConn]
    /\ UNCHANGED <<pending, attempt, callVars>>

(* One of the closes of Promise.allSettled settled.                        *)
OneOfAllClosed(x) ==
    /\ closer[x].pc = "all"
    /\ \E e \in closer[x].todo, ended \in {"closing", "closed"} :
         /\ status' = [status EXCEPT ![e[2]] = IF @ = "closed" THEN @ ELSE ended]
         /\ closer' = [closer EXCEPT ![x] =
              Progress(IF closer[x].todo = {e} THEN "done" ELSE "all", NoKey,
                       closer[x].todo \ {e}, NoConn, closer[x].had)]
    /\ UNCHANGED <<connections, pending, attempt, callVars>>

-----------------------------------------------------------------------------

Init ==
    /\ connections = [k \in Keys |-> NoConn]
    /\ pending = [k \in Keys |-> NoCall]
    /\ status = [c \in Conns |-> "none"]
    /\ attempt = [r \in Calls |-> "none"]
    /\ pc = [r \in Calls |-> "idle"]
    /\ key = [r \in Calls |-> NoKey]
    /\ backend = [r \in Calls |-> "absent"]
    /\ conn = [r \in Calls |-> NoConn]
    /\ joined = [r \in Calls |-> NoCall]
    /\ closer = [x \in Closers |-> Idle]

CallStep(r) ==
    \/ \E k \in Keys, b \in Backends : GetConnection(r, k, b)
    \/ HealthOk(r) \/ HealthFail(r) \/ StaleClosed(r)

AttemptStep(r) ==
    \/ GateOpen(r) \/ CircuitOpen(r) \/ SecretsFail(r)
    \/ PrimaryOk(r) \/ PrimaryFail(r)
    \/ SuccessRecorded(r) \/ SuccessNotRecorded(r)
    \/ FailureRecorded(r) \/ FailureNotRecorded(r)
    \/ FallbackOk(r) \/ FallbackFail(r)

CloserStart(x) ==
    \/ \E s \in Keys : CloseService(x, s) \/ CloseServicePattern(x, s)
    \/ CloseAll(x)

CloserStep(x) ==
    ExactClosed(x) \/ ExactCloseThrew(x) \/ ScopedClosed(x) \/ OneOfAllClosed(x)

Next ==
    \/ \E r \in Calls : CallStep(r) \/ AttemptStep(r)
    \/ \E x \in Closers : CloserStart(x) \/ CloserStep(x)

(* Every await of the pool is bounded: listTools by the health check's      *)
(* timeout, a connect by its transport's, close() by its escalation to      *)
(* SIGKILL.  A caller need not call.                                        *)
Fairness ==
    /\ \A r \in Calls :
         /\ WF_vars(HealthOk(r) \/ HealthFail(r) \/ StaleClosed(r))
         /\ WF_vars(AttemptStep(r))
    /\ \A x \in Closers : WF_vars(CloserStep(x))

Spec == Init /\ [][Next]_vars
FairSpec == Spec /\ Fairness

-----------------------------------------------------------------------------
(***************************************************************************)
(* Properties                                                              *)
(***************************************************************************)

Entries      == Keys \X Conns
Statuses     == {"none", "open", "closing", "closed"}
CallStates   == {"idle", "health", "closingStale", "waiting", "returned", "threw"}
CloserStates == {"idle", "exact", "pattern", "all", "done", "threw"}

CloserRecords ==
    [pc : CloserStates, target : Keys \cup {NoKey}, todo : SUBSET Entries,
     now : Conns \cup {NoConn}, had : SUBSET Conns]

TypeOK ==
    /\ connections \in [Keys -> Conns \cup {NoConn}]
    /\ pending \in [Keys -> Calls \cup {NoCall}]
    /\ status \in [Conns -> Statuses]
    /\ attempt \in [Calls -> AttemptStates]
    /\ pc \in [Calls -> CallStates]
    /\ key \in [Calls -> Keys \cup {NoKey}]
    /\ backend \in [Calls -> Backends \cup {"absent"}]
    /\ conn \in [Calls -> Conns \cup {NoConn}]
    /\ joined \in [Calls -> Calls \cup {NoCall}]
    /\ closer \in [Closers -> CloserRecords]

(* "Guards against concurrent duplicate spawns": the attempt stored under a *)
(* key is under way, and it is the only one under way for that key.  A      *)
(* settled promise left in `pending' would poison its key for good.         *)
PendingExact ==
    \A r \in Calls, k \in Keys :
        pending[k] = r <=> (attempt[r] \in InFlight /\ key[r] = k)

(* Connections are scoped to their key (one user's credentials): what a key *)
(* holds, what a call is checking and what it was handed were all made by a *)
(* call with that very key.                                                 *)
KeyIsolation ==
    /\ \A k \in Keys : connections[k] # NoConn => key[connections[k][1]] = k
    /\ \A r \in Calls : conn[r] # NoConn => key[conn[r][1]] = key[r]

(* A connection is out of the pool before its close begins, whoever closes  *)
(* it and whatever the others do meanwhile: the pool never serves one that  *)
(* the pool itself has begun to close.                                      *)
PooledIsOpen ==
    \A k \in Keys : connections[k] # NoConn => status[connections[k]] = "open"

(* When closeService, closeServicePattern or closeAll has returned, nothing *)
(* it found pooled for its target is still pooled, in spite of the calls    *)
(* that reconnect between its awaits.                                       *)
EvictionComplete ==
    \A x \in Closers : closer[x].pc = "done" =>
        \A c \in closer[x].had : ~Pooled(c)

(* The one way a usable connection leaves the pool without anyone closing   *)
(* it: somebody still works from an older connection of the same key, read  *)
(* before an await (a health check, the close of a stale connection and     *)
(* the attempt that follows it, a closeServicePattern snapshot).            *)
HoldsOlder(c) ==
    \/ \E r \in Calls :
         /\ key[r] = key[c[1]]
         /\ \/ pc[r] = "health" /\ conn[r] # c
            \/ attempt[r] \in InFlight /\ attempt'[r] = "connected"
    \/ \E x \in Closers : \E e \in closer[x].todo :
         e[1] = key[c[1]] /\ e[2] # c

Dropped(c) == Pooled(c) /\ ~Pooled(c)' /\ status'[c] = "open"

DroppedOnlyByStaleReader == [][\A c \in Conns : Dropped(c) => HoldsOlder(c)]_vars

(* Every call of getConnection ends, and so does every close: no waiter is  *)
(* left on a promise that nobody settles.                                   *)
CallsSettle == \A r \in Calls : pc[r] # "idle" ~> pc[r] \in {"returned", "threw"}
ClosersSettle ==
    \A x \in Closers : closer[x].pc # "idle" ~> closer[x].pc \in {"done", "threw"}

(* "Manages a pool of MCP connections, one per service" and "stale          *)
(* connections are replaced": of the connections that calls were handed     *)
(* for a key, at most one is open.                                          *)
OneConnectionPerKey ==
    \A c, d \in Conns :
        /\ status[c] = "open" /\ status[d] = "open"
        /\ attempt[c[1]] = "connected" /\ attempt[d[1]] = "connected"
        /\ key[c[1]] = key[d[1]]
        => c = d

(* "Maximum number of concurrent connections allowed."                      *)
SizeBounded == Size <= MaxSize

=============================================================================
