------------------------------ MODULE Requests -------------------------------
(***************************************************************************)
(* The tool calls of one mcp2cli process on one service: the route to the  *)
(* local or a remote daemon, retries and fallback of the client, and the   *)
(* handler of POST /call in each daemon, up to the connection it uses      *)
(* (process/client.ts, cli/commands/tool-call.ts, batch.ts, daemon/        *)
(* server.ts); or, with MCP2CLI_NO_DAEMON, the connection that the process *)
(* makes itself (connection/connect.ts, client.ts, http-transport.ts).     *)
(*                                                                         *)
(* A request is the call, the daemon and the number of the attempt.  Its   *)
(* handler goes on when the client has given up.  A daemon's pool has one  *)
(* key here; ConnectionPool has its details.                               *)
(***************************************************************************)
EXTENDS RequestRules

CONSTANTS MaxCalls,      \* bound: the calls, of a batch --parallel for instance
          RemoteRetries, \* attempts at a remote daemon
          FallbackRetries, \* the same, when the local one is the fallback
          MaxConn        \* bound: connections a daemon makes

ASSUME RequestBounds ==
    /\ MaxCalls \in Nat /\ MaxConn \in Nat
    /\ RemoteRetries \in Nat \ {0}
    /\ FallbackRetries \in Nat \ {0}

VARIABLES route,        \* the source that fetchDaemon works with
          missing,      \* the service is not in the CLI's configuration
          unhosted,     \* discovery says that no remote daemon has the service, which names no source
          credentialed, \* the service's requiresCredentials, in the CLI's configuration
          call,         \* each call: pc, target, attempt, replies received
          handler,      \* each request's handler: pc, connection, reply, whether the tool ran
          pooledConn,   \* the connection in each daemon's pool, 0 for none
          connState     \* each daemon's connections, and the process's: none, open, broken, closed

requestVars == <<route, missing, unhosted, credentialed, call, handler, pooledConn, connState>>

Calls == 1..MaxCalls
Daemons == {"local", "remote"}
Attempts == 1..(RemoteRetries + FallbackRetries)
Direct == Calls \X {"direct"} \X {1}
Asked == Calls \X Daemons \X Attempts
Requests == Asked \cup Direct
Conns == 1..MaxConn

IdleHandler == [pc |-> "idle", conn |-> 0, reply |-> "none", ran |-> FALSE]

RequestInit ==
    /\ \E svc \in ServiceEntries :
          /\ route = RouteOf(svc)
          /\ missing = ~svc.present
          /\ unhosted = (svc.availability = "not-hosted" /\ svc.source = "none")
    /\ credentialed \in IF route = "remote-local" /\ ~missing THEN BOOLEAN ELSE {FALSE}
    /\ call = [c \in Calls |-> [pc |-> "idle", target |-> "local", attempt |-> 1, heard |-> {}]]
    /\ handler = [q \in Requests |-> IdleHandler]
    /\ pooledConn = [d \in Daemons |-> 0]
    /\ connState = [d \in Daemons \cup {"direct"} |-> [i \in Conns |-> "none"]]

Request(c) == <<c, call[c].target, call[c].attempt>>
MaxAttempts == IF route = "remote-local" THEN FallbackRetries ELSE RemoteRetries

\* A reply is 401, 403 for a blocked tool, a connection error, a timeout or another result
Reply(q, reply) ==
    handler' = [handler EXCEPT ![q] = [pc |-> "done", reply |-> reply, ran |-> @.ran,
                                       conn |-> IF reply = "timeout" THEN @.conn ELSE 0]]

\* The token of the request is unknown, or its role may not call tools, or it is let in
Arrive(q) ==
    \/ \E reply \in {"unauthorized", "forbidden"} : Reply(q, reply)
    \/ handler' = [handler EXCEPT ![q].pc = "connecting"]

\* Call c is sent, and arrives unless the daemon cannot be reached
Send(c, target, attempt) ==
    /\ call' = [call EXCEPT ![c].pc = "waiting", ![c].target = target, ![c].attempt = attempt]
    /\ Arrive(<<c, target, attempt>>) \/ UNCHANGED handler

Ended(c) == call' = [call EXCEPT ![c].pc = "ended"] /\ UNCHANGED handler

\* Mutant: every failure that remains falls back
RemoteErrorAlwaysFallsBack(c) ==
    \/ /\ call[c].attempt < MaxAttempts
       /\ Send(c, "remote", call[c].attempt + 1)
    \/ /\ call[c].attempt >= MaxAttempts
       /\ IF route = "remote-local" THEN Send(c, "local", 1) ELSE Ended(c)

\* Mutant: the attempts are not counted
RemoteErrorUncounted(c) ==
    \/ /\ call[c].attempt < MaxAttempts
       /\ Send(c, "remote", call[c].attempt)
    \/ /\ call[c].attempt >= MaxAttempts
       /\ IF route = "remote-local" /\ ~credentialed THEN Send(c, "local", 1) ELSE Ended(c)

\* An attempt of fetchRemote failed: the next one after its backoff, else what fetchDaemon does
RemoteError(c) ==
    \/ /\ call[c].attempt < MaxAttempts
       /\ Send(c, "remote", call[c].attempt + 1)
    \/ /\ call[c].attempt >= MaxAttempts
       /\ IF route = "remote-local" /\ ~credentialed THEN Send(c, "local", 1) ELSE Ended(c)

-------------------------------------------------------------------------------
SendFirst(c) == Send(c, IF route = "local" THEN "local" ELSE "remote", 1)

\* handleToolCall of a service that is configured: the policy may refuse the call, --dry-run asks for
\* the schema only
CallConfigured(c) ==
    /\ call[c].pc = "idle"
    /\ ~missing
    /\ SendFirst(c) \/ Ended(c)
    /\ UNCHANGED <<route, missing, unhosted, credentialed, pooledConn, connState>>

\* Of one that is not: only to a remote daemon that has it
CallMissing(c) ==
    /\ call[c].pc = "idle"
    /\ missing
    /\ (route = "remote" /\ SendFirst(c)) \/ Ended(c)
    /\ UNCHANGED <<route, missing, unhosted, credentialed, pooledConn, connState>>

\* MCP2CLI_NO_DAEMON: the process goes on to connect, whatever the route, when the policy of the CLI
\* lets the name through and the secrets can be resolved
CallDirect(c) ==
    /\ call[c].pc = "idle"
    /\ ~missing
    /\ \/ /\ call' = [call EXCEPT ![c].pc = "waiting", ![c].target = "direct"]
          /\ handler' = [handler EXCEPT ![<<c, "direct", 1>>].pc = "connecting"]
       \/ Ended(c)
    /\ UNCHANGED <<route, missing, unhosted, credentialed, pooledConn, connState>>

\* batch asks about neither
CallInBatch(c) ==
    /\ call[c].pc = "idle"
    /\ SendFirst(c)
    /\ UNCHANGED <<route, missing, unhosted, credentialed, pooledConn, connState>>

\* The daemon cannot be reached, or does not answer in time
LoseRequest(c) ==
    /\ call[c].pc = "waiting" /\ call[c].target \in Daemons
    /\ IF call[c].target = "local" THEN Ended(c) ELSE RemoteError(c)
    /\ UNCHANGED <<route, missing, unhosted, credentialed, pooledConn, connState>>

\* Mutant: the answer is not looked at before the local daemon is asked again
ReceiveLocalRetries(c) ==
    LET reply == handler[Request(c)].reply IN
    /\ call[c].pc = "waiting" /\ call[c].target = "local"
    /\ handler[Request(c)].pc = "done"
    /\ \/ call[c].attempt = 1 /\ Send(c, "local", 2)
       \/ Ended(c)
    /\ UNCHANGED <<route, missing, unhosted, credentialed, pooledConn, connState>>

\* fetchLocal: one refused with 401 is sent once more if a newer token can be had
ReceiveLocal(c) ==
    LET reply == handler[Request(c)].reply IN
    /\ call[c].pc = "waiting" /\ call[c].target = "local"
    /\ handler[Request(c)].pc = "done"
    /\ \/ reply = "unauthorized" /\ call[c].attempt = 1 /\ Send(c, "local", 2)
       \/ Ended(c)
    /\ UNCHANGED <<route, missing, unhosted, credentialed, pooledConn, connState>>

\* fetchRemote: 401 is final and so is 403, a blocked tool too; a connection error is an attempt that
\* failed, the rest the result
ReceiveRemote(c) ==
    LET reply == handler[Request(c)].reply IN
    /\ call[c].pc = "waiting" /\ call[c].target = "remote"
    /\ handler[Request(c)].pc = "done"
    /\ IF reply \in {"unauthorized", "forbidden"} THEN call' = [call EXCEPT ![c].pc = "ended", ![c].heard = @ \cup {"auth"}] /\ UNCHANGED handler
       ELSE IF reply = "connection" THEN RemoteError(c)
       ELSE Ended(c)
    /\ UNCHANGED <<route, missing, unhosted, credentialed, pooledConn, connState>>

\* What was called directly has its result
ReceiveDirect(c) ==
    /\ call[c].pc = "waiting" /\ call[c].target = "direct"
    /\ handler[Request(c)].pc = "done"
    /\ Ended(c)
    /\ UNCHANGED <<route, missing, unhosted, credentialed, pooledConn, connState>>

-------------------------------------------------------------------------------
PoolHasOpen(d) == \E i \in Conns : pooledConn[d] = i /\ connState[d][i] = "open"

\* getConnection: the pooled connection, also one that has broken since; a new one in its place or
\* when there is none; or an error. A missing credential is answered like an error of the tool.
Connect(q) ==
    LET d == q[2] IN
    /\ handler[q].pc = "connecting"
    /\ \/ /\ pooledConn[d] # 0
          /\ handler' = [handler EXCEPT ![q].pc = "resolving", ![q].conn = pooledConn[d]]
          /\ UNCHANGED <<pooledConn, connState>>
       \/ /\ ~PoolHasOpen(d)
          /\ \E i \in Conns :
                /\ connState[d][i] = "none"
                /\ \A j \in 1..(i - 1) : connState[d][j] # "none"
                /\ handler' = [handler EXCEPT ![q].pc = "resolving", ![q].conn = i]
                /\ connState' = [connState EXCEPT ![d] =
                      [j \in Conns |-> IF j = i THEN "open" ELSE IF j = pooledConn[d] THEN "closed" ELSE @[j]]]
                /\ pooledConn' = [pooledConn EXCEPT ![d] = i]
       \/ /\ ~PoolHasOpen(d)
          /\ \E reply \in {"connection", "result"} : Reply(q, reply)
          /\ UNCHANGED <<pooledConn, connState>>
    /\ UNCHANGED <<route, missing, unhosted, credentialed, call>>

\* Whether a tool that is called on a connection runs: on a broken one it may have
MayRun(s) == IF s = "open" THEN {TRUE} ELSE IF s = "broken" THEN BOOLEAN ELSE {FALSE}

\* The name is resolved and the policy asked (RequestRules), which may refuse it; the tool is called
\* on the connection of the handler. One that is broken may have run the tool.
CallTool(q) ==
    LET s == connState[q[2]][handler[q].conn] IN
    /\ handler[q].pc = "resolving"
    /\ \/ Reply(q, "forbidden")
       \/ \E ran \in MayRun(s) :
             handler' = [handler EXCEPT ![q].pc = "calling", ![q].ran = ran]
    /\ UNCHANGED <<route, missing, unhosted, credentialed, call, pooledConn, connState>>

\* The result, an error of the tool, or that the connection has been closed. An error in which the tool
\* itself says "timed out" is a result here, although the caller gets TOOL_TIMEOUT for it too.
AnswerCall(q) ==
    /\ handler[q].pc = "calling"
    /\ Reply(q, "result")
    /\ UNCHANGED <<route, missing, unhosted, credentialed, call, pooledConn, connState>>

\* Mutant: progress of the tool puts the deadline off without limit
TimeOutUnlessProgress(q) ==
    LET d == q[2] IN
    /\ handler[q].pc = "calling"
    /\ connState[d][handler[q].conn] = "broken"
    /\ handler' = [handler EXCEPT ![q].pc = "closing"]
    /\ connState' = [connState EXCEPT ![d] =
          [j \in Conns |-> IF j = pooledConn[d] THEN "closed" ELSE @[j]]]
    /\ pooledConn' = [pooledConn EXCEPT ![d] = 0]
    /\ UNCHANGED <<route, missing, unhosted, credentialed, call>>

\* Mutant: the connection stays in the pool
TimeOutKeepingConnection(q) ==
    /\ handler[q].pc = "calling"
    /\ handler' = [handler EXCEPT ![q].pc = "closing"]
    /\ UNCHANGED <<route, missing, unhosted, credentialed, call, pooledConn, connState>>

\* The deadline of the SDK, which progress cannot put off: closeService takes what is pooled by now
TimeOut(q) ==
    LET d == q[2] IN
    /\ handler[q].pc = "calling"
    /\ handler' = [handler EXCEPT ![q].pc = "closing"]
    /\ connState' = [connState EXCEPT ![d] =
          [j \in Conns |-> IF j = pooledConn[d] THEN "closed" ELSE @[j]]]
    /\ pooledConn' = [pooledConn EXCEPT ![d] = 0]
    /\ UNCHANGED <<route, missing, unhosted, credentialed, call>>

\* The close has ended, well or not
ReplyTimeout(q) ==
    /\ handler[q].pc = "closing"
    /\ Reply(q, "timeout")
    /\ UNCHANGED <<route, missing, unhosted, credentialed, call, pooledConn, connState>>

-------------------------------------------------------------------------------
\* connectToBackend: a transport is opened; it is the second one for SSE
OpenTransport(q) ==
    /\ handler[q].pc \in {"connecting", "falling back"}
    /\ \E i \in Conns :
          /\ connState["direct"][i] = "none"
          /\ \A j \in 1..(i - 1) : connState["direct"][j] # "none"
          /\ connState' = [connState EXCEPT !["direct"][i] = "open"]
          /\ handler' = [handler EXCEPT
                ![q].pc = IF @ = "connecting" THEN "shaking hands" ELSE "last try", ![q].conn = i]
    /\ UNCHANGED <<route, missing, unhosted, credentialed, call, pooledConn>>

\* The server answers in time
ShakeHands(q) ==
    /\ handler[q].pc \in {"shaking hands", "last try"}
    /\ connState["direct"][handler[q].conn] = "open"
    /\ handler' = [handler EXCEPT ![q].pc = "resolving"]
    /\ UNCHANGED <<route, missing, unhosted, credentialed, call, pooledConn, connState>>

\* connectToService closes its transport
FailStdio(q) ==
    /\ handler[q].pc = "shaking hands"
    /\ connState' = [connState EXCEPT !["direct"][handler[q].conn] = "closed"]
    /\ Reply(q, "connection")
    /\ UNCHANGED <<route, missing, unhosted, credentialed, call, pooledConn>>

\* connectToHttpService goes on with SSE, unless the time was out, and closes neither transport, nor does
\* connectToWebSocketService
FailHttp(q, timedOut) ==
    /\ handler[q].pc \in {"shaking hands", "last try"}
    /\ IF handler[q].pc = "last try" \/ timedOut
       THEN Reply(q, "connection")
       ELSE handler' = [handler EXCEPT ![q].pc = "falling back"]
    /\ UNCHANGED <<route, missing, unhosted, credentialed, call, pooledConn, connState>>

\* The name is resolved, and the policy not asked again; or it cannot be; --dry-run asks for the schema only
RunDirect(q) ==
    /\ handler[q].pc = "resolving"
    /\ \/ \E ran \in MayRun(connState["direct"][handler[q].conn]) :
             handler' = [handler EXCEPT ![q].pc = "calling", ![q].ran = ran]
       \/ handler' = [handler EXCEPT ![q].pc = "closing"]
    /\ UNCHANGED <<route, missing, unhosted, credentialed, call, pooledConn, connState>>

\* An answer, or the timeout of the SDK
EndDirect(q) ==
    /\ handler[q].pc = "calling"
    /\ handler' = [handler EXCEPT ![q].pc = "closing"]
    /\ UNCHANGED <<route, missing, unhosted, credentialed, call, pooledConn, connState>>

\* The connection is closed, whatever happened, before the result or the error leaves handleToolCall
CloseDirect(q) ==
    /\ handler[q].pc = "closing"
    /\ connState' = [connState EXCEPT !["direct"][handler[q].conn] = "closed"]
    /\ Reply(q, "result")
    /\ UNCHANGED <<route, missing, unhosted, credentialed, call, pooledConn>>

\* A connection hangs, or its server dies
BreakConnection(d, i) ==
    /\ connState[d][i] = "open"
    /\ connState' = [connState EXCEPT ![d][i] = "broken"]
    /\ UNCHANGED <<route, missing, unhosted, credentialed, call, handler, pooledConn>>

ClientStep(c) == LoseRequest(c) \/ ReceiveLocal(c) \/ ReceiveRemote(c) \/ ReceiveDirect(c)
DirectStep(q) ==
    \/ OpenTransport(q) \/ ShakeHands(q) \/ FailStdio(q) \/ (\E timedOut \in BOOLEAN : FailHttp(q, timedOut))
    \/ RunDirect(q) \/ EndDirect(q) \/ CloseDirect(q)
HandlerStep(q) == Connect(q) \/ CallTool(q) \/ TimeOut(q) \/ ReplyTimeout(q)

RequestNext ==
    \/ \E c \in Calls : CallConfigured(c) \/ CallMissing(c) \/ CallDirect(c) \/ CallInBatch(c) \/ ClientStep(c)
    \/ \E q \in Asked : HandlerStep(q) \/ AnswerCall(q)
    \/ \E q \in Direct : DirectStep(q)
    \/ \E d \in DOMAIN connState, i \in Conns : BreakConnection(d, i)

\* The client's timers and the daemon's work go on; no tool has to answer
RequestFairness ==
    /\ \A c \in Calls : WF_requestVars(ClientStep(c))
    /\ \A q \in Asked : WF_requestVars(HandlerStep(q))
    /\ \A q \in Direct : WF_requestVars(DirectStep(q))

RequestSpec == RequestInit /\ [][RequestNext]_requestVars /\ RequestFairness

-------------------------------------------------------------------------------
Ran(c) == {q \in Requests : q[1] = c /\ handler[q].ran}

\* A call that only the local daemon can serve, or none, runs its tool at most once, also when a refused
\* request is sent again with a new token (client.ts 351-389, tool-call.ts 285).
LocalRunsOnce == route = "local" => \A c \in Calls : Cardinality(Ran(c)) <= 1

\* A request goes to a daemon that may serve it: never to a remote one that is known not to host the
\* service, and to the local one, when it was meant for a remote one, only on the route that has a
\* fallback, never for a service with required credentials and never after the
\* remote daemon refused the caller (client.ts 339-360, 488-505).
SentWhereServed ==
    \A c \in Calls :
        /\ unhosted => \A n \in Attempts : handler[<<c, "remote", n>>].pc = "idle"
        /\ route # "local" /\ handler[<<c, "local", 1>>].pc # "idle"
              => route = "remote-local" /\ ~credentialed /\ "auth" \notin call[c].heard

\* When a caller is told that its tool timed out, the connection it used is not in the pool, and
\* never is again, whoever else has used, replaced or closed it meanwhile (server.ts 355-364).
TimedOutDropped ==
    \A q \in Asked : handler[q].reply = "timeout" => handler[q].conn # pooledConn[q[2]]

\* Every call that was begun ends, with a hanging server, a dead daemon or neither (client.ts 395-522).
CallsEnd == \A c \in Calls : call[c].pc = "waiting" ~> call[c].pc = "ended"

\* The handlers of a daemon end, also those whose client has left: its count of active requests comes
\* back to zero and the idle timer can run (server.ts 323-364, 405-443; idle.ts 40).
HandlersDrain == []<>(\A q \in Requests : handler[q].pc \in {"idle", "done"})
===============================================================================
