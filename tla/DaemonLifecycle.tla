--------------------------- MODULE DaemonLifecycle ----------------------------
(***************************************************************************)
(* Starting, finding and stopping the local daemon through its runtime     *)
(* files: the PID file, the socket and the startup lock.                   *)
(*                                                                         *)
(*   CLI side:    ensureDaemon and the request that follows it             *)
(*                (src/process/client.ts, src/process/liveness.ts) and     *)
(*                `mcp2cli daemon stop' (src/cli/commands/daemon.ts)       *)
(*   daemon side: startDaemon and gracefulShutdown (src/daemon/index.ts)   *)
(*                with the idle timer (src/daemon/idle.ts)                 *)
(*                                                                         *)
(* A CLI process spawns at most one daemon, so the daemon a process c      *)
(* spawns is called c.  A file holds the process it belongs to, or None.   *)
(* Every file operation and every request is a step of its own.            *)
(***************************************************************************)
EXTENDS Naturals, FiniteSets

CONSTANTS
    Procs,          \* CLI processes
    None,           \* "no such file"
    Ops,            \* what a CLI process may be run for: "call", "stop"
    MayCrash,       \* CLI processes that may be killed while they hold the lock
    DaemonFails,    \* whether a daemon may fail to load its configuration, or die
    MayBeSlow,      \* whether a daemon that serves or starts may miss a deadline
    LongStartup     \* whether MCP2CLI_STARTUP_TIMEOUT exceeds the age of a stale lock

ASSUME NoneAssumption == None \notin Procs
ASSUME OpsAssumption == Ops \subseteq {"call", "stop"}
ASSUME MayCrashAssumption == MayCrash \subseteq Procs
ASSUME DaemonFailsAssumption == DaemonFails \in BOOLEAN
ASSUME TimingAssumption == MayBeSlow \in BOOLEAN /\ LongStartup \in BOOLEAN

VARIABLES
    pidFile,        \* the daemon whose PID it holds
    socket,         \* the daemon that bound the socket path
    lock,           \* the CLI process that created <pidFile>.lock
    lockOld,        \* the lock is older than STALE_LOCK_THRESHOLD_MS
    pc,             \* CLI process -> where it is
    op,             \* CLI process -> what it was run for
    server,         \* CLI process -> the daemon with a handler for its request
    daemon,         \* daemon -> how far it is
    activeCount,    \* daemon -> IdleTimer.activeCount
    timer,          \* daemon -> IdleTimer.timer is set
    shutdownAsked   \* daemons whose /shutdown has been answered and is yet to act

cliVars == <<pc, op>>
idleVars == <<server, activeCount, timer, shutdownAsked>>
vars == <<pidFile, socket, lock, lockOld, cliVars, daemon, idleVars>>

Alive(d)   == daemon[d] \notin {"none", "dead"}

(* The socket path leads to a daemon that answers.                         *)
Answers(d) == socket = d /\ daemon[d] = "serving"
Reachable  == \E d \in Procs : Answers(d)
ComingUp   == \E d \in Procs : daemon[d] \in {"spawned", "unlinkedSocket", "unlinkedPid", "loading"}

(* The requests that handlers of daemon d are working on, also for a client *)
(* that no longer waits.                                                   *)
Running(d) == {c \in Procs : server[c] = d}

Goto(c, label) == pc' = [pc EXCEPT ![c] = label]

(***************************************************************************)
(* getDaemonStatus, then cleanStaleDaemon                                  *)
(***************************************************************************)

Run(c, o) ==
    /\ pc[c] = "idle"
    /\ op' = [op EXCEPT ![c] = o]
    /\ Goto(c, "readPid")
    /\ UNCHANGED <<pidFile, socket, lock, lockOld, daemon, idleVars>>

AfterStopped(c) == Goto(c, IF op[c] = "call" THEN "lock" ELSE "done")

(* isDaemonAlive: the PID file is there and its process lives.             *)
ReadPid(c) ==
    /\ pc[c] = "readPid"
    /\ Goto(c, IF pidFile # None /\ Alive(pidFile) THEN "health" ELSE "readPidAgain")
    /\ UNCHANGED <<pidFile, socket, lock, lockOld, op, daemon, idleVars>>

(* Not alive: is the file there at all?  By now it may be another one.     *)
ReadPidAgain(c) ==
    /\ pc[c] = "readPidAgain"
    /\ IF pidFile = None THEN AfterStopped(c) ELSE Goto(c, "unlinkPid")
    /\ UNCHANGED <<pidFile, socket, lock, lockOld, op, daemon, idleVars>>

(* A daemon that has written its PID and not yet bound its socket does not *)
(* answer: it counts as stale, and so does one that takes over a second.   *)
Health(c) ==
    /\ pc[c] = "health"
    /\ \/ Reachable /\ Goto(c, "request")
       \/ (Reachable => MayBeSlow) /\ Goto(c, "unlinkPid")
    /\ UNCHANGED <<pidFile, socket, lock, lockOld, op, daemon, idleVars>>

CleanPid(c) ==
    /\ pc[c] = "unlinkPid"
    /\ pidFile' = None
    /\ Goto(c, "unlinkSocket")
    /\ UNCHANGED <<socket, lock, lockOld, op, daemon, idleVars>>

CleanSocket(c) ==
    /\ pc[c] = "unlinkSocket"
    /\ socket' = None
    /\ AfterStopped(c)
    /\ UNCHANGED <<pidFile, lock, lockOld, op, daemon, idleVars>>

(***************************************************************************)
(* ensureDaemon: the startup lock                                          *)
(***************************************************************************)

(* Mutant: the file is created without O_EXCL.                             *)
TakeLockAnyway(c, otherwise) ==
    /\ lock' = c /\ lockOld' = FALSE /\ Goto(c, "spawn")
    /\ UNCHANGED <<pidFile, socket, op, daemon, idleVars>>

TakeLock(c, otherwise) ==
    /\ IF lock = None
       THEN lock' = c /\ lockOld' = FALSE /\ Goto(c, "spawn")
       ELSE Goto(c, otherwise) /\ UNCHANGED <<lock, lockOld>>
    /\ UNCHANGED <<pidFile, socket, op, daemon, idleVars>>

AcquireStartLock(c) == pc[c] = "lock" /\ TakeLock(c, "statLock")

StatLock(c) ==
    /\ pc[c] = "statLock"
    /\ Goto(c, IF lock # None /\ lockOld THEN "unlinkLock" ELSE "waitReady")
    /\ UNCHANGED <<pidFile, socket, lock, lockOld, op, daemon, idleVars>>

UnlinkStaleLock(c) ==
    /\ pc[c] = "unlinkLock"
    /\ lock' = None /\ lockOld' = FALSE
    /\ Goto(c, "relock")
    /\ UNCHANGED <<pidFile, socket, op, daemon, idleVars>>

AcquireStartLockAgain(c) == pc[c] = "relock" /\ TakeLock(c, "waitReady")

StartDaemonProcess(c) ==
    /\ pc[c] = "spawn"
    /\ daemon' = [daemon EXCEPT ![c] = "spawned"]
    /\ Goto(c, "waitOwn")
    /\ UNCHANGED <<pidFile, socket, lock, lockOld, op, idleVars>>

(* waitForDaemonReady polls /health; whichever daemon answers will do.     *)
DaemonReady(c) ==
    /\ pc[c] \in {"waitOwn", "waitReady"} /\ Reachable
    /\ Goto(c, IF pc[c] = "waitOwn" THEN "release" ELSE "request")
    /\ UNCHANGED <<pidFile, socket, lock, lockOld, op, daemon, idleVars>>

(* Mutant: a process that waits for another's daemon polls without end.    *)
StartupTimeoutOwnOnly(c) ==
    /\ pc[c] = "waitOwn" /\ (Reachable \/ ComingUp => MayBeSlow)
    /\ Goto(c, "releaseFailed")
    /\ UNCHANGED <<pidFile, socket, lock, lockOld, op, daemon, idleVars>>

StartupTimeout(c) ==
    /\ pc[c] \in {"waitOwn", "waitReady"} /\ (Reachable \/ ComingUp => MayBeSlow)
    /\ Goto(c, IF pc[c] = "waitOwn" THEN "releaseFailed" ELSE "failed")
    /\ UNCHANGED <<pidFile, socket, lock, lockOld, op, daemon, idleVars>>

(* Mutant: the lock is released after a successful start only.             *)
ReleaseOnSuccess(c) ==
    /\ pc[c] \in {"release", "releaseFailed"}
    /\ IF pc[c] = "release"
       THEN lock' = None /\ lockOld' = FALSE /\ Goto(c, "request")
       ELSE Goto(c, "failed") /\ UNCHANGED <<lock, lockOld>>
    /\ UNCHANGED <<pidFile, socket, op, daemon, idleVars>>

(* The finally block, whoever the lock belongs to by now.                  *)
ReleaseStartLock(c) ==
    /\ pc[c] \in {"release", "releaseFailed"}
    /\ lock' = None /\ lockOld' = FALSE
    /\ Goto(c, IF pc[c] = "release" THEN "request" ELSE "failed")
    /\ UNCHANGED <<pidFile, socket, op, daemon, idleVars>>

(***************************************************************************)
(* IdleTimer                                                               *)
(***************************************************************************)

Touch(d) == timer' = [timer EXCEPT ![d] = TRUE]

OnRequestStart(d) ==
    /\ activeCount' = [activeCount EXCEPT ![d] = @ + 1]
    /\ timer' = [timer EXCEPT ![d] = FALSE]

(* Mutant: every request that ends starts the timer again.                 *)
OnRequestEndTouches(d) ==
    IF activeCount[d] = 0
    THEN UNCHANGED <<activeCount, timer>>
    ELSE activeCount' = [activeCount EXCEPT ![d] = @ - 1] /\ Touch(d)

OnRequestEnd(d) ==
    IF activeCount[d] = 0
    THEN UNCHANGED <<activeCount, timer>>
    ELSE /\ activeCount' = [activeCount EXCEPT ![d] = @ - 1]
         /\ IF activeCount'[d] = 0 THEN Touch(d) ELSE UNCHANGED timer

(***************************************************************************)
(* The request                                                             *)
(***************************************************************************)

(* Its handler begins in the turn in which the daemon receives it.         *)
Call(c) ==
    /\ pc[c] = "request" /\ op[c] = "call"
    /\ \E d \in Procs :
         Answers(d) /\ server' = [server EXCEPT ![c] = d] /\ OnRequestStart(d)
    /\ Goto(c, "inFlight")
    /\ UNCHANGED <<pidFile, socket, lock, lockOld, op, daemon, shutdownAsked>>

(* /shutdown is answered first; the shutdown begins 100 ms later.          *)
Stop(c) ==
    /\ pc[c] = "request" /\ op[c] = "stop"
    /\ \E d \in Procs : Answers(d) /\ shutdownAsked' = shutdownAsked \cup {d}
    /\ Goto(c, "done")
    /\ UNCHANGED <<pidFile, socket, lock, lockOld, op, daemon, server, activeCount, timer>>

(* Nobody listens, the daemon does not answer in time, or it asks for a    *)
(* token or a role that the request has not got: `daemon stop' sends none. *)
RequestFails(c) ==
    /\ pc[c] = "request"
    /\ Goto(c, "failed")
    /\ UNCHANGED <<pidFile, socket, lock, lockOld, op, daemon, idleVars>>

(* The finally block of the handler; its answer is on the way.             *)
HandlerEnds(c) ==
    /\ server[c] # None /\ Alive(server[c])
    /\ OnRequestEnd(server[c])
    /\ server' = [server EXCEPT ![c] = None]
    /\ UNCHANGED <<pidFile, socket, lock, lockOld, cliVars, daemon, shutdownAsked>>

Reply(c) ==
    /\ pc[c] = "inFlight" /\ server[c] = None
    /\ Goto(c, "done")
    /\ UNCHANGED <<pidFile, socket, lock, lockOld, op, daemon, idleVars>>

(* The daemon is gone, or REQUEST_TIMEOUT_MS are over: the handler goes on. *)
GiveUp(c) ==
    /\ pc[c] = "inFlight" /\ server[c] # None
    /\ Goto(c, "failed")
    /\ UNCHANGED <<pidFile, socket, lock, lockOld, op, daemon, idleVars>>

Crash(c) ==
    /\ c \in MayCrash /\ pc[c] \in {"spawn", "waitOwn", "release", "releaseFailed"}
    /\ Goto(c, "crashed")
    /\ UNCHANGED <<pidFile, socket, lock, lockOld, op, daemon, idleVars>>

(* 30 seconds pass.  A live holder gives up after STARTUP_TIMEOUT_MS: if    *)
(* that is less, only a lock that a crash left behind becomes old.          *)
LockAges ==
    /\ lock # None /\ ~lockOld /\ (LongStartup \/ pc[lock] = "crashed")
    /\ lockOld' = TRUE
    /\ UNCHANGED <<pidFile, socket, lock, cliVars, daemon, idleVars>>

(***************************************************************************)
(* startDaemon                                                             *)
(***************************************************************************)

Advance(d, from, to) ==
    /\ daemon[d] = from
    /\ daemon' = [daemon EXCEPT ![d] = to]
    /\ UNCHANGED <<lock, lockOld, cliVars, server, activeCount>>

(* A step of startDaemon or gracefulShutdown without a request or a timer.  *)
Proceed(d, from, to) == Advance(d, from, to) /\ UNCHANGED <<timer, shutdownAsked>>

UnlinkOldSocket(d) ==
    Proceed(d, "spawned", "unlinkedSocket") /\ socket' = None /\ UNCHANGED pidFile

UnlinkOldPid(d) ==
    Proceed(d, "unlinkedSocket", "unlinkedPid") /\ pidFile' = None /\ UNCHANGED socket

(* Mutant: the PID file is written without the PID.                        *)
WritePidAsText(d) ==
    Proceed(d, "unlinkedPid", "loading") /\ pidFile' = "pid" /\ UNCHANGED socket

WritePid(d) ==
    Proceed(d, "unlinkedPid", "loading") /\ pidFile' = d /\ UNCHANGED socket

(* createDaemonServer binds the path, and the first countdown begins.       *)
Serve(d) ==
    /\ Advance(d, "loading", "serving")
    /\ socket' = d
    /\ Touch(d)
    /\ UNCHANGED <<pidFile, shutdownAsked>>

(* If another daemon has bound the path since it was unlinked, the runtime  *)
(* replaces the file, as above, or refuses: either way.                     *)
BindRefused(d) ==
    /\ socket # None
    /\ Proceed(d, "loading", "dead")
    /\ UNCHANGED <<pidFile, socket>>

StartFails(d) ==
    /\ DaemonFails
    /\ Proceed(d, "loading", "dead")
    /\ UNCHANGED <<pidFile, socket>>

DaemonDies(d) ==
    /\ DaemonFails
    /\ Proceed(d, "serving", "dead")
    /\ UNCHANGED <<pidFile, socket>>

(***************************************************************************)
(* gracefulShutdown, begun by the idle timer or by /shutdown; whoever comes *)
(* second finds isShuttingDown set.                                         *)
(***************************************************************************)

GracefulShutdown(d) ==
    daemon' = [daemon EXCEPT ![d] = IF @ = "serving" THEN "stopping" ELSE @]

(* The timer asks for nothing when it fires: that it runs is all it knows.  *)
IdleTimeout(d) ==
    /\ timer[d] /\ Alive(d)
    /\ timer' = [timer EXCEPT ![d] = FALSE]
    /\ GracefulShutdown(d)
    /\ UNCHANGED <<pidFile, socket, lock, lockOld, cliVars, server, activeCount, shutdownAsked>>

Shutdown(d) ==
    /\ d \in shutdownAsked /\ Alive(d)
    /\ shutdownAsked' = shutdownAsked \ {d}
    /\ GracefulShutdown(d)
    /\ UNCHANGED <<pidFile, socket, lock, lockOld, cliVars, server, activeCount, timer>>

(* Mutant: a daemon whose socket is gone waits for it.                     *)
RemoveOwnSocket(d) ==
    Proceed(d, "stopping", "removedSocket") /\ socket = d /\ socket' = None
    /\ UNCHANGED pidFile

(* server.stop() and pool.closeAll() are behind us; handlers may not be.    *)
RemoveSocket(d) ==
    Proceed(d, "stopping", "removedSocket") /\ socket' = None /\ UNCHANGED pidFile

RemovePidAndExit(d) ==
    Proceed(d, "removedSocket", "dead") /\ pidFile' = None /\ UNCHANGED socket

-----------------------------------------------------------------------------

Init ==
    /\ pidFile = None /\ socket = None
    /\ lock = None /\ lockOld = FALSE
    /\ pc = [c \in Procs |-> "idle"]
    /\ op = [c \in Procs |-> "call"]
    /\ server = [c \in Procs |-> None]
    /\ daemon = [c \in Procs |-> "none"]
    /\ activeCount = [c \in Procs |-> 0]
    /\ timer = [c \in Procs |-> FALSE]
    /\ shutdownAsked = {}

CliStep(c) ==
    \/ ReadPid(c) \/ ReadPidAgain(c) \/ Health(c) \/ CleanPid(c) \/ CleanSocket(c)
    \/ AcquireStartLock(c) \/ StatLock(c) \/ UnlinkStaleLock(c)
    \/ AcquireStartLockAgain(c) \/ StartDaemonProcess(c)
    \/ DaemonReady(c) \/ StartupTimeout(c) \/ ReleaseStartLock(c)
    \/ Call(c) \/ Stop(c) \/ RequestFails(c) \/ Reply(c) \/ GiveUp(c)

DaemonStep(d) ==
    \/ UnlinkOldSocket(d) \/ UnlinkOldPid(d) \/ WritePid(d)
    \/ Serve(d) \/ BindRefused(d) \/ StartFails(d)
    \/ IdleTimeout(d) \/ Shutdown(d) \/ RemoveSocket(d) \/ RemovePidAndExit(d)

Next ==
    \/ \E c \in Procs :
         \/ \E o \in Ops : Run(c, o)
         \/ CliStep(c) \/ Crash(c) \/ HandlerEnds(c)
    \/ \E d \in Procs : DaemonStep(d) \/ DaemonDies(d)
    \/ LockAges

Spec == Init /\ [][Next]_vars

(* CLI processes run on, timers fire, a daemon's startup and shutdown do   *)
(* not hang (the shutdown is forced after 10 seconds), and handlers end by  *)
(* the timeouts of connecting and of the tool (HandlersDrain of Requests).  *)
FairSpec ==
    /\ Spec
    /\ \A c \in Procs : WF_vars(CliStep(c)) /\ WF_vars(HandlerEnds(c))
    /\ \A d \in Procs : WF_vars(DaemonStep(d))

-----------------------------------------------------------------------------
(***************************************************************************)
(* Properties                                                              *)
(***************************************************************************)

CliStates == {"idle", "readPid", "readPidAgain", "health", "unlinkPid", "unlinkSocket",
              "lock", "statLock", "unlinkLock", "relock", "spawn", "waitOwn", "waitReady",
              "release", "releaseFailed", "request", "inFlight", "done", "failed", "crashed"}

DaemonStates == {"none", "spawned", "unlinkedSocket", "unlinkedPid", "loading", "serving",
                 "stopping", "removedSocket", "dead"}

TypeOK ==
    /\ pidFile \in Procs \cup {None}
    /\ socket \in Procs \cup {None}
    /\ lock \in Procs \cup {None}
    /\ lockOld \in BOOLEAN
    /\ pc \in [Procs -> CliStates]
    /\ op \in [Procs -> Ops \cup {"call"}]
    /\ server \in [Procs -> Procs \cup {None}]
    /\ daemon \in [Procs -> DaemonStates]
    /\ activeCount \in [Procs -> Nat]
    /\ timer \in [Procs -> BOOLEAN]
    /\ shutdownAsked \subseteq Procs

Starting == {c \in Procs : pc[c] \in {"spawn", "waitOwn", "release", "releaseFailed"}}

(* The lock file never outlives its creator's startup attempt, unless that  *)
(* process was killed: nobody ends with the lock still there.               *)
LockHeldByStarter == lock # None => lock \in Starting \/ pc[lock] = "crashed"

(* "Serializes concurrent startup attempts via lock file": two processes    *)
(* are between acquiring and releasing the lock only after a crash, when a  *)
(* stale lock can be stolen twice, or if a live holder's lock may be taken   *)
(* for stale.                                                                *)
StartSerialized ==
    Cardinality(Starting) > 1 => LongStartup \/ \E c \in Procs : pc[c] = "crashed"

(* The idle timer never cuts a call: a daemon begins its shutdown while a   *)
(* handler is at work only because a /shutdown was answered, however calls  *)
(* begin, are given up and end (IdleTimer.onRequestStart, onRequestEnd).    *)
OnlyStopCutsCalls ==
    [][\A d \in Procs :
         daemon[d] = "serving" /\ daemon'[d] = "stopping" /\ Running(d) # {}
         => d \in shutdownAsked]_vars

(* Every CLI invocation ends, with a reply or an error, whatever happened   *)
(* to the daemon, the files and the other processes.                        *)
ProcsSettle == \A c \in Procs : pc[c] # "idle" ~> pc[c] \in {"done", "failed", "crashed"}

(* No daemon lingers: one whose socket or PID file somebody else removed or *)
(* took over exits all the same.                                            *)
DaemonsExit == \A d \in Procs : daemon[d] # "none" ~> daemon[d] = "dead"

(* The point of the startup lock: at most one daemon serves.                *)
OneDaemonServes == Cardinality({d \in Procs : daemon[d] = "serving"}) <= 1

=============================================================================
