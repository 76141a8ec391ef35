------------------------- MODULE DaemonLifecycleProofs -------------------------
(***************************************************************************)
(* The startup lock and the idle timer, for any number of CLI processes,   *)
(* any of which may be killed while it holds the lock.                     *)
(***************************************************************************)
EXTENDS DaemonLifecycle, FiniteSetTheorems, TLAPS

(***************************************************************************)
(* Types.                                                                  *)
(***************************************************************************)

LEMMA InitType == Init => TypeOK
<1> SUFFICES ASSUME Init
             PROVE  TypeOK
  OBVIOUS
<1>1. pc \in [Procs -> CliStates] /\ op \in [Procs -> Ops \cup {"call"}]
  BY DEF Init, CliStates
<1>2. daemon \in [Procs -> DaemonStates] /\ server \in [Procs -> Procs \cup {None}]
  BY DEF Init, DaemonStates
<1>3. activeCount \in [Procs -> Nat] /\ timer \in [Procs -> BOOLEAN]
  BY DEF Init
<1> QED  BY <1>1, <1>2, <1>3 DEF Init, TypeOK

LEMMA GotoType ==
    ASSUME TypeOK, NEW c \in Procs, NEW label \in CliStates, Goto(c, label)
    PROVE  /\ pc' \in [Procs -> CliStates]
           /\ pc'[c] = label
           /\ \A q \in Procs : q # c => pc'[q] = pc[q]
  BY DEF Goto, TypeOK

LEMMA CountType ==
    ASSUME TypeOK, NEW d \in Procs, OnRequestStart(d) \/ OnRequestEnd(d)
    PROVE  activeCount' \in [Procs -> Nat] /\ timer' \in [Procs -> BOOLEAN]
<1>1. CASE OnRequestStart(d)
  BY <1>1 DEF OnRequestStart, TypeOK
<1>2. CASE OnRequestEnd(d) /\ activeCount[d] = 0
  BY <1>2 DEF OnRequestEnd, TypeOK
<1>3. CASE OnRequestEnd(d) /\ activeCount[d] # 0
  <2>1. activeCount' = [activeCount EXCEPT ![d] = @ - 1] /\ activeCount[d] - 1 \in Nat
    BY <1>3 DEF OnRequestEnd, TypeOK
  <2>2. timer' = [timer EXCEPT ![d] = TRUE] \/ timer' = timer
    BY <1>3 DEF OnRequestEnd, Touch
  <2> QED  BY <2>1, <2>2 DEF TypeOK
<1> QED  BY <1>1, <1>2, <1>3

LEMMA CliType ==
    ASSUME TypeOK, NEW c \in Procs,
           (\E o \in Ops : Run(c, o)) \/ CliStep(c) \/ Crash(c) \/ HandlerEnds(c)
    PROVE  TypeOK'
<1> USE DEF CliStates, idleVars
<1>1. ASSUME NEW o \in Ops, Run(c, o)
      PROVE  TypeOK'
  BY <1>1, GotoType DEF Run, TypeOK
<1>2. CASE ReadPid(c) \/ ReadPidAgain(c) \/ Health(c)
  BY <1>2, GotoType DEF ReadPid, ReadPidAgain, Health, AfterStopped, TypeOK
<1>3. CASE CleanPid(c) \/ CleanSocket(c)
  BY <1>3, GotoType DEF CleanPid, CleanSocket, AfterStopped, TypeOK
<1>4. CASE AcquireStartLock(c) \/ AcquireStartLockAgain(c)
  BY <1>4, GotoType DEF AcquireStartLock, AcquireStartLockAgain, TakeLock, TypeOK
<1>5. CASE StatLock(c) \/ UnlinkStaleLock(c) \/ ReleaseStartLock(c)
  BY <1>5, GotoType DEF StatLock, UnlinkStaleLock, ReleaseStartLock, TypeOK
<1>6. CASE StartDaemonProcess(c)
  BY <1>6, GotoType DEF StartDaemonProcess, TypeOK, DaemonStates
<1>7. CASE DaemonReady(c) \/ StartupTimeout(c) \/ Reply(c) \/ GiveUp(c) \/ RequestFails(c) \/ Crash(c)
  BY <1>7, GotoType DEF DaemonReady, StartupTimeout, Reply, GiveUp, RequestFails, Crash, TypeOK
<1>8. CASE Call(c)
  <2>1. PICK d \in Procs : server' = [server EXCEPT ![c] = d] /\ OnRequestStart(d)
    BY <1>8 DEF Call
  <2>2. activeCount' \in [Procs -> Nat] /\ timer' \in [Procs -> BOOLEAN]
    BY <2>1, CountType
  <2>3. pc' \in [Procs -> CliStates]
    BY <1>8, GotoType DEF Call
  <2> QED  BY <1>8, <2>1, <2>2, <2>3 DEF Call, TypeOK
<1>9. CASE Stop(c)
  <2>1. pc' \in [Procs -> CliStates]
    BY <1>9, GotoType DEF Stop
  <2> QED  BY <1>9, <2>1 DEF Stop, TypeOK
<1>10. CASE HandlerEnds(c)
  <2>1. server[c] \in Procs
    BY <1>10 DEF HandlerEnds, TypeOK
  <2>2. activeCount' \in [Procs -> Nat] /\ timer' \in [Procs -> BOOLEAN]
    BY <1>10, <2>1, CountType DEF HandlerEnds
  <2> QED  BY <1>10, <2>2 DEF HandlerEnds, cliVars, TypeOK
<1> QED  BY <1>1, <1>2, <1>3, <1>4, <1>5, <1>6, <1>7, <1>8, <1>9, <1>10 DEF CliStep

LEMMA DaemonType ==
    ASSUME TypeOK, NEW d \in Procs, DaemonStep(d) \/ DaemonDies(d)
    PROVE  TypeOK'
<1>1. ASSUME NEW from, NEW to \in DaemonStates, Advance(d, from, to),
             socket' \in Procs \cup {None}, pidFile' \in Procs \cup {None},
             timer' \in [Procs -> BOOLEAN], shutdownAsked' = shutdownAsked
      PROVE  TypeOK'
  BY <1>1 DEF Advance, cliVars, TypeOK
<1>2. ASSUME NEW from, NEW to \in DaemonStates, Proceed(d, from, to),
             socket' \in Procs \cup {None}, pidFile' \in Procs \cup {None}
      PROVE  TypeOK'
  BY <1>1, <1>2 DEF Proceed, TypeOK
<1> USE DEF DaemonStates
<1>3. CASE UnlinkOldSocket(d) \/ UnlinkOldPid(d) \/ WritePid(d)
  BY <1>2, <1>3 DEF UnlinkOldSocket, UnlinkOldPid, WritePid, TypeOK
<1>4. CASE Serve(d)
  BY <1>1, <1>4 DEF Serve, Touch, TypeOK
<1>5. CASE BindRefused(d) \/ StartFails(d) \/ DaemonDies(d)
  BY <1>2, <1>5 DEF BindRefused, StartFails, DaemonDies, TypeOK
<1>6. CASE RemoveSocket(d) \/ RemovePidAndExit(d)
  BY <1>2, <1>6 DEF RemoveSocket, RemovePidAndExit, TypeOK
<1>7. CASE IdleTimeout(d) \/ Shutdown(d)
  BY <1>7 DEF IdleTimeout, Shutdown, GracefulShutdown, cliVars, TypeOK
<1> QED  BY <1>3, <1>4, <1>5, <1>6, <1>7 DEF DaemonStep

(* Every variable keeps its type.                                          *)
THEOREM TypeCorrect == Spec => []TypeOK
<1>1. Init => TypeOK
  BY InitType
<1>2. TypeOK /\ [Next]_vars => TypeOK'
  <2> SUFFICES ASSUME TypeOK, [Next]_vars
               PROVE  TypeOK'
    OBVIOUS
  <2>1. CASE LockAges
    BY <2>1 DEF LockAges, cliVars, idleVars, TypeOK
  <2>2. CASE UNCHANGED vars
    BY <2>2 DEF vars, cliVars, idleVars, TypeOK
  <2> QED  BY <2>1, <2>2, CliType, DaemonType DEF Next
<1> QED  BY <1>1, <1>2, PTL DEF Spec

(***************************************************************************)
(* The startup lock.                                                       *)
(*                                                                         *)
(* As long as nobody was killed and a startup is shorter than the age of a *)
(* stale lock, the lock belongs to the one process that is starting a      *)
(* daemon, and nobody has found it stale.                                  *)
(***************************************************************************)

Crashed == \E c \in Procs : pc[c] = "crashed"

LockedIn ==
    ~Crashed /\ ~LongStartup =>
        /\ ~lockOld
        /\ \A c \in Procs : pc[c] # "unlinkLock"
        /\ \A c \in Starting : lock = c

LockInv == TypeOK /\ LockHeldByStarter /\ LockedIn

(* What a step that leaves the lock alone does to where a process is.      *)
KeepsLock ==
    /\ lock' = lock /\ lockOld' = lockOld
    /\ \A c \in Procs :
          /\ c \in Starting' <=> c \in Starting
          /\ pc'[c] = "crashed" <=> pc[c] = "crashed"
          /\ pc'[c] = "unlinkLock" => pc[c] = "unlinkLock" \/ lockOld

LEMMA KeepsLockInv ==
    ASSUME LockInv, KeepsLock
    PROVE  LockHeldByStarter' /\ LockedIn'
<1> USE DEF LockInv, KeepsLock
<1>1. LockHeldByStarter'
  BY DEF LockHeldByStarter, TypeOK
<1>2. LockedIn'
  BY DEF LockedIn, Crashed, Starting
<1> QED  BY <1>1, <1>2

LEMMA DaemonKeepsLock ==
    ASSUME NEW d \in Procs, DaemonStep(d) \/ DaemonDies(d) \/ HandlerEnds(d)
    PROVE  KeepsLock
<1>1. lock' = lock /\ lockOld' = lockOld /\ pc' = pc
  BY DEF DaemonStep, DaemonDies, HandlerEnds, IdleTimeout, Shutdown, UnlinkOldSocket, UnlinkOldPid, WritePid,
         Serve, BindRefused, StartFails, RemoveSocket, RemovePidAndExit, Proceed, Advance, cliVars
<1> QED  BY <1>1 DEF KeepsLock, Starting

LEMMA CliLock ==
    ASSUME LockInv, NEW c \in Procs, (\E o \in Ops : Run(c, o)) \/ CliStep(c) \/ Crash(c)
    PROVE  LockHeldByStarter' /\ LockedIn'
<1> USE DEF LockInv
<1>1. \A label \in CliStates : Goto(c, label) =>
          pc'[c] = label /\ \A q \in Procs : q # c => pc'[q] = pc[q]
  BY GotoType
<1>2. CASE \E o \in Ops : Run(c, o)
  <2>1. KeepsLock
    BY <1>1, <1>2 DEF Run, KeepsLock, Starting, CliStates
  <2> QED  BY <2>1, KeepsLockInv
<1>3. CASE ReadPid(c) \/ ReadPidAgain(c) \/ Health(c) \/ CleanPid(c) \/ CleanSocket(c)
  <2>1. KeepsLock
    BY <1>1, <1>3 DEF ReadPid, ReadPidAgain, Health, CleanPid, CleanSocket, AfterStopped, KeepsLock, Starting, CliStates
  <2> QED  BY <2>1, KeepsLockInv
<1>4. CASE AcquireStartLock(c) \/ AcquireStartLockAgain(c)
  <2>1. CASE lock = None
    <3>1. lock' = c /\ lockOld' = FALSE /\ pc'[c] = "spawn" /\ \A q \in Procs : q # c => pc'[q] = pc[q]
      BY <1>1, <1>4, <2>1 DEF AcquireStartLock, AcquireStartLockAgain, TakeLock, CliStates
    <3>2. pc[c] # "crashed"
      BY <1>4 DEF AcquireStartLock, AcquireStartLockAgain
    <3>3. LockHeldByStarter'
      BY <3>1 DEF LockHeldByStarter, Starting
    <3>4. LockedIn'
      <4>1. ~Crashed' => ~Crashed
        BY <3>1, <3>2 DEF Crashed
      <4>2. \A q \in Starting' : q # c => q \in Starting
        BY <3>1 DEF Starting
      <4>3. \A q \in Procs : pc'[q] = "unlinkLock" => pc[q] = "unlinkLock"
        BY <3>1
      <4> QED  BY <2>1, <3>1, <4>1, <4>2, <4>3, NoneAssumption DEF LockedIn, Starting
    <3> QED  BY <3>3, <3>4
  <2>2. CASE lock # None
    <3>1. KeepsLock
      BY <1>1, <1>4, <2>2 DEF AcquireStartLock, AcquireStartLockAgain, TakeLock, KeepsLock, Starting, CliStates
    <3> QED  BY <3>1, KeepsLockInv
  <2> QED  BY <2>1, <2>2
<1>5. CASE StatLock(c)
  <2>1. KeepsLock
    BY <1>1, <1>5 DEF StatLock, KeepsLock, Starting, CliStates
  <2> QED  BY <2>1, KeepsLockInv
<1>6. CASE UnlinkStaleLock(c)
  <2>1. (Crashed \/ LongStartup) /\ pc[c] = "unlinkLock"
    BY <1>6 DEF UnlinkStaleLock, LockedIn
  <2>2. (Crashed' \/ LongStartup) /\ lock' = None
    BY <1>1, <1>6, <2>1 DEF UnlinkStaleLock, Crashed, CliStates
  <2> QED  BY <2>2 DEF LockedIn, LockHeldByStarter
<1>7. CASE StartDaemonProcess(c) \/ DaemonReady(c) \/ StartupTimeout(c)
  <2>1. KeepsLock
    BY <1>1, <1>7 DEF StartDaemonProcess, DaemonReady, StartupTimeout, KeepsLock, Starting, CliStates
  <2> QED  BY <2>1, KeepsLockInv
<1>10. CASE Call(c) \/ Stop(c) \/ RequestFails(c) \/ Reply(c) \/ GiveUp(c)
  <2>1. KeepsLock
    BY <1>1, <1>10 DEF Call, Stop, RequestFails, Reply, GiveUp, KeepsLock, Starting, CliStates
  <2> QED  BY <2>1, KeepsLockInv
<1>8. CASE ReleaseStartLock(c)
  <2>1. /\ lock' = None /\ lockOld' = FALSE
        /\ c \in Starting /\ pc'[c] \in {"request", "failed"}
        /\ \A q \in Procs : q # c => pc'[q] = pc[q]
    BY <1>1, <1>8 DEF ReleaseStartLock, Starting, CliStates
  <2>2. ~Crashed' /\ ~LongStartup => ~Crashed /\ Starting' = {}
    <3>1. ~Crashed' => ~Crashed
      BY <2>1 DEF Crashed, Starting
    <3>2. \A q \in Starting' : q \in Starting /\ q # c
      BY <2>1 DEF Starting
    <3> QED  BY <2>1, <3>1, <3>2 DEF LockedIn
  <2> QED  BY <2>1, <2>2 DEF LockedIn, LockHeldByStarter
<1>9. CASE Crash(c)
  <2>1. pc'[c] = "crashed" /\ lock' = lock /\ \A q \in Procs : q # c => pc'[q] = pc[q]
    BY <1>1, <1>9 DEF Crash, CliStates
  <2> QED  BY <2>1 DEF LockedIn, Crashed, LockHeldByStarter, Starting, TypeOK
<1> QED  BY <1>2, <1>3, <1>4, <1>5, <1>6, <1>7, <1>8, <1>9, <1>10 DEF CliStep

LEMMA LockInvariant == Spec => []LockInv
<1>1. Init => LockInv
  <2> SUFFICES ASSUME Init
               PROVE  LockInv
    OBVIOUS
  <2>1. TypeOK
    BY InitType
  <2> QED  BY <2>1 DEF Init, LockInv, LockHeldByStarter, LockedIn, Starting
<1>2. LockInv /\ TypeOK' /\ [Next]_vars => LockInv'
  <2> SUFFICES ASSUME LockInv, TypeOK', [Next]_vars
               PROVE  LockHeldByStarter' /\ LockedIn'
    BY DEF LockInv
  <2>1. CASE LockAges
    <3>1. lock' = lock /\ pc' = pc /\ (LongStartup \/ pc[lock] = "crashed") /\ lock \in Procs
      BY <2>1 DEF LockAges, cliVars, LockInv, TypeOK
    <3> QED  BY <3>1 DEF LockInv, LockHeldByStarter, LockedIn, Crashed, Starting
  <2>2. CASE UNCHANGED vars
    <3>1. KeepsLock
      BY <2>2 DEF vars, cliVars, idleVars, KeepsLock, Starting
    <3> QED  BY <3>1, KeepsLockInv
  <2> QED  BY <2>1, <2>2, CliLock, DaemonKeepsLock, KeepsLockInv DEF Next
<1> QED  BY <1>1, <1>2, TypeCorrect, PTL DEF Spec

(* A lock file belongs to a process that is starting a daemon, or to one   *)
(* that was killed (client.ts, ensureDaemon and its finally block).        *)
THEOREM LockBelongsToStarter == Spec => []LockHeldByStarter
  BY LockInvariant, PTL DEF LockInv

(* Two processes start daemons at the same time only after a crash, when   *)
(* both have found the same stale lock, or if a startup may last longer    *)
(* than a lock counts as fresh.                                            *)
THEOREM StartsOneAtATime == Spec => []StartSerialized
<1>1. LockInv => StartSerialized
  <2> SUFFICES ASSUME LockInv, ~Crashed, ~LongStartup
               PROVE  ~(Cardinality(Starting) > 1)
    BY DEF StartSerialized, Crashed
  <2>1. Starting \subseteq {lock}
    BY DEF LockInv, LockedIn
  <2>2. IsFiniteSet({lock}) /\ Cardinality({lock}) = 1
    BY FS_Singleton
  <2>3. Cardinality(Starting) <= 1 /\ Cardinality(Starting) \in Nat
    BY <2>1, <2>2, FS_Subset, FS_CardinalityType
  <2> QED  BY <2>3
<1> QED  BY <1>1, LockInvariant, PTL

(***************************************************************************)
(* The idle timer: its count is the number of handlers at work, and it     *)
(* runs under none.                                                        *)
(***************************************************************************)

Counted(d) ==
    /\ IsFiniteSet(Running(d))
    /\ activeCount[d] = Cardinality(Running(d))
    /\ timer[d] => activeCount[d] = 0

(* Where a process is before it spawns a daemon, and before its request.   *)
Unspawned == {"idle", "readPid", "readPidAgain", "health", "unlinkPid", "unlinkSocket",
              "lock", "statLock", "unlinkLock", "relock", "spawn"}
Unasked   == Unspawned \cup {"waitOwn", "waitReady", "release", "releaseFailed", "request"}

(* A process sends one request, and only to a daemon that has served.      *)
OneRequest ==
    /\ \A c \in Procs : pc[c] \in Unspawned => daemon[c] = "none"
    /\ \A c \in Procs : pc[c] \in Unasked => server[c] = None
    /\ \A c \in Procs : server[c] # None =>
          daemon[server[c]] \in {"serving", "stopping", "removedSocket", "dead"}

IdleInv == TypeOK /\ OneRequest /\ \A d \in Procs : Counted(d)

LEMMA CountedStays ==
    ASSUME NEW d \in Procs, Counted(d), activeCount'[d] = activeCount[d],
           timer'[d] => timer[d], Running(d)' = Running(d)
    PROVE  Counted(d)'
  BY DEF Counted

(* A request that begins is counted, and the timer does not run under it.  *)
LEMMA CallCounts ==
    ASSUME IdleInv, NEW c \in Procs, Call(c), NEW e \in Procs
    PROVE  Counted(e)'
<1>1. PICK d \in Procs : server' = [server EXCEPT ![c] = d] /\ OnRequestStart(d)
  BY DEF Call
<1>2. /\ activeCount' = [activeCount EXCEPT ![d] = @ + 1]
      /\ timer' = [timer EXCEPT ![d] = FALSE]
  BY <1>1 DEF OnRequestStart
<1>5. server[c] = None
  BY DEF Call, IdleInv, OneRequest, Unasked
<1>3. CASE e # d
  <2>1. Running(e)' = Running(e)
    BY <1>1, <1>3, <1>5, NoneAssumption DEF Running, IdleInv, TypeOK
  <2> QED  BY <1>2, <1>3, <2>1, CountedStays DEF IdleInv, TypeOK
<1>4. CASE e = d
  <2>1. Running(d)' = Running(d) \cup {c} /\ c \notin Running(d)
    BY <1>1, <1>5, NoneAssumption DEF Running, IdleInv, TypeOK
  <2>2. IsFiniteSet(Running(d)) /\ activeCount[d] = Cardinality(Running(d))
    BY DEF IdleInv, Counted
  <2>3. IsFiniteSet(Running(d)') /\ Cardinality(Running(d)') = Cardinality(Running(d)) + 1
    BY <2>1, <2>2, FS_AddElement
  <2>4. activeCount'[d] = activeCount[d] + 1 /\ timer'[d] = FALSE
    BY <1>2 DEF IdleInv, TypeOK
  <2> QED  BY <1>4, <2>2, <2>3, <2>4 DEF Counted
<1> QED  BY <1>3, <1>4

(* A handler that ends is counted off; the last one starts the timer.      *)
LEMMA EndCounts ==
    ASSUME IdleInv, NEW c \in Procs, HandlerEnds(c), NEW e \in Procs
    PROVE  Counted(e)'
<1>0. PICK d \in Procs : d = server[c]
  BY DEF HandlerEnds, IdleInv, TypeOK
<1>1. d = server[c] /\ server' = [server EXCEPT ![c] = None] /\ OnRequestEnd(d)
  BY <1>0 DEF HandlerEnds
<1>2. c \in Running(d) /\ IsFiniteSet(Running(d)) /\ activeCount[d] = Cardinality(Running(d))
  BY <1>1 DEF Running, IdleInv, Counted
<1>3. /\ IsFiniteSet(Running(d) \ {c})
      /\ Cardinality(Running(d) \ {c}) = Cardinality(Running(d)) - 1
      /\ Cardinality(Running(d) \ {c}) \in Nat
  BY <1>2, FS_RemoveElement, FS_CardinalityType
<1>4. activeCount[d] # 0 /\ activeCount[d] \in Nat
  BY <1>1, <1>2, <1>3 DEF IdleInv, TypeOK
<1>5. /\ activeCount' = [activeCount EXCEPT ![d] = @ - 1]
      /\ IF activeCount'[d] = 0 THEN Touch(d) ELSE UNCHANGED timer
  BY <1>1, <1>4 DEF OnRequestEnd
<1>6. CASE e # d
  <2>1. Running(e)' = Running(e)
    BY <1>1, <1>2, <1>6, NoneAssumption DEF Running, IdleInv, TypeOK
  <2>2. activeCount'[e] = activeCount[e] /\ timer'[e] = timer[e]
    BY <1>5, <1>6 DEF Touch, IdleInv, TypeOK
  <2> QED  BY <2>1, <2>2, CountedStays DEF IdleInv
<1>7. CASE e = d
  <2>1. Running(d)' = Running(d) \ {c}
    BY <1>1, <1>2, NoneAssumption DEF Running, IdleInv, TypeOK
  <2>2. activeCount'[d] = activeCount[d] - 1
    BY <1>1, <1>5 DEF IdleInv, TypeOK
  <2>3. timer'[d] => activeCount'[d] = 0
    BY <1>1, <1>4, <1>5 DEF IdleInv, Counted
  <2> QED  BY <1>2, <1>3, <1>7, <2>1, <2>2, <2>3 DEF Counted
<1> QED  BY <1>6, <1>7

(* The steps of a process that concern no request.                         *)
LEMMA OtherCliStep ==
    ASSUME IdleInv, TypeOK', NEW c \in Procs, daemon' = daemon,
           server' = server, activeCount' = activeCount, timer' = timer,
           \A q \in Procs : q # c => pc'[q] = pc[q],
           pc'[c] \in Unspawned => pc[c] \in Unspawned,
           pc'[c] \in Unasked => pc[c] \in Unasked
    PROVE  IdleInv'
<1>1. \A d \in Procs : Counted(d)'
  BY CountedStays DEF IdleInv, Running
<1>2. OneRequest'
  BY DEF OneRequest, IdleInv
<1> QED  BY <1>1, <1>2 DEF IdleInv

LEMMA CliIdle ==
    ASSUME IdleInv, TypeOK', NEW c \in Procs, (\E o \in Ops : Run(c, o)) \/ CliStep(c) \/ Crash(c)
    PROVE  IdleInv'
<1> USE DEF idleVars
<1>1. \A label \in CliStates : Goto(c, label) =>
          pc'[c] = label /\ \A q \in Procs : q # c => pc'[q] = pc[q]
  BY GotoType DEF IdleInv
<1>2. CASE \/ \E o \in Ops : Run(c, o)
           \/ ReadPid(c) \/ ReadPidAgain(c) \/ Health(c) \/ CleanPid(c) \/ CleanSocket(c)
  <2>1. /\ daemon' = daemon /\ server' = server /\ activeCount' = activeCount /\ timer' = timer
        /\ \A q \in Procs : q # c => pc'[q] = pc[q]
        /\ pc[c] \in Unspawned
    BY <1>1, <1>2 DEF Run, ReadPid, ReadPidAgain, Health, CleanPid, CleanSocket, AfterStopped, CliStates, Unspawned
  <2> QED  BY <2>1, OtherCliStep DEF Unasked
<1>3. CASE AcquireStartLock(c) \/ StatLock(c) \/ UnlinkStaleLock(c) \/ AcquireStartLockAgain(c)
  <2>1. /\ daemon' = daemon /\ server' = server /\ activeCount' = activeCount /\ timer' = timer
        /\ \A q \in Procs : q # c => pc'[q] = pc[q]
        /\ pc[c] \in Unspawned
    BY <1>1, <1>3 DEF AcquireStartLock, StatLock, UnlinkStaleLock, AcquireStartLockAgain, TakeLock, CliStates, Unspawned
  <2> QED  BY <2>1, OtherCliStep DEF Unasked
<1>4. CASE DaemonReady(c) \/ StartupTimeout(c) \/ ReleaseStartLock(c) \/ RequestFails(c) \/ Stop(c) \/ Crash(c)
  <2>1. /\ daemon' = daemon /\ server' = server /\ activeCount' = activeCount /\ timer' = timer
        /\ \A q \in Procs : q # c => pc'[q] = pc[q]
        /\ pc[c] \in Unasked /\ pc'[c] \notin Unspawned
    BY <1>1, <1>4 DEF DaemonReady, StartupTimeout, ReleaseStartLock, RequestFails, Stop, Crash, CliStates, Unspawned, Unasked
  <2> QED  BY <2>1, OtherCliStep
<1>5. CASE Reply(c) \/ GiveUp(c)
  <2>1. /\ daemon' = daemon /\ server' = server /\ activeCount' = activeCount /\ timer' = timer
        /\ \A q \in Procs : q # c => pc'[q] = pc[q]
        /\ pc'[c] \notin Unasked /\ pc'[c] \notin Unspawned
    BY <1>1, <1>5 DEF Reply, GiveUp, CliStates, Unspawned, Unasked
  <2> QED  BY <2>1, OtherCliStep
<1>6. CASE StartDaemonProcess(c)
  <2>1. /\ pc[c] = "spawn" /\ daemon' = [daemon EXCEPT ![c] = "spawned"]
        /\ server' = server /\ activeCount' = activeCount /\ timer' = timer
        /\ pc'[c] = "waitOwn" /\ \A q \in Procs : q # c => pc'[q] = pc[q]
    BY <1>1, <1>6 DEF StartDaemonProcess, CliStates
  <2>2. daemon[c] = "none" /\ server[c] = None
    BY <2>1 DEF IdleInv, OneRequest, Unspawned, Unasked
  <2>3. \A d \in Procs : Counted(d)'
    BY <2>1, CountedStays DEF IdleInv, Running
  <2>4. OneRequest'
    BY <2>1, <2>2 DEF OneRequest, IdleInv, TypeOK, Unspawned, Unasked
  <2> QED  BY <2>3, <2>4 DEF IdleInv
<1>7. CASE Call(c)
  <2>1. PICK d \in Procs : Answers(d) /\ server' = [server EXCEPT ![c] = d]
    BY <1>7 DEF Call
  <2>2. daemon' = daemon /\ pc'[c] = "inFlight" /\ \A q \in Procs : q # c => pc'[q] = pc[q]
    BY <1>1, <1>7 DEF Call, CliStates
  <2>3. OneRequest'
    BY <2>1, <2>2 DEF OneRequest, IdleInv, TypeOK, Answers, Unspawned, Unasked
  <2>4. \A e \in Procs : Counted(e)'
    BY <1>7, CallCounts
  <2> QED  BY <2>3, <2>4 DEF IdleInv
<1> QED  BY <1>2, <1>3, <1>4, <1>5, <1>6, <1>7 DEF CliStep

LEMMA HandlerIdle ==
    ASSUME IdleInv, TypeOK', NEW c \in Procs, HandlerEnds(c)
    PROVE  IdleInv'
<1>1. OneRequest'
  BY DEF HandlerEnds, cliVars, OneRequest, IdleInv, TypeOK
<1> QED  BY <1>1, EndCounts DEF IdleInv

(* The timer of a daemon is set when it begins to serve, before any call.  *)
LEMMA DaemonIdle ==
    ASSUME IdleInv, TypeOK', NEW d \in Procs, DaemonStep(d) \/ DaemonDies(d)
    PROVE  IdleInv'
<1> DEFINE Late == {"serving", "stopping", "removedSocket", "dead"}
<1>1. ASSUME NEW from, NEW to, Advance(d, from, to), from # "none", from \in Late => to \in Late
      PROVE  OneRequest'
  BY <1>1 DEF Advance, cliVars, OneRequest, IdleInv, TypeOK
<1>2. ASSUME NEW from, NEW to, Proceed(d, from, to), from # "none", from \in Late => to \in Late
      PROVE  IdleInv'
  <2>1. server' = server /\ activeCount' = activeCount /\ timer' = timer
    BY <1>2 DEF Proceed, Advance
  <2>2. \A e \in Procs : Counted(e)'
    BY <2>1, CountedStays DEF IdleInv, Running
  <2> QED  BY <1>1, <1>2, <2>2 DEF Proceed, IdleInv
<1>3. CASE UnlinkOldSocket(d) \/ UnlinkOldPid(d) \/ WritePid(d)
  BY <1>2, <1>3 DEF UnlinkOldSocket, UnlinkOldPid, WritePid
<1>4. CASE BindRefused(d) \/ StartFails(d) \/ DaemonDies(d) \/ RemoveSocket(d) \/ RemovePidAndExit(d)
  BY <1>2, <1>4 DEF BindRefused, StartFails, DaemonDies, RemoveSocket, RemovePidAndExit
<1>5. CASE Serve(d)
  <2>1. /\ Advance(d, "loading", "serving") /\ timer' = [timer EXCEPT ![d] = TRUE]
        /\ server' = server /\ activeCount' = activeCount
    BY <1>5 DEF Serve, Touch, Advance
  <2>2. Running(d) = {}
    BY <2>1, NoneAssumption DEF Advance, Running, OneRequest, IdleInv
  <2>3. activeCount[d] = 0
    BY <2>2, FS_EmptySet DEF IdleInv, Counted
  <2>4. ASSUME NEW e \in Procs
        PROVE  Counted(e)'
    BY <2>1, <2>3 DEF IdleInv, Counted, Running, TypeOK
  <2> QED  BY <1>1, <2>1, <2>4 DEF IdleInv
<1>6. CASE IdleTimeout(d) \/ Shutdown(d)
  <2>1. /\ pc' = pc /\ server' = server /\ activeCount' = activeCount
        /\ daemon' = [daemon EXCEPT ![d] = IF @ = "serving" THEN "stopping" ELSE @]
        /\ \A e \in Procs : timer'[e] => timer[e]
    BY <1>6 DEF IdleTimeout, Shutdown, GracefulShutdown, cliVars, IdleInv, TypeOK
  <2>2. \A e \in Procs : Counted(e)'
    BY <2>1, CountedStays DEF IdleInv, Running
  <2>3. OneRequest'
    BY <2>1 DEF OneRequest, IdleInv, TypeOK
  <2> QED  BY <2>2, <2>3 DEF IdleInv
<1> QED  BY <1>3, <1>4, <1>5, <1>6 DEF DaemonStep

LEMMA IdleInvariant == Spec => []IdleInv
<1>1. Init => IdleInv
  <2> SUFFICES ASSUME Init
               PROVE  IdleInv
    OBVIOUS
  <2>1. TypeOK
    BY InitType
  <2>2. \A d \in Procs : Running(d) = {}
    BY NoneAssumption DEF Init, Running
  <2>3. \A d \in Procs : Counted(d)
    BY <2>2, FS_EmptySet DEF Init, Counted
  <2> QED  BY <2>1, <2>3 DEF Init, IdleInv, OneRequest
<1>2. IdleInv /\ TypeOK' /\ [Next]_vars => IdleInv'
  <2> SUFFICES ASSUME IdleInv, TypeOK', [Next]_vars
               PROVE  IdleInv'
    OBVIOUS
  <2>1. CASE LockAges \/ UNCHANGED vars
    <3>1. pc' = pc /\ daemon' = daemon /\ server' = server /\ activeCount' = activeCount /\ timer' = timer
      BY <2>1 DEF LockAges, vars, cliVars, idleVars
    <3>2. OneRequest'
      BY <3>1 DEF OneRequest, IdleInv
    <3>3. \A d \in Procs : Counted(d)'
      BY <3>1, CountedStays DEF IdleInv, Running
    <3> QED  BY <3>2, <3>3 DEF IdleInv
  <2> QED  BY <2>1, CliIdle, HandlerIdle, DaemonIdle DEF Next
<1> QED  BY <1>1, <1>2, TypeCorrect, PTL DEF Spec

(* A daemon begins its shutdown while a handler is at work only when a     *)
(* /shutdown was answered, for any number of overlapping calls, given up   *)
(* by their clients or not (idle.ts, server.ts, index.ts).                 *)
THEOREM IdleTimerSparesCalls == Spec => OnlyStopCutsCalls
<1> DEFINE Spares == \A d \in Procs :
                        daemon[d] = "serving" /\ daemon'[d] = "stopping" /\ Running(d) # {}
                        => d \in shutdownAsked
<1>1. IdleInv /\ [Next]_vars => [Spares]_vars
  <2> SUFFICES ASSUME IdleInv, Next, NEW d \in Procs,
                      daemon[d] = "serving", daemon'[d] = "stopping", Running(d) # {}
               PROVE  d \in shutdownAsked
    OBVIOUS
  <2> USE DEF idleVars, IdleInv
  <2>1. ASSUME NEW c \in Procs, (\E o \in Ops : Run(c, o)) \/ CliStep(c) \/ Crash(c) \/ HandlerEnds(c)
        PROVE  FALSE
    <3>1. daemon' = daemon \/ StartDaemonProcess(c)
      BY <2>1 DEF CliStep, Run, Crash, HandlerEnds, ReadPid, ReadPidAgain, Health, CleanPid, CleanSocket, AfterStopped,
                  AcquireStartLock, AcquireStartLockAgain, TakeLock, StatLock, UnlinkStaleLock,
                  DaemonReady, StartupTimeout, ReleaseStartLock, Call, Stop, RequestFails, Reply, GiveUp
    <3> QED  BY <3>1 DEF StartDaemonProcess, TypeOK
  <2>2. ASSUME NEW e \in Procs, NEW from, NEW to, Proceed(e, from, to), to # "stopping"
        PROVE  FALSE
    BY <2>2 DEF Proceed, Advance, TypeOK
  <2>3. PICK e \in Procs : DaemonStep(e) \/ DaemonDies(e)
    BY <2>1 DEF Next, LockAges
  <2>4. ~Serve(e)
    BY DEF Serve, Advance, TypeOK
  <2>5. IdleTimeout(e) \/ Shutdown(e)
    BY <2>2, <2>3, <2>4 DEF DaemonStep, DaemonDies, UnlinkOldSocket, UnlinkOldPid, WritePid, BindRefused, StartFails,
                            RemoveSocket, RemovePidAndExit
  <2>6. e = d
    BY <2>5 DEF IdleTimeout, Shutdown, GracefulShutdown, TypeOK
  <2>7. ~IdleTimeout(d)
    <3>1. SUFFICES ASSUME timer[d]
                   PROVE  Running(d) = {}
      BY DEF IdleTimeout
    <3>2. IsFiniteSet(Running(d)) /\ Cardinality(Running(d)) = 0
      BY <3>1 DEF Counted
    <3> QED  BY <3>2, FS_EmptySet
  <2> QED  BY <2>5, <2>6, <2>7 DEF Shutdown
<1> QED  BY <1>1, IdleInvariant, PTL DEF Spec, OnlyStopCutsCalls
================================================================================
