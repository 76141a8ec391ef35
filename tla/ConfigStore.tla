----------------------------- MODULE ConfigStore -----------------------------
(***************************************************************************)
(* The services configuration of a daemon: ConfigManager's copy in memory, *)
(* services.json, the reload by the file watcher, and the pooled           *)
(* connections made with it (daemon/config-manager.ts, daemon/             *)
(* file-watch.ts, the /api/services routes of daemon/server.ts), against   *)
(* mcp2cli bootstrap, which writes the file (cli/commands/bootstrap.ts).   *)
(* A daemon starts with the file and what its importUrl names, but reloads *)
(* the file alone (config/loader.ts).                                      *)
(*                                                                         *)
(* An action is the code between two awaits.  The pool has one key per     *)
(* service here; ConnectionPool has its details.  A configuration maps     *)
(* each service to a version, 0 when it is not configured.  The directory  *)
(* of the file can be watched.                                             *)
(***************************************************************************)
EXTENDS Naturals, FiniteSets

CONSTANTS Services,
          MaxVersion,  \* bound: different configurations of one service
          ConfigOps,   \* management requests, reloads and bootstraps under way at once
          Torn         \* a file that is being written

ASSUME ConfigBounds == MaxVersion \in Nat

VARIABLES config,      \* this.config
          configFile,  \* services.json
          configTimer, \* the watcher's debounce timer runs
          configOp,    \* each operation
          pooled,      \* the version each pooled connection was made with
          connecting,  \* the version each pending connect attempt uses
          raced,       \* history: services connected with an old version while it was replaced
          excused      \* history: memory may differ from the file for good

configVars == <<config, configFile, configTimer, configOp, pooled, connecting, raced, excused>>

Versions == 1..MaxVersion
Configs == [Services -> 0..MaxVersion]
Empty == [s \in Services |-> 0]

\* An operation: where it is, the configuration it brings and the one it compared it with, the services
\* it has to pass and those whose connection it has closed
Op(pc, kind, new, base, todo, closed) ==
    [pc |-> pc, kind |-> kind, new |-> new, base |-> base, todo |-> todo, closed |-> closed]
IdleOp == Op("idle", "reload", Empty, Empty, {}, {})

\* What importUrl can bring: it is set or not; the stored answer, when importTtlSeconds keeps it; whether
\* the URL and those it redirects to are allowed; the answer of the server, Torn when there is none
Imports == [url : BOOLEAN, stored : Configs \cup {Torn}, allowed : BOOLEAN, answer : Configs \cup {Torn}]

\* readImportState: an answer that is still fresh is used, if its URL is still allowed
FreshImport(imp) == imp.stored # Torn

\* fetchImportUrl, with validateImportUrl for every redirect
FetchImport(imp) == IF imp.allowed THEN imp.answer ELSE Torn

MergeImported(local, imported) == [s \in Services |-> IF local[s] # 0 THEN local[s] ELSE imported[s]]

\* maybeImportConfig: a stored answer that is too old is no substitute for one that fails
MaybeImport(local, imp) ==
    LET imported == IF ~FreshImport(imp) THEN FetchImport(imp)
                    ELSE IF imp.allowed THEN imp.stored ELSE Torn
    IN  IF ~imp.url \/ imported = Torn THEN local ELSE MergeImported(local, imported)

\* loadConfig: a torn file is refused
LoadConfig(file) == IF file = Torn THEN {} ELSE {MaybeImport(file, imp) : imp \in Imports}

\* startDaemon: the file was loaded, with an import that may take its time, and is watched from here on
ConfigInit ==
    /\ configFile \in Configs
    /\ \E loaded \in Configs : config \in LoadConfig(loaded)
    /\ configTimer = FALSE
    /\ configOp = [o \in ConfigOps |-> IdleOp]
    /\ pooled = Empty
    /\ connecting = Empty
    /\ raced = {}
    /\ excused = (config # configFile)

\* mergeEntries: a service that is there keeps its configuration
MergeEntries(claude, existing) == [s \in Services |-> IF existing[s] # 0 THEN existing[s] ELSE claude[s]]

WriteLocked == \E o \in ConfigOps : configOp[o].pc \in {"writing", "torn"}

\* diffConfigs: the services to disconnect, removed or updated
Changed(old, new) == {s \in Services : old[s] # 0 /\ new[s] # old[s]}

\* Mutant: only the removed ones
Removed(old, new) == {s \in Services : old[s] # 0 /\ new[s] = 0}

Disconnected(old, new) == Changed(old, new)

Evict(T) ==
    /\ pooled' = [s \in Services |-> IF s \in T THEN 0 ELSE pooled[s]]
    /\ raced' = raced \ T

\* writeToDisk with the configuration cfg: it throws when another write is under way
Persist(o, cfg) ==
    configOp' = [configOp EXCEPT ![o] = IF WriteLocked THEN IdleOp
                                        ELSE Op("writing", "reload", cfg, Empty, {}, {})]

\* this.config becomes cfg, in one assignment or entry by entry; the services of lost were changed
\* by somebody else since op o compared
StoreConfig(o, cfg, lost) ==
    /\ config' = cfg
    /\ raced' = raced \cup {s \in lost : pooled[s] # 0}

-------------------------------------------------------------------------------
AddService(o, s, v) ==
    /\ configOp[o].pc = "idle"
    /\ config[s] = 0
    /\ config' = [config EXCEPT ![s] = v]
    /\ Persist(o, config')
    /\ UNCHANGED <<configFile, configTimer, pooled, connecting, raced, excused>>

\* The connection of s is closed before v takes the place of its configuration
CloseThenPatch(o, s, v) ==
    /\ configOp[o].pc = "idle"
    /\ config[s] # 0
    /\ Evict({s})
    /\ configOp' = [configOp EXCEPT ![o] = Op("closing", "patch", [config EXCEPT ![s] = v], Empty, {}, {s})]
    /\ UNCHANGED <<config, configFile, configTimer, connecting, excused>>

\* Up to the await of closeService
UpdateService(o, s, v) == v # 0 /\ CloseThenPatch(o, s, v)
RemoveService(o, s) == CloseThenPatch(o, s, 0)

\* POST /api/services, PUT and DELETE /api/services/:name
ManageService(o) ==
    \E s \in Services :
        \/ \E v \in Versions : AddService(o, s, v) \/ UpdateService(o, s, v)
        \/ RemoveService(o, s)

\* reloadFromDisk reads the file: a torn one is refused
ReadConfig(o) ==
    /\ configOp[o].pc = "idle"
    /\ configOp' = IF configFile = Torn THEN configOp
                   ELSE [configOp EXCEPT ![o] = Op("read", "reload", configFile, Empty, {}, {})]
    /\ UNCHANGED <<config, configFile, pooled, connecting, raced, excused>>

\* POST /api/services/reload
AskReload(o) == ReadConfig(o) /\ UNCHANGED configTimer

\* The watcher's debounce timer
ConfigTimerFires(o) == configTimer /\ ReadConfig(o) /\ configTimer' = FALSE

\* POST /api/services/import, when importFromUrl has its response: replace goes on like a reload, merge
\* service by service
AskImport(o, cfg, mode) ==
    /\ configOp[o].pc = "idle"
    /\ configOp' = [configOp EXCEPT ![o] =
           Op(IF mode = "merge" THEN "merging" ELSE "read", mode, cfg, Empty, {s \in Services : cfg[s] # 0}, {})]
    /\ UNCHANGED <<config, configFile, configTimer, pooled, connecting, raced, excused>>

\* reload and replace compare with the configuration in memory
CompareConfig(o) ==
    LET op == configOp[o] IN
    /\ op.pc = "read"
    /\ configOp' = [configOp EXCEPT ![o] =
           Op("closing", op.kind, op.new, config, Disconnected(config, op.new), {})]
    /\ UNCHANGED <<config, configFile, configTimer, pooled, connecting, raced, excused>>

CloseForChange(o, s) ==
    LET op == configOp[o] IN
    /\ op.pc = "closing" /\ op.kind \in {"reload", "replace"}
    /\ s \in op.todo
    /\ Evict({s})
    /\ configOp' = [configOp EXCEPT ![o] =
           Op("closing", op.kind, op.new, op.base, op.todo \ {s}, op.closed \cup {s})]
    /\ UNCHANGED <<config, configFile, configTimer, connecting, excused>>

\* A close is rejected: the operation throws
CloseRejected(o) ==
    /\ configOp[o].pc = "closing"
    /\ configOp[o].closed # {}
    /\ configOp' = [configOp EXCEPT ![o] = IdleOp]
    /\ excused' = TRUE
    /\ UNCHANGED <<config, configFile, configTimer, pooled, connecting, raced>>

ApplyReload(o) ==
    LET op == configOp[o] IN
    /\ op.pc = "closing" /\ op.kind = "reload" /\ op.todo = {}
    /\ StoreConfig(o, op.new, {s \in Services : config[s] # op.base[s]})
    /\ excused' = (configFile # op.new)
    /\ configOp' = [configOp EXCEPT ![o] = IdleOp]
    /\ UNCHANGED <<configFile, configTimer, pooled, connecting>>

ApplyReplace(o) ==
    LET op == configOp[o] IN
    /\ op.pc = "closing" /\ op.kind = "replace" /\ op.todo = {}
    /\ StoreConfig(o, op.new, {s \in Services : config[s] # op.base[s]})
    /\ Persist(o, op.new)
    /\ UNCHANGED <<configFile, configTimer, pooled, connecting, excused>>

\* update and remove store their service, in whatever configuration is there by now
ApplyPatch(o) ==
    LET op == configOp[o] IN
    /\ op.pc = "closing" /\ op.kind = "patch"
    /\ StoreConfig(o, [s \in Services |-> IF s \in op.closed THEN op.new[s] ELSE config[s]], {})
    /\ Persist(o, config')
    /\ UNCHANGED <<configFile, configTimer, pooled, connecting, excused>>

\* merge: a service that is there is disconnected first, a new one is stored
MergeService(o, s) ==
    LET op == configOp[o] IN
    /\ op.pc = "merging"
    /\ s \in op.todo
    /\ IF config[s] = 0
       THEN /\ config' = [config EXCEPT ![s] = op.new[s]]
            /\ configOp' = [configOp EXCEPT ![o].todo = @ \ {s}]
            /\ UNCHANGED <<pooled, raced>>
       ELSE /\ Evict({s})
            /\ configOp' = [configOp EXCEPT ![o] = Op("closing", op.kind, op.new, op.base, op.todo \ {s}, {s})]
            /\ UNCHANGED config
    /\ UNCHANGED <<configFile, configTimer, connecting, excused>>

ApplyMerge(o) ==
    LET op == configOp[o] IN
    /\ op.pc = "closing" /\ op.kind = "merge"
    /\ StoreConfig(o, [s \in Services |-> IF s \in op.closed THEN op.new[s] ELSE config[s]], {})
    /\ configOp' = [configOp EXCEPT ![o] = Op("merging", op.kind, op.new, op.base, op.todo, {})]
    /\ UNCHANGED <<configFile, configTimer, pooled, connecting, excused>>

EndMerge(o) ==
    /\ configOp[o].pc = "merging" /\ configOp[o].todo = {}
    /\ Persist(o, config)
    /\ UNCHANGED <<config, configFile, configTimer, pooled, connecting, raced, excused>>

-------------------------------------------------------------------------------
\* Bun.write: the file is truncated, then complete, or the write fails before it
TearFile(o) ==
    /\ configOp[o].pc = "writing"
    /\ configFile' = Torn
    /\ configTimer' = TRUE
    /\ configOp' = [configOp EXCEPT ![o].pc = "torn"]
    /\ UNCHANGED <<config, pooled, connecting, raced, excused>>

\* Mutant: the watcher is not told of the daemon's own writes
EndWriteUnseen(o) ==
    /\ configOp[o].pc = "torn"
    /\ configFile' = configOp[o].new
    /\ configOp' = [configOp EXCEPT ![o] = IdleOp]
    /\ UNCHANGED <<config, configTimer, pooled, connecting, raced, excused>>

EndWrite(o) ==
    /\ configOp[o].pc = "torn"
    /\ configFile' = configOp[o].new
    /\ configTimer' = TRUE
    /\ configOp' = [configOp EXCEPT ![o] = IdleOp]
    /\ UNCHANGED <<config, pooled, connecting, raced, excused>>

FailWrite(o) ==
    /\ configOp[o].pc = "writing"
    /\ configOp' = [configOp EXCEPT ![o] = IdleOp]
    /\ excused' = TRUE
    /\ UNCHANGED <<config, configFile, configTimer, pooled, connecting, raced>>

\* Somebody replaces the file
EditConfig(cfg) ==
    /\ ~WriteLocked
    /\ configFile' = cfg
    /\ configTimer' = TRUE
    /\ UNCHANGED <<config, configOp, pooled, connecting, raced, excused>>

\* handleBootstrap, in another process: it loads the configuration and adds the entries of claude.json
\* that it lacks. With none to add, or --dry-run, it writes nothing.
BootstrapReads(o, claude) ==
    /\ configOp[o].pc = "idle"
    /\ \E loaded \in LoadConfig(configFile) :
          /\ MergeEntries(claude, loaded) # loaded
          /\ configOp' = [configOp EXCEPT ![o] =
                 Op("bootstrap", "reload", MergeEntries(claude, loaded), Empty, {}, {})]
    /\ UNCHANGED <<config, configFile, configTimer, pooled, connecting, raced, excused>>

\* The whole file, without what has been written since, and with the imported services in it
BootstrapWrites(o) ==
    /\ configOp[o].pc = "bootstrap"
    /\ ~WriteLocked
    /\ configFile' = configOp[o].new
    /\ configTimer' = TRUE
    /\ configOp' = [configOp EXCEPT ![o] = IdleOp]
    /\ UNCHANGED <<config, pooled, connecting, raced, excused>>

\* A call starts a connect attempt with the configuration of the moment, and the attempt registers
StartConnect(s) ==
    /\ config[s] # 0 /\ pooled[s] = 0 /\ connecting[s] = 0
    /\ connecting' = [connecting EXCEPT ![s] = config[s]]
    /\ UNCHANGED <<config, configFile, configTimer, configOp, pooled, raced, excused>>

EndConnect(s) ==
    /\ connecting[s] # 0
    /\ pooled' = [pooled EXCEPT ![s] = connecting[s]]
    /\ connecting' = [connecting EXCEPT ![s] = 0]
    /\ raced' = IF connecting[s] # config[s] \/ \E o \in ConfigOps : s \in configOp[o].closed
                THEN raced \cup {s} ELSE raced \ {s}
    /\ UNCHANGED <<config, configFile, configTimer, configOp, excused>>

ConfigOpNext(o) ==
    \/ ManageService(o) \/ AskReload(o) \/ ConfigTimerFires(o)
    \/ \E cfg \in Configs, mode \in {"merge", "replace"} : AskImport(o, cfg, mode)
    \/ (\E claude \in Configs : BootstrapReads(o, claude)) \/ BootstrapWrites(o)
    \/ \E s \in Services : CloseForChange(o, s) \/ MergeService(o, s)
    \/ CompareConfig(o) \/ CloseRejected(o) \/ ApplyReload(o) \/ ApplyReplace(o) \/ ApplyPatch(o)
    \/ ApplyMerge(o) \/ EndMerge(o) \/ TearFile(o) \/ EndWrite(o) \/ FailWrite(o)

ConfigNext ==
    \/ \E o \in ConfigOps : ConfigOpNext(o)
    \/ \E cfg \in Configs : EditConfig(cfg)
    \/ \E s \in Services : StartConnect(s) \/ EndConnect(s)

ConfigSpec == ConfigInit /\ [][ConfigNext]_configVars

-------------------------------------------------------------------------------
Quiet == ~configTimer /\ \A o \in ConfigOps : configOp[o].pc \in {"idle", "bootstrap"}

\* When nothing is under way, memory and file agree: an operation that threw on a concurrent write
\* after it had changed memory is undone by the reload that follows the other's write
\* (config-manager.ts 63, 225, 135). The exceptions are a start with imported services or with a file
\* that was edited before it was watched, up to the first reload, a reload that stores what another
\* change has overtaken, and a write or a close that failed.
MemoryFollowsFile == Quiet /\ configFile # Torn /\ ~excused => config = configFile

\* A pooled connection was made with the configuration of its service, unless it was made while that
\* was being replaced (config-manager.ts 81, 99, 130, 188).
ConnectedAsConfigured ==
    Quiet => \A s \in Services : pooled[s] # 0 /\ s \notin raced => pooled[s] = config[s]
==============================================================================
