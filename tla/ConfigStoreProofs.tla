--------------------------- MODULE ConfigStoreProofs ---------------------------
(***************************************************************************)
(* Memory follows the file, and no connection outlives the configuration   *)
(* it was made with, for any number of services, versions and operations.  *)
(***************************************************************************)
EXTENDS ConfigStore, TLAPS

(***************************************************************************)
(* The inductive invariant.                                                *)
(***************************************************************************)

Phases == {"idle", "read", "closing", "merging", "writing", "torn", "bootstrap"}
Kinds == {"reload", "replace", "merge", "patch"}
OpRecords == [pc : Phases, kind : Kinds, new : Configs, base : Configs,
              todo : SUBSET Services, closed : SUBSET Services]

ConfigTypes ==
    /\ config \in Configs /\ pooled \in Configs /\ connecting \in Configs
    /\ configFile \in Configs \cup {Torn}
    /\ configTimer \in BOOLEAN /\ excused \in BOOLEAN
    /\ configOp \in [ConfigOps -> OpRecords]
    /\ raced \in SUBSET Services

(* What an operation has closed was connected again by somebody who is     *)
(* known to have raced with it, or not at all.                             *)
ClosedStays == \A o \in ConfigOps : \A s \in configOp[o].closed : pooled[s] = 0 \/ s \in raced

(* A walk passes every service that differs from what it compared with.    *)
WalkCovers ==
    \A o \in ConfigOps :
        /\ configOp[o].pc = "merging" => configOp[o].kind = "merge"
        /\ configOp[o].pc = "closing" /\ configOp[o].kind \in {"reload", "replace"} =>
              Changed(configOp[o].base, configOp[o].new) \subseteq configOp[o].todo \cup configOp[o].closed

(* At any moment, and not only when nothing is under way.                  *)
Agrees == \A s \in Services : pooled[s] # 0 /\ s \notin raced => pooled[s] = config[s]

ConfigInv == ConfigTypes /\ ClosedStays /\ WalkCovers /\ Agrees /\ MemoryFollowsFile

(***************************************************************************)
(* Types.                                                                  *)
(***************************************************************************)

LEMMA EmptyType == Empty \in Configs
  BY ConfigBounds DEF Configs, Empty

LEMMA OpType ==
    ASSUME NEW pc \in Phases, NEW kind \in Kinds, NEW new \in Configs, NEW base \in Configs,
           NEW todo \in SUBSET Services, NEW closed \in SUBSET Services
    PROVE  Op(pc, kind, new, base, todo, closed) \in OpRecords
  BY DEF Op, OpRecords

LEMMA IdleType == IdleOp \in OpRecords
  BY EmptyType, OpType DEF IdleOp, Phases, Kinds

LEMMA MergedType ==
    ASSUME NEW a \in Configs, NEW b \in Configs
    PROVE  MergeImported(a, b) \in Configs /\ MergeEntries(b, a) \in Configs
  BY DEF MergeImported, MergeEntries, Configs

LEMMA LoadedType ==
    ASSUME NEW f \in Configs \cup {Torn}, NEW loaded \in LoadConfig(f)
    PROVE  loaded \in Configs
<1>1. f # Torn /\ \E imp \in Imports : loaded = MaybeImport(f, imp)
  BY DEF LoadConfig
<1>2. PICK imp \in Imports : loaded = MaybeImport(f, imp)
  BY <1>1
<1>3. imp.stored \in Configs \cup {Torn} /\ FetchImport(imp) \in Configs \cup {Torn}
  BY <1>2 DEF Imports, FetchImport
<1>4. f \in Configs
  BY <1>1
<1> QED  BY <1>2, <1>3, <1>4, MergedType DEF MaybeImport

(* Every operation that ends in a write, or is refused because another is under way. *)
LEMMA PersistType ==
    ASSUME ConfigTypes, NEW o \in ConfigOps, NEW cfg \in Configs, Persist(o, cfg)
    PROVE  configOp' \in [ConfigOps -> OpRecords]
<1>1. Op("writing", "reload", cfg, Empty, {}, {}) \in OpRecords
  BY OpType, EmptyType DEF Phases, Kinds
<1> QED  BY <1>1, IdleType DEF Persist, ConfigTypes

LEMMA EvictType ==
    ASSUME ConfigTypes, NEW T \in SUBSET Services, Evict(T)
    PROVE  pooled' \in Configs /\ raced' \in SUBSET Services
  BY ConfigBounds DEF Evict, ConfigTypes, Configs

LEMMA StoredType ==
    ASSUME ConfigTypes, NEW o \in ConfigOps, NEW closed \in SUBSET Services
    PROVE  [s \in Services |-> IF s \in closed THEN configOp[o].new[s] ELSE config[s]] \in Configs
<1>1. configOp[o].new \in Configs /\ config \in Configs
  BY DEF ConfigTypes, OpRecords
<1> QED  BY <1>1 DEF Configs

LEMMA OpFields ==
    ASSUME ConfigTypes, NEW o \in ConfigOps
    PROVE  /\ configOp[o] \in OpRecords
           /\ configOp[o].pc \in Phases /\ configOp[o].kind \in Kinds
           /\ configOp[o].new \in Configs /\ configOp[o].base \in Configs
           /\ configOp[o].todo \in SUBSET Services /\ configOp[o].closed \in SUBSET Services
           /\ \A T \in SUBSET Services : [configOp[o] EXCEPT !.todo = T] \in OpRecords
           /\ [configOp[o] EXCEPT !.pc = "torn"] \in OpRecords
  BY DEF ConfigTypes, OpRecords, Phases

LEMMA TypeStep ==
    ASSUME ConfigTypes, [ConfigNext]_configVars
    PROVE  ConfigTypes'
<1>1. ASSUME NEW o \in ConfigOps, NEW s \in Services, NEW v \in Versions, AddService(o, s, v)
      PROVE  ConfigTypes'
  <2>1. config' \in Configs
    BY <1>1 DEF AddService, ConfigTypes, Configs, Versions
  <2> QED  BY <1>1, <2>1, PersistType DEF AddService, ConfigTypes
<1>2. ASSUME NEW o \in ConfigOps, NEW s \in Services, NEW v \in 0..MaxVersion, CloseThenPatch(o, s, v)
      PROVE  ConfigTypes'
  <2>1. [config EXCEPT ![s] = v] \in Configs
    BY DEF ConfigTypes, Configs
  <2>2. Op("closing", "patch", [config EXCEPT ![s] = v], Empty, {}, {s}) \in OpRecords
    BY <2>1, OpType, EmptyType DEF Phases, Kinds
  <2> QED  BY <1>2, <2>2, EvictType DEF CloseThenPatch, ConfigTypes
<1>3. ASSUME NEW o \in ConfigOps, ReadConfig(o), configTimer' \in BOOLEAN
      PROVE  ConfigTypes'
  <2>1. configFile # Torn => Op("read", "reload", configFile, Empty, {}, {}) \in OpRecords
    BY OpType, EmptyType DEF Phases, Kinds, ConfigTypes
  <2> QED  BY <1>3, <2>1 DEF ReadConfig, ConfigTypes
<1>4. ASSUME NEW o \in ConfigOps, NEW cfg \in Configs, NEW mode \in {"merge", "replace"}, AskImport(o, cfg, mode)
      PROVE  ConfigTypes'
  <2>1. Op(IF mode = "merge" THEN "merging" ELSE "read", mode, cfg, Empty, {s \in Services : cfg[s] # 0}, {}) \in OpRecords
    BY OpType, EmptyType DEF Phases, Kinds
  <2> QED  BY <1>4, <2>1 DEF AskImport, ConfigTypes
<1>5. ASSUME NEW o \in ConfigOps, CompareConfig(o)
      PROVE  ConfigTypes'
  <2>1. Disconnected(config, configOp[o].new) \in SUBSET Services
    BY DEF Disconnected, Changed
  <2>2. Op("closing", configOp[o].kind, configOp[o].new, config, Disconnected(config, configOp[o].new), {}) \in OpRecords
    BY <2>1, OpFields, OpType DEF Phases, ConfigTypes
  <2> QED  BY <1>5, <2>2 DEF CompareConfig, ConfigTypes
<1>6. ASSUME NEW o \in ConfigOps, NEW s \in Services, CloseForChange(o, s)
      PROVE  ConfigTypes'
  <2>1. Op("closing", configOp[o].kind, configOp[o].new, configOp[o].base,
           configOp[o].todo \ {s}, configOp[o].closed \cup {s}) \in OpRecords
    BY OpFields, OpType DEF Phases
  <2> QED  BY <1>6, <2>1, EvictType DEF CloseForChange, ConfigTypes
<1>7. ASSUME NEW o \in ConfigOps, CloseRejected(o)
      PROVE  ConfigTypes'
  BY <1>7, IdleType DEF CloseRejected, ConfigTypes
<1>8. ASSUME NEW o \in ConfigOps, ApplyReload(o)
      PROVE  ConfigTypes'
  BY <1>8, IdleType, OpFields DEF ApplyReload, StoreConfig, ConfigTypes
<1>9. ASSUME NEW o \in ConfigOps, ApplyReplace(o)
      PROVE  ConfigTypes'
  <2>1. configOp' \in [ConfigOps -> OpRecords]
    BY <1>9, PersistType, OpFields DEF ApplyReplace
  <2> QED  BY <1>9, <2>1, OpFields DEF ApplyReplace, StoreConfig, ConfigTypes
<1>10. ASSUME NEW o \in ConfigOps, ApplyPatch(o)
       PROVE  ConfigTypes'
  <2>1. config' \in Configs
    BY <1>10, StoredType, OpFields DEF ApplyPatch, StoreConfig
  <2>2. configOp' \in [ConfigOps -> OpRecords]
    BY <1>10, <2>1, PersistType DEF ApplyPatch
  <2> QED  BY <1>10, <2>1, <2>2 DEF ApplyPatch, StoreConfig, ConfigTypes
<1>11. ASSUME NEW o \in ConfigOps, NEW s \in Services, MergeService(o, s)
       PROVE  ConfigTypes'
  <2>1. CASE config[s] = 0
    <3>1. [config EXCEPT ![s] = configOp[o].new[s]] \in Configs
      BY OpFields DEF ConfigTypes, Configs
    <3>2. [configOp EXCEPT ![o].todo = @ \ {s}] \in [ConfigOps -> OpRecords]
      BY OpFields DEF ConfigTypes
    <3> QED  BY <1>11, <2>1, <3>1, <3>2 DEF MergeService, ConfigTypes
  <2>2. CASE config[s] # 0
    <3>1. Op("closing", configOp[o].kind, configOp[o].new, configOp[o].base, configOp[o].todo \ {s}, {s}) \in OpRecords
      BY OpFields, OpType DEF Phases
    <3> QED  BY <1>11, <2>2, <3>1, EvictType DEF MergeService, ConfigTypes
  <2> QED  BY <2>1, <2>2
<1>12. ASSUME NEW o \in ConfigOps, ApplyMerge(o)
       PROVE  ConfigTypes'
  <2>1. config' \in Configs
    BY <1>12, StoredType, OpFields DEF ApplyMerge, StoreConfig
  <2>2. Op("merging", configOp[o].kind, configOp[o].new, configOp[o].base, configOp[o].todo, {}) \in OpRecords
    BY OpFields, OpType DEF Phases
  <2> QED  BY <1>12, <2>1, <2>2 DEF ApplyMerge, StoreConfig, ConfigTypes
<1>13. ASSUME NEW o \in ConfigOps, EndMerge(o)
       PROVE  ConfigTypes'
  BY <1>13, PersistType DEF EndMerge, ConfigTypes
<1>14. ASSUME NEW o \in ConfigOps, TearFile(o) \/ EndWrite(o) \/ FailWrite(o) \/ BootstrapWrites(o)
       PROVE  ConfigTypes'
  <2>1. [configOp EXCEPT ![o].pc = "torn"] \in [ConfigOps -> OpRecords]
    BY OpFields DEF ConfigTypes
  <2> QED  BY <1>14, <2>1, OpFields, IdleType DEF TearFile, EndWrite, FailWrite, BootstrapWrites, ConfigTypes
<1>15. ASSUME NEW o \in ConfigOps, NEW claude \in Configs, BootstrapReads(o, claude)
       PROVE  ConfigTypes'
  <2>1. PICK loaded \in LoadConfig(configFile) :
           configOp' = [configOp EXCEPT ![o] = Op("bootstrap", "reload", MergeEntries(claude, loaded), Empty, {}, {})]
    BY <1>15 DEF BootstrapReads
  <2>2. loaded \in Configs
    BY LoadedType DEF ConfigTypes
  <2>3. Op("bootstrap", "reload", MergeEntries(claude, loaded), Empty, {}, {}) \in OpRecords
    BY <2>2, MergedType, OpType, EmptyType DEF Phases, Kinds
  <2> QED  BY <1>15, <2>1, <2>3 DEF BootstrapReads, ConfigTypes
<1>16. ASSUME NEW cfg \in Configs, EditConfig(cfg)
       PROVE  ConfigTypes'
  BY <1>16 DEF EditConfig, ConfigTypes
<1>17. ASSUME NEW s \in Services, StartConnect(s) \/ EndConnect(s)
       PROVE  ConfigTypes'
  BY <1>17, ConfigBounds DEF StartConnect, EndConnect, ConfigTypes, Configs
<1>18. CASE UNCHANGED configVars
  BY <1>18 DEF configVars, ConfigTypes
<1>19. ASSUME NEW o \in ConfigOps, ManageService(o)
       PROVE  ConfigTypes'
  <2>1. PICK s \in Services : (\E v \in Versions : AddService(o, s, v) \/ UpdateService(o, s, v)) \/ RemoveService(o, s)
    BY <1>19 DEF ManageService
  <2>2. CASE RemoveService(o, s)
    <3>1. CloseThenPatch(o, s, 0) /\ 0 \in 0..MaxVersion
      BY <2>2, ConfigBounds DEF RemoveService
    <3> QED  BY <3>1, <1>2
  <2>3. ASSUME NEW v \in Versions, AddService(o, s, v) \/ UpdateService(o, s, v)
        PROVE  ConfigTypes'
    <3>1. v \in 0..MaxVersion
      BY ConfigBounds DEF Versions
    <3> QED  BY <2>3, <3>1, <1>1, <1>2 DEF UpdateService
  <2> QED  BY <2>1, <2>2, <2>3
<1>20. ASSUME NEW o \in ConfigOps, AskReload(o) \/ ConfigTimerFires(o)
       PROVE  ConfigTypes'
  <2>1. ReadConfig(o) /\ configTimer' \in BOOLEAN
    BY <1>20 DEF AskReload, ConfigTimerFires, ConfigTypes
  <2> QED  BY <2>1, <1>3
<1> QED
  BY <1>4, <1>5, <1>6, <1>7, <1>8, <1>9, <1>10, <1>11, <1>12, <1>13, <1>14, <1>15, <1>16, <1>17, <1>18, <1>19, <1>20
     DEF ConfigNext, ConfigOpNext

(***************************************************************************)
(* Connections.                                                            *)
(***************************************************************************)

(* No connection is touched, and the configuration of one that should be   *)
(* up to date is not either.                                               *)
KeepsConnections ==
    /\ pooled' = pooled /\ connecting' = connecting /\ raced \subseteq raced'
    /\ \A p \in ConfigOps : configOp'[p].closed \subseteq configOp[p].closed
    /\ \A s \in Services : pooled[s] # 0 /\ s \notin raced' => config'[s] = config[s]

ClosesOne(s) ==
    /\ Evict({s})
    /\ config' = config /\ connecting' = connecting
    /\ \A p \in ConfigOps : configOp'[p].closed \subseteq configOp[p].closed \cup {s}

ConnectionsInv == ConfigTypes /\ ClosedStays /\ WalkCovers /\ Agrees

LEMMA PersistCloses ==
    ASSUME ConfigTypes, NEW o \in ConfigOps, NEW cfg, Persist(o, cfg)
    PROVE  \A p \in ConfigOps : configOp'[p].closed \subseteq configOp[p].closed
  BY DEF Persist, IdleOp, Op, ConfigTypes

(* What is stored differs from what is there only where a connection was   *)
(* closed, or by what others have changed in the meantime.                 *)
LEMMA WalkedOver ==
    ASSUME ConnectionsInv, NEW o \in ConfigOps,
           configOp[o].pc = "closing", configOp[o].kind \in {"reload", "replace"}, configOp[o].todo = {},
           StoreConfig(o, configOp[o].new, {s \in Services : config[s] # configOp[o].base[s]})
    PROVE  /\ raced \subseteq raced'
           /\ \A s \in Services : pooled[s] # 0 /\ s \notin raced' => config'[s] = config[s]
<1>1. raced \subseteq raced'
  BY DEF StoreConfig
<1>2. ASSUME NEW s \in Services, pooled[s] # 0, s \notin raced'
      PROVE  config'[s] = config[s]
  <2>1. config[s] = configOp[o].base[s] /\ config'[s] = configOp[o].new[s] /\ s \notin raced
    BY <1>2 DEF StoreConfig
  <2>2. s \notin configOp[o].closed
    BY <1>2, <2>1 DEF ConnectionsInv, ClosedStays
  <2>3. s \notin Changed(configOp[o].base, configOp[o].new)
    BY <2>2 DEF ConnectionsInv, WalkCovers
  <2>4. config[s] # 0
    BY <1>2, <2>1 DEF ConnectionsInv, Agrees
  <2> QED  BY <2>1, <2>3, <2>4 DEF Changed
<1> QED  BY <1>1, <1>2

LEMMA OpConnections ==
    ASSUME ConnectionsInv, NEW o \in ConfigOps, ConfigOpNext(o)
    PROVE  KeepsConnections \/ \E s \in Services : ClosesOne(s)
<1> USE DEF ConnectionsInv
<1>1. ASSUME NEW s \in Services, NEW v \in Versions, AddService(o, s, v)
      PROVE  KeepsConnections
  <2>1. \A p \in ConfigOps : configOp'[p].closed \subseteq configOp[p].closed
    BY <1>1, PersistCloses DEF AddService
  <2>2. config[s] = 0 /\ config' = [config EXCEPT ![s] = v] /\ raced' = raced /\ pooled' = pooled
    BY <1>1 DEF AddService
  <2>3. s \notin raced => pooled[s] = 0
    BY <2>2 DEF Agrees
  <2> QED  BY <1>1, <2>1, <2>2, <2>3 DEF AddService, KeepsConnections, ConfigTypes, Configs
<1>2. ASSUME NEW s \in Services, NEW v, CloseThenPatch(o, s, v)
      PROVE  ClosesOne(s)
  BY <1>2 DEF CloseThenPatch, ClosesOne, Op, ConfigTypes
<1>3. CASE ManageService(o)
  BY <1>1, <1>2, <1>3 DEF ManageService, UpdateService, RemoveService
<1>4. CASE AskReload(o) \/ ConfigTimerFires(o)
  BY <1>4 DEF AskReload, ConfigTimerFires, ReadConfig, KeepsConnections, Op, ConfigTypes
<1>5. ASSUME NEW cfg, NEW mode, AskImport(o, cfg, mode)
      PROVE  KeepsConnections
  BY <1>5 DEF AskImport, KeepsConnections, Op, ConfigTypes
<1>6. ASSUME NEW claude, BootstrapReads(o, claude)
      PROVE  KeepsConnections
  BY <1>6 DEF BootstrapReads, KeepsConnections, Op, ConfigTypes
<1>7. CASE BootstrapWrites(o) \/ EndWrite(o) \/ FailWrite(o) \/ CloseRejected(o)
  BY <1>7 DEF BootstrapWrites, EndWrite, FailWrite, CloseRejected, KeepsConnections, IdleOp, Op, ConfigTypes
<1>8. ASSUME NEW s \in Services, CloseForChange(o, s)
      PROVE  ClosesOne(s)
  BY <1>8 DEF CloseForChange, ClosesOne, Op, ConfigTypes
<1>9. ASSUME NEW s \in Services, MergeService(o, s)
      PROVE  KeepsConnections \/ ClosesOne(s)
  <2>1. CASE config[s] = 0
    <3>1. config' = [config EXCEPT ![s] = configOp[o].new[s]] /\ raced' = raced /\ pooled' = pooled
      BY <1>9, <2>1 DEF MergeService
    <3>2. s \notin raced => pooled[s] = 0
      BY <2>1 DEF Agrees
    <3>3. \A p \in ConfigOps : configOp'[p].closed = configOp[p].closed
      BY <1>9, <2>1, OpFields DEF MergeService, ConfigTypes, OpRecords
    <3> QED  BY <1>9, <3>1, <3>2, <3>3 DEF MergeService, KeepsConnections, ConfigTypes, Configs
  <2>2. CASE config[s] # 0
    BY <1>9, <2>2 DEF MergeService, ClosesOne, Op, ConfigTypes
  <2> QED  BY <2>1, <2>2
<1>10. CASE CompareConfig(o)
  BY <1>10 DEF CompareConfig, KeepsConnections, Op, ConfigTypes
<1>11. CASE ApplyReload(o)
  BY <1>11, WalkedOver DEF ApplyReload, StoreConfig, KeepsConnections, IdleOp, Op, ConfigTypes
<1>12. CASE ApplyReplace(o)
  BY <1>12, WalkedOver, PersistCloses DEF ApplyReplace, StoreConfig, KeepsConnections
<1>13. ASSUME StoreConfig(o, [s \in Services |-> IF s \in configOp[o].closed THEN configOp[o].new[s] ELSE config[s]], {})
       PROVE  /\ raced' = raced
              /\ \A s \in Services : pooled[s] # 0 /\ s \notin raced' => config'[s] = config[s]
  BY <1>13 DEF StoreConfig, ClosedStays
<1>14. CASE ApplyPatch(o)
  BY <1>13, <1>14, PersistCloses DEF ApplyPatch, KeepsConnections
<1>15. CASE ApplyMerge(o)
  BY <1>13, <1>15 DEF ApplyMerge, KeepsConnections, Op, ConfigTypes
<1>16. CASE EndMerge(o)
  BY <1>16, PersistCloses DEF EndMerge, KeepsConnections
<1>17. CASE TearFile(o)
  BY <1>17, OpFields DEF TearFile, KeepsConnections, ConfigTypes, OpRecords
<1> QED
  BY <1>3, <1>4, <1>5, <1>6, <1>7, <1>8, <1>9, <1>10, <1>11, <1>12, <1>14, <1>15, <1>16, <1>17
     DEF ConfigOpNext

LEMMA ConnectionsStep ==
    ASSUME ConnectionsInv, [ConfigNext]_configVars
    PROVE  ClosedStays' /\ Agrees'
<1> USE DEF ConnectionsInv
<1>1. CASE KeepsConnections
  BY <1>1 DEF KeepsConnections, ClosedStays, Agrees
<1>2. ASSUME NEW s \in Services, ClosesOne(s)
      PROVE  ClosedStays' /\ Agrees'
  BY <1>2 DEF ClosesOne, Evict, ClosedStays, Agrees, ConfigTypes, OpRecords
<1>3. ASSUME NEW s \in Services, StartConnect(s)
      PROVE  KeepsConnections \/ (ClosedStays' /\ Agrees')
  BY <1>3 DEF StartConnect, ClosedStays, Agrees
<1>4. ASSUME NEW s \in Services, EndConnect(s)
      PROVE  ClosedStays' /\ Agrees'
  <2>1. /\ configOp' = configOp /\ config' = config
        /\ pooled' = [pooled EXCEPT ![s] = connecting[s]]
        /\ raced' = IF connecting[s] # config[s] \/ \E o \in ConfigOps : s \in configOp[o].closed
                    THEN raced \cup {s} ELSE raced \ {s}
    BY <1>4 DEF EndConnect
  <2> QED  BY <2>1 DEF ClosedStays, Agrees, ConfigTypes, Configs
<1>5. ASSUME NEW cfg \in Configs, EditConfig(cfg)
      PROVE  KeepsConnections
  BY <1>5 DEF EditConfig, KeepsConnections
<1>6. CASE UNCHANGED configVars
  BY <1>6 DEF configVars, KeepsConnections, ClosedStays, Agrees
<1> QED
  BY <1>1, <1>2, <1>3, <1>4, <1>5, <1>6, OpConnections DEF ConfigNext

(* The operations that o leaves alone, and o when it does not walk.         *)
LEMMA WalkStays ==
    ASSUME ConfigTypes, WalkCovers, NEW o \in ConfigOps, NEW r,
           configOp' = [configOp EXCEPT ![o] = r],
           r.pc # "closing" \/ r.kind \in {"patch", "merge"},
           r.pc = "merging" => r.kind = "merge"
    PROVE  WalkCovers'
  BY DEF WalkCovers, ConfigTypes

LEMMA PersistWalks ==
    ASSUME ConfigTypes, WalkCovers, NEW o \in ConfigOps, NEW cfg, Persist(o, cfg)
    PROVE  WalkCovers'
<1> DEFINE r == IF WriteLocked THEN IdleOp ELSE Op("writing", "reload", cfg, Empty, {}, {})
<1>1. configOp' = [configOp EXCEPT ![o] = r]
  BY DEF Persist
<1>2. r.pc \in {"idle", "writing"}
  BY DEF IdleOp, Op
<1> QED
  <2> HIDE DEF r
  <2> QED  BY <1>1, <1>2, WalkStays

LEMMA WalkStep ==
    ASSUME ConfigTypes, WalkCovers, [ConfigNext]_configVars
    PROVE  WalkCovers'
<1>1. CASE configOp' = configOp
  BY <1>1 DEF WalkCovers
<1> SUFFICES ASSUME NEW o \in ConfigOps, ConfigOpNext(o), configOp' # configOp
             PROVE  WalkCovers'
  BY <1>1 DEF ConfigNext, configVars, EditConfig, StartConnect, EndConnect
<1>2. ASSUME NEW s \in Services, NEW v, CloseThenPatch(o, s, v)
      PROVE  WalkCovers'
  <2>1. Op("closing", "patch", [config EXCEPT ![s] = v], Empty, {}, {s}).pc = "closing"
        /\ Op("closing", "patch", [config EXCEPT ![s] = v], Empty, {}, {s}).kind = "patch"
    BY DEF Op
  <2> QED  BY <1>2, <2>1, WalkStays DEF CloseThenPatch
<1>3. CASE ManageService(o)
  BY <1>2, <1>3, PersistWalks DEF ManageService, AddService, UpdateService, RemoveService
<1>4. CASE AskReload(o) \/ ConfigTimerFires(o)
  <2>1. configOp' = [configOp EXCEPT ![o] = Op("read", "reload", configFile, Empty, {}, {})]
    BY <1>4 DEF AskReload, ConfigTimerFires, ReadConfig
  <2> QED  BY <2>1, WalkStays DEF Op
<1>5. ASSUME NEW cfg, NEW mode \in {"merge", "replace"}, AskImport(o, cfg, mode)
      PROVE  WalkCovers'
  <2> DEFINE r == Op(IF mode = "merge" THEN "merging" ELSE "read", mode, cfg, Empty, {s \in Services : cfg[s] # 0}, {})
  <2>1. r.pc # "closing" /\ (r.pc = "merging" => r.kind = "merge")
    BY DEF Op
  <2>2. configOp' = [configOp EXCEPT ![o] = r]
    BY <1>5 DEF AskImport
  <2> HIDE DEF r
  <2> QED  BY <2>1, <2>2, WalkStays
<1>6. ASSUME NEW claude, BootstrapReads(o, claude)
      PROVE  WalkCovers'
  <2>1. PICK loaded : configOp' = [configOp EXCEPT ![o] =
                         Op("bootstrap", "reload", MergeEntries(claude, loaded), Empty, {}, {})]
    BY <1>6 DEF BootstrapReads
  <2> QED  BY <2>1, WalkStays DEF Op
<1>7. CASE BootstrapWrites(o) \/ EndWrite(o) \/ FailWrite(o) \/ CloseRejected(o) \/ ApplyReload(o)
  <2>1. configOp' = [configOp EXCEPT ![o] = IdleOp]
    BY <1>7 DEF BootstrapWrites, EndWrite, FailWrite, CloseRejected, ApplyReload
  <2> QED  BY <2>1, WalkStays DEF IdleOp, Op
<1>8. ASSUME NEW s \in Services, CloseForChange(o, s)
      PROVE  WalkCovers'
  BY <1>8 DEF CloseForChange, WalkCovers, Op, ConfigTypes
<1>9. ASSUME NEW s \in Services, MergeService(o, s)
      PROVE  WalkCovers'
  <2>1. configOp[o].pc = "merging" /\ configOp[o].kind = "merge"
    BY <1>9 DEF MergeService, WalkCovers
  <2>2. CASE configOp' = [configOp EXCEPT ![o].todo = @ \ {s}]
    <3>1. configOp' = [configOp EXCEPT ![o] = [configOp[o] EXCEPT !.todo = configOp[o].todo \ {s}]]
      BY <2>2
    <3>2. [configOp[o] EXCEPT !.todo = configOp[o].todo \ {s}].pc = "merging"
          /\ [configOp[o] EXCEPT !.todo = configOp[o].todo \ {s}].kind = "merge"
      BY <2>1, OpFields DEF OpRecords
    <3> QED  BY <3>1, <3>2, WalkStays
  <2>3. CASE configOp' = [configOp EXCEPT ![o] =
                Op("closing", configOp[o].kind, configOp[o].new, configOp[o].base, configOp[o].todo \ {s}, {s})]
    BY <2>1, <2>3, WalkStays DEF Op
  <2> QED  BY <1>9, <2>2, <2>3 DEF MergeService
<1>10. CASE CompareConfig(o)
  BY <1>10 DEF CompareConfig, Disconnected, WalkCovers, Op, ConfigTypes
<1>11. CASE ApplyReplace(o) \/ ApplyPatch(o) \/ EndMerge(o)
  BY <1>11, PersistWalks DEF ApplyReplace, ApplyPatch, EndMerge
<1>12. CASE ApplyMerge(o)
  <2>1. configOp' = [configOp EXCEPT ![o] =
           Op("merging", "merge", configOp[o].new, configOp[o].base, configOp[o].todo, {})]
    BY <1>12 DEF ApplyMerge
  <2> QED  BY <2>1, WalkStays DEF Op
<1>13. CASE TearFile(o)
  <2>1. configOp' = [configOp EXCEPT ![o] = [configOp[o] EXCEPT !.pc = "torn"]]
    BY <1>13 DEF TearFile
  <2>2. [configOp[o] EXCEPT !.pc = "torn"].pc = "torn"
    BY OpFields DEF OpRecords
  <2> QED  BY <2>1, <2>2, WalkStays
<1> QED
  BY <1>3, <1>4, <1>5, <1>6, <1>7, <1>8, <1>9, <1>10, <1>11, <1>12, <1>13 DEF ConfigOpNext

(***************************************************************************)
(* The file.                                                               *)
(***************************************************************************)

LEMMA Busy ==
    ASSUME ConfigTypes, NEW o \in ConfigOps, NEW r, configOp' = [configOp EXCEPT ![o] = r],
           r.pc \notin {"idle", "bootstrap"}
    PROVE  MemoryFollowsFile'
  BY DEF MemoryFollowsFile, Quiet, ConfigTypes

(* Refused by another write, which goes on, or writing itself.             *)
LEMMA PersistBusy ==
    ASSUME ConfigTypes, NEW o \in ConfigOps, NEW cfg, Persist(o, cfg),
           configOp[o].pc \notin {"writing", "torn"}
    PROVE  MemoryFollowsFile'
<1>1. CASE WriteLocked
  <2>1. PICK p \in ConfigOps : configOp[p].pc \in {"writing", "torn"}
    BY <1>1 DEF WriteLocked
  <2>2. configOp'[p] = configOp[p]
    BY <2>1 DEF Persist, ConfigTypes
  <2> QED  BY <2>1, <2>2 DEF MemoryFollowsFile, Quiet
<1>2. CASE ~WriteLocked
  BY <1>2, Busy DEF Persist, Op
<1> QED  BY <1>1, <1>2

(* An operation that comes to its end leaves a change of the file that the *)
(* watcher will see, another operation under way, or nothing undone.       *)
LEMMA OpFollows ==
    ASSUME ConfigTypes, MemoryFollowsFile, NEW o \in ConfigOps, ConfigOpNext(o)
    PROVE  MemoryFollowsFile'
<1>1. ASSUME NEW s \in Services, NEW v, AddService(o, s, v)
      PROVE  MemoryFollowsFile'
  BY <1>1, PersistBusy DEF AddService
<1>2. ASSUME NEW s \in Services, NEW v, CloseThenPatch(o, s, v)
      PROVE  MemoryFollowsFile'
  BY <1>2, Busy DEF CloseThenPatch, Op
<1>3. CASE ManageService(o)
  BY <1>1, <1>2, <1>3 DEF ManageService, UpdateService, RemoveService
<1>4. CASE AskReload(o) \/ ConfigTimerFires(o)
  <2>1. ReadConfig(o)
    BY <1>4 DEF AskReload, ConfigTimerFires
  <2>2. CASE configFile = Torn
    BY <2>1, <2>2 DEF ReadConfig, MemoryFollowsFile
  <2>3. CASE configFile # Torn
    BY <2>1, <2>3, Busy DEF ReadConfig, Op
  <2> QED  BY <2>2, <2>3
<1>5. ASSUME NEW cfg, NEW mode, AskImport(o, cfg, mode)
      PROVE  MemoryFollowsFile'
  <2>1. Op(IF mode = "merge" THEN "merging" ELSE "read", mode, cfg, Empty, {s \in Services : cfg[s] # 0}, {}).pc
           \in {"merging", "read"}
    BY DEF Op
  <2> QED  BY <1>5, <2>1, Busy DEF AskImport
<1>6. ASSUME NEW claude, BootstrapReads(o, claude)
      PROVE  MemoryFollowsFile'
  BY <1>6 DEF BootstrapReads, MemoryFollowsFile, Quiet, Op, ConfigTypes
<1>7. CASE BootstrapWrites(o) \/ EndWrite(o)
  BY <1>7 DEF BootstrapWrites, EndWrite, MemoryFollowsFile, Quiet
<1>8. CASE FailWrite(o) \/ CloseRejected(o)
  BY <1>8 DEF FailWrite, CloseRejected, MemoryFollowsFile
<1>9. ASSUME NEW s \in Services, CloseForChange(o, s)
      PROVE  MemoryFollowsFile'
  BY <1>9, Busy DEF CloseForChange, Op
<1>10. ASSUME NEW s \in Services, MergeService(o, s)
       PROVE  MemoryFollowsFile'
  <2>1. CASE configOp' = [configOp EXCEPT ![o].todo = @ \ {s}]
    <3>1. configOp' = [configOp EXCEPT ![o] = [configOp[o] EXCEPT !.todo = configOp[o].todo \ {s}]]
      BY <2>1
    <3>2. [configOp[o] EXCEPT !.todo = configOp[o].todo \ {s}].pc = "merging"
      BY <1>10, OpFields DEF MergeService, OpRecords
    <3> QED  BY <3>1, <3>2, Busy
  <2>2. CASE configOp' = [configOp EXCEPT ![o] =
                Op("closing", configOp[o].kind, configOp[o].new, configOp[o].base, configOp[o].todo \ {s}, {s})]
    BY <2>2, Busy DEF Op
  <2> QED  BY <1>10, <2>1, <2>2 DEF MergeService
<1>11. CASE CompareConfig(o) \/ ApplyMerge(o)
  BY <1>11, Busy DEF CompareConfig, ApplyMerge, Op
<1>12. CASE ApplyReload(o)
  BY <1>12 DEF ApplyReload, StoreConfig, MemoryFollowsFile
<1>13. CASE ApplyReplace(o) \/ ApplyPatch(o) \/ EndMerge(o)
  BY <1>13, PersistBusy DEF ApplyReplace, ApplyPatch, EndMerge
<1>14. CASE TearFile(o)
  <2>1. configOp' = [configOp EXCEPT ![o] = [configOp[o] EXCEPT !.pc = "torn"]]
    BY <1>14 DEF TearFile
  <2>2. [configOp[o] EXCEPT !.pc = "torn"].pc = "torn"
    BY OpFields DEF OpRecords
  <2> QED  BY <2>1, <2>2, Busy
<1> QED
  BY <1>3, <1>4, <1>5, <1>6, <1>7, <1>8, <1>9, <1>10, <1>11, <1>12, <1>13, <1>14 DEF ConfigOpNext

LEMMA FollowsStep ==
    ASSUME ConfigTypes, MemoryFollowsFile, [ConfigNext]_configVars
    PROVE  MemoryFollowsFile'
<1>1. ASSUME NEW cfg, EditConfig(cfg)
      PROVE  MemoryFollowsFile'
  BY <1>1 DEF EditConfig, MemoryFollowsFile, Quiet
<1>2. ASSUME NEW s, StartConnect(s) \/ EndConnect(s)
      PROVE  MemoryFollowsFile'
  BY <1>2 DEF StartConnect, EndConnect, MemoryFollowsFile, Quiet
<1>3. CASE UNCHANGED configVars
  BY <1>3 DEF configVars, MemoryFollowsFile, Quiet
<1> QED  BY <1>1, <1>2, <1>3, OpFollows DEF ConfigNext

(***************************************************************************)
(* The theorems.                                                           *)
(***************************************************************************)

LEMMA InitInv ==
    ASSUME ConfigInit
    PROVE  ConfigInv
<1>1. config \in Configs
  BY LoadedType DEF ConfigInit
<1>2. pooled \in Configs /\ connecting \in Configs /\ \A s \in Services : pooled[s] = 0
  BY EmptyType DEF ConfigInit, Empty
<1>3. \A o \in ConfigOps : configOp[o] = IdleOp
  BY DEF ConfigInit
<1>4. ConfigTypes
  BY <1>1, <1>2, IdleType DEF ConfigInit, ConfigTypes
<1>5. ClosedStays /\ Agrees /\ WalkCovers
  BY <1>2, <1>3 DEF ClosedStays, Agrees, WalkCovers, IdleOp, Op
<1>6. MemoryFollowsFile
  BY DEF ConfigInit, MemoryFollowsFile
<1> QED  BY <1>4, <1>5, <1>6 DEF ConfigInv

LEMMA NextInv ==
    ASSUME ConfigInv, [ConfigNext]_configVars
    PROVE  ConfigInv'
  BY TypeStep, ConnectionsStep, WalkStep, FollowsStep DEF ConfigInv, ConnectionsInv

LEMMA SpecInv == ConfigSpec => []ConfigInv
  BY InitInv, NextInv, PTL DEF ConfigSpec

(* When nothing is under way, memory and file agree, whatever operations   *)
(* refused each other's writes, but for the starts, reloads and failures   *)
(* that are named (config-manager.ts 63, 135, 225).                        *)
THEOREM MemoryIsTheFile == ConfigSpec => []MemoryFollowsFile
<1>1. ConfigInv => MemoryFollowsFile
  BY DEF ConfigInv
<1> QED  BY <1>1, SpecInv, PTL

(* No pooled connection outlives the configuration it was made with,       *)
(* except one made while that was being replaced (config-manager.ts 81,    *)
(* 99, 130, 188).                                                          *)
THEOREM NoOutdatedConnection == ConfigSpec => []ConnectedAsConfigured
<1>1. ConfigInv => ConnectedAsConfigured
  BY DEF ConfigInv, Agrees, ConnectedAsConfigured
<1> QED  BY <1>1, SpecInv, PTL
=============================================================================
