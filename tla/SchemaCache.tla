----------------------------- MODULE SchemaCache -----------------------------
(***************************************************************************)
(* The schema cache of one service in a daemon: the files of the bare key  *)
(* and of the credential keys, the listings that fill them on a miss, and  *)
(* the drift check that each new connection starts (cache/storage.ts,      *)
(* schema/cached.ts, daemon/drift-hook.ts), and the commands that write    *)
(* the bare entry: schema, which puts one tool into it, cache diff and     *)
(* cache warm, which discover all tools (cli/commands/schema.ts, cache.ts, *)
(* service-discovery.ts).  A command compares the fingerprint that an      *)
(* answer of the daemon carries with its own (process/client.ts).          *)
(*                                                                         *)
(* The tools of the service are numbered by their version, which grows.    *)
(* A writer is a listing, a drift check or a command; writers of one key   *)
(* in the daemon share its temporary file, which is named by the process,  *)
(* a command has its own.  An entry, and its fingerprint, has the version  *)
(* of its oldest tool.                                                     *)
(***************************************************************************)
EXTENDS Naturals, FiniteSets

CONSTANTS CredentialKeys, BareService, \* the cache keys
          Listings,                    \* cached reads under way at once
          DriftChecks,                 \* drift checks under way at once
          SchemaCommands,              \* commands under way at once, schema and cache
          MaxWriters,                  \* bound: all of these under way at once
          MaxSchema                    \* bound: versions of the service's tools

VARIABLES serverSchema, \* the version the service serves
          cacheFile,    \* the version in the file of each key, 0 for no file
          cacheTmp,     \* the same for the temporary files
          writer,       \* each listing and check: pc, key, the version seen, keys still to clear, a command's next pc
          checkedSchema,\* history: the newest version for which a drift check found drift, and so cleared
          overtaken     \* history: keys stored by a writer that listed before that, or not removed

cacheVars == <<serverSchema, cacheFile, cacheTmp, writer, checkedSchema, overtaken>>

CacheKeys == CredentialKeys \cup {BareService}
Writers == Listings \cup DriftChecks \cup SchemaCommands

Writer(pc, key, seen, toClear, next) ==
    [pc |-> pc, key |-> key, seen |-> seen, toClear |-> toClear, next |-> next]
IdleWriter == Writer("idle", BareService, 0, {}, "idle")

CacheInit ==
    /\ serverSchema = 1
    /\ cacheFile \in [CacheKeys -> 0..1]
    /\ cacheTmp = [k \in CacheKeys |-> 0]
    /\ writer = [w \in Writers |-> IdleWriter]
    /\ checkedSchema = 0
    /\ overtaken = {}

\* readCache: what a key has, or nothing when that is missing, corrupt or expired
ReadCache(k) == {0, cacheFile[k]}

\* readCacheRaw, readCacheFingerprint: expired or not
ReadCacheRaw(k) == cacheFile[k]

Move(w, pc) == writer' = [writer EXCEPT ![w].pc = pc]
Begins(w) == writer[w].pc = "idle" /\ Cardinality({v \in Writers : writer[v].pc # "idle"}) < MaxWriters
End(w) == writer' = [writer EXCEPT ![w] = IdleWriter]

-------------------------------------------------------------------------------
\* The service is upgraded
UpgradeService ==
    /\ serverSchema < MaxSchema
    /\ serverSchema' = serverSchema + 1
    /\ UNCHANGED <<cacheFile, cacheTmp, writer, checkedSchema, overtaken>>

\* listToolsCached, getToolSchemaCached, resolveToolNameCached: the cache has no entry, an expired
\* one, or one without the tool asked for; the tools are listed
MissCache(w, k) ==
    /\ w \in Listings
    /\ Begins(w)
    /\ writer' = [writer EXCEPT ![w] = Writer("listing", k, 0, {}, "idle")]
    /\ UNCHANGED <<serverSchema, cacheFile, cacheTmp, checkedSchema, overtaken>>

\* checkDriftOnConnect: a new connection of the service registers
ConnectAndCheck(w) ==
    /\ w \in DriftChecks
    /\ Begins(w)
    /\ Move(w, "listing")
    /\ UNCHANGED <<serverSchema, cacheFile, cacheTmp, checkedSchema, overtaken>>

\* The service answers with its tools, or not; only a listing that found its tool is stored
ListAllTools(w) ==
    /\ writer[w].pc = "listing"
    /\ \/ writer' = [writer EXCEPT ![w] = Writer(IF w \in DriftChecks THEN "comparing" ELSE "writing",
                                                writer[w].key, serverSchema, {}, "idle")]
       \/ End(w)
    /\ UNCHANGED <<serverSchema, cacheFile, cacheTmp, checkedSchema, overtaken>>

\* Mutant: the bare entry only
ClearsBareOnly(k) == k = BareService

\* clearServiceCacheKeys: the bare key and every credential key of the service
Clears(k) == k \in CacheKeys

ToClear == {k \in CacheKeys : cacheFile[k] # 0 /\ Clears(k)}

\* detectDrift finds nothing to compare with or no change: nothing is cleared, although a credential key
\* may be older than the bare entry, which a command has warmed.
NoDrift(w) ==
    /\ writer[w].pc = "comparing"
    /\ ReadCacheRaw(BareService) \in {0, writer[w].seen}
    /\ Move(w, "writing")
    /\ UNCHANGED <<serverSchema, cacheFile, cacheTmp, checkedSchema, overtaken>>

\* On drift the directory is read for the keys to clear. A schema command may have left fewer tools in the
\* bare entry, which is drift too.
FindDrift(w) ==
    LET newer == writer[w].seen > checkedSchema IN
    /\ writer[w].pc = "comparing"
    /\ ReadCacheRaw(BareService) # 0
    /\ writer' = [writer EXCEPT ![w] = Writer("clearing", BareService, writer[w].seen, ToClear, "idle")]
    /\ checkedSchema' = IF newer THEN writer[w].seen ELSE checkedSchema
    /\ overtaken' = IF newer THEN {} ELSE overtaken
    /\ UNCHANGED <<serverSchema, cacheFile, cacheTmp>>

\* One file is removed; a failure to is logged
ClearKey(w, k) ==
    /\ writer[w].pc = "clearing"
    /\ k \in writer[w].toClear
    /\ writer' = [writer EXCEPT ![w].toClear = @ \ {k}]
    /\ \/ cacheFile' = [cacheFile EXCEPT ![k] = 0] /\ UNCHANGED overtaken
       \/ overtaken' = overtaken \cup {k} /\ UNCHANGED cacheFile
    /\ UNCHANGED <<serverSchema, cacheTmp, checkedSchema>>

\* The skill files are regenerated (SkillFiles), whether that works or not
Regenerated(w) ==
    /\ writer[w].pc = "clearing" /\ writer[w].toClear = {}
    /\ Move(w, "writing")
    /\ UNCHANGED <<serverSchema, cacheFile, cacheTmp, checkedSchema, overtaken>>

\* writeCache, in two steps: whoever writes to the temporary file last decides what is in it
WriteTemp(w) ==
    /\ writer[w].pc = "writing"
    /\ cacheTmp' = [cacheTmp EXCEPT ![writer[w].key] = writer[w].seen]
    /\ Move(w, "renaming")
    /\ UNCHANGED <<serverSchema, cacheFile, checkedSchema, overtaken>>

\* The rename fails when another writer has renamed the temporary file
RenameTemp(w) ==
    LET k == writer[w].key IN
    /\ writer[w].pc = "renaming"
    /\ End(w)
    /\ cacheTmp' = [cacheTmp EXCEPT ![k] = 0]
    /\ cacheFile' = IF cacheTmp[k] = 0 THEN cacheFile ELSE [cacheFile EXCEPT ![k] = cacheTmp[k]]
    /\ overtaken' = IF cacheTmp[k] = 0 \/ cacheTmp[k] >= checkedSchema THEN overtaken
                    ELSE overtaken \cup {k}
    /\ UNCHANGED <<serverSchema, checkedSchema>>

\* The write fails, and removes the temporary file, another writer's too
FailToWrite(w) ==
    /\ writer[w].pc \in {"writing", "renaming"}
    /\ End(w)
    /\ cacheTmp' = [cacheTmp EXCEPT ![writer[w].key] = 0]
    /\ UNCHANGED <<serverSchema, cacheFile, checkedSchema, overtaken>>

\* POST /list-tools and /schema answer with what the cache has under the caller's key or the service has,
\* stamped with the fingerprint of the bare entry of the moment
Answers == ({serverSchema} \cup UNION {ReadCache(k) : k \in CacheKeys}) \ {0}

\* handleSchema has no entry of its own, or is told to ask
AskSchema(w) ==
    /\ w \in SchemaCommands
    /\ Begins(w)
    /\ \E v \in Answers :
          writer' = [writer EXCEPT ![w] = Writer("answered", BareService, v, {}, "asked")]
    /\ UNCHANGED <<serverSchema, cacheFile, cacheTmp, checkedSchema, overtaken>>

\* handleCacheDiff, which needs an entry
DiffCache(w) ==
    /\ w \in SchemaCommands
    /\ Begins(w)
    /\ ReadCacheRaw(BareService) # 0
    /\ Move(w, "discovering")
    /\ UNCHANGED <<serverSchema, cacheFile, cacheTmp, checkedSchema, overtaken>>

\* handleCacheWarm; --force removes the bare entry first. Its timeout ends the waiting and not the write.
WarmCache(w, force) ==
    /\ w \in SchemaCommands
    /\ Begins(w)
    /\ Move(w, "discovering")
    /\ cacheFile' = IF force THEN [cacheFile EXCEPT ![BareService] = 0] ELSE cacheFile
    /\ UNCHANGED <<serverSchema, cacheTmp, checkedSchema, overtaken>>

\* discoverServiceSchemas: one more answer of the daemon, about all tools and then about each of them,
\* from the service and not from the cache; or one fails, and the command with it
Discover(w) ==
    /\ writer[w].pc = "discovering"
    /\ \/ \E next \in {"discovering", "merged"} :
              writer' = [writer EXCEPT ![w] = Writer("answered", BareService,
                                 IF writer[w].seen = 0 THEN serverSchema ELSE writer[w].seen, {}, next)]
       \/ End(w)
    /\ UNCHANGED <<serverSchema, cacheFile, cacheTmp, checkedSchema, overtaken>>

\* reconcileClientCache: when the answer is stamped with another fingerprint than the bare entry has, every
\* key of the service is cleared that is not cleared by now and that can be. The stamp is another one after
\* a change, when one of the entries has fewer tools, and whenever a remote daemon has another cache.
Reconcile(w) ==
    /\ writer[w].pc = "answered"
    /\ \E keys \in SUBSET IF ReadCacheRaw(BareService) = 0 THEN {} ELSE {k \in CacheKeys : Clears(k)} :
          cacheFile' = [k \in CacheKeys |-> IF k \in keys THEN 0 ELSE cacheFile[k]]
    /\ writer' = [writer EXCEPT ![w] = Writer(writer[w].next, BareService, writer[w].seen, {}, "idle")]
    /\ UNCHANGED <<serverSchema, cacheTmp, checkedSchema, overtaken>>

\* cacheSchemaResult reads the bare entry, expired or not, for the tools it goes on with
ReadEntry(w) ==
    LET cached == ReadCacheRaw(BareService)
        seen == writer[w].seen IN
    /\ writer[w].pc = "asked"
    /\ writer' = [writer EXCEPT ![w] =
                      Writer("merged", BareService, IF cached # 0 /\ cached < seen THEN cached ELSE seen, {}, "idle")]
    /\ UNCHANGED <<serverSchema, cacheFile, cacheTmp, checkedSchema, overtaken>>

\* The entry is stored with a new time to live, through a temporary file of its own, or fails to
StoreEntry(w, ok) ==
    /\ writer[w].pc = "merged"
    /\ End(w)
    /\ cacheFile' = IF ok THEN [cacheFile EXCEPT ![BareService] = writer[w].seen] ELSE cacheFile
    /\ overtaken' = IF ok /\ writer[w].seen < checkedSchema THEN overtaken \cup {BareService} ELSE overtaken
    /\ UNCHANGED <<serverSchema, cacheTmp, checkedSchema>>

\* clearCache: the cache command, a changed credential
ClearCache(k) ==
    /\ cacheFile[k] # 0
    /\ cacheFile' = [cacheFile EXCEPT ![k] = 0]
    /\ UNCHANGED <<serverSchema, cacheTmp, writer, checkedSchema, overtaken>>

CacheNext ==
    \/ UpgradeService
    \/ \E k \in CacheKeys : ClearCache(k)
    \/ \E w \in Writers :
          \/ \E k \in CacheKeys : MissCache(w, k) \/ ClearKey(w, k)
          \/ ConnectAndCheck(w) \/ ListAllTools(w) \/ NoDrift(w) \/ FindDrift(w) \/ Regenerated(w)
          \/ WriteTemp(w) \/ RenameTemp(w) \/ FailToWrite(w)
          \/ AskSchema(w) \/ DiffCache(w) \/ (\E force \in BOOLEAN : WarmCache(w, force)) \/ Discover(w)
          \/ Reconcile(w) \/ ReadEntry(w) \/ (\E ok \in BOOLEAN : StoreEntry(w, ok))

CacheSpec == CacheInit /\ [][CacheNext]_cacheVars

-------------------------------------------------------------------------------
Clearing == \E w \in DriftChecks : writer[w].pc = "clearing"

\* A contract change that a drift check finds invalidates every cache key of the service (drift-hook.ts
\* 57-63, storage.ts 211-220): once the check has cleared them, no key has an older version, except one
\* that a writer which had listed the tools before stores afterwards, and one whose removal failed.  A
\* check that finds no drift clears nothing, and the property says nothing of it: it looks at the bare
\* entry only, and a credential key may be older until its time to live is over.
NoStaleEntry ==
    ~Clearing => \A k \in CacheKeys \ overtaken : cacheFile[k] = 0 \/ cacheFile[k] >= checkedSchema
===============================================================================
