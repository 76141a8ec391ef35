--------------------------- MODULE SchemaCacheProofs ---------------------------
(***************************************************************************)
(* A drift check leaves no stale entry, for any number of keys, listings,  *)
(* checks, commands and versions of the service; and diff, drift check,    *)
(* fingerprint and skill hash agree on what has changed, for any two lists *)
(* of tools.                                                               *)
(***************************************************************************)
EXTENDS SchemaCache, StoreRules, FiniteSetTheorems, TLAPS

(***************************************************************************)
(* The inductive invariant.                                                *)
(***************************************************************************)

WriterPhases == {"idle", "listing", "comparing", "clearing", "writing", "renaming",
                 "answered", "discovering", "asked", "merged"}
Continuations == {"idle", "discovering", "asked", "merged"}
WriterRecords == [pc : WriterPhases, key : CacheKeys, seen : Nat, toClear : SUBSET CacheKeys,
                  next : Continuations]

CacheTypes ==
    /\ serverSchema \in Nat /\ checkedSchema \in Nat
    /\ cacheFile \in [CacheKeys -> Nat] /\ cacheTmp \in [CacheKeys -> Nat]
    /\ writer \in [Writers -> WriterRecords]
    /\ overtaken \in SUBSET CacheKeys

(* Only a drift check compares and clears.                                 *)
ChecksClear == \A w \in Writers : writer[w].pc \in {"comparing", "clearing"} => w \in DriftChecks

IsCleared(k) == \E w \in Writers : writer[w].pc = "clearing" /\ k \in writer[w].toClear

(* A key is current, or a check that is under way has still to clear it.   *)
CurrentOrCleared ==
    \A k \in CacheKeys \ overtaken : cacheFile[k] = 0 \/ cacheFile[k] >= checkedSchema \/ IsCleared(k)

CacheInv == CacheTypes /\ ChecksClear /\ CurrentOrCleared

(***************************************************************************)
(* Types, and what becomes of a writer.                                    *)
(***************************************************************************)

LEMMA WriterType ==
    ASSUME NEW pc \in WriterPhases, NEW key \in CacheKeys, NEW seen \in Nat,
           NEW toClear \in SUBSET CacheKeys, NEW next \in Continuations
    PROVE  /\ Writer(pc, key, seen, toClear, next) \in WriterRecords
           /\ Writer(pc, key, seen, toClear, next).pc = pc
           /\ Writer(pc, key, seen, toClear, next).toClear = toClear
  BY DEF Writer, WriterRecords

LEMMA PhaseNames ==
    /\ {"listing", "comparing", "writing", "answered", "merged"} \subseteq WriterPhases \ {"clearing"}
    /\ {"idle", "asked", "discovering", "merged"} \subseteq Continuations
    /\ Continuations \subseteq WriterPhases \ {"clearing"}
  BY DEF WriterPhases, Continuations

LEMMA IdleWriterType == IdleWriter \in WriterRecords /\ IdleWriter.pc = "idle"
  BY WriterType DEF IdleWriter, WriterPhases, Continuations, CacheKeys

LEMMA MovedType ==
    ASSUME NEW r \in WriterRecords, NEW pc \in WriterPhases
    PROVE  /\ [r EXCEPT !.pc = pc] \in WriterRecords
           /\ [r EXCEPT !.pc = pc].pc = pc
           /\ [r EXCEPT !.pc = pc].toClear = r.toClear
  BY DEF WriterRecords

(* A step of w alone.                                                      *)
StepsTo(w, r) == r \in WriterRecords /\ writer' = [writer EXCEPT ![w] = r]

(* A writer that was not clearing, and does not compare or clear then.     *)
Passes(w) ==
    \E r : /\ StepsTo(w, r)
           /\ r.pc = "comparing" => w \in DriftChecks
           /\ writer[w].pc # "clearing" \/ writer[w].toClear = {}
           /\ r.pc # "clearing"

LEMMA MovePasses ==
    ASSUME CacheTypes, NEW w \in Writers, NEW pc \in WriterPhases \ {"comparing", "clearing"}, Move(w, pc),
           writer[w].pc # "clearing" \/ writer[w].toClear = {}
    PROVE  Passes(w)
<1> DEFINE r == [writer[w] EXCEPT !.pc = pc]
<1>1. writer' = [writer EXCEPT ![w] = r]
  BY DEF Move
<1>2. r \in WriterRecords /\ r.pc = pc
  BY MovedType DEF CacheTypes
<1> HIDE DEF r
<1> QED  BY <1>1, <1>2 DEF Passes, StepsTo

LEMMA EndPasses ==
    ASSUME NEW w \in Writers, End(w), writer[w].pc # "clearing"
    PROVE  Passes(w)
  BY IdleWriterType DEF End, Passes, StepsTo

LEMMA WriterPasses ==
    ASSUME NEW w \in Writers, writer[w].pc # "clearing",
           NEW pc \in WriterPhases \ {"clearing"}, NEW key \in CacheKeys, NEW seen \in Nat,
           NEW next \in Continuations,
           writer' = [writer EXCEPT ![w] = Writer(pc, key, seen, {}, next)],
           pc = "comparing" => w \in DriftChecks
    PROVE  Passes(w)
<1> DEFINE r == Writer(pc, key, seen, {}, next)
<1>1. r \in WriterRecords /\ r.pc = pc
  BY WriterType
<1>2. writer' = [writer EXCEPT ![w] = r]
  OBVIOUS
<1> HIDE DEF r
<1> QED  BY <1>1, <1>2 DEF Passes, StepsTo

(* What a passing writer keeps.                                            *)
LEMMA PassKeeps ==
    ASSUME CacheTypes, ChecksClear, NEW w \in Writers, Passes(w)
    PROVE  /\ writer' \in [Writers -> WriterRecords]
           /\ ChecksClear'
           /\ \A k \in CacheKeys : IsCleared(k) => IsCleared(k)'
<1> PICK r : /\ StepsTo(w, r)
             /\ r.pc = "comparing" => w \in DriftChecks
             /\ writer[w].pc # "clearing" \/ writer[w].toClear = {}
             /\ r.pc # "clearing"
  BY DEF Passes
<1>1. writer' \in [Writers -> WriterRecords]
  BY DEF StepsTo, CacheTypes
<1>2. writer'[w] = r /\ \A v \in Writers : v # w => writer'[v] = writer[v]
  BY DEF StepsTo, CacheTypes
<1>3. ChecksClear'
  BY <1>2 DEF ChecksClear
<1>4. \A k \in CacheKeys : IsCleared(k) => IsCleared(k)'
  BY <1>2 DEF IsCleared
<1> QED  BY <1>1, <1>3, <1>4

(* The rest of a step of a passing writer: the files change to what is     *)
(* missing, current, or known to be overtaken.                             *)
StoresCurrent ==
    /\ serverSchema' \in Nat /\ checkedSchema' = checkedSchema
    /\ cacheFile' \in [CacheKeys -> Nat] /\ cacheTmp' \in [CacheKeys -> Nat]
    /\ overtaken \subseteq overtaken' /\ overtaken' \subseteq CacheKeys
    /\ \A k \in CacheKeys \ overtaken' :
          cacheFile'[k] = cacheFile[k] \/ cacheFile'[k] = 0 \/ cacheFile'[k] >= checkedSchema

LEMMA PassStep ==
    ASSUME CacheInv, NEW w \in Writers, Passes(w), StoresCurrent
    PROVE  CacheInv'
  BY PassKeeps DEF CacheInv, CacheTypes, StoresCurrent, CurrentOrCleared

(***************************************************************************)
(* The steps.                                                              *)
(***************************************************************************)

LEMMA FindDriftStep ==
    ASSUME CacheInv, NEW w \in Writers, FindDrift(w)
    PROVE  CacheInv'
<1> DEFINE r == Writer("clearing", BareService, writer[w].seen, ToClear, "idle")
<1>1. writer[w] \in WriterRecords /\ ToClear \in SUBSET CacheKeys /\ BareService \in CacheKeys
  BY DEF CacheInv, CacheTypes, ToClear, CacheKeys
<1>2. r \in WriterRecords /\ r.pc = "clearing" /\ r.toClear = ToClear
  <2>1. "clearing" \in WriterPhases /\ "idle" \in Continuations /\ writer[w].seen \in Nat
    BY <1>1 DEF WriterRecords, WriterPhases, Continuations
  <2> QED  BY <1>1, <2>1, WriterType
<1>3. writer' = [writer EXCEPT ![w] = r]
  BY DEF FindDrift
<1> HIDE DEF r
<1>4. writer'[w] = r /\ \A v \in Writers : v # w => writer'[v] = writer[v]
  BY <1>3 DEF CacheInv, CacheTypes
<1>5. CacheTypes'
  BY <1>1, <1>2, <1>3 DEF FindDrift, CacheInv, CacheTypes, WriterRecords
<1>6. ChecksClear'
  BY <1>4 DEF FindDrift, CacheInv, ChecksClear
<1>7. \A k \in CacheKeys : cacheFile[k] = 0 \/ IsCleared(k)'
  <2>1. ToClear = {k \in CacheKeys : cacheFile[k] # 0}
    BY DEF ToClear, Clears
  <2> QED  BY <1>2, <1>4, <2>1 DEF IsCleared
<1>8. CurrentOrCleared'
  BY <1>7 DEF FindDrift, CurrentOrCleared
<1> QED  BY <1>5, <1>6, <1>8 DEF CacheInv

LEMMA ClearKeyStep ==
    ASSUME CacheInv, NEW w \in Writers, NEW k \in CacheKeys, ClearKey(w, k)
    PROVE  CacheInv'
<1> DEFINE r == [writer[w] EXCEPT !.toClear = writer[w].toClear \ {k}]
<1>1. r \in WriterRecords /\ r.pc = writer[w].pc /\ r.toClear = writer[w].toClear \ {k}
  BY DEF CacheInv, CacheTypes, WriterRecords
<1>2. writer' = [writer EXCEPT ![w] = r]
  BY DEF ClearKey
<1> HIDE DEF r
<1>3. writer'[w] = r /\ \A v \in Writers : v # w => writer'[v] = writer[v]
  BY <1>2 DEF CacheInv, CacheTypes
<1>4. CacheTypes'
  BY <1>1, <1>2 DEF ClearKey, CacheInv, CacheTypes
<1>5. ChecksClear'
  BY <1>1, <1>3 DEF CacheInv, ChecksClear
<1>6. \A j \in CacheKeys : j # k /\ IsCleared(j) => IsCleared(j)'
  BY <1>1, <1>3 DEF IsCleared
<1>7. k \in overtaken' \/ cacheFile'[k] = 0
  BY DEF ClearKey, CacheInv, CacheTypes
<1>8. \A j \in CacheKeys : j # k => cacheFile'[j] = cacheFile[j]
  BY DEF ClearKey, CacheInv, CacheTypes
<1>9. CurrentOrCleared'
  BY <1>6, <1>7, <1>8 DEF ClearKey, CacheInv, CurrentOrCleared
<1> QED  BY <1>4, <1>5, <1>9 DEF CacheInv

(* Reading, listing, comparing, and the answers of the daemon.             *)
LEMMA ReadStep ==
    ASSUME CacheInv, NEW w \in Writers,
           \/ \E k \in CacheKeys : MissCache(w, k)
           \/ ConnectAndCheck(w) \/ ListAllTools(w) \/ NoDrift(w) \/ Regenerated(w)
           \/ AskSchema(w) \/ DiffCache(w) \/ Discover(w) \/ ReadEntry(w)
    PROVE  CacheInv'
<1> USE DEF CacheInv
<1>1. UNCHANGED <<serverSchema, cacheFile, cacheTmp, checkedSchema, overtaken>>
  BY DEF MissCache, ConnectAndCheck, ListAllTools, NoDrift, Regenerated, AskSchema, DiffCache, Discover, ReadEntry
<1>2. StoresCurrent
  BY <1>1 DEF StoresCurrent, CacheTypes
<1>3. writer[w] \in WriterRecords /\ writer[w].key \in CacheKeys /\ writer[w].seen \in Nat
      /\ BareService \in CacheKeys /\ serverSchema \in Nat /\ cacheFile[BareService] \in Nat
  BY DEF CacheTypes, WriterRecords, CacheKeys
<1>4. ASSUME NEW k \in CacheKeys, MissCache(w, k)
      PROVE  Passes(w)
  <2>1. writer' = [writer EXCEPT ![w] = Writer("listing", k, 0, {}, "idle")] /\ writer[w].pc = "idle"
    BY <1>4 DEF MissCache, Begins
  <2>2. "listing" \in WriterPhases \ {"clearing"} /\ 0 \in Nat /\ "idle" \in Continuations
    BY PhaseNames
  <2> QED  BY <2>1, <2>2, WriterPasses
<1>5. CASE ConnectAndCheck(w) \/ DiffCache(w) \/ NoDrift(w) \/ Regenerated(w)
  BY <1>5, <1>2, MovePasses, PassStep DEF ConnectAndCheck, DiffCache, NoDrift, Regenerated, Begins, WriterPhases
<1>6. ASSUME ListAllTools(w)
      PROVE  Passes(w)
  <2> DEFINE pc == IF w \in DriftChecks THEN "comparing" ELSE "writing"
  <2>1. writer[w].pc = "listing"
    BY <1>6 DEF ListAllTools
  <2>2. pc \in WriterPhases \ {"clearing"} /\ (pc = "comparing" => w \in DriftChecks)
    BY PhaseNames
  <2>4. "idle" \in Continuations
    BY PhaseNames
  <2>3. CASE writer' = [writer EXCEPT ![w] = Writer(pc, writer[w].key, serverSchema, {}, "idle")]
    <3> HIDE DEF pc
    <3> QED  BY <1>3, <2>1, <2>2, <2>3, <2>4, WriterPasses
  <2> QED  BY <1>6, <2>1, <2>3, EndPasses DEF ListAllTools
<1>7. ASSUME AskSchema(w)
      PROVE  Passes(w)
  <2>1. \A k \in CacheKeys : ReadCache(k) \subseteq Nat
    BY DEF ReadCache, CacheTypes
  <2>2. Answers \subseteq Nat
    <3>1. \A v \in Answers : v = serverSchema \/ \E k \in CacheKeys : v \in ReadCache(k)
      BY DEF Answers
    <3> QED  BY <1>3, <2>1, <3>1
  <2>3. PICK v \in Answers : writer' = [writer EXCEPT ![w] = Writer("answered", BareService, v, {}, "asked")]
    BY <1>7 DEF AskSchema
  <2>4. writer[w].pc = "idle"
    BY <1>7 DEF AskSchema, Begins
  <2>5. "answered" \in WriterPhases \ {"clearing"} /\ "asked" \in Continuations
    BY PhaseNames
  <2> QED  BY <1>3, <2>2, <2>3, <2>4, <2>5, WriterPasses
<1>8. ASSUME Discover(w)
      PROVE  Passes(w)
  <2> DEFINE seen == IF writer[w].seen = 0 THEN serverSchema ELSE writer[w].seen
  <2>1. writer[w].pc = "discovering"
    BY <1>8 DEF Discover
  <2>2. ASSUME NEW next \in {"discovering", "merged"},
               writer' = [writer EXCEPT ![w] = Writer("answered", BareService, seen, {}, next)]
        PROVE  Passes(w)
    <3>1. seen \in Nat /\ "answered" \in WriterPhases \ {"clearing"} /\ next \in Continuations
      BY <1>3, PhaseNames
    <3> HIDE DEF seen
    <3> QED  BY <1>3, <2>1, <2>2, <3>1, WriterPasses
  <2> QED  BY <1>8, <2>1, <2>2, EndPasses DEF Discover
<1>9. ASSUME ReadEntry(w)
      PROVE  Passes(w)
  <2> DEFINE cached == cacheFile[BareService]
             seen == IF cached # 0 /\ cached < writer[w].seen THEN cached ELSE writer[w].seen
  <2>1. writer' = [writer EXCEPT ![w] = Writer("merged", BareService, seen, {}, "idle")] /\ writer[w].pc = "asked"
    BY <1>9 DEF ReadEntry, ReadCacheRaw
  <2>2. seen \in Nat /\ "merged" \in WriterPhases \ {"clearing"} /\ "idle" \in Continuations
    BY <1>3, PhaseNames
  <2> HIDE DEF seen
  <2> QED  BY <1>3, <2>1, <2>2, WriterPasses
<1> QED  BY <1>2, <1>4, <1>5, <1>6, <1>7, <1>8, <1>9, PassStep

(* The writes, and what clears entries besides a drift check.              *)
LEMMA WriteStep ==
    ASSUME CacheInv, NEW w \in Writers,
           \/ WriteTemp(w) \/ RenameTemp(w) \/ FailToWrite(w)
           \/ (\E force \in BOOLEAN : WarmCache(w, force))
           \/ Reconcile(w) \/ (\E ok \in BOOLEAN : StoreEntry(w, ok))
    PROVE  CacheInv'
<1> USE DEF CacheInv
<1>1. writer[w] \in WriterRecords /\ writer[w].key \in CacheKeys /\ writer[w].seen \in Nat
      /\ BareService \in CacheKeys /\ cacheTmp[writer[w].key] \in Nat
  BY DEF CacheTypes, WriterRecords, CacheKeys
<1>2. CASE WriteTemp(w)
  <2>1. Passes(w)
    BY <1>2, MovePasses DEF WriteTemp, WriterPhases
  <2>2. StoresCurrent
    BY <1>1, <1>2 DEF WriteTemp, StoresCurrent, CacheTypes
  <2> QED  BY <2>1, <2>2, PassStep
<1>3. CASE RenameTemp(w)
  <2>1. Passes(w)
    BY <1>3, EndPasses DEF RenameTemp
  <2>2. StoresCurrent
    BY <1>1, <1>3 DEF RenameTemp, StoresCurrent, CacheTypes
  <2> QED  BY <2>1, <2>2, PassStep
<1>4. CASE FailToWrite(w)
  <2>1. Passes(w)
    BY <1>4, EndPasses DEF FailToWrite
  <2>2. StoresCurrent
    BY <1>1, <1>4 DEF FailToWrite, StoresCurrent, CacheTypes
  <2> QED  BY <2>1, <2>2, PassStep
<1>5. ASSUME NEW force \in BOOLEAN, WarmCache(w, force)
      PROVE  CacheInv'
  <2>1. Passes(w)
    BY <1>5, MovePasses DEF WarmCache, Begins, WriterPhases
  <2>2. StoresCurrent
    BY <1>1, <1>5 DEF WarmCache, StoresCurrent, CacheTypes
  <2> QED  BY <2>1, <2>2, PassStep
<1>6. CASE Reconcile(w)
  <2>1. Passes(w)
    <3>1. writer[w].next \in Continuations
      BY <1>1 DEF WriterRecords
    <3>2. writer' = [writer EXCEPT ![w] = Writer(writer[w].next, BareService, writer[w].seen, {}, "idle")]
          /\ writer[w].pc = "answered"
      BY <1>6 DEF Reconcile
    <3>3. writer[w].next \in WriterPhases \ {"clearing"} /\ writer[w].next # "comparing" /\ "idle" \in Continuations
      BY <3>1, PhaseNames DEF Continuations
    <3> QED  BY <1>1, <3>2, <3>3, WriterPasses
  <2>2. StoresCurrent
    BY <1>6 DEF Reconcile, StoresCurrent, CacheTypes
  <2> QED  BY <2>1, <2>2, PassStep
<1>7. ASSUME NEW ok \in BOOLEAN, StoreEntry(w, ok)
      PROVE  CacheInv'
  <2>1. Passes(w)
    BY <1>7, EndPasses DEF StoreEntry
  <2>2. StoresCurrent
    BY <1>1, <1>7 DEF StoreEntry, StoresCurrent, CacheTypes
  <2> QED  BY <2>1, <2>2, PassStep
<1> QED  BY <1>2, <1>3, <1>4, <1>5, <1>6, <1>7

LEMMA RestStep ==
    ASSUME CacheInv, UpgradeService \/ (\E k \in CacheKeys : ClearCache(k)) \/ UNCHANGED cacheVars
    PROVE  CacheInv'
<1> USE DEF CacheInv
<1>1. CASE UpgradeService \/ UNCHANGED cacheVars
  BY <1>1 DEF UpgradeService, cacheVars, CacheTypes, ChecksClear, CurrentOrCleared, IsCleared
<1>2. ASSUME NEW k \in CacheKeys, ClearCache(k)
      PROVE  CacheInv'
  BY <1>2 DEF ClearCache, CacheTypes, ChecksClear, CurrentOrCleared, IsCleared
<1> QED  BY <1>1, <1>2

(***************************************************************************)
(* The theorem.                                                            *)
(***************************************************************************)

LEMMA CacheInitInv ==
    ASSUME CacheInit
    PROVE  CacheInv
  BY IdleWriterType DEF CacheInit, CacheInv, CacheTypes, ChecksClear, CurrentOrCleared

LEMMA CacheNextInv ==
    ASSUME CacheInv, [CacheNext]_cacheVars
    PROVE  CacheInv'
  BY FindDriftStep, ClearKeyStep, ReadStep, WriteStep, RestStep DEF CacheNext

(* Once a drift check that found drift has cleared the cache, no key has   *)
(* an older version than it compared with, but for those that a writer     *)
(* which had listed before stores afterwards or whose removal failed. Of a *)
(* check that finds no drift, and clears nothing, it says nothing          *)
(* (drift-hook.ts 57-63, storage.ts 211-220).                              *)
THEOREM DriftLeavesNothingStale == CacheSpec => []NoStaleEntry
<1>1. CacheInv => NoStaleEntry
  BY DEF CacheInv, CurrentOrCleared, ChecksClear, IsCleared, NoStaleEntry, Clearing
<1> QED  BY <1>1, CacheInitInv, CacheNextInv, PTL DEF CacheSpec

(***************************************************************************)
(* What is read back from a skill file, and the drift of the cache.        *)
(*                                                                         *)
(* A list of tools is finite and has a tool for a name.                    *)
(***************************************************************************)

IsToolList(tools) ==
    /\ IsFiniteSet(tools)
    /\ \A t \in tools : t = Tool(t.name, t.desc, t.schema) /\ t.desc \in {"missing", "empty", "text"}
    /\ \A t, u \in tools : t.name = u.name => t = u

(* Groups that hold every tool in one of them, under a prefix of its own.  *)
IsPartition(groups, tools) ==
    /\ UNION {g.tools : g \in groups} = tools
    /\ \A g, h \in groups : g # h => g.prefix # h.prefix /\ g.tools \cap h.tools = {}

(* SetToSeq lists every element of a finite set once.                      *)
LEMMA SetToSeqLists ==
    ASSUME NEW S, IsFiniteSet(S)
    PROVE  LET n == Cardinality(S)  seq == SetToSeq(S) IN
           /\ n \in Nat
           /\ seq \in [1..n -> S]
           /\ \A i, j \in 1..n : seq[i] = seq[j] => i = j
           /\ \A x \in S : \E i \in 1..n : seq[i] = x
<1> DEFINE n == Cardinality(S)  seq == SetToSeq(S)
<1>1. n \in Nat /\ ExistsBijection(1..n, S)
  BY FS_CardinalityType
<1>2. \E f \in [1..n -> S] : IsInjective(f)
  BY <1>1 DEF ExistsBijection, Bijection, Injection
<1>3. seq \in [1..n -> S] /\ IsInjective(seq)
  BY <1>2 DEF SetToSeq
<1> HIDE DEF seq
<1>4. IsFiniteSet(1..n) /\ Cardinality(1..n) = n
  BY <1>1, FS_Interval
<1>5. seq \in Injection(1..n, S)
  BY <1>3 DEF Injection
<1>6. seq \in Surjection(1..n, S)
  BY <1>4, <1>5, FS_Injection
<1>7. \A x \in S : \E i \in 1..n : seq[i] = x
  BY <1>6 DEF Surjection
<1>8. \A i, j \in 1..n : seq[i] = seq[j] => i = j
  BY <1>3 DEF IsInjective
<1> QED  BY <1>1, <1>3, <1>7, <1>8 DEF seq

GroupsOf(prefixes, of) == {Group(i, of[i]) : i \in prefixes}

(* Sets of tools that are disjoint and cover them make groups that do.     *)
LEMMA FamilyPartition ==
    ASSUME NEW prefixes, NEW tools, NEW of,
           \A i \in prefixes : of[i] \subseteq tools,
           \A x \in tools : \E i \in prefixes : x \in of[i],
           \A i, j \in prefixes : i # j => of[i] \cap of[j] = {}
    PROVE  IsPartition(GroupsOf(prefixes, of), tools)
<1> DEFINE groups == GroupsOf(prefixes, of)
<1>1. \A g \in groups : \E i \in prefixes : g.prefix = i /\ g.tools = of[i] /\ g = Group(i, of[i])
  BY DEF Group, GroupsOf
<1>2. \A i \in prefixes : Group(i, of[i]) \in groups /\ Group(i, of[i]).tools = of[i]
  BY DEF Group, GroupsOf
<1> HIDE DEF groups
<1>3. \A x \in UNION {g.tools : g \in groups} : x \in tools
  BY <1>1
<1>4. \A x \in tools : x \in UNION {g.tools : g \in groups}
  BY <1>2
<1>5. UNION {g.tools : g \in groups} = tools
  BY <1>3, <1>4
<1>6. \A g, h \in groups : g # h => g.prefix # h.prefix /\ g.tools \cap h.tools = {}
  BY <1>1
<1> QED  BY <1>5, <1>6 DEF IsPartition, groups

(* alphabeticalChunks loses and doubles no tool.                           *)
LEMMA ChunksPartition ==
    ASSUME NEW tools, IsFiniteSet(tools)
    PROVE  IsPartition(AlphabeticalChunks(tools), tools)
<1> DEFINE n == Cardinality(tools)
           size == Min({MaxChunk, Max({MinChunk, n})})
           sorted == SetToSeq(tools)
           chunk == [k \in 1..n |-> (k - 1) \div size]
           chunks == {chunk[k] : k \in 1..n}
           of == [i \in chunks |-> {sorted[j] : j \in {k \in 1..n : chunk[k] = i}}]
<1>1. AlphabeticalChunks(tools) = GroupsOf(chunks, of)
  BY DEF AlphabeticalChunks, GroupsOf
<1>2. /\ sorted \in [1..n -> tools]
      /\ \A i, j \in 1..n : sorted[i] = sorted[j] => i = j
      /\ \A x \in tools : \E i \in 1..n : sorted[i] = x
  BY SetToSeqLists
<1>3. \A i \in chunks : \A x : x \in of[i] <=> \E j \in 1..n : chunk[j] = i /\ x = sorted[j]
  OBVIOUS
<1>4. \A j \in 1..n : chunk[j] \in chunks
  OBVIOUS
<1> HIDE DEF sorted, chunk, n, chunks, of
<1>5. \A x \in tools : \E i \in chunks : x \in of[i]
  <2> TAKE x \in tools
  <2>1. PICK j \in 1..n : sorted[j] = x
    BY <1>2
  <2> QED  BY <1>3, <1>4, <2>1
<1>6. \A i, j \in chunks : i # j => of[i] \cap of[j] = {}
  BY <1>2, <1>3
<1>7. \A i \in chunks : of[i] \subseteq tools
  BY <1>2, <1>3
<1> QED  BY <1>1, <1>5, <1>6, <1>7, FamilyPartition

(* Neither does the grouping by noun, the tools alone of their noun being  *)
(* added to those of the noun general.                                     *)
LEMMA GroupsPartition ==
    ASSUME NEW tools, IsFiniteSet(tools)
    PROVE  IsPartition(DetectPrefixGroups(tools), tools)
<1> DEFINE nouns == {Noun(tools, t) : t \in tools}
           byNoun == [n \in nouns |-> {t \in tools : Noun(tools, t) = n}]
           big == {n \in nouns : Cardinality(byNoun[n]) >= 2}
           alone == UNION {byNoun[n] : n \in nouns \ big}
           valid == big \cup (IF alone # {} THEN {"general"} ELSE {})
           of == [n \in valid |-> (IF n \in big THEN byNoun[n] ELSE {}) \cup (IF n = "general" THEN alone ELSE {})]
<1>1. DetectPrefixGroups(tools) = IF Cardinality(valid) < 2 THEN AlphabeticalChunks(tools) ELSE GroupsOf(valid, of)
  <2>1. GroupsOf(valid, of) =
           {Group(n, (IF n \in big THEN byNoun[n] ELSE {}) \cup (IF n = "general" THEN alone ELSE {})) : n \in valid}
    <3> HIDE DEF byNoun, alone, big, valid
    <3> QED  BY DEF GroupsOf
  <2> QED  BY <2>1 DEF DetectPrefixGroups
<1>2. big \subseteq nouns /\ \A n \in nouns : byNoun[n] = {t \in tools : Noun(tools, t) = n}
  OBVIOUS
<1>3. \A t \in tools : Noun(tools, t) \in nouns
  OBVIOUS
<1> HIDE DEF big, byNoun, nouns
<1>4. \A t : t \in alone <=> \E n \in nouns \ big : t \in byNoun[n]
  OBVIOUS
<1>5. \A t : t \in alone <=> t \in tools /\ Noun(tools, t) \notin big
  BY <1>2, <1>3, <1>4
<1> HIDE DEF alone
<1>6. \A m, n \in valid : m # n => of[m] \cap of[n] = {}
  BY <1>2, <1>5
<1>7. \A t \in tools : \E n \in valid : t \in of[n]
  BY <1>2, <1>3, <1>5
<1>8. \A n \in valid : of[n] \subseteq tools
  BY <1>2, <1>5
<1> HIDE DEF of, valid
<1>9. IsPartition(GroupsOf(valid, of), tools)
  BY <1>6, <1>7, <1>8, FamilyPartition
<1> QED  BY <1>1, <1>9, ChunksPartition

(* What the cache keeps of a tool, and what is hashed of it.               *)
Entry(t) == [tool |-> [t EXCEPT !.desc = IF @ = "missing" THEN "placeholder" ELSE @], hash |-> HashToolSchema(t)]

(* The placeholder hashes like what it stands for, and a hash tells the    *)
(* tools apart but for a missing and an empty description.                 *)
LEMMA EntryOfTool ==
    ASSUME NEW tools, IsToolList(tools), NEW t \in tools
    PROVE  LET stored == IF t.desc = "missing" THEN "placeholder" ELSE t.desc
               hashed == IF t.desc = "missing" THEN "empty" ELSE t.desc
           IN
           /\ Entry(t).tool.name = t.name /\ Entry(t).tool.desc = stored
           /\ Entry(t).hash = Tool(t.name, hashed, t.schema)
           /\ HashToolSchema(Entry(t).tool) = Entry(t).hash
<1> DEFINE stored == IF t.desc = "missing" THEN "placeholder" ELSE t.desc
           hashed == IF t.desc = "missing" THEN "empty" ELSE t.desc
<1>1. t = Tool(t.name, t.desc, t.schema) /\ t.desc \in {"missing", "empty", "text"}
  BY DEF IsToolList
<1>2. [t EXCEPT !.desc = stored] = Tool(t.name, stored, t.schema)
  BY <1>1 DEF Tool
<1>3. Entry(t).tool = Tool(t.name, stored, t.schema)
  BY <1>2 DEF Entry
<1>4. HashToolSchema(t) = Tool(t.name, hashed, t.schema)
  BY <1>1 DEF HashToolSchema, Tool
<1>5. HashToolSchema(Tool(t.name, stored, t.schema)) = Tool(t.name, hashed, t.schema)
  BY <1>1 DEF HashToolSchema, Tool
<1>6. Tool(t.name, stored, t.schema).name = t.name /\ Tool(t.name, stored, t.schema).desc = stored
  BY DEF Tool
<1>7. Entry(t).hash = HashToolSchema(t)
  BY DEF Entry
<1> QED  BY <1>3, <1>4, <1>5, <1>6, <1>7

LEMMA ToolFields ==
    ASSUME NEW name, NEW desc, NEW schema
    PROVE  /\ Tool(name, desc, schema).name = name
           /\ Tool(name, desc, schema).desc = desc
           /\ Tool(name, desc, schema).schema = schema
  BY DEF Tool

LEMMA MappedTools ==
    ASSUME NEW tools, IsToolList(tools)
    PROVE  /\ MapTools(tools) = {Entry(t) : t \in tools}
           /\ Names(MapTools(tools)) = {t.name : t \in tools}
           /\ IsFiniteSet(Names(MapTools(tools)))
<1>1. MapTools(tools) = {Entry(t) : t \in tools}
  BY DEF MapTools, Entry
<1>2. Names(MapTools(tools)) = {t.name : t \in tools}
  BY <1>1, EntryOfTool DEF Names
<1>3. [t \in tools |-> t.name] \in Surjection(tools, {t.name : t \in tools})
  BY DEF Surjection
<1>4. IsFiniteSet({t.name : t \in tools})
  BY <1>3, FS_Surjection DEF IsToolList
<1> QED  BY <1>1, <1>2, <1>4

(* The drift between two lists, tool by tool.                              *)
LEMMA DriftOfTools ==
    ASSUME NEW before, IsToolList(before), NEW now, IsToolList(now)
    PROVE  LET drift == DetectDrift(MapTools(before), MapTools(now)) IN
           /\ drift.added = {u.name : u \in now} \ {t.name : t \in before}
           /\ drift.removed = {t.name : t \in before} \ {u.name : u \in now}
           /\ drift.changed = {u.name : u \in {v \in now : \E t \in before :
                                  t.name = v.name /\ Entry(t).hash # Entry(v).hash}}
<1> DEFINE cached == MapTools(before)  live == MapTools(now)
           drift == DetectDrift(cached, live)
           differ == {v \in now : \E t \in before : t.name = v.name /\ Entry(t).hash # Entry(v).hash}
<1>1. /\ cached = {Entry(t) : t \in before} /\ Names(cached) = {t.name : t \in before}
      /\ live = {Entry(u) : u \in now} /\ Names(live) = {u.name : u \in now}
  BY MappedTools
<1> HIDE DEF cached, live
<1>2. drift.added = Names(live) \ Names(cached) /\ drift.removed = Names(cached) \ Names(live)
  BY DEF DetectDrift
<1>3. drift.changed = {n \in Names(live) : \E c \in cached, l \in live :
                          c.tool.name = n /\ l.tool.name = n /\ c.hash # l.hash}
  BY DEF DetectDrift
<1> HIDE DEF drift
<1>4. ASSUME NEW n \in drift.changed
      PROVE  n \in {u.name : u \in differ}
  BY <1>1, <1>3, EntryOfTool
<1>5. ASSUME NEW u \in differ
      PROVE  u.name \in drift.changed
  BY <1>1, <1>3, EntryOfTool
<1>6. drift.changed = {u.name : u \in differ}
  BY <1>4, <1>5
<1> QED  BY <1>1, <1>2, <1>6 DEF drift, cached, live

(* The fingerprint of an entry that a command wrote is that of the tools   *)
(* as they are now exactly when there is no drift.                         *)
LEMMA FingerprintTellsDrift ==
    ASSUME NEW before, IsToolList(before), NEW now, IsToolList(now)
    PROVE  LET cached == MapTools(before)  live == MapTools(now) IN
           Fingerprint(CacheAnswers(cached)) = Fingerprint(live) <=> ~HasDrift(DetectDrift(cached, live))
<1> DEFINE cached == MapTools(before)  live == MapTools(now)
           drift == DetectDrift(cached, live)
           old == {Entry(t).hash : t \in before}  new == {Entry(u).hash : u \in now}
<1>1. Fingerprint(live) = new
  BY MappedTools DEF Fingerprint
<1>2. CacheAnswers(cached) = {[tool |-> Entry(t).tool, hash |-> Entry(t).hash] : t \in before}
  BY MappedTools, EntryOfTool DEF CacheAnswers
<1>3. Fingerprint(CacheAnswers(cached)) = old
  <2> DEFINE answers == {[tool |-> Entry(t).tool, hash |-> Entry(t).hash] : t \in before}
  <2>1. Fingerprint(answers) = {c.hash : c \in answers}
    BY DEF Fingerprint
  <2>2. {c.hash : c \in answers} = old
    <3>1. \A c \in answers : \E t \in before : c.hash = Entry(t).hash
      OBVIOUS
    <3>2. \A t \in before : \E c \in answers : c.hash = Entry(t).hash
      <4> TAKE t \in before
      <4> WITNESS [tool |-> Entry(t).tool, hash |-> Entry(t).hash] \in answers
      <4> QED  OBVIOUS
    <3> HIDE DEF answers
    <3> QED  BY <3>1, <3>2
  <2> QED  BY <1>2, <2>1, <2>2
<1>4. HasDrift(drift) <=> drift.added # {} \/ drift.removed # {} \/ drift.changed # {}
  BY DEF HasDrift
<1>5. /\ drift.added = {u.name : u \in now} \ {t.name : t \in before}
      /\ drift.removed = {t.name : t \in before} \ {u.name : u \in now}
      /\ drift.changed = {u.name : u \in {v \in now : \E t \in before :
                             t.name = v.name /\ Entry(t).hash # Entry(v).hash}}
  BY DriftOfTools
<1> HIDE DEF drift
<1>6. (\A t \in before : Entry(t).hash.name = t.name) /\ (\A u \in now : Entry(u).hash.name = u.name)
  BY EntryOfTool, ToolFields
<1>7. ASSUME old = new
      PROVE  drift.added = {} /\ drift.removed = {} /\ drift.changed = {}
  <2>1. \A t \in before : \E u \in now : Entry(u).hash = Entry(t).hash
    BY <1>7
  <2>2. \A u \in now : \E t \in before : Entry(t).hash = Entry(u).hash
    BY <1>7
  <2>3. \A t \in before, u \in now : t.name = u.name => Entry(t).hash = Entry(u).hash
    BY <1>6, <2>1 DEF IsToolList
  <2> QED  BY <1>5, <1>6, <2>1, <2>2, <2>3
<1>8. ASSUME drift.added = {}, drift.removed = {}, drift.changed = {}
      PROVE  old = new
  <2>1. \A t \in before : \E u \in now : u.name = t.name
    BY <1>5, <1>8
  <2>2. \A u \in now : \E t \in before : t.name = u.name
    BY <1>5, <1>8
  <2>3. \A t \in before, u \in now : t.name = u.name => Entry(t).hash = Entry(u).hash
    BY <1>5, <1>8
  <2>4. \A t \in before : Entry(t).hash \in new
    BY <2>1, <2>3
  <2>5. \A u \in now : Entry(u).hash \in old
    BY <2>2, <2>3
  <2> QED  BY <2>4, <2>5
<1> QED  BY <1>1, <1>3, <1>4, <1>7, <1>8 DEF drift

(* What --diff shows of the front skill is the drift.                      *)
LEMMA DiffShowsDrift ==
    ASSUME NEW before, IsToolList(before), NEW now, IsToolList(now)
    PROVE  LET cached == MapTools(before)  live == MapTools(now)
               shown == ComputeSkillDiff(ParseExistingTools(SkillRows(Names(cached))), Names(live))
           IN
           /\ shown.added = DetectDrift(cached, live).added
           /\ shown.removed = DetectDrift(cached, live).removed
           /\ IsPartition(DetectPrefixGroups(Names(cached)), Names(cached))
<1> DEFINE names == Names(MapTools(before))
<1>1. IsPartition(DetectPrefixGroups(names), names)
  BY MappedTools, GroupsPartition
<1>2. ParseExistingTools(SkillRows(names)) = names
  BY <1>1 DEF ParseExistingTools, SkillRows, IsPartition
<1> HIDE DEF names
<1> QED  BY <1>1, <1>2 DEF ComputeSkillDiff, DetectDrift, names

(* The hash in the frontmatter has the names and the descriptions.         *)
LEMMA StaleTellsNamesAndText ==
    ASSUME NEW before, IsToolList(before), NEW now, IsToolList(now)
    PROVE  LET cached == MapTools(before)  live == MapTools(now) IN
           ~Stale(ComputeSchemaHash(cached), live) <=>
              {<<t.name, Entry(t).tool.desc>> : t \in before} = {<<u.name, Entry(u).tool.desc>> : u \in now}
<1>1. ASSUME NEW tools, IsToolList(tools)
      PROVE  ComputeSchemaHash(MapTools(tools)) = {<<t.name, Entry(t).tool.desc>> : t \in tools}
  <2>1. ComputeSchemaHash({Entry(t) : t \in tools}) = {<<Entry(t).tool.name, Entry(t).tool.desc>> : t \in tools}
    BY DEF ComputeSchemaHash
  <2> QED  BY <1>1, <2>1, MappedTools, EntryOfTool
<1> QED  BY <1>1 DEF Stale

LEMMA NotStaleShows ==
    ASSUME NEW before, IsToolList(before), NEW now, IsToolList(now),
           ~Stale(ComputeSchemaHash(MapTools(before)), MapTools(now))
    PROVE  LET drift == DetectDrift(MapTools(before), MapTools(now)) IN
           /\ UNION {drift.added, drift.removed} = {}
           /\ \A t \in before, u \in now : t.name = u.name /\ t.name \in drift.changed => t.schema # u.schema
<1> DEFINE drift == DetectDrift(MapTools(before), MapTools(now))
           text(t) == <<t.name, Entry(t).tool.desc>>
<1>1. {text(t) : t \in before} = {text(u) : u \in now}
  BY StaleTellsNamesAndText
<1>2. /\ drift.added = {u.name : u \in now} \ {t.name : t \in before}
      /\ drift.removed = {t.name : t \in before} \ {u.name : u \in now}
      /\ drift.changed = {u.name : u \in {v \in now : \E t \in before :
                             t.name = v.name /\ Entry(t).hash # Entry(v).hash}}
  BY DriftOfTools
<1> HIDE DEF drift
<1>3. \A t \in before : \E u \in now : u.name = t.name /\ Entry(u).tool.desc = Entry(t).tool.desc
  <2>1. \A t \in before : text(t) \in {text(u) : u \in now}
    BY <1>1
  <2>2. \A t \in before : \E u \in now : text(u) = text(t)
    BY <2>1
  <2> QED  BY <2>2
<1>4. \A u \in now : \E t \in before : t.name = u.name /\ Entry(u).tool.desc = Entry(t).tool.desc
  <2>1. \A u \in now : text(u) \in {text(t) : t \in before}
    BY <1>1
  <2>2. \A u \in now : \E t \in before : text(u) = text(t)
    BY <2>1
  <2> QED  BY <2>2
<1>5. drift.added = {} /\ drift.removed = {}
  BY <1>2, <1>3, <1>4
<1>6. ASSUME NEW t \in before, NEW u \in now, t.name = u.name, t.schema = u.schema, t.name \in drift.changed
      PROVE  FALSE
  <2>1. Entry(t).tool.desc = Entry(u).tool.desc
    BY <1>3, <1>6 DEF IsToolList
  <2>2. Entry(t).hash = Entry(u).hash
    <3>1. t.desc \in {"missing", "empty", "text"} /\ u.desc \in {"missing", "empty", "text"}
      BY DEF IsToolList
    <3>2. t.desc = u.desc
      BY <2>1, <3>1, EntryOfTool
    <3> QED  BY <1>6, <3>2, EntryOfTool
  <2>3. PICK v \in now, w \in before : v.name = t.name /\ w.name = v.name /\ Entry(w).hash # Entry(v).hash
    BY <1>2, <1>6
  <2>4. v = u /\ w = t
    BY <1>6, <2>3 DEF IsToolList
  <2> QED  BY <2>2, <2>3, <2>4
<1> QED  BY <1>5, <1>6 DEF drift

LEMMA StaleWithoutDrift ==
    ASSUME NEW before, IsToolList(before), NEW now, IsToolList(now),
           Stale(ComputeSchemaHash(MapTools(before)), MapTools(now)),
           ~HasDrift(DetectDrift(MapTools(before), MapTools(now)))
    PROVE  \E t \in before, u \in now : t.name = u.name /\ {t.desc, u.desc} = {"missing", "empty"}
<1> DEFINE drift == DetectDrift(MapTools(before), MapTools(now))
           text(t) == <<t.name, Entry(t).tool.desc>>
<1>1. drift.added = {} /\ drift.removed = {} /\ drift.changed = {}
  BY DEF HasDrift
<1>2. /\ drift.added = {u.name : u \in now} \ {t.name : t \in before}
      /\ drift.removed = {t.name : t \in before} \ {u.name : u \in now}
      /\ drift.changed = {u.name : u \in {v \in now : \E t \in before :
                             t.name = v.name /\ Entry(t).hash # Entry(v).hash}}
  BY DriftOfTools
<1> HIDE DEF drift
<1>3. /\ \A t \in before : \E u \in now : u.name = t.name
      /\ \A u \in now : \E t \in before : t.name = u.name
      /\ \A t \in before, u \in now : t.name = u.name => Entry(t).hash = Entry(u).hash
  BY <1>1, <1>2
<1>4. {text(t) : t \in before} # {text(u) : u \in now}
  BY StaleTellsNamesAndText
<1>5. PICK t \in before, u \in now : t.name = u.name /\ Entry(t).tool.desc # Entry(u).tool.desc
  <2>1. SUFFICES ASSUME \A t \in before, u \in now : t.name = u.name => Entry(t).tool.desc = Entry(u).tool.desc
                 PROVE  FALSE
    OBVIOUS
  <2>2. \A t \in before : text(t) \in {text(u) : u \in now}
    BY <1>3, <2>1
  <2>3. \A u \in now : text(u) \in {text(t) : t \in before}
    BY <1>3, <2>1
  <2> QED  BY <1>4, <2>2, <2>3
<1>6. t.desc \in {"missing", "empty", "text"} /\ u.desc \in {"missing", "empty", "text"}
  BY DEF IsToolList
<1>7. Entry(t).hash.desc = Entry(u).hash.desc
  BY <1>3, <1>5
<1>8. {t.desc, u.desc} = {"missing", "empty"}
  BY <1>5, <1>6, <1>7, EntryOfTool, ToolFields
<1> QED  BY <1>5, <1>8

(* What --diff shows of a skill file that was generated when the cache was *)
(* filled is what the drift check sees; every tool is in one reference     *)
(* file; the fingerprint tells drift; and a skill that is not called stale *)
(* hides no change but one of a schema: for any two lists of tools, of     *)
(* whatever names and sizes of the chunks (grouping.ts 79-166, diff.ts     *)
(* 36-170, drift.ts 21-71, hash.ts 33-69, skill-hash.ts).                  *)
THEOREM SkillsShowDrift ==
    ASSUME storeCase.kind = "skill" => IsToolList(storeCase.before) /\ IsToolList(storeCase.now)
    PROVE  SkillShowsDrift
<1> SUFFICES ASSUME storeCase.kind = "skill"
             PROVE  SkillShowsDrift
  BY DEF SkillShowsDrift
<1> DEFINE before == storeCase.before  now == storeCase.now
           cached == MapTools(before)  live == MapTools(now)
           drift == DetectDrift(cached, live)
           groups == DetectPrefixGroups(Names(cached))
           stale == Stale(ComputeSchemaHash(cached), live)
<1>1. IsToolList(before) /\ IsToolList(now)
  OBVIOUS
<1>2. LET shown == ComputeSkillDiff(ParseExistingTools(SkillRows(Names(cached))), Names(live)) IN
      shown.added = drift.added /\ shown.removed = drift.removed /\ IsPartition(groups, Names(cached))
  BY <1>1, DiffShowsDrift
<1>3. \A g, h \in groups : g # h => g.prefix # h.prefix /\ g.tools \cap h.tools = {}
  BY <1>2 DEF IsPartition
<1>4. Fingerprint(CacheAnswers(cached)) = Fingerprint(live) <=> ~HasDrift(drift)
  BY <1>1, FingerprintTellsDrift
<1>5. ~stale => /\ UNION {drift.added, drift.removed} = {}
                /\ \A t \in before, u \in now : t.name = u.name /\ t.name \in drift.changed => t.schema # u.schema
  BY <1>1, NotStaleShows
<1>6. stale /\ ~HasDrift(drift) =>
         \E t \in before, u \in now : t.name = u.name /\ {t.desc, u.desc} = {"missing", "empty"}
  BY <1>1, StaleWithoutDrift
<1> QED  BY <1>2, <1>3, <1>4, <1>5, <1>6 DEF SkillShowsDrift
===============================================================================
