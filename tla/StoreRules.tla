----------------------------- MODULE StoreRules ------------------------------
(***************************************************************************)
(* What a daemon and its commands work out of what is stored, without      *)
(* state: the source of a credential as it is used and as it is reported   *)
(* (CredentialRules), and the tools of a skill file: their grouping, the   *)
(* table it shows, what --diff and skills list read back from it, and the  *)
(* drift and the fingerprint of the cache (generation/grouping.ts,         *)
(* templates.ts, diff.ts, skill-hash.ts, cache/hash.ts, mapper.ts,         *)
(* drift.ts, cli/commands/skills.ts).                                      *)
(*                                                                         *)
(* A tool is a name, the sequence of its segments, a description, which    *)
(* may be missing or empty, and a schema, which stands for the annotations *)
(* too.  A group is its prefix, which names its reference file, and the    *)
(* set of its tools' names.  A hash is what is hashed.                     *)
(***************************************************************************)
EXTENDS CredentialRules

CONSTANTS RuleUser, RuleGroups, \* the identities of the credentials
          Verbs,                \* first segments of tool names
          MinChunk, MaxChunk    \* 5 and 8, the sizes of an alphabetical chunk

VARIABLE storeCase \* a credentials configuration, or the tools as cached and as they are now

-------------------------------------------------------------------------------
(* Cases *)

\* The groups of a file have a name each, in any order. The tools change by one added and one removed,
\* by either or by none.
RuleGroupOrders ==
    {s \in UNION {[1..n -> [name : RuleGroups, members : SUBSET {RuleUser}]] : n \in 0..Cardinality(RuleGroups)} :
        \A i, j \in DOMAIN s : i # j => s[i].name # s[j].name}

Nouns == {"item", "items", "general", "tag"}
SegmentedNames == Verbs \X Nouns

Tool(name, desc, schema) == [name |-> name, desc |-> desc, schema |-> schema]
Surfaces == {"missing", "empty", "text"} \X (0..1)
Usual(names) == {Tool(n, "text", 0) : n \in names}

\* Either the names change, or the surface of one of at most two tools does
StoreRulesInit ==
    \/ storeCase \in [kind : {"resolve"}, creds : [RuleGroups \cup {RuleUser} -> 0..1],
                      groups : RuleGroupOrders, default : 0..1]
    \/ \E names \in SUBSET SegmentedNames, new, gone \in SegmentedNames :
          storeCase = [kind |-> "skill", before |-> Usual(names), now |-> Usual((names \cup {new}) \ {gone})]
    \/ \E changed, other \in SegmentedNames, from, to \in Surfaces :
          storeCase = [kind |-> "skill",
                       before |-> Usual({other} \ {changed}) \cup {Tool(changed, from[1], from[2])},
                       now |-> Usual({other} \ {changed}) \cup {Tool(changed, to[1], to[2])}]

-------------------------------------------------------------------------------
(* Grouping *)

\* stripServicePrefix: how many leading segments all names share, the last one not counted
CommonSegments(tools) ==
    IF Cardinality(tools) < 2 THEN 0
    ELSE Max({n \in 0..1 : \A t1, t2 \in tools : SubSeq(t1, 1, n) = SubSeq(t2, 1, n)})

\* extractNoun and normalizeNoun: the last segment, a plural as its singular
Noun(tools, t) ==
    LET noun == Last(SubSeq(t, CommonSegments(tools) + 1, Len(t)))
    IN  IF noun = "items" THEN "item" ELSE noun

Group(prefix, tools) == [prefix |-> prefix, tools |-> tools]

\* alphabeticalChunks
AlphabeticalChunks(tools) ==
    LET n == Cardinality(tools)
        size == Min({MaxChunk, Max({MinChunk, n})})
        sorted == SetToSeq(tools)
    IN  {Group(i, {sorted[j] : j \in {k \in 1..n : (k - 1) \div size = i}}) : i \in {(k - 1) \div size : k \in 1..n}}

\* Mutant: the tools alone of their noun replace the group that has the noun general
DetectReplacingGeneral(tools) ==
    LET nouns == {Noun(tools, t) : t \in tools}
        byNoun == [n \in nouns |-> {t \in tools : Noun(tools, t) = n}]
        big == {n \in nouns : Cardinality(byNoun[n]) >= 2}
        alone == UNION {byNoun[n] : n \in nouns \ big}
        valid == big \cup (IF alone # {} THEN {"general"} ELSE {})
    IN  IF Cardinality(valid) < 2 THEN AlphabeticalChunks(tools)
        ELSE {Group(n, IF n = "general" /\ alone # {} THEN alone ELSE byNoun[n]) : n \in valid}

\* detectPrefixGroups: by noun, the tools that are alone of theirs under "general"; chunks when that
\* makes fewer than two groups
DetectPrefixGroups(tools) ==
    LET nouns == {Noun(tools, t) : t \in tools}
        byNoun == [n \in nouns |-> {t \in tools : Noun(tools, t) = n}]
        big == {n \in nouns : Cardinality(byNoun[n]) >= 2}
        alone == UNION {byNoun[n] : n \in nouns \ big}
        valid == big \cup (IF alone # {} THEN {"general"} ELSE {})
    IN  IF Cardinality(valid) < 2 THEN AlphabeticalChunks(tools)
        ELSE {Group(n, (IF n \in big THEN byNoun[n] ELSE {}) \cup (IF n = "general" THEN alone ELSE {})) : n \in valid}

-------------------------------------------------------------------------------
(* The cache *)

\* hashToolSchema: a missing description, an empty one and the placeholder for it are the same
HashToolSchema(t) == [t EXCEPT !.desc = IF @ \in {"missing", "placeholder"} THEN "empty" ELSE @]

\* mapToolsToCachedSchemas: the hash is of the tool as it is listed, the placeholder is stored
MapTools(tools) ==
    {[tool |-> [t EXCEPT !.desc = IF @ = "missing" THEN "placeholder" ELSE @], hash |-> HashToolSchema(t)] : t \in tools}

\* schemaToCachedTool, cacheSchemaResult: a command hashes what the daemon answers, with the placeholder
CacheAnswers(entry) == {[tool |-> c.tool, hash |-> HashToolSchema(c.tool)] : c \in entry}

\* fingerprintSchemas, in whatever order the tools are listed
Fingerprint(entry) == {c.hash : c \in entry}

Names(entry) == {c.tool.name : c \in entry}

\* detectDrift by name and hash
DetectDrift(cached, live) ==
    [added |-> Names(live) \ Names(cached), removed |-> Names(cached) \ Names(live),
     changed |-> {n \in Names(live) : \E c \in cached, l \in live :
                     c.tool.name = n /\ l.tool.name = n /\ c.hash # l.hash}]

HasDrift(drift) == UNION {drift.added, drift.removed, drift.changed} # {}

-------------------------------------------------------------------------------
(* The front skill *)

\* generateSkillMd: a row for each group; without groups a flat list
SkillRows(names) == {g.tools : g \in DetectPrefixGroups(names)}

\* parseExistingTools: the middle column of every row; no descriptions
ParseExistingTools(rows) == UNION rows

\* computeSkillDiff; without a description in the file no tool is modified
ComputeSkillDiff(existing, new) == [added |-> new \ existing, removed |-> existing \ new, modified |-> {}]

\* computeSchemaHash over the entry
ComputeSchemaHash(entry) == {<<c.tool.name, c.tool.desc>> : c \in entry}

\* handleSkillsList: the hash in the frontmatter against that of the entry as it is now
Stale(schemaHash, entry) == schemaHash # ComputeSchemaHash(entry)

-------------------------------------------------------------------------------
\* The source that GET /api/credentials/resolve reports, which the route works out by itself, is the one
\* that the credential of a call comes from (credential-manager.ts 87-108, routes/credentials.ts 36-61).
ReportedAsResolved ==
    storeCase.kind = "resolve" => ReportedSource(storeCase, RuleUser) = Resolve(storeCase, RuleUser).source

\* What --diff shows of a skill file that was generated when the cache was filled is what the drift
\* check sees, tool by tool, and every tool is in one reference file: no grouping loses or doubles one
\* (grouping.ts 79-166, diff.ts 36-170, drift.ts 21-71). The fingerprint tells what drift does, whoever
\* wrote the entry (hash.ts 33-69), and a skill that is not called stale hides no change but one of a schema,
\* as one without drift is not called stale unless a description went missing that was empty (skill-hash.ts).
SkillShowsDrift ==
    storeCase.kind = "skill" =>
        LET cached == MapTools(storeCase.before)  live == MapTools(storeCase.now)
            drift == DetectDrift(cached, live)
            shown == ComputeSkillDiff(ParseExistingTools(SkillRows(Names(cached))), Names(live))
            stale == Stale(ComputeSchemaHash(cached), live)
        IN
        /\ shown.added = drift.added /\ shown.removed = drift.removed
        /\ \A g, h \in DetectPrefixGroups(Names(cached)) : g # h => g.prefix # h.prefix /\ g.tools \cap h.tools = {}
        /\ Fingerprint(CacheAnswers(cached)) = Fingerprint(live) <=> ~HasDrift(drift)
        /\ ~stale => UNION {drift.added, drift.removed} = {}
              /\ \A t \in storeCase.before, u \in storeCase.now :
                    t.name = u.name /\ t.name \in drift.changed => t.schema # u.schema
        /\ stale /\ ~HasDrift(drift) =>
              \E t \in storeCase.before, u \in storeCase.now :
                  t.name = u.name /\ {t.desc, u.desc} = {"missing", "empty"}
==============================================================================
