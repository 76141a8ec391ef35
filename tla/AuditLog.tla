------------------------------ MODULE AuditLog -------------------------------
(***************************************************************************)
(* The audit log: audit.ndjson with its single backup, and the processes,  *)
(* a daemon and CLIs without one, that append to it and rotate it by size  *)
(* without a lock (logger/audit.ts).                                       *)
(*                                                                         *)
(* A process has a queue of which one task runs at a time, from await to   *)
(* await.  A file is named by its generation, since an open file is still  *)
(* written to after it was renamed; its size is its number of entries.     *)
(* What is redacted from an entry is left out.                             *)
(***************************************************************************)
EXTENDS Naturals, FiniteSets

CONSTANTS Loggers,       \* the processes
          MaxAuditSize,  \* MCP2CLI_AUDIT_MAX_SIZE, in entries
          MaxAudits,     \* bound: entries appended
          MaxGenerations \* bound: files that are created

ASSUME AuditBounds == MaxAuditSize \in Nat /\ MaxGenerations \in Nat

VARIABLES auditLog,    \* the generation of audit.ndjson, 0 for no file
          auditBackup, \* the generation of audit.ndjson.1
          generation,  \* the entries of each file
          audited,     \* the number of entries appended
          audit,       \* the task of each process: pc, the file it has open
          overlapped   \* history: a rotation fell between the steps of another process

auditVars == <<auditLog, auditBackup, generation, audited, audit, overlapped>>

Generations == 1..MaxGenerations
NoTask == [pc |-> "idle", file |-> 0]
Created == {g \in Generations : generation[g] # {}} \cup {auditLog, auditBackup} \cup {audit[p].file : p \in Loggers}

AuditInit ==
    /\ auditLog = 0 /\ auditBackup = 0
    /\ generation = [g \in Generations |-> {}]
    /\ audited = 0
    /\ audit = [p \in Loggers |-> NoTask]
    /\ overlapped = FALSE

GoOn(p, pc) == audit' = [audit EXCEPT ![p].pc = pc]

-------------------------------------------------------------------------------
\* writeAuditEntry: the task runs when its turn comes, and looks at the size
StatLog(p) ==
    /\ audit[p].pc = "idle"
    /\ GoOn(p, IF auditLog # 0 /\ Cardinality(generation[auditLog]) >= MaxAuditSize THEN "rotating" ELSE "opening")
    /\ UNCHANGED <<auditLog, auditBackup, generation, audited, overlapped>>

UnlinkBackup(p) ==
    /\ audit[p].pc = "rotating"
    /\ auditBackup' = 0
    /\ GoOn(p, "renaming")
    /\ UNCHANGED <<auditLog, generation, audited, overlapped>>

\* Mutant: the old backup is unlinked after the rename
RenameThenUnlink(p) ==
    /\ audit[p].pc = "renaming"
    /\ auditBackup' = 0
    /\ auditLog' = 0
    /\ GoOn(p, "opening")
    /\ UNCHANGED <<generation, audited, overlapped>>

\* The rename fails when another process has rotated
RenameLog(p) ==
    /\ audit[p].pc = "renaming"
    /\ auditBackup' = IF auditLog # 0 THEN auditLog ELSE auditBackup
    /\ auditLog' = 0
    /\ overlapped' = (overlapped \/ \E q \in Loggers \ {p} : audit[q].pc \in {"rotating", "renaming", "appending"})
    /\ GoOn(p, "opening")
    /\ UNCHANGED <<generation, audited>>

OpenLog(p) ==
    /\ audit[p].pc = "opening"
    /\ \E g \in Generations :
          /\ IF auditLog # 0 THEN g = auditLog
             ELSE g \notin Created /\ \A h \in Generations : h < g => h \in Created
          /\ auditLog' = g
          /\ audit' = [audit EXCEPT ![p] = [pc |-> "appending", file |-> g]]
    /\ UNCHANGED <<auditBackup, generation, audited, overlapped>>

AppendEntry(p) ==
    /\ audit[p].pc = "appending"
    /\ audited < MaxAudits
    /\ audited' = audited + 1
    /\ generation' = [generation EXCEPT ![audit[p].file] = @ \cup {audited + 1}]
    /\ audit' = [audit EXCEPT ![p] = NoTask]
    /\ UNCHANGED <<auditLog, auditBackup, overlapped>>

\* A step fails, which costs the entry, or the process exits, which costs its queue
DropTask(p) ==
    /\ audit[p].pc # "idle"
    /\ audit' = [audit EXCEPT ![p] = NoTask]
    /\ UNCHANGED <<auditLog, auditBackup, generation, audited, overlapped>>

AuditNext ==
    \E p \in Loggers :
        StatLog(p) \/ UnlinkBackup(p) \/ RenameLog(p) \/ OpenLog(p) \/ AppendEntry(p) \/ DropTask(p)

AuditSpec == AuditInit /\ [][AuditNext]_auditVars

-------------------------------------------------------------------------------
KeptEntries(g) == IF g = 0 THEN {} ELSE generation[g]

\* Rotation keeps a generation: the newest entries, as many as make the log full, are in the log or its
\* backup, also when a process dies in the middle of a rotation, and as long as no rotation falls
\* between the steps of another process (audit.ts 8-10, 184-200).
KeepsNewest ==
    ~overlapped => {n \in 1..audited : n + MaxAuditSize > audited} \subseteq KeptEntries(auditLog) \cup KeptEntries(auditBackup)
==============================================================================
