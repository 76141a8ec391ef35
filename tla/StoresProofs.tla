------------------------------ MODULE StoresProofs ------------------------------
(***************************************************************************)
(* The credentials and the audit log of a daemon: memory and file agree    *)
(* when no transaction is under way, and a changed credential leaves no    *)
(* connection behind, for any number of requests; the pool key and the     *)
(* reported source are those of the credential in use, for every           *)
(* configuration; and rotation keeps the newest entries, for any size of   *)
(* the log and any number of processes.                                    *)
(***************************************************************************)
EXTENDS CredentialStore, StoreRules, AuditLog, FiniteSetTheorems, TLAPS

(***************************************************************************)
(* Credentials.                                                            *)
(*                                                                         *)
(* An operation that has changed the configuration, and a reload until it  *)
(* has closed what it concerns, is at the head of the queue: there is one. *)
(***************************************************************************)

UnderWay(o) == credOp[o].pc \in {"writing", "reading"}
InTurn(o) == UnderWay(o) \/ (credOp[o].pc = "closing" /\ credOp[o].change.kind = "reload")

QueueInv ==
    /\ DOMAIN credOp = CredOps
    /\ credQueue \in Seq(CredOps)
    /\ \A o \in CredOps :
          /\ InTurn(o) => HoldsQueue(o)
          /\ credOp[o].pc = "writing" => credOp[o].change.kind # "reload"

(* What a failed write goes back to, and what a reload has read, is the    *)
(* file.                                                                   *)
RollbackFollows ==
    ~credEdited =>
        /\ \A o \in CredOps : UnderWay(o) => credOp[o].snapshot = credFile
        /\ (\A o \in CredOps : ~UnderWay(o)) => credConfig = credFile

CredInv == QueueInv /\ RollbackFollows

LEMMA CredFields ==
    ASSUME NEW pc, NEW change, NEW snapshot, NEW had
    PROVE  /\ CredOp(pc, change, snapshot, had).pc = pc
           /\ CredOp(pc, change, snapshot, had).change = change
           /\ CredOp(pc, change, snapshot, had).snapshot = snapshot
  BY DEF CredOp

LEMMA ReloadKind == Reload.kind = "reload" /\ EndedCredOp.pc = "done"
  BY DEF Reload, Change, EndedCredOp, CredOp

LEMMA AppendKeepsHead ==
    ASSUME credQueue \in Seq(CredOps), NEW o \in CredOps, credQueue' = Append(credQueue, o)
    PROVE  credQueue' \in Seq(CredOps) /\ \A q \in CredOps : HoldsQueue(q) => HoldsQueue(q)'
<1>1. credQueue' \in Seq(CredOps)
  OBVIOUS
<1>2. credQueue # <<>> => credQueue' # <<>> /\ Head(credQueue') = Head(credQueue)
  OBVIOUS
<1> QED  BY <1>1, <1>2 DEF HoldsQueue

LEMMA EnqueueStep ==
    ASSUME CredInv, NEW o \in CredOps, NEW change, Enqueue(o, change),
           UNCHANGED <<credConfig, credFile, credEdited>>
    PROVE  CredInv'
<1> DEFINE r == CredOp("queued", change, None, FALSE)
<1>1. r.pc = "queued"
  BY DEF CredOp
<1>2. credOp' = [credOp EXCEPT ![o] = r] /\ credOp[o].pc \in {"idle", "done"}
  BY DEF Enqueue
<1> HIDE DEF r
<1>3. DOMAIN credOp' = CredOps /\ credOp'[o].pc = "queued" /\ \A q \in CredOps : q # o => credOp'[q] = credOp[q]
  BY <1>1, <1>2 DEF CredInv, QueueInv
<1>4. credQueue' \in Seq(CredOps) /\ \A q \in CredOps : HoldsQueue(q) => HoldsQueue(q)'
  BY AppendKeepsHead DEF Enqueue, CredInv, QueueInv
<1>5. QueueInv'
  BY <1>3, <1>4 DEF CredInv, QueueInv, InTurn, UnderWay
<1>6. RollbackFollows'
  BY <1>2, <1>3 DEF CredInv, RollbackFollows, UnderWay
<1> QED  BY <1>5, <1>6 DEF CredInv

(* An operation whose turn it is leaves the queue, or stays at its head.   *)
LEMMA TurnStep ==
    ASSUME QueueInv, NEW o \in CredOps, HoldsQueue(o), NEW r, credOp' = [credOp EXCEPT ![o] = r],
           \/ /\ credQueue' = Tail(credQueue)
              /\ r.pc \notin {"writing", "reading"} /\ ~(r.pc = "closing" /\ r.change.kind = "reload")
           \/ credQueue' = credQueue /\ (r.pc = "writing" => r.change.kind # "reload")
    PROVE  /\ QueueInv'
           /\ credOp'[o] = r
           /\ \A q \in CredOps : q # o => ~UnderWay(q) /\ ~UnderWay(q)'
<1>1. DOMAIN credOp' = CredOps /\ credOp'[o] = r /\ \A q \in CredOps : q # o => credOp'[q] = credOp[q]
  BY DEF QueueInv
<1>2. \A q \in CredOps : q # o => ~InTurn(q)
  BY DEF QueueInv, HoldsQueue
<1>3. credQueue' \in Seq(CredOps)
  BY DEF QueueInv, HoldsQueue
<1>4. \A q \in CredOps : q # o => ~InTurn(q)'
  BY <1>1, <1>2 DEF InTurn, UnderWay
<1>5. (InTurn(o) => HoldsQueue(o))' /\ (credOp'[o].pc = "writing" => credOp'[o].change.kind # "reload")
  BY <1>1 DEF InTurn, UnderWay, HoldsQueue
<1>6. QueueInv'
  BY <1>1, <1>3, <1>4, <1>5 DEF QueueInv, InTurn, UnderWay
<1> QED  BY <1>1, <1>2, <1>4, <1>6 DEF InTurn

LEMMA OpStep ==
    ASSUME CredInv, NEW o \in CredOps,
           \/ BeginTransaction(o) \/ CommitTransaction(o) \/ FailTransaction(o)
           \/ CloseChanged(o) \/ CloseChangedRejected(o)
           \/ ReadCredentials(o) \/ ReloadCredentials(o)
    PROVE  CredInv'
<1> USE DEF CredInv
<1>1. CASE BeginTransaction(o)
  <2> DEFINE ch == credOp[o].change
             had == ch.who \in Groups /\ credConfig.creds[ch.who] # 0
             r == CredOp("writing", ch, credConfig, had)
  <2>1. HoldsQueue(o) /\ credOp[o].pc = "queued" /\ ch.kind # "reload" /\ credFile' = credFile /\ credEdited' = credEdited
    BY <1>1 DEF BeginTransaction
  <2>2. \A q \in CredOps : ~UnderWay(q)
    BY <2>1 DEF QueueInv, InTurn, UnderWay, HoldsQueue
  <2>3. CASE credOp' = [credOp EXCEPT ![o] = EndedCredOp] /\ credQueue' = Tail(credQueue) /\ credConfig' = credConfig
    <3>1. QueueInv' /\ \A q \in CredOps : ~UnderWay(q)'
      BY <2>1, <2>3, ReloadKind, TurnStep DEF UnderWay
    <3> QED  BY <2>1, <2>2, <2>3, <3>1 DEF RollbackFollows, UnderWay
  <2>4. CASE credOp' = [credOp EXCEPT ![o] = r] /\ credQueue' = credQueue
    <3>1. r.pc = "writing" /\ r.change = ch /\ r.snapshot = credConfig
      BY CredFields
    <3> HIDE DEF r
    <3>2. QueueInv' /\ credOp'[o] = r /\ \A q \in CredOps : q # o => ~UnderWay(q)'
      BY <2>1, <2>4, <3>1, TurnStep DEF UnderWay
    <3>3. RollbackFollows'
      BY <2>1, <2>2, <3>1, <3>2 DEF RollbackFollows, UnderWay
    <3> QED  BY <3>2, <3>3
  <2> QED  BY <1>1, <2>3, <2>4 DEF BeginTransaction
<1>2. CASE CommitTransaction(o)
  <2> DEFINE r == CredOp("closing", credOp[o].change, None, credOp[o].had)
  <2>1. HoldsQueue(o) /\ credOp[o].change.kind # "reload"
    BY <1>2 DEF CommitTransaction, QueueInv, InTurn, UnderWay
  <2>2. r.pc = "closing" /\ r.change.kind # "reload"
    BY <2>1, CredFields
  <2>3. credOp' = [credOp EXCEPT ![o] = r] /\ credQueue' = Tail(credQueue) /\ credFile' = credConfig /\ credConfig' = credConfig
    BY <1>2 DEF CommitTransaction
  <2> HIDE DEF r
  <2>4. QueueInv' /\ credOp'[o] = r /\ \A q \in CredOps : q # o => ~UnderWay(q)'
    BY <2>1, <2>2, <2>3, TurnStep
  <2>5. ~UnderWay(o)'
    BY <2>2, <2>4 DEF UnderWay
  <2> QED  BY <2>3, <2>4, <2>5 DEF RollbackFollows
<1>3. CASE FailTransaction(o)
  <2>1. HoldsQueue(o) /\ credOp[o].pc = "writing"
    BY <1>3 DEF FailTransaction, QueueInv, InTurn, UnderWay
  <2>2. QueueInv' /\ \A q \in CredOps : ~UnderWay(q)'
    BY <1>3, <2>1, ReloadKind, TurnStep DEF FailTransaction, UnderWay
  <2> QED  BY <1>3, <2>1, <2>2 DEF FailTransaction, RollbackFollows, UnderWay
<1>4. CASE CloseChanged(o) \/ CloseChangedRejected(o)
  <2>1. /\ credOp[o].pc = "closing" /\ credOp' = [credOp EXCEPT ![o] = EndedCredOp]
        /\ UNCHANGED <<credConfig, credFile, credEdited>>
    BY <1>4 DEF CloseChanged, CloseChangedRejected, DropConnections
  <2>2. \A q \in CredOps : credOp'[q] = IF q = o THEN EndedCredOp ELSE credOp[q]
    BY <2>1 DEF QueueInv
  <2>3. QueueInv'
    <3>1. CASE credQueue' = credQueue
      BY <2>1, <2>2, <3>1, ReloadKind DEF QueueInv, InTurn, UnderWay, HoldsQueue
    <3>2. CASE credOp[o].change.kind = "reload" /\ credQueue' = Tail(credQueue)
      <4>1. HoldsQueue(o)
        BY <2>1, <3>2 DEF QueueInv, InTurn
      <4> QED  BY <2>1, <3>2, <4>1, ReloadKind, TurnStep DEF UnderWay
    <3> QED  BY <1>4, <3>1, <3>2 DEF CloseChanged, CloseChangedRejected
  <2>4. RollbackFollows'
    BY <2>1, <2>2, ReloadKind DEF RollbackFollows, UnderWay
  <2> QED  BY <2>3, <2>4
<1>5. CASE ReloadCredentials(o)
  <2> DEFINE r == CredOp("closing", Reload, None, FALSE)
  <2>1. r.pc = "closing"
    BY DEF CredOp
  <2>2. /\ HoldsQueue(o) /\ UnderWay(o) /\ credOp' = [credOp EXCEPT ![o] = r] /\ credQueue' = credQueue
        /\ credConfig' = credOp[o].snapshot /\ UNCHANGED <<credFile, credEdited>>
    BY <1>5 DEF ReloadCredentials, QueueInv, InTurn, UnderWay
  <2> HIDE DEF r
  <2>3. QueueInv' /\ \A q \in CredOps : ~UnderWay(q)'
    BY <2>1, <2>2, TurnStep DEF UnderWay
  <2> QED  BY <2>2, <2>3 DEF RollbackFollows
<1>6. CASE ReadCredentials(o)
  <2> DEFINE r == CredOp("reading", Reload, credFile, FALSE)
  <2>1. HoldsQueue(o) /\ ~UnderWay(o) /\ UNCHANGED <<credConfig, credFile>>
    BY <1>6 DEF ReadCredentials, UnderWay
  <2>2. CASE credOp' = [credOp EXCEPT ![o] = EndedCredOp] /\ credQueue' = Tail(credQueue) /\ credEdited' = credEdited
    <3>1. QueueInv' /\ \A q \in CredOps : ~UnderWay(q) /\ ~UnderWay(q)'
      BY <2>1, <2>2, ReloadKind, TurnStep DEF UnderWay
    <3> QED  BY <2>1, <2>2, <3>1 DEF RollbackFollows
  <2>3. CASE credOp' = [credOp EXCEPT ![o] = r] /\ credQueue' = credQueue /\ credEdited' = FALSE
    <3>1. r.pc = "reading" /\ r.snapshot = credFile
      BY DEF CredOp
    <3> HIDE DEF r
    <3>2. QueueInv' /\ credOp'[o] = r /\ \A q \in CredOps : q # o => ~UnderWay(q)'
      BY <2>1, <2>3, <3>1, TurnStep
    <3>3. RollbackFollows'
      BY <2>1, <3>1, <3>2 DEF RollbackFollows, UnderWay
    <3> QED  BY <3>2, <3>3
  <2> QED  BY <1>6, <2>2, <2>3 DEF ReadCredentials
<1> QED  BY <1>1, <1>2, <1>3, <1>4, <1>5, <1>6

LEMMA CredNextInv ==
    ASSUME CredInv, [CredNext]_credVars
    PROVE  CredInv'
<1>1. ASSUME NEW o \in CredRequests, NEW change, AskChange(o, change)
      PROVE  CredInv'
  BY <1>1, EnqueueStep DEF AskChange, CredOps
<1>2. CASE CredTimerFires
  BY <1>2, EnqueueStep DEF CredTimerFires, CredOps
<1>3. ASSUME NEW file, WriteCredentials(file)
      PROVE  CredInv'
  BY <1>3 DEF WriteCredentials, CredInv, QueueInv, InTurn, UnderWay, HoldsQueue, RollbackFollows
<1>4. CASE UNCHANGED <<credConfig, credFile, credQueue, credOp, credEdited>>
  BY <1>4 DEF CredInv, QueueInv, InTurn, UnderWay, HoldsQueue, RollbackFollows
<1>5. ASSUME NEW u, CredentialCall(u)
      PROVE  UNCHANGED <<credConfig, credFile, credQueue, credOp, credEdited>>
  BY <1>5 DEF CredentialCall, BeginConnecting
<1>6. ASSUME Preconnect \/ AskStatus
      PROVE  UNCHANGED <<credConfig, credFile, credQueue, credOp, credEdited>>
  BY <1>6 DEF Preconnect, AskStatus, BeginConnecting
<1>7. ASSUME NEW p, NEW ok, EndConnecting(p, ok)
      PROVE  UNCHANGED <<credConfig, credFile, credQueue, credOp, credEdited>>
  BY <1>7 DEF EndConnecting
<1>8. ASSUME UNCHANGED credVars
      PROVE  UNCHANGED <<credConfig, credFile, credQueue, credOp, credEdited>>
  BY <1>8 DEF credVars
<1> QED  BY <1>1, <1>2, <1>3, <1>4, <1>5, <1>6, <1>7, <1>8, OpStep
         DEF CredNext, EditCredentials, BreakCredentials

LEMMA CredInitInv ==
    ASSUME CredInit
    PROVE  CredInv
<1>1. credConfig = credFile /\ credQueue = <<>> /\ DOMAIN credOp = CredOps
  BY DEF CredInit
<1>2. \A o \in CredOps : credOp[o].pc \in {"idle", "done"}
  BY DEF CredInit, EndedCredOp, CredOp
<1>3. credQueue \in Seq(CredOps)
  BY <1>1
<1> QED  BY <1>1, <1>2, <1>3 DEF CredInv, QueueInv, InTurn, UnderWay, RollbackFollows

(* While no transaction or reload is in the queue, memory and file agree   *)
(* unless somebody else changed the file: a change whose write failed      *)
(* leaves no trace (credential-manager.ts 418-428).                        *)
THEOREM CredentialsAreInFile == CredSpec => []CredentialsInFile
<1>1. CredInv => CredentialsInFile
  BY DEF CredInv, QueueInv, InTurn, UnderWay, HoldsQueue, RollbackFollows, CredentialsInFile
<1> QED  BY <1>1, CredInitInv, CredNextInv, PTL DEF CredSpec

(***************************************************************************)
(* Eviction.                                                               *)
(*                                                                         *)
(* What a key stands for is settled when no transaction writes; else it is *)
(* what the live configuration says or what the snapshot says.  A          *)
(* connection that is its key's own has that credential, or an operation   *)
(* that has still to close its connections will close it whatever happens  *)
(* in the meantime.  Neither depends on the groups, whose order Resolve    *)
(* depends on.                                                             *)
(***************************************************************************)

Changes == CredentialChanges \cup GroupChanges \cup {Reload}

(* A configuration as far as the eviction depends on it.                   *)
HasCredentials(c) == DOMAIN c = {"creds", "groups", "default"} /\ DOMAIN c.creds = Identities

HadCredential(c, ch) == ch.who \in Groups /\ c.creds[ch.who] # 0

(* What a change closes whatever has happened since it was made.           *)
ClosesForSure(op) == Closes(op.change, op.change.kind = "removeGroup" /\ op.had)
ToBeClosed(k) == \E o \in CredOps : credOp[o].pc = "closing" /\ k \in ClosesForSure(credOp[o])

Owns(k) == credPool[k] # None /\ credPool[k].how = "own" /\ ~ToBeClosed(k)

(* Every such connection has the credential of one of the configurations.  *)
FreshIn(configs) ==
    \A k \in PoolKeys : Owns(k) => \E c \in configs : credPool[k].cred = KeyCredential(c, k)

ChangesAreTyped == \A o \in CredOps : credOp[o].change \in Changes

ConfigsAreTyped ==
    /\ HasCredentials(credConfig)
    /\ credFile # Unreadable => HasCredentials(credFile)
    /\ \A o \in CredOps :
          LET op == credOp[o] IN
          /\ UnderWay(o) => HasCredentials(op.snapshot)
          /\ op.pc = "writing" =>
                /\ credConfig = Mutated(op.snapshot, op.change)
                /\ op.had = HadCredential(op.snapshot, op.change)

PoolIsFresh ==
    /\ DOMAIN credPool = PoolKeys
    /\ \A o \in CredOps : credOp[o].pc = "writing" => FreshIn({credOp[o].snapshot, credConfig})
    /\ ~InTransaction => FreshIn({credConfig})

EvictionInv == ChangesAreTyped /\ ConfigsAreTyped /\ PoolIsFresh

(* Changes.                                                                *)
CredKinds == {"setCredential", "removeCredential"}
DefaultKinds == {"setDefault", "removeDefault"}
MemberKinds == {"addGroup", "addGroupMembers", "removeGroupMembers"}

LEMMA ChangeKinds ==
    ASSUME NEW ch \in Changes
    PROVE  \/ ch.kind \in CredKinds /\ ch.who \in Identities
           \/ ch.kind \in DefaultKinds
           \/ ch.kind \in MemberKinds /\ ch.who \in Groups
           \/ ch.kind = "removeGroup" /\ ch.who \in Groups
           \/ ch.kind = "reload"
  BY ReloadKind DEF Changes, CredentialChanges, GroupChanges, CredKinds, DefaultKinds, MemberKinds

(* A mutator keeps the shape of the configuration, and leaves alone all    *)
(* but what it is for.                                                     *)
LEMMA MutatedCredentials ==
    ASSUME NEW c, HasCredentials(c), NEW ch \in Changes, ch.kind # "reload"
    PROVE  LET m == Mutated(c, ch) IN
           /\ HasCredentials(m)
           /\ ch.kind \in CredKinds =>
                 m.default = c.default /\ \A i \in Identities \ {ch.who} : m.creds[i] = c.creds[i]
           /\ ch.kind \in DefaultKinds => m.creds = c.creds
           /\ ch.kind \in MemberKinds => m.creds = c.creds /\ m.default = c.default
           /\ ch.kind = "removeGroup" =>
                 /\ m.default = c.default
                 /\ \A i \in Identities : m.creds[i] = IF i = ch.who THEN 0 ELSE c.creds[i]
<1> DEFINE m == Mutated(c, ch)
<1>1. CASE ch.kind \in CredKinds
  <2>1. m = [c EXCEPT !.creds[ch.who] = ch.cred]
    BY <1>1 DEF Mutated, CredKinds
  <2> QED  BY <1>1, <2>1 DEF HasCredentials, CredKinds, DefaultKinds, MemberKinds
<1>2. CASE ch.kind \in DefaultKinds
  <2>1. m = [c EXCEPT !.default = ch.cred]
    BY <1>2 DEF Mutated, DefaultKinds
  <2> QED  BY <1>2, <2>1 DEF HasCredentials, CredKinds, DefaultKinds, MemberKinds
<1>3. CASE ch.kind \in MemberKinds
  <2>1. PICK groups : m = [c EXCEPT !.groups = groups]
    BY <1>3 DEF Mutated, MemberKinds, WithMembers
  <2> HIDE DEF m
  <2>2. m.creds = c.creds /\ m.default = c.default /\ DOMAIN m = DOMAIN c
    BY <2>1 DEF HasCredentials
  <2> QED  BY <1>3, <2>2 DEF HasCredentials, CredKinds, DefaultKinds, MemberKinds, m
<1>4. CASE ch.kind = "removeGroup"
  <2>1. PICK groups : m = [c EXCEPT !.groups = groups, !.creds[ch.who] = 0]
    BY <1>4 DEF Mutated
  <2> HIDE DEF m
  <2>2. /\ m.default = c.default /\ DOMAIN m = DOMAIN c /\ DOMAIN m.creds = DOMAIN c.creds
        /\ \A i \in Identities : m.creds[i] = IF i = ch.who THEN 0 ELSE c.creds[i]
    BY <2>1 DEF HasCredentials
  <2> QED  BY <1>4, <2>2 DEF HasCredentials, CredKinds, DefaultKinds, MemberKinds, m
<1> QED  BY <1>1, <1>2, <1>3, <1>4, ChangeKinds

LEMMA KeyParts ==
    ASSUME NEW k \in PoolKeys
    PROVE  \/ k[1] \in {"user", "group"} /\ k[2] \in Identities /\ k # BareKey
           \/ k[1] = "caller"
           \/ k[1] = "bare"
  BY DEF PoolKeys, BareKey, Identities

(* A change closes, for sure, every key that stands for another credential *)
(* after it.                                                               *)
LEMMA ClosesWhatChanges ==
    ASSUME NEW c, HasCredentials(c), NEW ch \in Changes, ch.kind # "reload", NEW k \in PoolKeys,
           KeyCredential(Mutated(c, ch), k) # KeyCredential(c, k)
    PROVE  k \in Closes(ch, ch.kind = "removeGroup" /\ HadCredential(c, ch))
<1> DEFINE m == Mutated(c, ch)
<1> HIDE DEF m
<1>1. \/ k[1] \in {"user", "group"} /\ k[2] \in Identities /\ k # BareKey /\ m.creds[k[2]] # c.creds[k[2]]
      \/ k[1] = "bare" /\ m.default # c.default
  BY KeyParts DEF KeyCredential, m
<1>2. CASE ch.kind \in CredKinds
  BY <1>1, <1>2, MutatedCredentials DEF Closes, CredKinds, m
<1>3. CASE ch.kind \in DefaultKinds
  BY <1>3 DEF Closes, DefaultKinds
<1>4. CASE ch.kind \in MemberKinds
  BY <1>1, <1>4, MutatedCredentials DEF m
<1>5. CASE ch.kind = "removeGroup"
  <2>1. HadCredential(c, ch)
    BY <1>1, <1>5, MutatedCredentials, ChangeKinds DEF HadCredential, CredKinds, DefaultKinds, MemberKinds, m
  <2> QED  BY <1>5, <2>1 DEF Closes
<1> QED  BY <1>2, <1>3, <1>4, <1>5, ChangeKinds

LEMMA CredRecord ==
    ASSUME NEW pc, NEW change, NEW snapshot, NEW had
    PROVE  /\ CredOp(pc, change, snapshot, had).pc = pc
           /\ CredOp(pc, change, snapshot, had).change = change
           /\ CredOp(pc, change, snapshot, had).snapshot = snapshot
           /\ CredOp(pc, change, snapshot, had).had = had
           /\ EndedCredOp.pc = "done" /\ EndedCredOp.change \in Changes
  BY DEF CredOp, EndedCredOp, Changes

(* A step that leaves the configuration and the transactions, and makes no *)
(* connection a key's own but with the credential of that key.             *)
LEMMA FreshStep ==
    ASSUME EvictionInv, UNCHANGED credConfig, DOMAIN credPool' = PoolKeys,
           \A q \in CredOps : credOp'[q].pc = "writing" =>
               credOp[q].pc = "writing" /\ credOp'[q].snapshot = credOp[q].snapshot,
           InTransaction => InTransaction',
           \A k \in PoolKeys : Owns(k)' =>
               \/ Owns(k) /\ credPool'[k].cred = credPool[k].cred
               \/ credPool'[k].cred = KeyCredential(credConfig, k)
    PROVE  PoolIsFresh'
<1>1. ASSUME NEW q \in CredOps, credOp'[q].pc = "writing"
      PROVE  FreshIn({credOp[q].snapshot, credConfig})'
  <2>1. FreshIn({credOp[q].snapshot, credConfig}) /\ credOp'[q].snapshot = credOp[q].snapshot
    BY <1>1 DEF EvictionInv, PoolIsFresh
  <2> QED  BY <2>1 DEF FreshIn
<1>2. ASSUME ~InTransaction'
      PROVE  FreshIn({credConfig})'
  <2>1. FreshIn({credConfig})
    BY <1>2 DEF EvictionInv, PoolIsFresh
  <2> QED  BY <2>1 DEF FreshIn
<1> QED  BY <1>1, <1>2 DEF PoolIsFresh

(* A step of o that neither makes nor ends a transaction, nor a closing.   *)
LEMMA QuietStep ==
    ASSUME CredInv, EvictionInv, NEW o \in CredOps, NEW r,
           credOp[o].pc \notin {"writing", "closing"}, r.pc \notin {"writing", "closing"}, r.change \in Changes,
           r.pc = "reading" => HasCredentials(r.snapshot),
           credOp' = [credOp EXCEPT ![o] = r],
           UNCHANGED <<credConfig, credFile, credPool>>
    PROVE  EvictionInv'
<1>1. \A q \in CredOps : credOp'[q] = IF q = o THEN r ELSE credOp[q]
  BY DEF CredInv, QueueInv
<1>2. \A k : ToBeClosed(k)' <=> ToBeClosed(k)
  BY <1>1 DEF ToBeClosed, ClosesForSure
<1>3. \A k : Owns(k)' => Owns(k)
  BY <1>2 DEF Owns
<1>4. ChangesAreTyped' /\ ConfigsAreTyped'
  BY <1>1 DEF EvictionInv, ChangesAreTyped, ConfigsAreTyped, UnderWay
<1>5. InTransaction => InTransaction'
  BY <1>1 DEF InTransaction
<1>6. DOMAIN credPool' = PoolKeys
  BY DEF EvictionInv, PoolIsFresh
<1>7. PoolIsFresh'
  BY <1>1, <1>3, <1>5, <1>6, FreshStep
<1> QED  BY <1>4, <1>7 DEF EvictionInv

(* A step that leaves the operations, the pool and the configuration.      *)
LEMMA CallStep ==
    ASSUME EvictionInv, UNCHANGED <<credConfig, credOp, credPool>>,
           credFile' # Unreadable => HasCredentials(credFile')
    PROVE  EvictionInv'
<1>1. \A k : Owns(k)' => Owns(k)
  BY DEF Owns, ToBeClosed
<1>2. DOMAIN credPool' = PoolKeys
  BY DEF EvictionInv, PoolIsFresh
<1>3. InTransaction => InTransaction'
  BY DEF InTransaction
<1>4. PoolIsFresh'
  BY <1>1, <1>2, <1>3, FreshStep
<1> QED  BY <1>4 DEF EvictionInv, ChangesAreTyped, ConfigsAreTyped, UnderWay

LEMMA BeginEvictionStep ==
    ASSUME CredInv, EvictionInv, NEW o \in CredOps, BeginTransaction(o)
    PROVE  EvictionInv'
<1> DEFINE ch == credOp[o].change
           r == CredOp("writing", ch, credConfig, HadCredential(credConfig, ch))
<1>1. HoldsQueue(o) /\ credOp[o].pc = "queued" /\ ch.kind # "reload" /\ UNCHANGED <<credFile, credPool>>
  BY DEF BeginTransaction
<1>2. CASE credOp' = [credOp EXCEPT ![o] = EndedCredOp] /\ credConfig' = credConfig
  BY <1>1, <1>2, CredRecord, QuietStep
<1>3. CASE credOp' = [credOp EXCEPT ![o] = r] /\ credConfig' = Mutated(credConfig, ch)
  <2>1. r.pc = "writing" /\ r.change = ch /\ r.snapshot = credConfig /\ r.had = HadCredential(credConfig, ch)
    BY CredRecord
  <2> HIDE DEF r
  <2>2. \A q \in CredOps : credOp'[q] = IF q = o THEN r ELSE credOp[q]
    BY <1>3 DEF CredInv, QueueInv
  <2>3. \A q \in CredOps : ~UnderWay(q) /\ credOp[q].pc # "writing"
    BY <1>1 DEF CredInv, QueueInv, InTurn, UnderWay, HoldsQueue
  <2>4. ChangesAreTyped'
    BY <2>1, <2>2 DEF EvictionInv, ChangesAreTyped
  <2>5. HasCredentials(Mutated(credConfig, ch))
    BY <1>1, MutatedCredentials DEF EvictionInv, ChangesAreTyped, ConfigsAreTyped
  <2>6. ConfigsAreTyped'
    BY <1>1, <1>3, <2>1, <2>2, <2>3, <2>5 DEF EvictionInv, ConfigsAreTyped, UnderWay
  <2>7. \A k : ToBeClosed(k)' <=> ToBeClosed(k)
    BY <1>1, <2>1, <2>2 DEF ToBeClosed, ClosesForSure
  <2>8. FreshIn({credConfig})
    BY <2>3 DEF EvictionInv, PoolIsFresh, InTransaction
  <2>9. \A k : Owns(k)' => Owns(k) /\ credPool'[k] = credPool[k]
    BY <1>1, <2>7 DEF Owns
  <2>10. InTransaction'
    BY <2>1, <2>2 DEF InTransaction
  <2>11. ASSUME NEW q \in CredOps, credOp'[q].pc = "writing"
         PROVE  FreshIn({credOp[q].snapshot, credConfig})'
    <3>1. credOp'[q].snapshot = credConfig
      BY <2>1, <2>2, <2>3, <2>11
    <3> QED  BY <2>8, <2>9, <3>1 DEF FreshIn
  <2>12. DOMAIN credPool' = PoolKeys
    BY <1>1 DEF EvictionInv, PoolIsFresh
  <2>13. PoolIsFresh'
    BY <2>10, <2>11, <2>12 DEF PoolIsFresh
  <2> QED  BY <2>4, <2>6, <2>13 DEF EvictionInv
<1> QED  BY <1>2, <1>3 DEF BeginTransaction, HadCredential

(* The writing operation is the only one.                                  *)
LEMMA OneWriter ==
    ASSUME CredInv, NEW o \in CredOps, credOp[o].pc = "writing"
    PROVE  \A q \in CredOps : q # o => ~UnderWay(q) /\ credOp[q].pc # "writing"
  BY DEF CredInv, QueueInv, InTurn, UnderWay, HoldsQueue

LEMMA CommitEvictionStep ==
    ASSUME CredInv, EvictionInv, NEW o \in CredOps, CommitTransaction(o)
    PROVE  EvictionInv'
<1> DEFINE op == credOp[o]
           r == CredOp("closing", op.change, None, op.had)
<1>1. /\ op.pc = "writing" /\ credOp' = [credOp EXCEPT ![o] = r] /\ credFile' = credConfig
      /\ UNCHANGED <<credConfig, credPool>>
  BY DEF CommitTransaction
<1>2. r.pc = "closing" /\ r.change = op.change /\ r.had = op.had
  BY CredRecord
<1> HIDE DEF r
<1>3. \A q \in CredOps : credOp'[q] = IF q = o THEN r ELSE credOp[q]
  BY <1>1 DEF CredInv, QueueInv
<1>4. \A q \in CredOps : credOp'[q].pc \notin {"writing", "reading"}
  BY <1>1, <1>2, <1>3, OneWriter DEF UnderWay
<1>5. ChangesAreTyped' /\ ConfigsAreTyped'
  BY <1>1, <1>2, <1>3, <1>4 DEF EvictionInv, ChangesAreTyped, ConfigsAreTyped, UnderWay
<1>6. \A k : ToBeClosed(k)' <=> ToBeClosed(k) \/ k \in ClosesForSure(op)
  BY <1>1, <1>2, <1>3 DEF ToBeClosed, ClosesForSure
<1>7. /\ HasCredentials(op.snapshot) /\ FreshIn({op.snapshot, credConfig})
      /\ op.change \in Changes /\ op.change.kind # "reload"
      /\ credConfig = Mutated(op.snapshot, op.change) /\ op.had = HadCredential(op.snapshot, op.change)
  BY <1>1 DEF CredInv, QueueInv, EvictionInv, ChangesAreTyped, ConfigsAreTyped, PoolIsFresh, UnderWay
<1>8. ASSUME NEW k \in PoolKeys, Owns(k)'
      PROVE  credPool[k].cred = KeyCredential(credConfig, k)
  <2>1. Owns(k) /\ k \notin ClosesForSure(op)
    BY <1>1, <1>6, <1>8 DEF Owns
  <2>2. credPool[k].cred \in {KeyCredential(op.snapshot, k), KeyCredential(credConfig, k)}
    BY <1>7, <2>1 DEF FreshIn
  <2>3. KeyCredential(credConfig, k) = KeyCredential(op.snapshot, k)
    BY <1>7, <2>1, ClosesWhatChanges DEF ClosesForSure
  <2> QED  BY <2>2, <2>3
<1>9. FreshIn({credConfig})'
  BY <1>1, <1>8 DEF FreshIn
<1>10. PoolIsFresh'
  BY <1>1, <1>4, <1>9 DEF EvictionInv, PoolIsFresh
<1> QED  BY <1>5, <1>10 DEF EvictionInv

LEMMA ConnectionFields ==
    ASSUME NEW cred, NEW how
    PROVE  Connection(cred, how).cred = cred /\ Connection(cred, how).how = how
  BY DEF Connection

(* What is taken back is no key's own any more.                            *)
LEMMA FailEvictionStep ==
    ASSUME CredInv, EvictionInv, NEW o \in CredOps, FailTransaction(o)
    PROVE  EvictionInv'
<1>1. /\ credOp[o].pc = "writing" /\ credOp' = [credOp EXCEPT ![o] = EndedCredOp] /\ credConfig' = credOp[o].snapshot
      /\ credPool' = [k \in PoolKeys |-> AfterRollback(k, credOp[o].snapshot)] /\ UNCHANGED credFile
  BY DEF FailTransaction
<1>2. \A q \in CredOps : credOp'[q] = IF q = o THEN EndedCredOp ELSE credOp[q]
  BY <1>1 DEF CredInv, QueueInv
<1>3. \A q \in CredOps : credOp'[q].pc \notin {"writing", "reading"}
  BY <1>1, <1>2, OneWriter, CredRecord DEF UnderWay
<1>4. ChangesAreTyped' /\ ConfigsAreTyped'
  BY <1>1, <1>2, <1>3, CredRecord DEF EvictionInv, ChangesAreTyped, ConfigsAreTyped, UnderWay
<1>5. \A k : ToBeClosed(k)' <=> ToBeClosed(k)
  BY <1>1, <1>2, CredRecord DEF ToBeClosed, ClosesForSure
<1>6. FreshIn({credOp[o].snapshot, credConfig})
  BY <1>1 DEF EvictionInv, PoolIsFresh
<1>7. ASSUME NEW k \in PoolKeys, Owns(k)'
      PROVE  credPool'[k].cred = KeyCredential(credOp[o].snapshot, k)
  <2>1. PICK before : before = credOp[o].snapshot
    OBVIOUS
  <2>2. PICK e : e = credPool[k]
    OBVIOUS
  <2>3. PICK f : f = credPool'[k]
    OBVIOUS
  <2>4. f = AfterRollback(k, before) /\ f # None /\ f.how = "own" /\ ~ToBeClosed(k)
    BY <1>1, <1>5, <1>7, <2>1, <2>3 DEF Owns
  <2>5. CASE e = None \/ e.how \in {"bare", "left"}
    BY <2>2, <2>4, <2>5 DEF AfterRollback
  <2>6. CASE e # None /\ e.how \notin {"bare", "left"} /\ e.cred = KeyCredential(before, k)
    BY <2>1, <2>2, <2>3, <2>4, <2>6, ConnectionFields DEF AfterRollback
  <2>7. CASE e # None /\ e.how \notin {"bare", "left"} /\ e.cred # KeyCredential(before, k)
    <3>1. CASE e.cred = KeyCredential(credConfig, k)
      BY <2>2, <2>4, <2>7, <3>1, ConnectionFields DEF AfterRollback
    <3>2. CASE e.cred # KeyCredential(credConfig, k)
      <4>1. f = e
        BY <2>2, <2>4, <2>7, <3>2 DEF AfterRollback
      <4>2. Owns(k)
        BY <2>2, <2>4, <4>1 DEF Owns
      <4> QED  BY <1>6, <2>1, <2>2, <2>7, <3>2, <4>2 DEF FreshIn
    <3> QED  BY <3>1, <3>2
  <2> QED  BY <2>5, <2>6, <2>7
<1>8. FreshIn({credConfig})'
  BY <1>1, <1>7 DEF FreshIn
<1>9. PoolIsFresh'
  BY <1>1, <1>3, <1>8 DEF PoolIsFresh
<1> QED  BY <1>4, <1>9 DEF EvictionInv

(* The closings leave the transactions and the configuration alone.        *)
LEMMA CloseEvictionStep ==
    ASSUME CredInv, EvictionInv, NEW o \in CredOps, CloseChanged(o) \/ CloseChangedRejected(o)
    PROVE  EvictionInv'
<1> DEFINE op == credOp[o]
           keys == Closes(op.change, HasCredential(o))
<1>1. /\ op.pc = "closing" /\ credOp' = [credOp EXCEPT ![o] = EndedCredOp]
      /\ UNCHANGED <<credConfig, credFile>>
  BY DEF CloseChanged, CloseChangedRejected
<1>2. \A q \in CredOps : credOp'[q] = IF q = o THEN EndedCredOp ELSE credOp[q]
  BY <1>1 DEF CredInv, QueueInv
<1>3. ChangesAreTyped' /\ ConfigsAreTyped'
  BY <1>1, <1>2, CredRecord DEF EvictionInv, ChangesAreTyped, ConfigsAreTyped, UnderWay
<1>4. /\ \A q \in CredOps : credOp'[q].pc = "writing" => credOp[q].pc = "writing" /\ credOp'[q] = credOp[q]
      /\ InTransaction => InTransaction'
  BY <1>1, <1>2, CredRecord DEF InTransaction
<1>5. CASE DropConnections(keys)
  <2>1. ClosesForSure(op) \subseteq keys
    BY DEF ClosesForSure, Closes, HasCredential
  <2> HIDE DEF keys
  <2>2. \A k : ToBeClosed(k) => ToBeClosed(k)' \/ k \in keys
    BY <1>1, <1>2, <2>1, CredRecord DEF ToBeClosed, ClosesForSure
  <2>3. DOMAIN credPool' = PoolKeys /\ \A k \in PoolKeys : Owns(k)' => Owns(k) /\ credPool'[k] = credPool[k]
    BY <1>5, <2>2 DEF DropConnections, Owns
  <2>4. PoolIsFresh'
    BY <1>1, <1>4, <2>3, FreshStep
  <2> QED  BY <1>3, <2>4 DEF EvictionInv
<1>6. CASE credPool' = [k \in PoolKeys |-> AfterRejection(k)]
  <2>1. ASSUME NEW k \in PoolKeys, Owns(k)'
        PROVE  credPool'[k].cred = KeyCredential(credConfig, k)
    <3>1. PICK f : f = credPool'[k]
      OBVIOUS
    <3>2. f = AfterRejection(k) /\ f # None /\ f.how = "own"
      BY <1>6, <2>1, <3>1 DEF Owns
    <3>3. f.cred = KeyCredential(credConfig, k)
      BY <3>2, ConnectionFields DEF AfterRejection
    <3> QED  BY <3>1, <3>3
  <2>2. DOMAIN credPool' = PoolKeys
    BY <1>6
  <2>3. PoolIsFresh'
    BY <1>1, <1>4, <2>1, <2>2, FreshStep
  <2> QED  BY <1>3, <2>3 DEF EvictionInv
<1> QED  BY <1>5, <1>6 DEF CloseChanged, CloseChangedRejected

(* A reload reads a configuration, or ends.                                *)
LEMMA ReadEvictionStep ==
    ASSUME CredInv, EvictionInv, NEW o \in CredOps, ReadCredentials(o)
    PROVE  EvictionInv'
<1> DEFINE r == CredOp("reading", Reload, credFile, FALSE)
<1>1. credOp[o].pc = "queued" /\ UNCHANGED <<credConfig, credFile, credPool>>
  BY DEF ReadCredentials
<1>2. CASE credOp' = [credOp EXCEPT ![o] = EndedCredOp]
  BY <1>1, <1>2, CredRecord, QuietStep
<1>3. CASE credFile # Unreadable /\ credOp' = [credOp EXCEPT ![o] = r]
  <2>1. r.pc = "reading" /\ r.change \in Changes /\ HasCredentials(r.snapshot)
    BY <1>3 DEF CredOp, Changes, EvictionInv, ConfigsAreTyped
  <2> HIDE DEF r
  <2> QED  BY <1>1, <1>3, <2>1, QuietStep
<1> QED  BY <1>2, <1>3 DEF ReadCredentials

(* It closes everything once it has stored that.                           *)
LEMMA ReloadEvictionStep ==
    ASSUME CredInv, EvictionInv, NEW o \in CredOps, ReloadCredentials(o)
    PROVE  EvictionInv'
<1> DEFINE r == CredOp("closing", Reload, None, FALSE)
<1>1. /\ UnderWay(o) /\ credOp[o].pc # "writing"
      /\ credOp' = [credOp EXCEPT ![o] = r] /\ credConfig' = credOp[o].snapshot
      /\ UNCHANGED <<credFile, credPool>>
  BY DEF ReloadCredentials, UnderWay
<1>2. r.pc = "closing" /\ r.change = Reload
  BY DEF CredOp
<1> HIDE DEF r
<1>3. \A q \in CredOps : credOp'[q] = IF q = o THEN r ELSE credOp[q]
  BY <1>1 DEF CredInv, QueueInv
<1>4. \A q \in CredOps : credOp'[q].pc \notin {"writing", "reading"}
  BY <1>1, <1>2, <1>3 DEF CredInv, QueueInv, InTurn, UnderWay, HoldsQueue
<1>5. Reload \in Changes
  BY DEF Changes
<1>6. ChangesAreTyped' /\ ConfigsAreTyped'
  BY <1>1, <1>2, <1>3, <1>4, <1>5 DEF EvictionInv, ChangesAreTyped, ConfigsAreTyped, UnderWay
<1>7. ClosesForSure(r) = PoolKeys
  BY <1>2, ReloadKind DEF ClosesForSure, Closes
<1>8. \A k \in PoolKeys : ToBeClosed(k)'
  BY <1>2, <1>3, <1>7 DEF ToBeClosed
<1>9. FreshIn({credConfig})'
  BY <1>8 DEF FreshIn, Owns
<1> QED  BY <1>1, <1>4, <1>6, <1>9 DEF EvictionInv, PoolIsFresh

(* A new connection is its key's own only with the credential of its key.  *)
LEMMA ConnectEvictionStep ==
    ASSUME EvictionInv, NEW p, NEW ok, EndConnecting(p, ok)
    PROVE  EvictionInv'
<1>1. UNCHANGED <<credConfig, credFile, credOp>>
  BY DEF EndConnecting
<1>2. CASE UNCHANGED credPool
  BY <1>1, <1>2, CallStep DEF EvictionInv, ConfigsAreTyped
<1>3. ASSUME NEW how, credPool' = [credPool EXCEPT ![p.key] = Connection(p.cred, how)],
             how = "own" => p.cred = KeyCredential(credConfig, p.key)
      PROVE  EvictionInv'
  <2>1. DOMAIN credPool' = PoolKeys
    BY <1>3 DEF EvictionInv, PoolIsFresh
  <2>2. ASSUME NEW k \in PoolKeys, Owns(k)'
        PROVE  \/ Owns(k) /\ credPool'[k].cred = credPool[k].cred
               \/ credPool'[k].cred = KeyCredential(credConfig, k)
    <3>1. CASE k = p.key
      <4>1. credPool'[k] = Connection(p.cred, how)
        BY <1>3, <3>1 DEF EvictionInv, PoolIsFresh
      <4>2. credPool'[k].how = how /\ credPool'[k].cred = p.cred
        BY <4>1, ConnectionFields
      <4> QED  BY <1>3, <2>2, <3>1, <4>2 DEF Owns
    <3>2. CASE k # p.key
      <4>1. credPool'[k] = credPool[k]
        BY <1>3, <3>2 DEF EvictionInv, PoolIsFresh
      <4> QED  BY <1>1, <2>2, <4>1 DEF Owns, ToBeClosed
    <3> QED  BY <3>1, <3>2
  <2>3. InTransaction => InTransaction'
    BY <1>1 DEF InTransaction
  <2>4. PoolIsFresh'
    BY <1>1, <2>1, <2>2, <2>3, FreshStep
  <2> QED  BY <1>1, <2>4 DEF EvictionInv, ChangesAreTyped, ConfigsAreTyped, UnderWay
<1>4. CASE ok
  BY <1>3, <1>4 DEF EndConnecting
<1> QED  BY <1>2, <1>4 DEF EndConnecting

LEMMA EvictionNextInv ==
    ASSUME CredInv, EvictionInv, [CredNext]_credVars
    PROVE  EvictionInv'
<1>1. ASSUME NEW o \in CredOps, NEW change \in Changes, Enqueue(o, change),
             UNCHANGED <<credConfig, credFile, credPool>>
      PROVE  EvictionInv'
  <2> DEFINE r == CredOp("queued", change, None, FALSE)
  <2>1. r.pc = "queued" /\ r.change = change
    BY DEF CredOp
  <2>2. credOp' = [credOp EXCEPT ![o] = r] /\ credOp[o].pc \in {"idle", "done"}
    BY <1>1 DEF Enqueue
  <2> QED  BY <1>1, <2>1, <2>2, QuietStep
<1>2. ASSUME NEW o \in CredRequests, NEW change \in Changes, AskChange(o, change)
      PROVE  EvictionInv'
  BY <1>1, <1>2 DEF AskChange, CredOps
<1>3. CASE CredTimerFires
  BY <1>1, <1>3 DEF CredTimerFires, CredOps, Changes
<1>4. ASSUME NEW o \in CredOps,
             \/ BeginTransaction(o) \/ CommitTransaction(o) \/ FailTransaction(o)
             \/ CloseChanged(o) \/ CloseChangedRejected(o)
             \/ ReadCredentials(o) \/ ReloadCredentials(o)
      PROVE  EvictionInv'
  BY <1>4, BeginEvictionStep, CommitEvictionStep, FailEvictionStep, CloseEvictionStep,
     ReadEvictionStep, ReloadEvictionStep
<1>5. ASSUME UNCHANGED <<credConfig, credOp, credPool>>,
             credFile' # Unreadable => HasCredentials(credFile')
      PROVE  EvictionInv'
  BY <1>5, CallStep
<1>6. ASSUME NEW d, EditCredentials(d)
      PROVE  EvictionInv'
  <2>1. HasCredentials(credFile)
    BY <1>6 DEF EditCredentials, CredInv, RollbackFollows, EvictionInv, ConfigsAreTyped
  <2> QED  BY <1>5, <1>6, <2>1 DEF EditCredentials, WriteCredentials, EvictionInv, ConfigsAreTyped, HasCredentials
<1>9. CASE BreakCredentials
  BY <1>5, <1>9 DEF BreakCredentials, WriteCredentials
<1>7. ASSUME (\E u \in Users : CredentialCall(u)) \/ Preconnect \/ AskStatus \/ UNCHANGED credVars
      PROVE  EvictionInv'
  BY <1>5, <1>7 DEF CredentialCall, Preconnect, AskStatus, BeginConnecting, credVars, EvictionInv, ConfigsAreTyped
<1>8. ASSUME NEW p \in credPending, NEW ok, EndConnecting(p, ok)
      PROVE  EvictionInv'
  BY <1>8, ConnectEvictionStep
<1> QED  BY <1>2, <1>3, <1>4, <1>6, <1>7, <1>8, <1>9 DEF CredNext, Changes

LEMMA EvictionInitInv ==
    ASSUME CredInit
    PROVE  EvictionInv
<1>1. credConfig = credFile /\ HasCredentials(credConfig)
  BY DEF CredInit, CredConfigs, HasCredentials
<1>2. \A o \in CredOps : credOp[o].pc \in {"idle", "done"} /\ credOp[o].change \in Changes
  BY CredRecord DEF CredInit, EndedCredOp, CredOp, Changes
<1>3. DOMAIN credPool = PoolKeys /\ \A k \in PoolKeys : credPool[k] = None
  BY DEF CredInit
<1> QED  BY <1>1, <1>2, <1>3 DEF EvictionInv, ChangesAreTyped, ConfigsAreTyped, PoolIsFresh,
                         FreshIn, Owns, UnderWay

(***************************************************************************)
(* Only the bare connection is begun without its credential.               *)
(***************************************************************************)

BareInv ==
    /\ \A p \in credPending : p.how = "own" \/ (p.how = "bare" /\ p.key = BareKey)
    /\ \A k \in PoolKeys : credPool[k] # None /\ credPool[k].how = "bare" => k = BareKey

(* A call begins with the credential that its key stands for.              *)
LEMMA CallCredential ==
    ASSUME NEW c, NEW u \in Users
    PROVE  Resolve(c, u).cred = KeyCredential(c, PoolKey(c, u, Templated))
<1> DEFINE r == Resolve(c, u)
<1>1. PICK group :
         \/ r = Resolution("user", u, c.creds[u])
         \/ r = Resolution("group", group, c.creds[group])
         \/ r = Resolution("default", "default", c.default)
         \/ r = NoResolution /\ c.default = 0
  BY DEF Resolve
<1> HIDE DEF r
<1>2. /\ \A source, identity, cred :
             LET s == Resolution(source, identity, cred) IN
             s.source = source /\ s.identity = identity /\ s.cred = cred
      /\ NoResolution.source = "none" /\ NoResolution.cred = 0
  BY DEF Resolution, NoResolution
<1>3. PoolKey(c, u, Templated) = IF r.source \in {"user", "group"} THEN <<r.source, r.identity>>
                                 ELSE IF r.source = "none" /\ Templated THEN <<"caller", u>> ELSE BareKey
  BY DEF PoolKey, r
<1>4. CASE r = Resolution("user", u, c.creds[u]) \/ r = Resolution("group", group, c.creds[group])
  BY <1>2, <1>3, <1>4 DEF KeyCredential, r
<1>5. CASE r = Resolution("default", "default", c.default)
  BY <1>2, <1>3, <1>5 DEF KeyCredential, BareKey, r
<1>6. CASE r = NoResolution /\ c.default = 0
  BY <1>2, <1>3, <1>6 DEF KeyCredential, BareKey, r
<1> QED  BY <1>1, <1>4, <1>5, <1>6

LEMMA BareNextInv ==
    ASSUME EvictionInv, BareInv, [CredNext]_credVars
    PROVE  BareInv'
<1>1. ASSUME NEW key, NEW cred, BeginConnecting(key, cred),
             cred = KeyCredential(credConfig, key) \/ key = BareKey
      PROVE  BareInv'
  BY <1>1 DEF BareInv, BeginConnecting
<1>2. ASSUME NEW u \in Users, CredentialCall(u)
      PROVE  BareInv'
  BY <1>1, <1>2, CallCredential DEF CredentialCall
<1>3. ASSUME Preconnect \/ AskStatus
      PROVE  BareInv'
  BY <1>1, <1>3 DEF Preconnect, AskStatus
<1>4. ASSUME NEW p \in credPending, NEW ok, EndConnecting(p, ok)
      PROVE  BareInv'
  <2>1. CASE UNCHANGED credPool
    BY <1>4, <2>1 DEF BareInv, EndConnecting
  <2>2. ASSUME NEW how, credPool' = [credPool EXCEPT ![p.key] = Connection(p.cred, how)],
               how = "bare" => p.key = BareKey
        PROVE  BareInv'
    <3>1. \A k \in PoolKeys : credPool'[k] = IF k = p.key THEN Connection(p.cred, how) ELSE credPool[k]
      BY <2>2 DEF EvictionInv, PoolIsFresh
    <3> QED  BY <1>4, <2>2, <3>1, ConnectionFields DEF BareInv, EndConnecting
  <2>3. PICK how : /\ ok => credPool' = [credPool EXCEPT ![p.key] = Connection(p.cred, how)]
                   /\ how = IF p.cred = KeyCredential(credConfig, p.key) THEN "own"
                            ELSE IF p.how = "own" THEN "late" ELSE "bare"
    BY <1>4 DEF EndConnecting
  <2>4. p.how = "own" \/ p.key = BareKey
    BY <1>4 DEF BareInv
  <2> QED  BY <1>4, <2>1, <2>2, <2>3, <2>4 DEF EndConnecting
<1>5. ASSUME NEW keys, DropConnections(keys), UNCHANGED credPending
      PROVE  BareInv'
  BY <1>5 DEF DropConnections, BareInv
<1>6. ASSUME NEW o, FailTransaction(o)
      PROVE  BareInv'
  <2>1. ASSUME NEW k \in PoolKeys, credPool'[k] # None, credPool'[k].how = "bare"
        PROVE  k = BareKey
    <3>1. credPool'[k] = AfterRollback(k, credOp[o].snapshot)
      BY <1>6 DEF FailTransaction
    <3>2. credPool'[k] = credPool[k]
      BY <2>1, <3>1, ConnectionFields DEF AfterRollback
    <3> QED  BY <2>1, <3>2 DEF BareInv
  <2> QED  BY <1>6, <2>1 DEF BareInv, FailTransaction
<1>7. ASSUME NEW o, CloseChangedRejected(o)
      PROVE  BareInv'
  <2>1. ASSUME NEW k \in PoolKeys, credPool'[k] # None, credPool'[k].how = "bare"
        PROVE  k = BareKey
    <3>1. credPool'[k] = AfterRejection(k)
      BY <1>7 DEF CloseChangedRejected
    <3>2. credPool'[k] = credPool[k]
      BY <2>1, <3>1, ConnectionFields DEF AfterRejection
    <3> QED  BY <2>1, <3>2 DEF BareInv
  <2> QED  BY <1>7, <2>1 DEF BareInv, CloseChangedRejected
<1>8. CASE UNCHANGED <<credPool, credPending>>
  BY <1>8 DEF BareInv
<1>9. ASSUME NEW o \in CredOps,
             \/ BeginTransaction(o) \/ CommitTransaction(o) \/ FailTransaction(o)
             \/ CloseChanged(o) \/ CloseChangedRejected(o)
             \/ ReadCredentials(o) \/ ReloadCredentials(o)
      PROVE  BareInv'
  BY <1>5, <1>6, <1>7, <1>8, <1>9
     DEF BeginTransaction, CommitTransaction, CloseChanged, ReadCredentials, ReloadCredentials
<1>10. ASSUME \/ \E o \in CredRequests, ch \in CredentialChanges \cup GroupChanges \cup {Reload} : AskChange(o, ch)
              \/ CredTimerFires \/ BreakCredentials \/ UNCHANGED credVars
              \/ \E d \in 0..MaxCred : EditCredentials(d)
       PROVE  BareInv'
  BY <1>8, <1>10 DEF AskChange, CredTimerFires, EditCredentials, BreakCredentials, WriteCredentials, credVars
<1> QED  BY <1>2, <1>3, <1>4, <1>9, <1>10 DEF CredNext

(* Changing credentials evicts stale connections: once every change has    *)
(* ended, also one whose write failed and a reload of an edited file, a    *)
(* pooled connection that is its key's own has the credential that its key *)
(* stands for.  It is not, when that was changed or taken back after it    *)
(* had been resolved, when a rejected close left it, and when preconnect   *)
(* or a status request begins the bare one without the default; no other   *)
(* is begun without its credential (credential-manager.ts 189, 205, 230,   *)
(* 250, 307, 330, 363, 418-428; server.ts 141-151 and 832).                *)
THEOREM StaleIsEvicted == CredSpec => []StaleEvicted
<1>1. EvictionInv /\ BareInv => StaleEvicted
  BY DEF EvictionInv, PoolIsFresh, FreshIn, Owns, ToBeClosed, InTransaction, StaleEvicted, CredSettled, BareInv
<1>2. CredInv /\ EvictionInv /\ BareInv /\ [CredNext]_credVars => (CredInv /\ EvictionInv /\ BareInv)'
  BY CredNextInv, EvictionNextInv, BareNextInv
<1>3. CredInit => BareInv
  BY DEF CredInit, BareInv
<1> QED  BY <1>1, <1>2, <1>3, CredInitInv, EvictionInitInv, PTL DEF CredSpec

(* A caller's connection is kept under a key that stands for the           *)
(* credential the caller gets, in whatever order the groups are listed     *)
(* (resolveWithSource and resolveCredentialPool; credential-merge.ts), so  *)
(* that evicting by key reaches every connection a changed credential was  *)
(* used for.                                                               *)
THEOREM KeyStandsForCredential ==
    ASSUME NEW c, NEW u
    PROVE  KeyCredential(c, PoolKey(c, u, Templated)) = Resolve(c, u).cred
<1> DEFINE r == Resolve(c, u)
<1>1. \/ r.source \in {"user", "group"} /\ r.cred = c.creds[r.identity]
      \/ r.source = "default" /\ r.cred = c.default
      \/ r.source = "none" /\ r.cred = 0 /\ c.default = 0
  BY DEF Resolve, Resolution, NoResolution
<1> HIDE DEF r
<1>2. LET k == PoolKey(c, u, Templated) IN
      \/ r.source \in {"user", "group"} /\ k = <<r.source, r.identity>>
      \/ r.source = "none" /\ k = <<"caller", u>>
      \/ r.source \notin {"user", "group"} /\ k = BareKey
  BY DEF PoolKey, r
<1> QED  BY <1>1, <1>2 DEF KeyCredential, BareKey, r

(* The route, which looks for any group of the user with a credential,     *)
(* reports the source that resolveWithSource, which takes the first such   *)
(* group of the list, draws from; for every configuration, also one with   *)
(* several groups of one name (credential-manager.ts 87-108,               *)
(* routes/credentials.ts 36-61).                                           *)
THEOREM ReportIsResolution == ReportedAsResolved
<1> DEFINE c == storeCase  u == RuleUser
           able == {i \in DOMAIN c.groups : u \in c.groups[i].members /\ c.creds[c.groups[i].name] # 0}
<1>1. (\E g \in GroupNames(c) : u \in Members(c, g) /\ c.creds[g] # 0) <=> able # {}
  <2>1. ASSUME NEW i \in able
        PROVE  \E g \in GroupNames(c) : u \in Members(c, g) /\ c.creds[g] # 0
    BY <2>1 DEF GroupNames, Members, ToSet
  <2>2. ASSUME NEW g \in GroupNames(c), u \in Members(c, g), c.creds[g] # 0
        PROVE  able # {}
    BY <2>2 DEF Members, ToSet
  <2> QED  BY <2>1, <2>2
<1> DEFINE viaGroup == able # {}  group == c.groups[Min(able)].name
<1>2. Resolve(c, u) =
         IF c.creds[u] # 0 THEN Resolution("user", u, c.creds[u])
         ELSE IF viaGroup THEN Resolution("group", group, c.creds[group])
         ELSE IF c.default # 0 THEN Resolution("default", "default", c.default)
         ELSE NoResolution
  BY DEF Resolve
<1>3. ReportedSource(c, u) =
         IF Resolve(c, u) = NoResolution THEN "none"
         ELSE IF c.creds[u] # 0 THEN "user" ELSE IF viaGroup THEN "group" ELSE "default"
  BY <1>1 DEF ReportedSource
<1> HIDE DEF c, u, viaGroup, group
<1> QED  BY <1>2, <1>3 DEF ReportedAsResolved, Resolution, NoResolution, c, u

(***************************************************************************)
(* The audit log.                                                          *)
(*                                                                         *)
(* As long as no rotation falls between the steps of another process, the  *)
(* log is what everybody appends to, and what it has goes up to the newest *)
(* entry; so a full log has the newest entries alone.                      *)
(***************************************************************************)

AuditPhases == {"idle", "rotating", "renaming", "opening", "appending"}

AuditTypes ==
    /\ auditLog \in Generations \cup {0} /\ auditBackup \in Generations \cup {0}
    /\ generation \in [Generations -> SUBSET Nat]
    /\ audited \in Nat
    /\ audit \in [Loggers -> [pc : AuditPhases, file : Generations \cup {0}]]
    /\ \A p \in Loggers : audit[p].pc = "appending" => audit[p].file # 0
    /\ overlapped \in BOOLEAN

Log == KeptEntries(auditLog)
Newest == {n \in 1..audited : n + MaxAuditSize > audited}

(* An entry is a number that was given out, and newer ones are there too.  *)
UpToNewest == Log \subseteq 1..audited /\ \A m \in Log, n \in 1..audited : n > m => n \in Log

Orderly ==
    overlapped = FALSE =>
        /\ UpToNewest
        /\ Newest \subseteq Log \cup KeptEntries(auditBackup)
        /\ \A p \in Loggers :
              /\ audit[p].pc = "appending" => audit[p].file = auditLog
              /\ audit[p].pc \in {"rotating", "renaming"} => auditLog # 0 /\ Newest \subseteq Log

AuditInv == AuditTypes /\ Orderly

(* A log that is full, and up to the newest entry, has the newest ones.    *)
LEMMA FullHasNewest ==
    ASSUME MaxAuditSize \in Nat, audited \in Nat, UpToNewest, Cardinality(Log) >= MaxAuditSize
    PROVE  Newest \subseteq Log
<1> SUFFICES ASSUME NEW n \in 1..audited, n + MaxAuditSize > audited, n \notin Log
             PROVE  FALSE
  BY DEF Newest
<1>1. Log \subseteq (n + 1)..audited
  BY DEF UpToNewest
<1>2. IsFiniteSet((n + 1)..audited) /\ Cardinality((n + 1)..audited) = audited - n
  <2>1. n + 1 \in Int /\ audited \in Int /\ n + 1 <= audited + 1
    OBVIOUS
  <2>2. IsFiniteSet((n + 1)..audited)
        /\ Cardinality((n + 1)..audited) = IF n + 1 > audited THEN 0 ELSE audited - (n + 1) + 1
    BY <2>1, FS_Interval
  <2> QED  BY <2>1, <2>2
<1>3. Cardinality(Log) <= audited - n /\ Cardinality(Log) \in Nat
  BY <1>1, <1>2, FS_Subset, FS_CardinalityType
<1> QED  BY <1>3

(* The task of p comes to pc, and everybody else stays.                    *)
LEMMA TaskStep ==
    ASSUME AuditTypes, NEW p \in Loggers, NEW pc \in AuditPhases, GoOn(p, pc),
           pc # "appending"
    PROVE  /\ audit' \in [Loggers -> [pc : AuditPhases, file : Generations \cup {0}]]
           /\ audit'[p].pc = pc
           /\ \A q \in Loggers : q # p => audit'[q] = audit[q]
           /\ \A q \in Loggers : audit'[q].pc = "appending" => audit'[q].file # 0
  BY DEF AuditTypes, GoOn

LEMMA StatStep ==
    ASSUME AuditInv, NEW p \in Loggers, StatLog(p)
    PROVE  AuditInv'
<1> USE DEF AuditInv
<1> DEFINE full == auditLog # 0 /\ Cardinality(generation[auditLog]) >= MaxAuditSize
           to == IF full THEN "rotating" ELSE "opening"
<1>1. GoOn(p, to) /\ UNCHANGED <<auditLog, auditBackup, generation, audited, overlapped>>
  BY DEF StatLog
<1>2. to \in AuditPhases /\ to # "appending"
  BY DEF AuditPhases
<1>3. full /\ overlapped = FALSE => Newest \subseteq Log
  BY FullHasNewest, AuditBounds DEF AuditTypes, Orderly, Log, KeptEntries
<1>4. to = "rotating" => full
  OBVIOUS
<1>5. to # "renaming"
  OBVIOUS
<1> HIDE DEF full, to
<1>6. /\ audit' \in [Loggers -> [pc : AuditPhases, file : Generations \cup {0}]]
      /\ audit'[p].pc = to
      /\ \A q \in Loggers : q # p => audit'[q] = audit[q]
      /\ \A q \in Loggers : audit'[q].pc = "appending" => audit'[q].file # 0
  BY <1>1, <1>2, TaskStep
<1>7. AuditTypes'
  BY <1>1, <1>6 DEF AuditTypes
<1>8. full => auditLog # 0
  BY DEF full
<1>9. Orderly'
  BY <1>1, <1>2, <1>3, <1>4, <1>5, <1>6, <1>8 DEF Orderly, UpToNewest, Newest, Log, KeptEntries
<1> QED  BY <1>7, <1>9

LEMMA UnlinkStep ==
    ASSUME AuditInv, NEW p \in Loggers, UnlinkBackup(p)
    PROVE  AuditInv'
<1> USE DEF AuditInv
<1>1. GoOn(p, "renaming") /\ "renaming" \in AuditPhases
  BY DEF UnlinkBackup, AuditPhases
<1>2. /\ audit' \in [Loggers -> [pc : AuditPhases, file : Generations \cup {0}]]
      /\ audit'[p].pc = "renaming"
      /\ \A q \in Loggers : q # p => audit'[q] = audit[q]
      /\ \A q \in Loggers : audit'[q].pc = "appending" => audit'[q].file # 0
  BY <1>1, TaskStep
<1>3. AuditTypes'
  BY <1>2 DEF UnlinkBackup, AuditTypes
<1>4. overlapped = FALSE => auditLog # 0 /\ Newest \subseteq Log
  BY DEF UnlinkBackup, Orderly
<1>5. Log' = Log /\ Newest' = Newest /\ UpToNewest' = UpToNewest
  BY DEF UnlinkBackup, Log, Newest, UpToNewest, KeptEntries
<1>6. Orderly'
  BY <1>2, <1>4, <1>5 DEF UnlinkBackup, Orderly
<1> QED  BY <1>3, <1>6

LEMMA RenameStep ==
    ASSUME AuditInv, NEW p \in Loggers, RenameLog(p)
    PROVE  AuditInv'
<1> USE DEF AuditInv
<1>1. GoOn(p, "opening") /\ "opening" \in AuditPhases
  BY DEF RenameLog, AuditPhases
<1>2. /\ audit' \in [Loggers -> [pc : AuditPhases, file : Generations \cup {0}]]
      /\ audit'[p].pc = "opening"
      /\ \A q \in Loggers : q # p => audit'[q] = audit[q]
      /\ \A q \in Loggers : audit'[q].pc = "appending" => audit'[q].file # 0
  BY <1>1, TaskStep
<1> DEFINE others == \E q \in Loggers \ {p} : audit[q].pc \in {"rotating", "renaming", "appending"}
<1>3. overlapped' = FALSE => overlapped = FALSE /\ ~others
  BY DEF RenameLog, AuditTypes
<1>4. overlapped' \in BOOLEAN
  BY Zenon DEF RenameLog, AuditTypes
<1>5. AuditTypes'
  BY <1>2, <1>4 DEF RenameLog, AuditTypes
<1>6. ASSUME overlapped' = FALSE
      PROVE  Orderly'
  <2>1. auditLog # 0 /\ Newest \subseteq Log
    BY <1>3, <1>6 DEF RenameLog, Orderly
  <2>2. KeptEntries(auditBackup)' = Log /\ Log' = {} /\ Newest' = Newest
    BY <2>1 DEF RenameLog, KeptEntries, Log, Newest
  <2>3. \A q \in Loggers : audit'[q].pc \notin {"rotating", "renaming", "appending"}
    BY <1>2, <1>3, <1>6
  <2> QED  BY <2>1, <2>2, <2>3 DEF Orderly, UpToNewest
<1> QED  BY <1>5, <1>6 DEF Orderly

LEMMA OpenStep ==
    ASSUME AuditInv, NEW p \in Loggers, OpenLog(p)
    PROVE  AuditInv'
<1> USE DEF AuditInv
<1>1. PICK g \in Generations :
          /\ auditLog # 0 => g = auditLog
          /\ auditLog = 0 => g \notin Created
          /\ auditLog' = g
          /\ audit' = [audit EXCEPT ![p] = [pc |-> "appending", file |-> g]]
  BY DEF OpenLog
<1>2. g # 0
  BY AuditBounds DEF Generations
<1>3. audit'[p].pc = "appending" /\ audit'[p].file = g /\ \A q \in Loggers : q # p => audit'[q] = audit[q]
  BY <1>1 DEF AuditTypes
<1>4. AuditTypes'
  BY <1>1, <1>2, <1>3 DEF OpenLog, AuditTypes, AuditPhases
<1>5. Log' = Log
  <2>1. CASE auditLog # 0
    BY <1>1, <1>2, <2>1 DEF OpenLog, Log, KeptEntries
  <2>2. CASE auditLog = 0
    <3>1. generation[g] = {}
      BY <1>1, <2>2 DEF Created
    <3> QED  BY <1>1, <1>2, <2>2, <3>1 DEF OpenLog, Log, KeptEntries
  <2> QED  BY <2>1, <2>2
<1>6. Newest' = Newest /\ KeptEntries(auditBackup)' = KeptEntries(auditBackup) /\ audited' = audited
  BY DEF OpenLog, Newest, KeptEntries
<1>7. ASSUME overlapped = FALSE, NEW q \in Loggers, q # p
      PROVE  /\ audit[q].pc = "appending" => audit[q].file = g
             /\ audit[q].pc \in {"rotating", "renaming"} => Newest \subseteq Log
  BY <1>1, <1>7 DEF Orderly, AuditTypes
<1>8. Orderly'
  BY <1>1, <1>2, <1>3, <1>5, <1>6, <1>7 DEF OpenLog, Orderly, UpToNewest
<1> QED  BY <1>4, <1>8

LEMMA AppendStep ==
    ASSUME AuditInv, NEW p \in Loggers, AppendEntry(p)
    PROVE  AuditInv'
<1> USE DEF AuditInv
<1> DEFINE g == audit[p].file
<1>1. g \in Generations /\ audited \in Nat /\ 0 \notin Generations
  BY AuditBounds DEF AppendEntry, AuditTypes, Generations
<1>2. generation' = [generation EXCEPT ![g] = generation[g] \cup {audited + 1}] /\ audited' = audited + 1
      /\ UNCHANGED <<auditLog, auditBackup, overlapped>>
  BY DEF AppendEntry
<1>3. audit'[p].pc = "idle" /\ \A q \in Loggers : q # p => audit'[q] = audit[q]
  BY DEF AppendEntry, AuditTypes, NoTask
<1>4. audit' \in [Loggers -> [pc : AuditPhases, file : Generations \cup {0}]]
  BY DEF AppendEntry, AuditTypes, NoTask, AuditPhases
<1>5. AuditTypes'
  BY <1>1, <1>2, <1>3, <1>4 DEF AuditTypes
<1>6. KeptEntries(auditBackup) \subseteq KeptEntries(auditBackup)'
  BY <1>1, <1>2 DEF KeptEntries, AuditTypes
<1>7. Newest' \subseteq Newest \cup {audited + 1}
  BY <1>1, <1>2, AuditBounds DEF Newest
<1>8. overlapped = FALSE => Log' = Log \cup {audited + 1}
  BY <1>1, <1>2 DEF AppendEntry, Orderly, Log, KeptEntries, AuditTypes
<1>9. ASSUME overlapped = FALSE
      PROVE  UpToNewest'
  BY <1>1, <1>2, <1>8, <1>9 DEF Orderly, UpToNewest
<1>10. Orderly'
  BY <1>2, <1>3, <1>6, <1>7, <1>8, <1>9 DEF Orderly
<1> QED  BY <1>5, <1>10

LEMMA DropStep ==
    ASSUME AuditInv, (\E p \in Loggers : DropTask(p)) \/ UNCHANGED auditVars
    PROVE  AuditInv'
<1> USE DEF AuditInv
<1>1. ASSUME NEW p \in Loggers, DropTask(p)
      PROVE  AuditInv'
  <2>1. audit'[p].pc = "idle" /\ \A q \in Loggers : q # p => audit'[q] = audit[q]
    BY <1>1 DEF DropTask, AuditTypes, NoTask
  <2>2. audit' \in [Loggers -> [pc : AuditPhases, file : Generations \cup {0}]]
    BY <1>1 DEF DropTask, AuditTypes, NoTask, AuditPhases
  <2>3. AuditTypes'
    BY <1>1, <2>1, <2>2 DEF DropTask, AuditTypes
  <2>4. Orderly'
    BY <1>1, <2>1 DEF DropTask, Orderly, UpToNewest, Log, Newest, KeptEntries
  <2> QED  BY <2>3, <2>4
<1>2. CASE UNCHANGED auditVars
  BY <1>2 DEF auditVars, AuditTypes, Orderly, UpToNewest, Log, Newest, KeptEntries
<1> QED  BY <1>1, <1>2

LEMMA AuditInitInv ==
    ASSUME AuditInit
    PROVE  AuditInv
<1>1. AuditTypes
  BY DEF AuditInit, AuditTypes, NoTask, AuditPhases
<1>2. Orderly
  BY DEF AuditInit, Orderly, UpToNewest, Log, Newest, KeptEntries, NoTask
<1> QED  BY <1>1, <1>2 DEF AuditInv

LEMMA AuditNextInv ==
    ASSUME AuditInv, [AuditNext]_auditVars
    PROVE  AuditInv'
  BY StatStep, UnlinkStep, RenameStep, OpenStep, AppendStep, DropStep DEF AuditNext

(* The newest entries, as many as make the log full, are in the log or its *)
(* backup, also when a process dies in the middle of a rotation, and as    *)
(* long as no rotation falls between the steps of another process          *)
(* (audit.ts 8-10, 184-200).                                               *)
THEOREM RotationKeepsNewest == AuditSpec => []KeepsNewest
<1>1. AuditInv => KeepsNewest
  BY DEF AuditInv, AuditTypes, Orderly, Newest, Log, KeepsNewest
<1> QED  BY <1>1, AuditInitInv, AuditNextInv, PTL DEF AuditSpec
=================================================================================
