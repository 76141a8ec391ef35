------------------------- MODULE ConnectionPoolProofs -------------------------
(***************************************************************************)
(* Safety of the connection pool, for any number of calls, close           *)
(* operations and keys.                                                    *)
(***************************************************************************)
EXTENDS ConnectionPool, TLAPS

(***************************************************************************)
(* What the steps may do, in the terms the invariants need.                *)
(***************************************************************************)

(* A step of an attempt registers a connection of its own, rejects, or     *)
(* moves on; it opens at most a connection of its own.                     *)
LEMMA AttemptSummary ==
    ASSUME NEW r \in Calls, AttemptStep(r)
    PROVE  /\ attempt[r] \in InFlight
           /\ closer' = closer
           /\ \/ status' = status
              \/ /\ attempt[r] = "primary"
                 /\ status' = [status EXCEPT ![<<r, "primary">>] = "open"]
              \/ /\ attempt[r] = "fallback"
                 /\ status' = [status EXCEPT ![<<r, "fallback">>] = "open"]
           /\ \/ Reject(r)
              \/ \E phase \in InFlight :
                   /\ Proceed(r, phase)
                   /\ phase = "recordSuccess" =>
                        status' = [status EXCEPT ![<<r, "primary">>] = "open"]
              \/ \E leg \in Legs :
                   /\ Register(r, <<r, leg>>)
                   /\ \/ status' = [status EXCEPT ![<<r, leg>>] = "open"]
                      \/ attempt[r] = "recordSuccess" /\ leg = "primary"
BY DEF AttemptStep, GateOpen, CircuitOpen, SecretsFail, PrimaryOk, PrimaryFail,
       SuccessRecorded, SuccessNotRecorded, FailureRecorded, FailureNotRecorded,
       FallbackOk, FallbackFail, InFlight, Legs

(* The promise code from the pending check on starts at most one attempt,  *)
(* that of the call itself, and only under a free key.                     *)
LEMMA JoinSummary ==
    ASSUME NEW r \in Calls, NEW k \in Keys, NEW b, JoinOrConnect(r, k, b)
    PROVE  \/ /\ pending[k] # NoCall
              /\ pc' = [pc EXCEPT ![r] = "waiting"]
              /\ joined' = [joined EXCEPT ![r] = pending[k]]
              /\ UNCHANGED <<pending, attempt>>
           \/ /\ pc' = [pc EXCEPT ![r] = "threw"]
              /\ UNCHANGED <<pending, attempt, joined>>
           \/ /\ pending[k] = NoCall
              /\ pc' = [pc EXCEPT ![r] = "waiting"]
              /\ joined' = [joined EXCEPT ![r] = r]
              /\ pending' = [pending EXCEPT ![k] = r]
              /\ attempt' = [attempt EXCEPT ![r] = "gate"]
BY DEF JoinOrConnect

(* Close operations leave the calls, the attempts and `pending' alone.     *)
LEMMA CloserSummary ==
    ASSUME NEW x \in Closers, CloserStart(x) \/ CloserStep(x)
    PROVE  UNCHANGED <<pending, attempt, pc, key, backend, conn, joined>>
BY DEF CloserStart, CloserStep, CloseService, CloseServicePattern, CloseAll,
       ExactClosed, ExactCloseThrew, ScopedClosed, OneOfAllClosed, callVars

(***************************************************************************)
(* Type correctness.                                                       *)
(***************************************************************************)

LEMMA ProgressType ==
    ASSUME NEW p \in CloserStates, NEW s \in Keys \cup {NoKey}, NEW todo \in SUBSET Entries,
           NEW c \in Conns \cup {NoConn}, NEW had \in SUBSET Conns
    PROVE  Progress(p, s, todo, c, had) \in CloserRecords
BY DEF Progress, CloserRecords

LEMMA BeginCloseType ==
    ASSUME NEW st \in [Conns -> Statuses], NEW C
    PROVE  BeginClose(st, C) \in [Conns -> Statuses]
BY DEF BeginClose, Statuses

LEMMA ScopedEntriesType ==
    ASSUME TypeOK, NEW s \in Keys \cup {NoKey}
    PROVE  /\ ScopedEntries(s) \in SUBSET Entries
           /\ {e[2] : e \in ScopedEntries(s)} \in SUBSET Conns
           /\ s \in Keys => Evicts(s) \in SUBSET Conns
<1>1. ScopedEntries(s) \in SUBSET Entries
  BY DEF ScopedEntries, Entries, TypeOK
<1>2. {e[2] : e \in ScopedEntries(s)} \in SUBSET Conns
  BY <1>1 DEF Entries
<1>3. QED
  BY <1>1, <1>2 DEF Evicts, TypeOK

LEMMA CloseNextType ==
    ASSUME TypeOK, NEW x \in Closers, NEW s \in Keys \cup {NoKey},
           NEW todo \in SUBSET Entries,
           NEW st \in [Conns -> Statuses], NEW had \in SUBSET Conns,
           CloseNext(x, s, todo, st, had)
    PROVE  /\ connections' \in [Keys -> Conns \cup {NoConn}]
           /\ status' \in [Conns -> Statuses]
           /\ closer' \in [Closers -> CloserRecords]
<1>1. closer \in [Closers -> CloserRecords]
  BY DEF TypeOK
<1>2. CASE todo = {}
  <2>1. Progress("done", s, {}, NoConn, had) \in CloserRecords
    BY ProgressType DEF CloserStates
  <2>2. QED
    BY <1>1, <1>2, <2>1 DEF CloseNext, TypeOK
<1>3. CASE todo # {}
  <2>1. PICK e \in todo :
          /\ connections' = [connections EXCEPT ![e[1]] = NoConn]
          /\ status' = BeginClose(st, {e[2]})
          /\ closer' = [closer EXCEPT ![x] = Progress("pattern", s, todo \ {e}, e[2], had)]
    BY <1>3 DEF CloseNext
  <2>2. e[1] \in Keys /\ e[2] \in Conns /\ todo \ {e} \in SUBSET Entries
    BY DEF Entries
  <2>3. status' \in [Conns -> Statuses]
    BY <2>1, BeginCloseType
  <2>4. Progress("pattern", s, todo \ {e}, e[2], had) \in CloserRecords
    BY <2>2, ProgressType DEF CloserStates
  <2>5. QED
    BY <1>1, <2>1, <2>2, <2>3, <2>4 DEF TypeOK
<1>4. QED
  BY <1>2, <1>3

(* Once a call has started it has a key.                                   *)
Keyed == \A r \in Calls : pc[r] # "idle" => key[r] \in Keys

LEMMA JoinType ==
    ASSUME TypeOK, NEW r \in Calls, NEW k \in Keys, NEW b, JoinOrConnect(r, k, b)
    PROVE  /\ pc' \in [Calls -> CallStates]
           /\ joined' \in [Calls -> Calls \cup {NoCall}]
           /\ pending' \in [Keys -> Calls \cup {NoCall}]
           /\ attempt' \in [Calls -> AttemptStates]
           /\ \A q \in Calls : q # r => pc'[q] = pc[q]
<1>1. CASE UNCHANGED <<pending, attempt>> /\ joined' = [joined EXCEPT ![r] = pending[k]]
           /\ pc' = [pc EXCEPT ![r] = "waiting"]
  BY <1>1 DEF TypeOK, CallStates
<1>2. CASE UNCHANGED <<pending, attempt, joined>> /\ pc' = [pc EXCEPT ![r] = "threw"]
  BY <1>2 DEF TypeOK, CallStates
<1>3. CASE /\ pc' = [pc EXCEPT ![r] = "waiting"]
           /\ joined' = [joined EXCEPT ![r] = r]
           /\ pending' = [pending EXCEPT ![k] = r]
           /\ attempt' = [attempt EXCEPT ![r] = "gate"]
  BY <1>3 DEF TypeOK, CallStates, AttemptStates
<1>4. QED
  BY <1>1, <1>2, <1>3, JoinSummary

LEMMA CallType ==
    ASSUME TypeOK, Keyed, NEW r \in Calls, CallStep(r)
    PROVE  TypeOK' /\ Keyed'
<1>1. ASSUME NEW k \in Keys, NEW b \in Backends, GetConnection(r, k, b)
      PROVE  TypeOK' /\ Keyed'
  <2>1. /\ key' = [key EXCEPT ![r] = k]
        /\ backend' \in [Calls -> Backends \cup {"absent"}]
        /\ UNCHANGED <<connections, status, closer>>
    BY <1>1 DEF GetConnection, TypeOK
  <2>2. CASE connections[k] # NoConn
    BY <1>1, <2>1, <2>2 DEF GetConnection, TypeOK, CallStates, Keyed
  <2>3. CASE connections[k] = NoConn
    <3>1. JoinOrConnect(r, k, b) /\ UNCHANGED conn
      BY <1>1, <2>3 DEF GetConnection
    <3>2. QED
      BY <2>1, <3>1, JoinType DEF TypeOK, Keyed
  <2>4. QED
    BY <2>2, <2>3
<1>2. CASE HealthOk(r)
  BY <1>2 DEF HealthOk, TypeOK, CallStates, Keyed
<1>3. CASE HealthFail(r)
  <2>1. status' \in [Conns -> Statuses]
    BY <1>3, BeginCloseType DEF HealthFail, TypeOK
  <2>2. QED
    BY <1>3, <2>1 DEF HealthFail, TypeOK, CallStates, Keyed
<1>4. CASE StaleClosed(r)
  <2>1. /\ conn' \in [Calls -> Conns \cup {NoConn}]
        /\ UNCHANGED <<connections, key, backend, closer>>
    BY <1>4 DEF StaleClosed, TypeOK
  <2>2. status' \in [Conns -> Statuses]
    <3>1. PICK ended \in {"closing", "closed"} :
            status' = [status EXCEPT ![conn[r]] = IF @ = "closed" THEN @ ELSE ended]
      BY <1>4 DEF StaleClosed
    <3>2. QED
      BY <3>1 DEF TypeOK, Statuses
  <2>3. key[r] \in Keys /\ JoinOrConnect(r, key[r], backend[r])
    BY <1>4 DEF StaleClosed, Keyed
  <2>4. QED
    BY <2>1, <2>2, <2>3, JoinType DEF TypeOK, Keyed
<1>5. QED
  BY <1>1, <1>2, <1>3, <1>4 DEF CallStep

LEMMA AttemptType ==
    ASSUME TypeOK, Keyed, NEW r \in Calls, AttemptStep(r)
    PROVE  TypeOK' /\ Keyed'
<1>1. closer' = closer /\ status' \in [Conns -> Statuses]
  BY AttemptSummary DEF TypeOK, Statuses, Conns, Legs
<1>2. CASE Reject(r)
  BY <1>1, <1>2 DEF Reject, Awaits, TypeOK, AttemptStates, CallStates, Keyed
<1>3. ASSUME NEW phase \in InFlight, Proceed(r, phase)
      PROVE  TypeOK' /\ Keyed'
  BY <1>1, <1>3 DEF Proceed, TypeOK, AttemptStates, InFlight, Keyed
<1>4. ASSUME NEW leg \in Legs, Register(r, <<r, leg>>)
      PROVE  TypeOK' /\ Keyed'
  <2>1. <<r, leg>> \in Conns
    BY DEF Conns
  <2>2. QED
    BY <1>1, <1>4, <2>1 DEF Register, Resolve, Awaits, TypeOK, AttemptStates, CallStates, Keyed
<1>5. QED
  BY AttemptSummary, <1>2, <1>3, <1>4

LEMMA CloserType ==
    ASSUME TypeOK, Keyed, NEW x \in Closers, CloserStart(x) \/ CloserStep(x)
    PROVE  TypeOK' /\ Keyed'
<1> DEFINE PoolType == /\ connections' \in [Keys -> Conns \cup {NoConn}]
                       /\ status' \in [Conns -> Statuses]
                       /\ closer' \in [Closers -> CloserRecords]
<1> SUFFICES PoolType
  BY CloserSummary DEF TypeOK, Keyed
<1>1. ASSUME NEW s \in Keys, CloseService(x, s)
      PROVE  PoolType
  <2>1. CASE connections[s] # NoConn
    <3>1. Progress("exact", s, {}, connections[s], Evicts(s)) \in CloserRecords
      BY ProgressType, ScopedEntriesType DEF TypeOK, CloserStates
    <3>2. QED
      BY <1>1, <2>1, <3>1, BeginCloseType DEF CloseService, TypeOK
  <2>2. CASE connections[s] = NoConn
    BY <1>1, <2>2, CloseNextType, ScopedEntriesType DEF CloseService, TypeOK
  <2>3. QED
    BY <2>1, <2>2
<1>2. ASSUME NEW s \in Keys, CloseServicePattern(x, s)
      PROVE  PoolType
  <2>1. {e[2] : e \in ScopedEntries(s)} \in SUBSET Conns
    BY ScopedEntriesType DEF Entries
  <2>2. QED
    BY <1>2, <2>1, CloseNextType, ScopedEntriesType DEF CloseServicePattern, TypeOK
<1>3. CASE CloseAll(x)
  <2>1. AllEntries \in SUBSET Entries /\ {e[2] : e \in AllEntries} \in SUBSET Conns
    BY DEF AllEntries, Entries, TypeOK
  <2>2. Progress(IF AllEntries = {} THEN "done" ELSE "all", NoKey, AllEntries, NoConn,
                 {e[2] : e \in AllEntries}) \in CloserRecords
    BY <2>1, ProgressType DEF CloserStates
  <2>3. QED
    BY <1>3, <2>2, BeginCloseType DEF CloseAll, TypeOK
<1>4. CASE CloserStep(x)
  <2>1. /\ closer[x].target \in Keys \cup {NoKey} /\ closer[x].todo \in SUBSET Entries
        /\ closer[x].now \in Conns \cup {NoConn} /\ closer[x].had \in SUBSET Conns
    BY DEF TypeOK, CloserRecords
  <2>2. \A ended \in {"closing", "closed"} : AfterClose(x, ended) \in [Conns -> Statuses]
    BY DEF AfterClose, TypeOK, Statuses
  <2>3. CASE ExactClosed(x)
    <3>1. CloseNext(x, closer[x].target, ScopedEntries(closer[x].target),
                    AfterClose(x, "closed"), closer[x].had)
      BY <2>3 DEF ExactClosed
    <3>2. QED
      BY <2>1, <2>2, <3>1, ScopedEntriesType, CloseNextType
  <2>4. CASE ExactCloseThrew(x)
    <3>1. Progress("threw", closer[x].target, {}, NoConn, closer[x].had) \in CloserRecords
      BY <2>1, ProgressType DEF CloserStates
    <3>2. QED
      BY <2>4, <3>1 DEF ExactCloseThrew, TypeOK
  <2>5. CASE ScopedClosed(x)
    <3>1. PICK ended \in {"closing", "closed"} :
            CloseNext(x, closer[x].target, closer[x].todo, AfterClose(x, ended), closer[x].had)
      BY <2>5 DEF ScopedClosed
    <3>2. QED
      BY <2>1, <2>2, <3>1, CloseNextType
  <2>6. CASE OneOfAllClosed(x)
    <3>1. PICK e \in closer[x].todo, ended \in {"closing", "closed"} :
            /\ status' = [status EXCEPT ![e[2]] = IF @ = "closed" THEN @ ELSE ended]
            /\ closer' = [closer EXCEPT ![x] =
                 Progress(IF closer[x].todo = {e} THEN "done" ELSE "all", NoKey,
                          closer[x].todo \ {e}, NoConn, closer[x].had)]
      BY <2>6 DEF OneOfAllClosed
    <3>2. Progress(IF closer[x].todo = {e} THEN "done" ELSE "all", NoKey,
                   closer[x].todo \ {e}, NoConn, closer[x].had) \in CloserRecords
      BY <2>1, ProgressType DEF CloserStates
    <3>3. status' \in [Conns -> Statuses]
      BY <3>1 DEF TypeOK, Statuses
    <3>4. QED
      BY <2>6, <3>1, <3>2, <3>3 DEF OneOfAllClosed, TypeOK
  <2>7. QED
    BY <1>4, <2>3, <2>4, <2>5, <2>6 DEF CloserStep
<1>5. QED
  BY <1>1, <1>2, <1>3, <1>4 DEF CloserStart

TypeInv == TypeOK /\ Keyed

LEMMA TypeStep ==
    ASSUME TypeInv, [Next]_vars
    PROVE  TypeInv'
<1>1. CASE UNCHANGED vars
  BY <1>1 DEF TypeInv, TypeOK, Keyed, vars
<1>2. CASE Next
  BY <1>2, CallType, AttemptType, CloserType DEF Next, TypeInv
<1>3. QED
  BY <1>1, <1>2

LEMMA TypeInit == Init => TypeInv
<1> SUFFICES ASSUME Init PROVE TypeInv
  OBVIOUS
<1>1. Idle \in CloserRecords
  BY ProgressType DEF Idle, CloserStates
<1>2. QED
  BY <1>1 DEF Init, TypeInv, TypeOK, Keyed, Statuses, AttemptStates, CallStates

(* The pool's variables have the types the code gives them, in every        *)
(* reachable state and for every number of concurrent calls.                *)
THEOREM TypeCorrect == Spec => []TypeOK
<1>1. TypeInv => TypeOK
  BY DEF TypeInv
<1>2. QED
  BY <1>1, TypeInit, TypeStep, PTL DEF Spec

(***************************************************************************)
(* One attempt per key.                                                    *)
(***************************************************************************)

(* A call that has not come to the pending check has no attempt.           *)
Fresh == \A r \in Calls :
    pc[r] \in {"idle", "health", "closingStale"} => attempt[r] = "none"

(* A waiting call waits for an attempt made for its own key.               *)
Joiners == \A w \in Calls : pc[w] = "waiting" =>
    joined[w] \in Calls /\ attempt[joined[w]] # "none" /\ key[joined[w]] = key[w]

AttemptInv == Fresh /\ PendingExact /\ Joiners

LEMMA CallKeepsAttempts ==
    ASSUME TypeInv, AttemptInv, NEW r \in Calls, CallStep(r)
    PROVE  AttemptInv'
<1> USE DEF TypeInv
<1>1. ASSUME NEW k \in Keys, NEW b, JoinOrConnect(r, k, b), key' = [key EXCEPT ![r] = k],
             attempt[r] = "none", pc[r] # "waiting"
      PROVE  AttemptInv'
  <2>1. \A q \in Calls : q # r => key'[q] = key[q]
    BY <1>1 DEF TypeOK
  <2>2. key'[r] = k
    BY <1>1 DEF TypeOK
  <2>3. CASE /\ pending[k] # NoCall
             /\ pc' = [pc EXCEPT ![r] = "waiting"]
             /\ joined' = [joined EXCEPT ![r] = pending[k]]
             /\ UNCHANGED <<pending, attempt>>
    <3>1. Fresh'
      BY <2>3 DEF Fresh, AttemptInv, TypeOK
    <3>2. PendingExact'
      BY <1>1, <2>1, <2>3 DEF PendingExact, AttemptInv, TypeOK, InFlight
    <3>3. pending[k] \in Calls /\ attempt[pending[k]] # "none" /\ key[pending[k]] = k
      BY <2>3 DEF PendingExact, AttemptInv, TypeOK, InFlight
    <3>4. Joiners'
      BY <1>1, <2>1, <2>2, <2>3, <3>3 DEF Joiners, AttemptInv, TypeOK
    <3>5. QED
      BY <3>1, <3>2, <3>4 DEF AttemptInv
  <2>4. CASE /\ pc' = [pc EXCEPT ![r] = "threw"]
             /\ UNCHANGED <<pending, attempt, joined>>
    <3>1. Fresh'
      BY <2>4 DEF Fresh, AttemptInv, TypeOK
    <3>2. PendingExact'
      BY <1>1, <2>1, <2>4 DEF PendingExact, AttemptInv, TypeOK, InFlight
    <3>3. Joiners'
      BY <1>1, <2>1, <2>4 DEF Joiners, AttemptInv, TypeOK
    <3>4. QED
      BY <3>1, <3>2, <3>3 DEF AttemptInv
  <2>5. CASE /\ pending[k] = NoCall
             /\ pc' = [pc EXCEPT ![r] = "waiting"]
             /\ joined' = [joined EXCEPT ![r] = r]
             /\ pending' = [pending EXCEPT ![k] = r]
             /\ attempt' = [attempt EXCEPT ![r] = "gate"]
    <3>1. Fresh'
      BY <2>5 DEF Fresh, AttemptInv, TypeOK
    <3>2. PendingExact'
      <4> SUFFICES ASSUME NEW q \in Calls, NEW j \in Keys
                   PROVE  pending'[j] = q <=> (attempt'[q] \in InFlight /\ key'[q] = j)
        BY DEF PendingExact
      <4>1. CASE q = r
        BY <1>1, <2>2, <2>5, <4>1 DEF PendingExact, AttemptInv, TypeOK, InFlight
      <4>2. CASE q # r
        BY <1>1, <2>1, <2>5, <4>2, NoCallAssumption
           DEF PendingExact, AttemptInv, TypeOK, InFlight
      <4>3. QED
        BY <4>1, <4>2
    <3>3. Joiners'
      BY <1>1, <2>1, <2>2, <2>5 DEF Joiners, AttemptInv, TypeOK
    <3>4. QED
      BY <3>1, <3>2, <3>3 DEF AttemptInv
  <2>6. QED
    BY <1>1, <2>3, <2>4, <2>5, JoinSummary
<1>2. ASSUME NEW k \in Keys, NEW b \in Backends, GetConnection(r, k, b)
      PROVE  AttemptInv'
  <2>1. attempt[r] = "none" /\ pc[r] = "idle" /\ key' = [key EXCEPT ![r] = k]
    BY <1>2 DEF GetConnection, Fresh, AttemptInv
  <2>2. CASE connections[k] # NoConn
    <3>1. pc' = [pc EXCEPT ![r] = "health"] /\ UNCHANGED <<pending, attempt, joined>>
      BY <1>2, <2>2 DEF GetConnection
    <3>2. Fresh'
      BY <2>1, <3>1 DEF Fresh, AttemptInv, TypeOK
    <3>3. PendingExact'
      BY <2>1, <3>1 DEF PendingExact, AttemptInv, TypeOK, InFlight
    <3>4. Joiners'
      BY <2>1, <3>1 DEF Joiners, AttemptInv, TypeOK
    <3>5. QED
      BY <3>2, <3>3, <3>4 DEF AttemptInv
  <2>3. CASE connections[k] = NoConn
    BY <1>1, <1>2, <2>1, <2>3 DEF GetConnection
  <2>4. QED
    BY <2>2, <2>3
<1>3. CASE HealthOk(r)
  BY <1>3 DEF HealthOk, AttemptInv, Fresh, PendingExact, Joiners, TypeOK
<1>4. CASE HealthFail(r)
  BY <1>4 DEF HealthFail, AttemptInv, Fresh, PendingExact, Joiners, TypeOK
<1>5. CASE StaleClosed(r)
  <2>1. attempt[r] = "none" /\ pc[r] = "closingStale" /\ key[r] \in Keys
    BY <1>5 DEF StaleClosed, Fresh, AttemptInv, Keyed
  <2>2. JoinOrConnect(r, key[r], backend[r]) /\ key' = [key EXCEPT ![r] = key[r]]
    BY <1>5 DEF StaleClosed, TypeOK
  <2>3. QED
    BY <1>1, <2>1, <2>2
<1>6. QED
  BY <1>2, <1>3, <1>4, <1>5 DEF CallStep

LEMMA AttemptKeepsAttempts ==
    ASSUME TypeInv, AttemptInv, NEW r \in Calls, AttemptStep(r)
    PROVE  AttemptInv'
<1> USE DEF TypeInv
<1>1. attempt[r] \in InFlight
  BY AttemptSummary
<1>2. key[r] \in Keys /\ pending[key[r]] = r
  BY <1>1 DEF AttemptInv, Fresh, PendingExact, Keyed, InFlight, TypeOK, CallStates
<1>3. ASSUME NEW phase \in {"connected", "failed"},
             attempt' = [attempt EXCEPT ![r] = phase],
             pending' = [pending EXCEPT ![key[r]] = NoCall],
             UNCHANGED <<key, joined>>,
             NEW ended \in {"returned", "threw"},
             pc' = [w \in Calls |-> IF Awaits(w, r) THEN ended ELSE pc[w]]
      PROVE  AttemptInv'
  <2>1. Fresh'
    BY <1>1, <1>3 DEF Fresh, AttemptInv, TypeOK, InFlight, Awaits
  <2>2. PendingExact'
    <3> SUFFICES ASSUME NEW q \in Calls, NEW j \in Keys
                 PROVE  pending'[j] = q <=> (attempt'[q] \in InFlight /\ key'[q] = j)
      BY DEF PendingExact
    <3>1. CASE q = r
      BY <1>2, <1>3, <3>1, NoCallAssumption DEF PendingExact, AttemptInv, TypeOK, InFlight
    <3>2. CASE q # r
      BY <1>2, <1>3, <3>2, NoCallAssumption DEF PendingExact, AttemptInv, TypeOK, InFlight
    <3>3. QED
      BY <3>1, <3>2
  <2>3. Joiners'
    BY <1>3 DEF Joiners, AttemptInv, TypeOK, Awaits
  <2>4. QED
    BY <2>1, <2>2, <2>3 DEF AttemptInv
<1>4. CASE Reject(r)
  BY <1>3, <1>4 DEF Reject
<1>5. ASSUME NEW leg \in Legs, Register(r, <<r, leg>>)
      PROVE  AttemptInv'
  BY <1>3, <1>5 DEF Register, Resolve
<1>6. ASSUME NEW phase \in InFlight, Proceed(r, phase)
      PROVE  AttemptInv'
  <2>1. Fresh'
    BY <1>1, <1>6 DEF Proceed, Fresh, AttemptInv, TypeOK, InFlight
  <2>2. PendingExact'
    BY <1>1, <1>6 DEF Proceed, PendingExact, AttemptInv, TypeOK
  <2>3. Joiners'
    BY <1>6 DEF Proceed, Joiners, AttemptInv, TypeOK, InFlight
  <2>4. QED
    BY <2>1, <2>2, <2>3 DEF AttemptInv
<1>7. QED
  BY <1>4, <1>5, <1>6, AttemptSummary

LEMMA AttemptInvStep ==
    ASSUME TypeInv, AttemptInv, [Next]_vars
    PROVE  AttemptInv'
<1>1. CASE UNCHANGED vars
  BY <1>1 DEF AttemptInv, Fresh, PendingExact, Joiners, vars
<1>2. ASSUME NEW x \in Closers, CloserStart(x) \/ CloserStep(x)
      PROVE  AttemptInv'
  BY <1>2, CloserSummary DEF AttemptInv, Fresh, PendingExact, Joiners
<1>3. QED
  BY <1>1, <1>2, CallKeepsAttempts, AttemptKeepsAttempts DEF Next

LEMMA AttemptInvInit == Init => AttemptInv
BY NoCallAssumption DEF Init, AttemptInv, Fresh, PendingExact, Joiners, InFlight

(* `pending' holds, for every key, exactly the attempt under way for it: no *)
(* duplicate spawn and no poisoned key, for any number of callers.          *)
THEOREM OneAttemptPerKey == Spec => []PendingExact
<1>1. TypeInv /\ AttemptInv => PendingExact
  BY DEF AttemptInv
<1>2. Init => TypeInv /\ AttemptInv
  BY TypeInit, AttemptInvInit
<1>3. TypeInv /\ AttemptInv /\ [Next]_vars => (TypeInv /\ AttemptInv)'
  BY TypeStep, AttemptInvStep
<1>4. QED
  BY <1>1, <1>2, <1>3, PTL DEF Spec

(***************************************************************************)
(* Connections stay under the key they were made for.                      *)
(***************************************************************************)

(* c was connected for key k.  It was so for good.                         *)
Made(c, k) == c \in Conns /\ attempt[c[1]] = "connected" /\ key[c[1]] = k

Isolated ==
    /\ \A k \in Keys : connections[k] # NoConn => Made(connections[k], k)
    /\ \A r \in Calls : conn[r] # NoConn => Made(conn[r], key[r])
    /\ \A r \in Calls : pc[r] = "idle" => conn[r] = NoConn
    /\ \A x \in Closers : \A e \in closer[x].todo : Made(e[2], e[1])
    /\ \A x \in Closers : closer[x].now # NoConn => \E k \in Keys : Made(closer[x].now, k)

(* What a close operation may touch: its snapshot and the pool.            *)
InReach(x) == closer[x].todo \cup AllEntries

LEMMA CloseNextSummary ==
    ASSUME TypeInv, NEW x \in Closers, NEW s \in Keys \cup {NoKey},
           NEW todo \in SUBSET InReach(x), NEW st, NEW had, CloseNext(x, s, todo, st, had)
    PROVE  /\ \A k \in Keys : connections'[k] \in {connections[k], NoConn}
           /\ closer'[x].todo \in SUBSET InReach(x)
           /\ closer'[x].now \in {NoConn} \cup {e[2] : e \in InReach(x)}
           /\ \A y \in Closers : y # x => closer'[y] = closer[y]
<1>1. CASE todo = {}
  BY <1>1 DEF CloseNext, TypeInv, TypeOK, Progress
<1>2. CASE todo # {}
  <2>1. PICK e \in todo :
          /\ connections' = [connections EXCEPT ![e[1]] = NoConn]
          /\ closer' = [closer EXCEPT ![x] = Progress("pattern", s, todo \ {e}, e[2], had)]
    BY <1>2 DEF CloseNext
  <2>2. QED
    BY <2>1 DEF TypeInv, TypeOK, Progress
<1>3. QED
  BY <1>1, <1>2

LEMMA CloserReach ==
    ASSUME TypeInv, NEW x \in Closers, CloserStart(x) \/ CloserStep(x)
    PROVE  /\ \A k \in Keys : connections'[k] \in {connections[k], NoConn}
           /\ closer'[x].todo \in SUBSET InReach(x)
           /\ closer'[x].now \in {NoConn} \cup {e[2] : e \in InReach(x)}
           /\ \A y \in Closers : y # x => closer'[y] = closer[y]
<1> DEFINE Reach == /\ \A k \in Keys : connections'[k] \in {connections[k], NoConn}
                    /\ closer'[x].todo \in SUBSET InReach(x)
                    /\ closer'[x].now \in {NoConn} \cup {e[2] : e \in InReach(x)}
                    /\ \A y \in Closers : y # x => closer'[y] = closer[y]
<1> SUFFICES Reach
  OBVIOUS
<1>1. \A s : ScopedEntries(s) \in SUBSET InReach(x)
  BY DEF ScopedEntries, AllEntries, InReach
<1>2. closer[x].target \in Keys \cup {NoKey}
  BY DEF TypeInv, TypeOK, CloserRecords
<1>3. ASSUME NEW s \in Keys, CloseService(x, s)
      PROVE  Reach
  <2>1. CASE connections[s] # NoConn
    <3>1. /\ connections' = [connections EXCEPT ![s] = NoConn]
          /\ closer' = [closer EXCEPT ![x] =
               Progress("exact", s, {}, connections[s], Evicts(s))]
      BY <1>3, <2>1 DEF CloseService
    <3>2. <<s, connections[s]>> \in InReach(x)
      BY <2>1 DEF InReach, AllEntries
    <3>3. QED
      BY <3>1, <3>2 DEF TypeInv, TypeOK, Progress
  <2>2. CASE connections[s] = NoConn
    BY <1>1, <1>3, <2>2, CloseNextSummary DEF CloseService
  <2>3. QED
    BY <2>1, <2>2
<1>4. ASSUME NEW s \in Keys, CloseServicePattern(x, s)
      PROVE  Reach
  BY <1>1, <1>4, CloseNextSummary DEF CloseServicePattern
<1>5. CASE CloseAll(x)
  BY <1>5 DEF CloseAll, InReach, TypeInv, TypeOK, Progress
<1>6. CASE ExactClosed(x)
  BY <1>1, <1>2, <1>6, CloseNextSummary DEF ExactClosed
<1>7. CASE ExactCloseThrew(x)
  BY <1>7 DEF ExactCloseThrew, TypeInv, TypeOK, Progress
<1>8. CASE ScopedClosed(x)
  <2>1. closer[x].todo \in SUBSET InReach(x)
    BY DEF InReach
  <2>2. QED
    BY <1>2, <1>8, <2>1, CloseNextSummary DEF ScopedClosed
<1>9. CASE OneOfAllClosed(x)
  BY <1>9 DEF OneOfAllClosed, InReach, TypeInv, TypeOK, Progress
<1>10. QED
  BY <1>3, <1>4, <1>5, <1>6, <1>7, <1>8, <1>9 DEF CloserStart, CloserStep

(* The key of a started call and a connected attempt are final.            *)
LEMMA MadeForGood ==
    ASSUME TypeInv, AttemptInv, [Next]_vars, NEW c, NEW k, Made(c, k)
    PROVE  Made(c, k)'
<1> DEFINE q == c[1]
<1>1. q \in Calls /\ attempt[q] = "connected" /\ key[q] = k /\ pc[q] # "idle"
  BY DEF Made, Conns, AttemptInv, Fresh
<1>2. ASSUME NEW r \in Calls, NEW j \in Keys, NEW b, JoinOrConnect(r, j, b),
             attempt[r] = "none"
      PROVE  attempt'[q] = attempt[q]
  BY <1>1, <1>2, JoinSummary DEF TypeInv, TypeOK
<1>3. ASSUME NEW r \in Calls, CallStep(r)
      PROVE  attempt'[q] = "connected" /\ key'[q] = k
  <2>1. ASSUME NEW j \in Keys, NEW b \in Backends, GetConnection(r, j, b)
        PROVE  attempt'[q] = "connected" /\ key'[q] = k
    <3>1. attempt[r] = "none" /\ r # q /\ key' = [key EXCEPT ![r] = j]
      BY <1>1, <2>1 DEF GetConnection, AttemptInv, Fresh
    <3>2. attempt'[q] = attempt[q]
      BY <1>2, <2>1, <3>1 DEF GetConnection
    <3>3. QED
      BY <1>1, <3>1, <3>2 DEF TypeInv, TypeOK
  <2>2. CASE HealthOk(r) \/ HealthFail(r)
    BY <1>1, <2>2 DEF HealthOk, HealthFail
  <2>3. CASE StaleClosed(r)
    <3>1. attempt[r] = "none" /\ key[r] \in Keys /\ key' = key
      BY <2>3 DEF StaleClosed, AttemptInv, Fresh, TypeInv, Keyed
    <3>2. QED
      BY <1>1, <1>2, <2>3, <3>1 DEF StaleClosed
  <2>4. QED
    BY <1>3, <2>1, <2>2, <2>3 DEF CallStep
<1>4. ASSUME NEW r \in Calls, AttemptStep(r)
      PROVE  attempt'[q] = "connected" /\ key'[q] = k
  <2>1. r # q
    BY <1>1, <1>4, AttemptSummary DEF InFlight
  <2>2. key' = key /\ \E phase : attempt' = [attempt EXCEPT ![r] = phase]
    <3>1. CASE Reject(r)
      BY <3>1 DEF Reject
    <3>2. CASE \E phase \in InFlight : Proceed(r, phase)
      BY <3>2 DEF Proceed
    <3>3. CASE \E leg \in Legs : Register(r, <<r, leg>>)
      BY <3>3 DEF Register, Resolve
    <3>4. QED
      BY <1>4, <3>1, <3>2, <3>3, AttemptSummary
  <2>3. QED
    BY <1>1, <2>1, <2>2 DEF TypeInv, TypeOK
<1>5. ASSUME NEW x \in Closers, CloserStart(x) \/ CloserStep(x)
      PROVE  attempt'[q] = "connected" /\ key'[q] = k
  BY <1>1, <1>5, CloserSummary
<1>6. ASSUME UNCHANGED vars
      PROVE  attempt'[q] = "connected" /\ key'[q] = k
  BY <1>1, <1>6 DEF vars
<1>7. attempt'[q] = "connected" /\ key'[q] = k
  BY <1>3, <1>4, <1>5, <1>6 DEF Next
<1>8. c \in Conns
  BY DEF Made
<1>9. QED
  BY <1>7, <1>8 DEF Made, Conns

LEMMA IsolatedStep ==
    ASSUME TypeInv, AttemptInv, Isolated, [Next]_vars
    PROVE  Isolated'
<1> DEFINE Kept(c, k) == c \in Conns /\ attempt'[c[1]] = "connected" /\ key'[c[1]] = k
<1>0. ASSUME NEW c, NEW k, Made(c, k)
      PROVE  Kept(c, k)
  <2>1. Made(c, k)'
    BY <1>0, MadeForGood
  <2>2. QED
    BY <2>1 DEF Made, Kept
<1> HIDE DEF Kept
<1>1. CASE UNCHANGED vars
  BY <1>0, <1>1 DEF vars, Isolated, Made, Kept, Conns
<1>2. ASSUME NEW r \in Calls, CallStep(r)
      PROVE  Isolated'
  <2>1. \A k \in Keys : connections'[k] \in {connections[k], NoConn}
    BY <1>2 DEF CallStep, GetConnection, HealthOk, HealthFail, StaleClosed, TypeInv, TypeOK
  <2>2. closer' = closer
    BY <1>2 DEF CallStep, GetConnection, HealthOk, HealthFail, StaleClosed
  <2>3. /\ \A w \in Calls : conn'[w] # NoConn => Kept(conn'[w], key'[w])
        /\ \A w \in Calls : pc'[w] = "idle" => conn'[w] = NoConn
    <3>1. ASSUME NEW k \in Keys, NEW b \in Backends, GetConnection(r, k, b)
          PROVE  <2>3!:
      <4>1. key' = [key EXCEPT ![r] = k] /\ conn[r] = NoConn
        BY <1>0, <3>1 DEF GetConnection, Isolated
      <4>2. CASE connections[k] # NoConn
        BY <1>0, <3>1, <4>1, <4>2 DEF GetConnection, Isolated, TypeInv, TypeOK
      <4>3. CASE connections[k] = NoConn
        <5>1. conn' = conn /\ JoinOrConnect(r, k, b)
          BY <3>1, <4>3 DEF GetConnection
        <5>2. \A w \in Calls : w # r => pc'[w] = pc[w]
          BY <5>1, JoinType DEF TypeInv
        <5>3. QED
          BY <1>0, <4>1, <5>1, <5>2 DEF Isolated, TypeInv, TypeOK
      <4>4. QED
        BY <4>2, <4>3
    <3>2. CASE HealthOk(r) \/ HealthFail(r)
      BY <1>0, <3>2 DEF HealthOk, HealthFail, Isolated, TypeInv, TypeOK
    <3>3. CASE StaleClosed(r)
      <4>1. conn' = [conn EXCEPT ![r] = NoConn] /\ key' = key
        BY <3>3 DEF StaleClosed
      <4>2. key[r] \in Keys /\ JoinOrConnect(r, key[r], backend[r])
        BY <3>3 DEF StaleClosed, TypeInv, Keyed
      <4>3. \A w \in Calls : w # r => pc'[w] = pc[w]
        BY <4>2, JoinType DEF TypeInv
      <4>4. QED
        BY <1>0, <4>1, <4>3 DEF Isolated, TypeInv, TypeOK
    <3>4. QED
      BY <1>2, <3>1, <3>2, <3>3 DEF CallStep
  <2>4. QED
    BY <1>0, <2>1, <2>2, <2>3 DEF Isolated, Made, Kept
<1>3. ASSUME NEW r \in Calls, AttemptStep(r)
      PROVE  Isolated'
  <2>1. closer' = closer /\ attempt[r] \in InFlight
    BY <1>3, AttemptSummary
  <2>2. CASE Reject(r)
    BY <1>0, <2>1, <2>2 DEF Reject, Isolated, Awaits, TypeInv, TypeOK, Made, Kept
  <2>3. ASSUME NEW phase \in InFlight, Proceed(r, phase)
        PROVE  Isolated'
    BY <1>0, <2>1, <2>3 DEF Proceed, Isolated, Made, Kept
  <2>4. ASSUME NEW leg \in Legs, Register(r, <<r, leg>>)
        PROVE  Isolated'
    <3>1. key' = key /\ Kept(<<r, leg>>, key[r])
      BY <2>4 DEF Register, Resolve, Kept, Conns, TypeInv, TypeOK
    <3>2. \A w \in Calls : Awaits(w, r) => key[w] = key[r]
      BY DEF Awaits, AttemptInv, Joiners
    <3>3. key[r] \in Keys
      BY <2>1 DEF AttemptInv, Fresh, InFlight, TypeInv, Keyed
    <3>4. \A k \in Keys : connections'[k] # NoConn => Kept(connections'[k], k)
      BY <1>0, <2>4, <3>1, <3>3 DEF Register, Isolated, TypeInv, TypeOK
    <3>5. \A w \in Calls : conn'[w] # NoConn => Kept(conn'[w], key'[w])
      BY <1>0, <2>4, <3>1, <3>2 DEF Register, Resolve, Isolated
    <3>6. \A w \in Calls : pc'[w] = "idle" => conn'[w] = NoConn
      BY <1>0, <2>4 DEF Register, Resolve, Awaits, Isolated
    <3>7. QED
      BY <1>0, <2>1, <3>4, <3>5, <3>6 DEF Isolated, Made, Kept
  <2>5. QED
    BY <1>3, <2>2, <2>3, <2>4, AttemptSummary
<1>4. ASSUME NEW x \in Closers, CloserStart(x) \/ CloserStep(x)
      PROVE  Isolated'
  <2>1. UNCHANGED <<pc, key, conn>>
    BY <1>4, CloserSummary
  <2>2. \A e \in InReach(x) : Made(e[2], e[1]) /\ e[1] \in Keys
    BY DEF InReach, AllEntries, Isolated, TypeInv, TypeOK, CloserRecords, Entries
  <2>3. \A k \in Keys : connections'[k] # NoConn => Kept(connections'[k], k)
    BY <1>0, <1>4, CloserReach DEF Isolated
  <2>4. \A y \in Closers : \A e \in closer'[y].todo : Kept(e[2], e[1])
    BY <1>0, <1>4, <2>2, CloserReach DEF Isolated
  <2>5. \A y \in Closers : closer'[y].now # NoConn => \E k \in Keys : Kept(closer'[y].now, k)
    BY <1>0, <1>4, <2>2, CloserReach DEF Isolated
  <2>6. QED
    BY <1>0, <2>1, <2>3, <2>4, <2>5 DEF Isolated, Made, Kept
<1>5. QED
  BY <1>1, <1>2, <1>3, <1>4 DEF Next

(* A pool key stands for one user's credentials.  No key ever holds, and no *)
(* call is ever handed, a connection that was made for another key,         *)
(* whatever is closed or reconnected in between.                            *)
THEOREM KeysIsolated == Spec => []KeyIsolation
<1>1. Isolated => KeyIsolation
  BY DEF Isolated, KeyIsolation, Made
<1>2. Init => Isolated
  BY DEF Init, Isolated, Idle, Progress
<1>3. TypeInv /\ AttemptInv /\ Isolated /\ [Next]_vars => (TypeInv /\ AttemptInv /\ Isolated)'
  BY TypeStep, AttemptInvStep, IsolatedStep
<1>4. QED
  BY <1>1, <1>2, <1>3, TypeInit, AttemptInvInit, PTL DEF Spec

(***************************************************************************)
(* The pool serves open connections only.                                  *)
(***************************************************************************)

(* Whatever is being closed has left the pool before.                      *)
Shut ==
    /\ PooledIsOpen
    /\ \A r \in Calls : attempt[r] = "recordSuccess" => status[<<r, "primary">>] = "open"
    /\ \A r \in Calls :
         pc[r] = "closingStale" /\ conn[r] # NoConn => status[conn[r]] # "open"
    /\ \A x \in Closers : closer[x].now # NoConn => status[closer[x].now] # "open"
    /\ \A x \in Closers : closer[x].pc = "all" =>
         \A e \in closer[x].todo : status[e[2]] # "open"

(* A step closes connections of settled attempts only, and none it leaves  *)
(* in the pool.                                                            *)
ClosesOnly(C) ==
    /\ \A c \in Conns : IF c \in C THEN status'[c] # "open" ELSE status'[c] = status[c]
    /\ \A c \in C : attempt[c[1]] = "connected"
    /\ \A c \in C : \A k \in Keys : connections'[k] # c

(* What closer x is left with is being closed.                             *)
LeavesShut(x) ==
    /\ closer'[x].now # NoConn => status'[closer'[x].now] # "open"
    /\ closer'[x].pc = "all" => \A e \in closer'[x].todo : status'[e[2]] # "open"

LEMMA CloseNextCloses ==
    ASSUME TypeInv, Isolated, NEW x \in Closers, NEW s, NEW had,
           NEW todo \in SUBSET InReach(x), NEW st, NEW C \in SUBSET Conns,
           \A c \in Conns : IF c \in C THEN st[c] # "open" ELSE st[c] = status[c],
           \A c \in C : attempt[c[1]] = "connected" /\ \A k \in Keys : connections[k] # c,
           CloseNext(x, s, todo, st, had)
    PROVE  LeavesShut(x) /\ \E D : ClosesOnly(D)
<1>1. CASE todo = {}
  <2>1. /\ closer' = [closer EXCEPT ![x] = Progress("done", s, {}, NoConn, had)]
        /\ status' = st /\ connections' = connections
    BY <1>1 DEF CloseNext
  <2>2. ClosesOnly(C)
    BY <2>1 DEF ClosesOnly
  <2>3. QED
    BY <2>1, <2>2 DEF LeavesShut, Progress, TypeInv, TypeOK
<1>2. CASE todo # {}
  <2>1. PICK e \in todo :
          /\ connections' = [connections EXCEPT ![e[1]] = NoConn]
          /\ status' = BeginClose(st, {e[2]})
          /\ closer' = [closer EXCEPT ![x] = Progress("pattern", s, todo \ {e}, e[2], had)]
    BY <1>2 DEF CloseNext
  <2>2. Made(e[2], e[1]) /\ e[1] \in Keys
    BY DEF InReach, AllEntries, Isolated, TypeInv, TypeOK, CloserRecords, Entries
  <2>3. \A k \in Keys : connections'[k] # e[2]
    BY <2>1, <2>2, NoConnAssumption DEF Isolated, Made, TypeInv, TypeOK
  <2>4. \A c \in C : \A k \in Keys : connections'[k] # c
    BY <2>1, NoConnAssumption DEF TypeInv, TypeOK
  <2>5. ClosesOnly(C \cup {e[2]})
    <3>1. \A c \in Conns : IF c \in C \cup {e[2]} THEN status'[c] # "open"
                                                  ELSE status'[c] = status[c]
      BY <2>1 DEF BeginClose
    <3>2. QED
      BY <2>2, <2>3, <2>4, <3>1 DEF ClosesOnly, Made
  <2>6. LeavesShut(x)
    BY <2>1, <2>2 DEF LeavesShut, Progress, BeginClose, Made, TypeInv, TypeOK
  <2>7. QED
    BY <2>5, <2>6
<1>3. QED
  BY <1>1, <1>2

LEMMA CloserCloses ==
    ASSUME TypeInv, Isolated, Shut, NEW x \in Closers, CloserStart(x) \/ CloserStep(x)
    PROVE  LeavesShut(x) /\ \E D : ClosesOnly(D)
<1> DEFINE Goal == LeavesShut(x) /\ \E D : ClosesOnly(D)
<1>1. \A s : ScopedEntries(s) \in SUBSET InReach(x)
  BY DEF ScopedEntries, AllEntries, InReach
<1>2. ASSUME NEW s, NEW todo \in SUBSET InReach(x), NEW had, CloseNext(x, s, todo, status, had)
      PROVE  Goal
  <2>1. /\ {} \in SUBSET Conns
        /\ \A c \in Conns : IF c \in {} THEN status[c] # "open" ELSE status[c] = status[c]
        /\ \A c \in {} : attempt[c[1]] = "connected" /\ \A k \in Keys : connections[k] # c
    OBVIOUS
  <2>2. QED
    BY <1>2, <2>1, CloseNextCloses
<1>3. ASSUME NEW ended \in {"closing", "closed"}, NEW s, NEW todo \in SUBSET InReach(x), NEW had,
             CloseNext(x, s, todo, AfterClose(x, ended), had)
      PROVE  Goal
  <2> DEFINE C == {closer[x].now} \ {NoConn}
  <2>1. /\ C \in SUBSET Conns
        /\ \A c \in C : attempt[c[1]] = "connected" /\ status[c] # "open"
    BY DEF Isolated, Shut, Made
  <2>2. \A c \in C : \A k \in Keys : connections[k] # c
    BY <2>1, NoConnAssumption DEF Shut, PooledIsOpen
  <2>3. \A c \in Conns : IF c \in C THEN AfterClose(x, ended)[c] # "open"
                                    ELSE AfterClose(x, ended)[c] = status[c]
    BY <2>1, NoConnAssumption DEF AfterClose, TypeInv, TypeOK
  <2> HIDE DEF C
  <2>4. \A c \in C : attempt[c[1]] = "connected" /\ \A k \in Keys : connections[k] # c
    BY <2>1, <2>2
  <2>5. QED
    BY <1>3, <2>1, <2>3, <2>4, CloseNextCloses
<1>4. ASSUME NEW s \in Keys, CloseService(x, s)
      PROVE  Goal
  <2>1. CASE connections[s] # NoConn
    <3>1. /\ connections' = [connections EXCEPT ![s] = NoConn]
          /\ status' = BeginClose(status, {connections[s]})
          /\ closer' = [closer EXCEPT ![x] =
               Progress("exact", s, {}, connections[s], Evicts(s))]
      BY <1>4, <2>1 DEF CloseService
    <3>2. Made(connections[s], s)
      BY <2>1 DEF Isolated
    <3>3. \A k \in Keys : connections'[k] # connections[s]
      BY <2>1, <3>1, <3>2 DEF Isolated, Made, TypeInv, TypeOK
    <3>4. ClosesOnly({connections[s]})
      BY <3>1, <3>2, <3>3 DEF ClosesOnly, BeginClose, Made
    <3>5. LeavesShut(x)
      BY <3>1, <3>2 DEF LeavesShut, Progress, BeginClose, Made, TypeInv, TypeOK
    <3>6. QED
      BY <3>4, <3>5
  <2>2. CASE connections[s] = NoConn
    BY <1>1, <1>2, <1>4, <2>2 DEF CloseService
  <2>3. QED
    BY <2>1, <2>2
<1>5. ASSUME NEW s \in Keys, CloseServicePattern(x, s)
      PROVE  Goal
  BY <1>1, <1>2, <1>5 DEF CloseServicePattern
<1>6. CASE CloseAll(x)
  <2> DEFINE C == {e[2] : e \in AllEntries}
  <2>1. /\ connections' = [k \in Keys |-> NoConn]
        /\ status' = BeginClose(status, C)
        /\ closer'[x].now = NoConn /\ closer'[x].todo = AllEntries
    BY <1>6 DEF CloseAll, Progress, TypeInv, TypeOK
  <2>2. \A e \in AllEntries : Made(e[2], e[1])
    BY DEF AllEntries, Isolated
  <2>3. ClosesOnly(C)
    BY <2>1, <2>2, NoConnAssumption DEF ClosesOnly, BeginClose, Made
  <2>4. LeavesShut(x)
    BY <2>1, <2>2 DEF LeavesShut, BeginClose, Made
  <2>5. QED
    BY <2>3, <2>4
<1>7. CASE ExactClosed(x)
  BY <1>1, <1>3, <1>7 DEF ExactClosed
<1>8. CASE ExactCloseThrew(x)
  <2>1. ClosesOnly({})
    BY <1>8 DEF ExactCloseThrew, ClosesOnly
  <2>2. LeavesShut(x)
    BY <1>8 DEF ExactCloseThrew, LeavesShut, Progress, TypeInv, TypeOK
  <2>3. QED
    BY <2>1, <2>2
<1>9. CASE ScopedClosed(x)
  <2>1. closer[x].todo \in SUBSET InReach(x)
    BY DEF InReach
  <2>2. QED
    BY <1>3, <1>9, <2>1 DEF ScopedClosed
<1>10. CASE OneOfAllClosed(x)
  <2>1. PICK e \in closer[x].todo, ended \in {"closing", "closed"} :
          /\ status' = [status EXCEPT ![e[2]] = IF @ = "closed" THEN @ ELSE ended]
          /\ closer' = [closer EXCEPT ![x] =
               Progress(IF closer[x].todo = {e} THEN "done" ELSE "all", NoKey,
                        closer[x].todo \ {e}, NoConn, closer[x].had)]
    BY <1>10 DEF OneOfAllClosed
  <2>2. connections' = connections /\ closer[x].pc = "all"
    BY <1>10 DEF OneOfAllClosed
  <2>3. Made(e[2], e[1]) /\ status[e[2]] # "open"
    BY <2>2 DEF Isolated, Shut
  <2>4. \A k \in Keys : connections'[k] # e[2]
    BY <2>2, <2>3, NoConnAssumption DEF Shut, PooledIsOpen, Made
  <2>5. ClosesOnly({e[2]})
    BY <2>1, <2>3, <2>4 DEF ClosesOnly, Made, TypeInv, TypeOK
  <2>6. \A d \in closer[x].todo : status'[d[2]] # "open"
    BY <2>1, <2>2, <2>3 DEF Shut, Isolated, Made, TypeInv, TypeOK
  <2>7. LeavesShut(x)
    BY <2>1, <2>6 DEF LeavesShut, Progress, TypeInv, TypeOK
  <2>8. QED
    BY <2>5, <2>7
<1>11. QED
  BY <1>4, <1>5, <1>6, <1>7, <1>8, <1>9, <1>10 DEF CloserStart, CloserStep

(* A close keeps what the other clauses say, for the calls and the attempts *)
(* it leaves alone.                                                        *)
LEMMA ClosesOnlyKeeps ==
    ASSUME TypeInv, Isolated, Shut, NEW C, ClosesOnly(C),
           \A k \in Keys : connections'[k] \in {connections[k], NoConn}
    PROVE  /\ PooledIsOpen'
           /\ \A r \in Calls :
                attempt[r] = "recordSuccess" => status'[<<r, "primary">>] = "open"
           /\ \A c \in Conns : status[c] # "open" => status'[c] # "open"
<1>1. PooledIsOpen'
  <2> SUFFICES ASSUME NEW k \in Keys, connections'[k] # NoConn
               PROVE  status'[connections'[k]] = "open"
    BY DEF PooledIsOpen
  <2>1. connections'[k] = connections[k] /\ connections[k] \in Conns
    BY DEF TypeInv, TypeOK
  <2>2. status[connections[k]] = "open" /\ connections[k] \notin C
    BY <2>1 DEF Shut, PooledIsOpen, ClosesOnly
  <2>3. QED
    BY <2>1, <2>2 DEF ClosesOnly
<1>2. ASSUME NEW r \in Calls, attempt[r] = "recordSuccess"
      PROVE  status'[<<r, "primary">>] = "open"
  <2>1. <<r, "primary">> \in Conns /\ <<r, "primary">>[1] = r
    BY DEF Conns, Legs
  <2>2. <<r, "primary">> \notin C
    BY <1>2, <2>1 DEF ClosesOnly
  <2>3. QED
    BY <1>2, <2>1, <2>2 DEF ClosesOnly, Shut
<1>3. \A c \in Conns : status[c] # "open" => status'[c] # "open"
  BY DEF ClosesOnly
<1>4. QED
  BY <1>1, <1>2, <1>3

LEMMA ShutStep ==
    ASSUME TypeInv, AttemptInv, Isolated, Shut, [Next]_vars
    PROVE  Shut'
<1>1. CASE UNCHANGED vars
  BY <1>1 DEF vars, Shut, PooledIsOpen
<1>2. ASSUME NEW x \in Closers, CloserStart(x) \/ CloserStep(x)
      PROVE  Shut'
  <2>1. UNCHANGED <<attempt, pc, conn>>
    BY <1>2, CloserSummary
  <2>2. LeavesShut(x) /\ \E D : ClosesOnly(D)
    BY <1>2, CloserCloses
  <2>3. PICK C : ClosesOnly(C)
    BY <2>2
  <2>4. /\ \A k \in Keys : connections'[k] \in {connections[k], NoConn}
        /\ \A y \in Closers : y # x => closer'[y] = closer[y]
    BY <1>2, CloserReach
  <2>5. /\ PooledIsOpen'
        /\ \A r \in Calls :
             attempt[r] = "recordSuccess" => status'[<<r, "primary">>] = "open"
        /\ \A c \in Conns : status[c] # "open" => status'[c] # "open"
    BY <2>3, <2>4, ClosesOnlyKeeps
  <2>6. \A r \in Calls :
          pc'[r] = "closingStale" /\ conn'[r] # NoConn => status'[conn'[r]] # "open"
    BY <2>1, <2>5 DEF Shut, TypeInv, TypeOK
  <2>7. \A y \in Closers : closer'[y].now # NoConn => status'[closer'[y].now] # "open"
    BY <2>2, <2>4, <2>5 DEF LeavesShut, Shut, Isolated, Made
  <2>8. \A y \in Closers : closer'[y].pc = "all" =>
          \A e \in closer'[y].todo : status'[e[2]] # "open"
    BY <2>2, <2>4, <2>5 DEF LeavesShut, Shut, Isolated, Made
  <2>9. QED
    BY <2>1, <2>5, <2>6, <2>7, <2>8 DEF Shut
<1>3. ASSUME NEW r \in Calls, NEW C, ClosesOnly(C), closer' = closer,
             \A k \in Keys : connections'[k] \in {connections[k], NoConn},
             \A q \in Calls : attempt'[q] = "recordSuccess" => attempt[q] = "recordSuccess",
             \A q \in Calls : q # r => pc'[q] = pc[q] /\ conn'[q] = conn[q],
             pc'[r] = "closingStale" /\ conn'[r] # NoConn => status'[conn'[r]] # "open"
      PROVE  Shut'
  <2>1. /\ PooledIsOpen'
        /\ \A q \in Calls :
             attempt[q] = "recordSuccess" => status'[<<q, "primary">>] = "open"
        /\ \A c \in Conns : status[c] # "open" => status'[c] # "open"
    BY <1>3, ClosesOnlyKeeps
  <2>2. \A q \in Calls :
          pc'[q] = "closingStale" /\ conn'[q] # NoConn => status'[conn'[q]] # "open"
    BY <1>3, <2>1 DEF Shut, TypeInv, TypeOK
  <2>3. \A x \in Closers : closer'[x].now # NoConn => status'[closer'[x].now] # "open"
    BY <1>3, <2>1 DEF Shut, Isolated, Made
  <2>4. \A x \in Closers : closer'[x].pc = "all" =>
          \A e \in closer'[x].todo : status'[e[2]] # "open"
    BY <1>3, <2>1 DEF Shut, Isolated, Made
  <2>5. QED
    BY <1>3, <2>1, <2>2, <2>3, <2>4 DEF Shut
<1>4. ASSUME NEW r \in Calls, CallStep(r)
      PROVE  Shut'
  <2>1. CASE HealthOk(r) \/ \E k \in Keys, b \in Backends : GetConnection(r, k, b)
    <3>1. ClosesOnly({})
      BY <2>1 DEF HealthOk, GetConnection, ClosesOnly
    <3>2. /\ UNCHANGED <<connections, closer>>
          /\ \A q \in Calls : q # r => conn'[q] = conn[q]
      BY <2>1 DEF HealthOk, GetConnection, TypeInv, TypeOK
    <3>3. ASSUME NEW k \in Keys, NEW b, JoinOrConnect(r, k, b)
          PROVE  /\ pc'[r] # "closingStale"
                 /\ \A q \in Calls : q # r => pc'[q] = pc[q]
                 /\ \A q \in Calls :
                      attempt'[q] = "recordSuccess" => attempt[q] = "recordSuccess"
      BY <3>3, JoinSummary DEF TypeInv, TypeOK
    <3>4. /\ pc'[r] # "closingStale"
          /\ \A q \in Calls : q # r => pc'[q] = pc[q]
          /\ \A q \in Calls : attempt'[q] = "recordSuccess" => attempt[q] = "recordSuccess"
      BY <2>1, <3>3 DEF HealthOk, GetConnection, TypeInv, TypeOK
    <3>5. QED
      BY <1>3, <3>1, <3>2, <3>4
  <2>2. CASE HealthFail(r)
    <3> DEFINE C == {conn[r]} \ {NoConn}
    <3>1. /\ status' = BeginClose(status, {conn[r]}) /\ pc' = [pc EXCEPT ![r] = "closingStale"]
          /\ connections' = [connections EXCEPT ![key[r]] = NoConn]
          /\ UNCHANGED <<attempt, conn, closer>>
      BY <2>2 DEF HealthFail
    <3>2. \A c \in C : Made(c, key[r])
      BY DEF Isolated
    <3>3. \A c \in C : \A k \in Keys : connections'[k] # c
      BY <3>1, <3>2 DEF Isolated, Made, TypeInv, TypeOK
    <3>4. ClosesOnly(C)
      BY <3>1, <3>2, <3>3, NoConnAssumption DEF ClosesOnly, BeginClose, Made
    <3>5. conn[r] # NoConn => status'[conn[r]] # "open"
      BY <3>1, <3>2 DEF BeginClose, Made
    <3>6. \A k \in Keys : connections'[k] \in {connections[k], NoConn}
      BY <3>1 DEF TypeInv, TypeOK
    <3> HIDE DEF C
    <3>7. QED
      BY <1>3, <3>1, <3>4, <3>5, <3>6 DEF TypeInv, TypeOK
  <2>3. CASE StaleClosed(r)
    <3> DEFINE C == {conn[r]} \ {NoConn}
    <3>1. PICK ended \in {"closing", "closed"} :
            status' = [status EXCEPT ![conn[r]] = IF @ = "closed" THEN @ ELSE ended]
      BY <2>3 DEF StaleClosed
    <3>2. /\ conn' = [conn EXCEPT ![r] = NoConn] /\ UNCHANGED <<connections, closer>>
          /\ pc[r] = "closingStale" /\ JoinOrConnect(r, key[r], backend[r])
      BY <2>3 DEF StaleClosed
    <3>3. \A c \in C : Made(c, key[r]) /\ status[c] # "open"
      BY <3>2 DEF Isolated, Shut
    <3>4. \A c \in C : \A k \in Keys : connections'[k] # c
      BY <3>2, <3>3, NoConnAssumption DEF Shut, PooledIsOpen
    <3>5. ClosesOnly(C)
      BY <3>1, <3>3, <3>4, NoConnAssumption DEF ClosesOnly, Made, TypeInv, TypeOK
    <3>6. /\ \A q \in Calls : q # r => pc'[q] = pc[q]
          /\ \A q \in Calls : attempt'[q] = "recordSuccess" => attempt[q] = "recordSuccess"
      BY <3>2, JoinSummary DEF TypeInv, TypeOK, Keyed
    <3> HIDE DEF C
    <3>7. conn'[r] = NoConn /\ \A q \in Calls : q # r => conn'[q] = conn[q]
      BY <3>2 DEF TypeInv, TypeOK
    <3>8. QED
      BY <1>3, <3>2, <3>5, <3>6, <3>7
  <2>4. QED
    BY <1>4, <2>1, <2>2, <2>3 DEF CallStep

<1>5. ASSUME NEW r \in Calls, AttemptStep(r)
      PROVE  Shut'
  <2>1. closer' = closer /\ attempt[r] \in InFlight
    BY <1>5, AttemptSummary
  <2>2. /\ \A c \in Conns : status[c] = "open" => status'[c] = "open"
        /\ \A c \in Conns : c[1] # r => status'[c] = status[c]
    <3>1. status' = status \/ \E leg \in Legs : status' = [status EXCEPT ![<<r, leg>>] = "open"]
      BY <1>5, AttemptSummary DEF Legs
    <3>2. \A c \in Conns, leg \in Legs : c[1] # r => c # <<r, leg>>
      OBVIOUS
    <3>3. QED
      BY <3>1, <3>2 DEF TypeInv, TypeOK
  <2>3. \A c, k : Made(c, k) => c \in Conns /\ status'[c] = status[c]
    BY <2>1, <2>2 DEF Made, InFlight
  <2>4. /\ \A x \in Closers : closer'[x].now # NoConn => status'[closer'[x].now] # "open"
        /\ \A x \in Closers : closer'[x].pc = "all" =>
             \A e \in closer'[x].todo : status'[e[2]] # "open"
    BY <2>1, <2>3 DEF Shut, Isolated
  <2>5. \A w \in Calls :
          pc[w] = "closingStale" /\ conn[w] # NoConn => status'[conn[w]] # "open"
    BY <2>3 DEF Shut, Isolated
  <2>6. \A q \in Calls :
          attempt[q] = "recordSuccess" => status'[<<q, "primary">>] = "open"
    BY <2>2 DEF Shut, Conns, Legs
  <2>7. \A k \in Keys : connections[k] # NoConn => status'[connections[k]] = "open"
    BY <2>3 DEF Shut, PooledIsOpen, Isolated
  <2>8. CASE Reject(r)
    BY <2>4, <2>5, <2>6, <2>7, <2>8 DEF Reject, Awaits, Shut, PooledIsOpen, TypeInv, TypeOK
  <2>9. ASSUME NEW phase \in InFlight, Proceed(r, phase),
               phase = "recordSuccess" => status' = [status EXCEPT ![<<r, "primary">>] = "open"]
        PROVE  Shut'
    <3>1. phase = "recordSuccess" => status'[<<r, "primary">>] = "open"
      BY <2>9 DEF TypeInv, TypeOK, Conns, Legs
    <3>2. QED
      BY <2>4, <2>5, <2>6, <2>7, <2>9, <3>1 DEF Proceed, Shut, PooledIsOpen, TypeInv, TypeOK
  <2>10. ASSUME NEW leg \in Legs, Register(r, <<r, leg>>),
                \/ status' = [status EXCEPT ![<<r, leg>>] = "open"]
                \/ attempt[r] = "recordSuccess" /\ leg = "primary"
         PROVE  Shut'
    <3>1. status'[<<r, leg>>] = "open"
      BY <2>6, <2>10 DEF TypeInv, TypeOK, Conns
    <3>2. PooledIsOpen'
      BY <2>7, <2>10, <3>1 DEF Register, PooledIsOpen, TypeInv, TypeOK
    <3>3. \A w \in Calls :
            pc'[w] = "closingStale" /\ conn'[w] # NoConn => status'[conn'[w]] # "open"
      BY <2>5, <2>10 DEF Register, Resolve, Awaits
    <3>4. \A q \in Calls :
            attempt'[q] = "recordSuccess" => status'[<<q, "primary">>] = "open"
      BY <2>6, <2>10 DEF Register, Resolve, TypeInv, TypeOK
    <3>5. QED
      BY <2>4, <3>2, <3>3, <3>4 DEF Shut
  <2>11. QED
    <3>1. \/ Reject(r)
          \/ \E phase \in InFlight :
               /\ Proceed(r, phase)
               /\ phase = "recordSuccess" =>
                    status' = [status EXCEPT ![<<r, "primary">>] = "open"]
          \/ \E leg \in Legs :
               /\ Register(r, <<r, leg>>)
               /\ \/ status' = [status EXCEPT ![<<r, leg>>] = "open"]
                  \/ attempt[r] = "recordSuccess" /\ leg = "primary"
      BY <1>5, AttemptSummary
    <3>2. QED
      BY <2>8, <2>9, <2>10, <3>1
<1>6. QED
  BY <1>1, <1>2, <1>4, <1>5 DEF Next

PoolInv == TypeInv /\ AttemptInv /\ Isolated /\ Shut

LEMMA PoolInvariant == Spec => []PoolInv
<1>1. Init => PoolInv
  <2>1. Init => Isolated /\ Shut
    BY DEF Init, Isolated, Shut, PooledIsOpen, Idle, Progress
  <2>2. QED
    BY <2>1, TypeInit, AttemptInvInit DEF PoolInv
<1>2. PoolInv /\ [Next]_vars => PoolInv'
  BY TypeStep, AttemptInvStep, IsolatedStep, ShutStep DEF PoolInv
<1>3. QED
  BY <1>1, <1>2, PTL DEF Spec

(* A connection is out of the pool before its close begins, so the pool     *)
(* never serves one it has begun to close: whichever of the health checks   *)
(* and close operations began it.                                          *)
THEOREM PoolServesOpen == Spec => []PooledIsOpen
<1>1. PoolInv => PooledIsOpen
  BY DEF PoolInv, Shut
<1>2. QED
  BY <1>1, PoolInvariant, PTL

(***************************************************************************)
(* Evictions are complete.                                                 *)
(***************************************************************************)

(* What closer x found, and what is pooled still, it has yet to close.     *)
StillToClose(x) ==
    \A c \in closer[x].had : \A k \in Keys : connections[k] = c =>
        \/ closer[x].pc = "threw"
        \/ /\ closer[x].pc = "exact" /\ closer[x].target \in Keys
           /\ k # closer[x].target /\ Base[k] = closer[x].target
        \/ closer[x].pc = "pattern" /\ <<k, c>> \in closer[x].todo

Evicting == \A x \in Closers :
    /\ \A c \in closer[x].had : attempt[c[1]] = "connected"
    /\ StillToClose(x)

LEMMA CloseNextEvicts ==
    ASSUME TypeInv, NEW x \in Closers, NEW s, NEW todo, NEW st, NEW had \in SUBSET Conns,
           \A c \in had : \A k \in Keys : connections[k] = c => <<k, c>> \in todo,
           CloseNext(x, s, todo, st, had)
    PROVE  /\ closer'[x].had = had
           /\ \A c \in had : \A k \in Keys : connections'[k] = c =>
                closer'[x].pc = "pattern" /\ <<k, c>> \in closer'[x].todo
<1>1. CASE todo = {}
  BY <1>1 DEF CloseNext, Progress, TypeInv, TypeOK
<1>2. CASE todo # {}
  <2>1. PICK e \in todo :
          /\ connections' = [connections EXCEPT ![e[1]] = NoConn]
          /\ closer' = [closer EXCEPT ![x] = Progress("pattern", s, todo \ {e}, e[2], had)]
    BY <1>2 DEF CloseNext
  <2>2. closer'[x] = Progress("pattern", s, todo \ {e}, e[2], had)
    BY <2>1 DEF TypeInv, TypeOK
  <2>3. ASSUME NEW c \in had, NEW k \in Keys, connections'[k] = c
        PROVE  k # e[1] /\ connections[k] = c
    BY <2>1, <2>3, NoConnAssumption DEF TypeInv, TypeOK
  <2>4. QED
    BY <2>2, <2>3 DEF Progress
<1>3. QED
  BY <1>1, <1>2

(* A close operation goes on with what it found, or finds what it starts   *)
(* to close.                                                               *)
LEMMA CloserEvicts ==
    ASSUME TypeInv, Isolated, Evicting, NEW x \in Closers, CloserStart(x) \/ CloserStep(x)
    PROVE  /\ \A c \in closer'[x].had : attempt[c[1]] = "connected"
           /\ StillToClose(x)'
<1> DEFINE Goal == /\ \A c \in closer'[x].had : attempt[c[1]] = "connected"
                   /\ StillToClose(x)'
<1>1. ASSUME NEW s, NEW todo, NEW st, NEW had \in SUBSET Conns,
             CloseNext(x, s, todo, st, had),
             \A c \in had : attempt[c[1]] = "connected",
             \A c \in had : \A k \in Keys : connections[k] = c => <<k, c>> \in todo
      PROVE  Goal
  BY <1>1, CloseNextEvicts DEF StillToClose
<1>2. \A s \in Keys : \A c \in {e[2] : e \in ScopedEntries(s)} :
        /\ c \in Conns /\ attempt[c[1]] = "connected"
        /\ \A k \in Keys : connections[k] = c => <<k, c>> \in ScopedEntries(s)
  BY DEF ScopedEntries, Isolated, Made
<1>3. closer[x].had \in SUBSET Conns
  BY DEF TypeInv, TypeOK, CloserRecords
<1>4. ASSUME NEW s \in Keys, CloseServicePattern(x, s)
      PROVE  Goal
  BY <1>1, <1>2, <1>4 DEF CloseServicePattern
<1>5. ASSUME NEW s \in Keys, CloseService(x, s)
      PROVE  Goal
  <2>1. CASE connections[s] = NoConn
    <3>1. Evicts(s) = {e[2] : e \in ScopedEntries(s)}
      BY <2>1 DEF Evicts
    <3>2. QED
      BY <1>1, <1>2, <1>5, <2>1, <3>1 DEF CloseService
  <2>2. CASE connections[s] # NoConn
    <3>1. /\ connections' = [connections EXCEPT ![s] = NoConn]
          /\ closer'[x] = Progress("exact", s, {}, connections[s], Evicts(s))
      BY <1>5, <2>2 DEF CloseService, TypeInv, TypeOK
    <3>2. /\ closer'[x].pc = "exact" /\ closer'[x].target = s
          /\ closer'[x].had = Evicts(s)
      BY <3>1 DEF Progress
    <3>3. \A c \in Evicts(s) : c \in Conns /\ attempt[c[1]] = "connected"
      BY <1>2 DEF Evicts, Isolated, Made
    <3>4. ASSUME NEW c \in Evicts(s), NEW k \in Keys, connections'[k] = c
          PROVE  k # s /\ Base[k] = s
      <4>1. k # s /\ connections[k] = c
        BY <3>1, <3>3, <3>4, NoConnAssumption DEF TypeInv, TypeOK
      <4>2. c # connections[s]
        BY <2>2, <4>1 DEF Isolated, Made
      <4>3. <<k, c>> \in ScopedEntries(s)
        BY <1>2, <4>1, <4>2 DEF Evicts
      <4>4. QED
        BY <4>3 DEF ScopedEntries
    <3>5. QED
      BY <3>2, <3>3, <3>4 DEF StillToClose
  <2>3. QED
    BY <2>1, <2>2
<1>6. CASE CloseAll(x)
  <2>1. closer'[x].had = {e[2] : e \in AllEntries} /\ connections' = [k \in Keys |-> NoConn]
    BY <1>6 DEF CloseAll, Progress, TypeInv, TypeOK
  <2>2. \A c \in closer'[x].had : c \in Conns /\ attempt[c[1]] = "connected"
    BY <2>1 DEF AllEntries, Isolated, Made
  <2>3. QED
    BY <2>1, <2>2, NoConnAssumption DEF StillToClose
<1>7. CASE ExactClosed(x)
  <2> DEFINE t == closer[x].target
  <2>1. closer[x].pc = "exact"
    BY <1>7 DEF ExactClosed
  <2>2. ASSUME NEW c \in closer[x].had, NEW k \in Keys, connections[k] = c
        PROVE  <<k, c>> \in ScopedEntries(t)
    <3>1. k # t /\ Base[k] = t
      BY <2>1, <2>2 DEF Evicting, StillToClose
    <3>2. c # NoConn
      BY <1>3, NoConnAssumption
    <3>3. QED
      BY <2>2, <3>1, <3>2 DEF ScopedEntries
  <2>3. CloseNext(x, t, ScopedEntries(t), AfterClose(x, "closed"), closer[x].had)
    BY <1>7 DEF ExactClosed
  <2>4. QED
    BY <1>1, <1>3, <2>2, <2>3 DEF Evicting
<1>8. CASE ExactCloseThrew(x)
  BY <1>8 DEF ExactCloseThrew, Progress, StillToClose, Evicting, TypeInv, TypeOK
<1>9. CASE ScopedClosed(x)
  <2>1. PICK ended \in {"closing", "closed"} :
          CloseNext(x, closer[x].target, closer[x].todo, AfterClose(x, ended), closer[x].had)
    BY <1>9 DEF ScopedClosed
  <2>2. closer[x].pc = "pattern"
    BY <1>9 DEF ScopedClosed
  <2>3. \A c \in closer[x].had : \A k \in Keys : connections[k] = c => <<k, c>> \in closer[x].todo
    BY <2>2 DEF Evicting, StillToClose
  <2>4. QED
    BY <1>1, <1>3, <2>1, <2>3 DEF Evicting
<1>10. CASE OneOfAllClosed(x)
  <2>1. closer'[x].had = closer[x].had /\ connections' = connections /\ closer[x].pc = "all"
    BY <1>10 DEF OneOfAllClosed, Progress, TypeInv, TypeOK
  <2>2. QED
    BY <2>1 DEF Evicting, StillToClose
<1>11. QED
  BY <1>4, <1>5, <1>6, <1>7, <1>8, <1>9, <1>10 DEF CloserStart, CloserStep

(* Calls and attempts put only what they have just connected into the pool. *)
LEMMA PoolGainsNew ==
    ASSUME TypeInv, AttemptInv, NEW r \in Calls, CallStep(r) \/ AttemptStep(r)
    PROVE  /\ closer' = closer
           /\ \A k \in Keys : \/ connections'[k] \in {connections[k], NoConn}
                              \/ attempt[connections'[k][1]] # "connected"
<1>1. CASE CallStep(r)
  BY <1>1 DEF CallStep, GetConnection, HealthOk, HealthFail, StaleClosed, TypeInv, TypeOK
<1>2. CASE AttemptStep(r)
  <2>1. closer' = closer /\ attempt[r] # "connected"
    BY <1>2, AttemptSummary DEF InFlight
  <2>2. \/ connections' = connections
        \/ \E leg \in Legs : connections' = [connections EXCEPT ![key[r]] = <<r, leg>>]
    BY <1>2, AttemptSummary DEF Reject, Proceed, Register
  <2>3. QED
    BY <2>1, <2>2 DEF TypeInv, TypeOK
<1>3. QED
  BY <1>1, <1>2

LEMMA EvictingStep ==
    ASSUME PoolInv, Evicting, [Next]_vars
    PROVE  Evicting'
<1> USE DEF PoolInv
<1>1. ASSUME NEW x \in Closers, NEW c \in closer[x].had
      PROVE  attempt'[c[1]] = "connected"
  <2>1. Made(c, key[c[1]])
    BY <1>1 DEF Made, Evicting, TypeInv, TypeOK, CloserRecords
  <2>2. Made(c, key[c[1]])'
    BY <2>1, MadeForGood DEF Made
  <2>3. QED
    BY <2>2 DEF Made
<1>2. ASSUME NEW x \in Closers, closer'[x] = closer[x],
             \A k \in Keys : \/ connections'[k] \in {connections[k], NoConn}
                             \/ attempt[connections'[k][1]] # "connected"
      PROVE  /\ \A c \in closer'[x].had : attempt'[c[1]] = "connected"
             /\ StillToClose(x)'
  <2>1. ASSUME NEW c \in closer[x].had, NEW k \in Keys, connections'[k] = c
        PROVE  connections[k] = c
    <3>1. c # NoConn /\ attempt[c[1]] = "connected"
      BY <2>1, NoConnAssumption DEF Evicting, TypeInv, TypeOK, CloserRecords
    <3>2. QED
      BY <1>2, <2>1, <3>1
  <2>2. StillToClose(x)
    BY DEF Evicting
  <2>3. QED
    BY <1>1, <1>2, <2>1, <2>2 DEF StillToClose
<1>3. CASE UNCHANGED vars
  BY <1>2, <1>3 DEF vars, Evicting
<1>4. ASSUME NEW r \in Calls, CallStep(r) \/ AttemptStep(r)
      PROVE  Evicting'
  BY <1>2, <1>4, PoolGainsNew DEF Evicting
<1>5. ASSUME NEW x \in Closers, CloserStart(x) \/ CloserStep(x)
      PROVE  Evicting'
  <2>1. attempt' = attempt
    BY <1>5, CloserSummary
  <2>2. \A y \in Closers : y # x =>
          /\ \A c \in closer'[y].had : attempt'[c[1]] = "connected"
          /\ StillToClose(y)'
    BY <1>2, <1>5, CloserReach
  <2>3. QED
    BY <1>5, <2>1, <2>2, CloserEvicts DEF Evicting
<1>6. QED
  BY <1>3, <1>4, <1>5 DEF Next

(* When closeService, closeServicePattern or closeAll has returned, nothing *)
(* that it found is pooled, whatever reconnected between its awaits, and    *)
(* whichever other operations closed the same connections.                  *)
THEOREM EvictsAllItFound == Spec => []EvictionComplete
<1>1. Evicting => EvictionComplete
  <2> SUFFICES ASSUME Evicting, NEW x \in Closers, closer[x].pc = "done",
                      NEW c \in closer[x].had, NEW k \in Keys
               PROVE  connections[k] # c
    BY DEF EvictionComplete, Pooled
  <2> QED  BY DEF Evicting, StillToClose
<1>2. Init => Evicting
  BY DEF Init, Evicting, StillToClose, Idle, Progress
<1>3. PoolInv /\ Evicting /\ [Next]_vars => Evicting'
  BY EvictingStep
<1>4. QED
  BY <1>1, <1>2, <1>3, PoolInvariant, PTL DEF Spec

(***************************************************************************)
(* What leaves the pool unclosed.                                          *)
(***************************************************************************)

(* The loop of closeServicePattern drops an open connection only if its     *)
(* snapshot holds another one for the key.                                 *)
LEMMA CloseNextDrops ==
    ASSUME TypeInv, Isolated, NEW x \in Closers, NEW s, NEW todo \in SUBSET InReach(x), NEW st, NEW had,
           CloseNext(x, s, todo, st, had), NEW c \in Conns, Dropped(c)
    PROVE  \E e \in todo : e[1] = key[c[1]] /\ e[2] # c
<1>1. PICK k \in Keys : connections[k] = c
  BY DEF Dropped, Pooled
<1>2. connections'[k] # c /\ status'[c] = "open"
  BY DEF Dropped, Pooled
<1>3. PICK e \in todo :
        /\ connections' = [connections EXCEPT ![e[1]] = NoConn]
        /\ status' = BeginClose(st, {e[2]})
  BY <1>1, <1>2 DEF CloseNext
<1>4. e[1] = k /\ k = key[c[1]]
  BY <1>1, <1>2, <1>3, NoConnAssumption DEF Isolated, Made, TypeInv, TypeOK
<1>5. e[2] # c
  BY <1>2, <1>3 DEF BeginClose
<1>6. QED
  BY <1>4, <1>5

LEMMA CloserDrops ==
    ASSUME TypeInv, Isolated, NEW x \in Closers, CloserStart(x) \/ CloserStep(x),
           NEW c \in Conns, Dropped(c)
    PROVE  \E e \in closer[x].todo : e[1] = key[c[1]] /\ e[2] # c
<1>1. PICK k \in Keys : connections[k] = c
  BY DEF Dropped, Pooled
<1>2. connections'[k] # c /\ status'[c] = "open" /\ key[c[1]] = k
  BY <1>1, NoConnAssumption DEF Dropped, Pooled, Isolated, Made
<1>3. \A s : \A e \in ScopedEntries(s) : e[1] = k => e[2] = c
  BY <1>1 DEF ScopedEntries
<1>4. \A s : ScopedEntries(s) \in SUBSET InReach(x)
  BY DEF ScopedEntries, AllEntries, InReach
<1>5. ASSUME NEW s, NEW st, NEW had, CloseNext(x, s, ScopedEntries(s), st, had)
      PROVE  FALSE
  BY <1>2, <1>3, <1>4, <1>5, CloseNextDrops
<1>6. CASE \E s \in Keys : CloseService(x, s) \/ CloseServicePattern(x, s)
  <2>1. PICK s \in Keys : CloseService(x, s) \/ CloseServicePattern(x, s)
    BY <1>6
  <2>2. connections' = [connections EXCEPT ![s] = NoConn] /\ status' = BeginClose(status, {connections[s]})
    BY <1>5, <2>1 DEF CloseService, CloseServicePattern
  <2>3. c = connections[s]
    BY <1>1, <1>2, <2>2 DEF TypeInv, TypeOK
  <2>4. QED
    BY <1>2, <2>2, <2>3 DEF BeginClose
<1>7. CASE CloseAll(x)
  <2>1. <<k, c>> \in AllEntries
    BY <1>1, NoConnAssumption DEF AllEntries
  <2>2. c \in {e[2] : e \in AllEntries}
    BY <2>1
  <2>3. QED
    BY <1>2, <1>7, <2>2 DEF CloseAll, BeginClose
<1>8. CASE ExactClosed(x)
  BY <1>5, <1>8 DEF ExactClosed
<1>9. CASE ScopedClosed(x)
  <2>1. closer[x].todo \in SUBSET InReach(x)
    BY DEF InReach
  <2>2. QED
    BY <1>9, <2>1, CloseNextDrops DEF ScopedClosed
<1>10. CASE ExactCloseThrew(x) \/ OneOfAllClosed(x)
  BY <1>1, <1>2, <1>10 DEF ExactCloseThrew, OneOfAllClosed
<1>11. QED
  BY <1>6, <1>7, <1>8, <1>9, <1>10 DEF CloserStart, CloserStep

(* A usable connection leaves the pool without being closed only because a  *)
(* health check, an attempt or a snapshot of closeServicePattern still      *)
(* works from another connection of its key (pool.ts 98, 180, 228).         *)
THEOREM DroppedByStaleReader == Spec => DroppedOnlyByStaleReader
<1> DEFINE Blamed == \A c \in Conns : Dropped(c) => HoldsOlder(c)
<1>1. PoolInv /\ [Next]_vars => [Blamed]_vars
  <2> SUFFICES ASSUME PoolInv, Next, NEW c \in Conns, Dropped(c)
               PROVE  HoldsOlder(c)
    OBVIOUS
  <2> USE DEF PoolInv
  <2>1. PICK k \in Keys : connections[k] = c
    BY DEF Dropped, Pooled
  <2>2. connections'[k] # c /\ status'[c] = "open" /\ key[c[1]] = k
    BY <2>1, NoConnAssumption DEF Dropped, Pooled, Isolated, Made
  <2>3. ASSUME NEW r \in Calls, CallStep(r)
        PROVE  HoldsOlder(c)
    <3>1. HealthFail(r)
      BY <2>1, <2>2, <2>3 DEF CallStep, GetConnection, HealthOk, StaleClosed
    <3>2. pc[r] = "health" /\ key[r] = k
      BY <2>1, <2>2, <3>1 DEF HealthFail, TypeInv, TypeOK
    <3>3. conn[r] # c
      BY <2>2, <3>1 DEF HealthFail, BeginClose
    <3>4. QED
      BY <2>2, <3>2, <3>3 DEF HoldsOlder
  <2>4. ASSUME NEW r \in Calls, AttemptStep(r)
        PROVE  HoldsOlder(c)
    <3>1. PICK leg \in Legs : Register(r, <<r, leg>>)
      BY <2>1, <2>2, <2>4, AttemptSummary DEF Reject, Proceed
    <3>2. attempt[r] \in InFlight /\ attempt'[r] = "connected" /\ key[r] = k
      BY <2>1, <2>2, <2>4, <3>1, AttemptSummary DEF Register, Resolve, TypeInv, TypeOK
    <3>3. QED
      BY <2>2, <3>2 DEF HoldsOlder
  <2>5. ASSUME NEW x \in Closers, CloserStart(x) \/ CloserStep(x)
        PROVE  HoldsOlder(c)
    BY <2>5, CloserDrops DEF HoldsOlder
  <2>6. QED
    BY <2>3, <2>4, <2>5 DEF Next
<1>2. QED
  BY <1>1, PoolInvariant, PTL DEF Spec, DroppedOnlyByStaleReader

=============================================================================
