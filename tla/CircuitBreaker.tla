---------------------------- MODULE CircuitBreaker ----------------------------
(***************************************************************************)
(* The circuit breaker of one pool key (src/resilience/circuit-breaker.ts) *)
(* as the pool uses it (connectHttpWithFallback and its WebSocket twin).   *)
(* Its state is a file: recordFailure and recordSuccess read it, compute   *)
(* the new state and write it back without a lock, so the steps of several *)
(* processes interleave between the read and the rename.                   *)
(*                                                                         *)
(* Two data abstractions that lose nothing the code tells apart: the count *)
(* saturates at Threshold, the only number it is compared with, and        *)
(* openedAt is its age, which saturates at Cooldown.                       *)
(***************************************************************************)
EXTENDS Naturals, FiniteSets

CONSTANTS
    Clients,        \* processes that share the state file
    Threshold,      \* failureThreshold
    Cooldown        \* cooldownMs, in ticks

ASSUME ThresholdAssumption == Threshold \in Nat \ {0}
ASSUME CooldownAssumption == Cooldown \in Nat \ {0}

VARIABLES
    file,       \* what loadState returns: [state, failureCount, age]
    pc,         \* client -> where connectHttpWithFallback is
    local,      \* client -> the state it has computed and not yet saved
    up,         \* whether the backend accepts connections
    diskOk,     \* whether the file can be written and read back
    streak      \* history: failures saved since the last success was saved

vars == <<file, pc, local, up, diskOk, streak>>

Ages   == 0..Cooldown
States == [state : {"closed", "open"}, failureCount : 0..Threshold, age : Ages]

Saturated(n, max) == IF n < max THEN n ELSE max

initialState == [state |-> "closed", failureCount |-> 0, age |-> 0]

resolveState(st) ==
    IF st.state = "open" /\ st.age >= Cooldown THEN "half-open" ELSE st.state

(* Mutants: a failed probe leaves openedAt as it was; the comparison with   *)
(* the threshold comes before the increment; the resolved state is saved.   *)
FailedKeepsOpenedAt(st) ==
    LET count   == Saturated(st.failureCount + 1, Threshold)
        counted == [st EXCEPT !.failureCount = count]
    IN  IF resolveState(st) = "closed" /\ count >= Threshold
        THEN [state |-> "open", failureCount |-> count, age |-> 0]
        ELSE counted
FailedComparesFirst(st) ==
    LET count == Saturated(st.failureCount + 1, Threshold)
    IN  IF resolveState(st) = "half-open" \/ st.failureCount >= Threshold - 1
        THEN [state |-> "open", failureCount |-> st.failureCount, age |-> 0]
        ELSE [st EXCEPT !.failureCount = count]
FailedPersistsResolved(st) ==
    LET count == Saturated(st.failureCount + 1, Threshold)
    IN  IF resolveState(st) = "closed" /\ count >= Threshold
        THEN [state |-> "open", failureCount |-> count, age |-> 0]
        ELSE [st EXCEPT !.failureCount = count, !.state = resolveState(st)]

(* What recordFailure computes from the state it loaded.                   *)
Failed(st) ==
    LET count   == Saturated(st.failureCount + 1, Threshold)
        counted == [st EXCEPT !.failureCount = count]
        opened  == [state |-> "open", failureCount |-> count, age |-> 0]
    IN  CASE resolveState(st) = "half-open"                     -> opened
          [] resolveState(st) = "closed" /\ count >= Threshold  -> opened
          [] OTHER                                              -> counted

-----------------------------------------------------------------------------

(* shouldAttemptHttp.  When it says no, the client uses the fallback and    *)
(* nothing here changes.                                                    *)
shouldAttemptHttp(p) ==
    /\ pc[p] = "idle"
    /\ resolveState(file) # "open"
    /\ pc' = [pc EXCEPT ![p] = "connecting"]
    /\ UNCHANGED <<file, local, up, diskOk, streak>>

(* recordSuccess also loads the file, but what it saves does not depend on  *)
(* what it read.                                                            *)
ConnectOk(p) ==
    /\ pc[p] = "connecting" /\ up
    /\ pc' = [pc EXCEPT ![p] = "saveSuccess"]
    /\ local' = [local EXCEPT ![p] = initialState]
    /\ UNCHANGED <<file, up, diskOk, streak>>

ConnectFails(p) ==
    /\ pc[p] = "connecting" /\ ~up
    /\ pc' = [pc EXCEPT ![p] = "recordFailure"]
    /\ UNCHANGED <<file, local, up, diskOk, streak>>

LoadForFailure(p) ==
    /\ pc[p] = "recordFailure"
    /\ pc' = [pc EXCEPT ![p] = "saveFailure"]
    /\ local' = [local EXCEPT ![p] = Failed(file)]
    /\ UNCHANGED <<file, up, diskOk, streak>>

(* Mutants: recordSuccess resets the count but not the state, and the other *)
(* way round.                                                               *)
SaveSuccessKeepsState(p) ==
    /\ pc[p] = "saveSuccess"
    /\ pc' = [pc EXCEPT ![p] = "idle"]
    /\ file' = [file EXCEPT !.failureCount = 0]
    /\ streak' = 0
    /\ UNCHANGED <<local, up, diskOk>>

SaveSuccessKeepsCount(p) ==
    /\ pc[p] = "saveSuccess"
    /\ pc' = [pc EXCEPT ![p] = "idle"]
    /\ file' = [initialState EXCEPT !.failureCount = file.failureCount]
    /\ streak' = 0
    /\ UNCHANGED <<local, up, diskOk>>

SaveSuccess(p) ==
    /\ pc[p] = "saveSuccess"
    /\ pc' = [pc EXCEPT ![p] = "idle"]
    /\ file' = local[p]
    /\ streak' = 0
    /\ UNCHANGED <<local, up, diskOk>>

SaveFailure(p) ==
    /\ pc[p] = "saveFailure"
    /\ pc' = [pc EXCEPT ![p] = "idle"]
    /\ file' = local[p]
    /\ streak' = Saturated(streak + 1, Threshold)
    /\ UNCHANGED <<local, up, diskOk>>

(* The catch block around the connect also catches a failing save.          *)
SuccessNotSaved(p) ==
    /\ pc[p] = "saveSuccess" /\ ~diskOk
    /\ pc' = [pc EXCEPT ![p] = "recordFailure"]
    /\ UNCHANGED <<file, local, up, diskOk, streak>>

(* recordFailure rejects, or the process dies before the rename.            *)
FailureNotSaved(p) ==
    /\ pc[p] = "saveFailure" /\ ~diskOk
    /\ pc' = [pc EXCEPT ![p] = "idle"]
    /\ UNCHANGED <<file, local, up, diskOk, streak>>

(* A missing or corrupted file reads as the initial state.  It goes missing *)
(* between calls, not within one.                                           *)
FileLost ==
    /\ ~diskOk
    /\ \A p \in Clients : pc[p] # "saveFailure"
    /\ file' = initialState
    /\ streak' = 0
    /\ UNCHANGED <<pc, local, up, diskOk>>

BackendFlips == up' = ~up /\ UNCHANGED <<file, pc, local, diskOk, streak>>
DiskFlips == diskOk' = ~diskOk /\ UNCHANGED <<file, pc, local, up, streak>>

(* Time passes.  A save takes less than the cooldown.                       *)
Older(st) ==
    IF st.state = "open" THEN [st EXCEPT !.age = Saturated(@ + 1, Cooldown)] ELSE st

Tick ==
    /\ \A p \in Clients : pc[p] = "saveFailure" => Older(local[p]).age < Cooldown
    /\ file' = Older(file)
    /\ local' = [p \in Clients |->
                    IF pc[p] = "saveFailure" THEN Older(local[p]) ELSE local[p]]
    /\ UNCHANGED <<pc, up, diskOk, streak>>

Init ==
    /\ file = initialState
    /\ pc = [p \in Clients |-> "idle"]
    /\ local = [p \in Clients |-> initialState]
    /\ up \in BOOLEAN
    /\ diskOk \in BOOLEAN
    /\ streak = 0

ClientStep(p) ==
    \/ shouldAttemptHttp(p) \/ ConnectOk(p) \/ ConnectFails(p) \/ LoadForFailure(p)
    \/ SaveSuccess(p) \/ SaveFailure(p) \/ SuccessNotSaved(p) \/ FailureNotSaved(p)

Next ==
    \/ \E p \in Clients : ClientStep(p)
    \/ FileLost \/ BackendFlips \/ DiskFlips \/ Tick

Spec == Init /\ [][Next]_vars

(* Calls for the service keep coming, and time passes.                      *)
FairSpec == Spec /\ WF_vars(Tick) /\ \A p \in Clients : WF_vars(ClientStep(p))

-----------------------------------------------------------------------------
(***************************************************************************)
(* Properties                                                              *)
(***************************************************************************)

TypeOK ==
    /\ file \in States
    /\ pc \in [Clients -> {"idle", "connecting", "recordFailure", "saveFailure", "saveSuccess"}]
    /\ local \in [Clients -> States]
    /\ up \in BOOLEAN /\ diskOk \in BOOLEAN
    /\ streak \in 0..Threshold

(* However the unlocked saves overlap, an open circuit on disk has counted  *)
(* up to the threshold, and so has one that is about to be saved.           *)
OpenAtThreshold ==
    /\ file.state = "open" => file.failureCount = Threshold
    /\ \A p \in Clients : local[p].state = "open" => local[p].failureCount = Threshold

(* Once the backend accepts connections and the disk works, the circuit     *)
(* closes and stays closed, whatever stale saves were still on their way.   *)
Recovers == <>[](up /\ diskOk) => <>[](file.state = "closed")

(* "Worst case is delayed circuit-open": as long as the backend is down the *)
(* circuit opens, again after every probe, in spite of lost updates.        *)
OpensWhenDown == <>[](~up /\ diskOk) => []<>(resolveState(file) = "open")

(* The circuit is open only after Threshold failures in a row: none of them *)
(* lies before a success that was saved.                                    *)
NoSpuriousOpen == file.state = "open" => streak = Threshold

(* With one process the file goes through the documented state machine.     *)
Machine == INSTANCE BreakerMachine WITH
    circuit  <- resolveState(file),
    failures <- file.failureCount

RefinesMachine == Machine!Spec

=============================================================================
