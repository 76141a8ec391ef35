-------------------------- MODULE CircuitBreakerProofs --------------------------
(***************************************************************************)
(* The circuit breaker, for every threshold and cooldown: what holds for   *)
(* any number of processes that share the file, and that a single process  *)
(* goes through the documented state machine.                              *)
(***************************************************************************)
EXTENDS CircuitBreaker, TLAPS

(***************************************************************************)
(* The state that recordFailure computes.                                  *)
(***************************************************************************)

LEMMA InitialType == initialState \in States /\ initialState.state = "closed"
  BY ThresholdAssumption, CooldownAssumption DEF initialState, States, Ages

LEMMA SaturatedType ==
    ASSUME NEW max \in Nat, NEW n \in Nat
    PROVE  Saturated(n, max) \in 0..max /\ (n < max => Saturated(n, max) = n) /\ (n >= max => Saturated(n, max) = max)
  BY DEF Saturated

(* The cases of Failed.                                                    *)
LEMMA FailedState ==
    ASSUME NEW st \in States
    PROVE  /\ Failed(st) \in States
           /\ Failed(st).failureCount = Saturated(st.failureCount + 1, Threshold)
           /\ resolveState(st) # "open" =>
                 (Failed(st).state = "open" <=>
                      resolveState(st) = "half-open" \/ Saturated(st.failureCount + 1, Threshold) >= Threshold)
           /\ Failed(st).state = "open" =>
                 Failed(st).age = 0 \/ (st.state = "open" /\ Failed(st).age = st.age)
           /\ resolveState(st) # "open" /\ Failed(st).state = "open" => Failed(st).age = 0
           /\ Failed(st).state = "open" =>
                 st.state = "open" \/ Saturated(st.failureCount + 1, Threshold) >= Threshold
<1> DEFINE count   == Saturated(st.failureCount + 1, Threshold)
           counted == [st EXCEPT !.failureCount = count]
           opened  == [state |-> "open", failureCount |-> count, age |-> 0]
<1>1. st.failureCount \in 0..Threshold /\ Threshold \in Nat /\ Cooldown \in Nat /\ st.age \in Ages
      /\ st.state \in {"closed", "open"}
  BY ThresholdAssumption, CooldownAssumption DEF States
<1>2. count \in 0..Threshold
  <2>1. st.failureCount + 1 \in Nat
    BY <1>1
  <2> QED  BY <1>1, <2>1, SaturatedType
<1> HIDE DEF count
<1>3. counted \in States /\ counted.state = st.state /\ counted.failureCount = count /\ counted.age = st.age
  BY <1>1, <1>2 DEF States
<1>4. opened \in States /\ opened.state = "open" /\ opened.failureCount = count /\ opened.age = 0
  BY <1>1, <1>2 DEF States, Ages
<1> HIDE DEF counted, opened
<1>5. Failed(st) = IF resolveState(st) = "half-open" \/ (resolveState(st) = "closed" /\ count >= Threshold)
                   THEN opened ELSE counted
  BY DEF Failed, count, counted, opened
<1>6. resolveState(st) \in {"closed", "open", "half-open"}
      /\ (resolveState(st) = "closed" <=> st.state = "closed")
      /\ (resolveState(st) = "half-open" => st.state = "open")
  BY <1>1 DEF resolveState
<1> QED  BY <1>1, <1>2, <1>3, <1>4, <1>5, <1>6 DEF count

LEMMA OlderState ==
    ASSUME NEW st \in States
    PROVE  /\ Older(st) \in States
           /\ Older(st).state = st.state /\ Older(st).failureCount = st.failureCount
           /\ st.state = "closed" => Older(st) = st
           /\ st.state = "open" => Older(st).age = Saturated(st.age + 1, Cooldown)
<1>1. st.age \in 0..Cooldown /\ Cooldown \in Nat /\ st.age + 1 \in Nat
  BY CooldownAssumption DEF States, Ages
<1>2. Saturated(st.age + 1, Cooldown) \in Ages
  BY <1>1, SaturatedType DEF Ages
<1> DEFINE s == Saturated(st.age + 1, Cooldown)
<1> HIDE DEF s
<1>3. Older(st) = IF st.state = "open" THEN [st EXCEPT !.age = s] ELSE st
  <2>1. Older(st) = IF st.state = "open" THEN [st EXCEPT !.age = Saturated(st.age + 1, Cooldown)] ELSE st
    BY DEF Older
  <2> QED  BY <2>1 DEF s
<1>4. s \in Ages
  BY <1>2 DEF s
<1>5. [st EXCEPT !.age = s] \in States /\ [st EXCEPT !.age = s].age = s
      /\ [st EXCEPT !.age = s].state = st.state /\ [st EXCEPT !.age = s].failureCount = st.failureCount
  BY <1>4 DEF States
<1> QED  BY <1>3, <1>5 DEF s, States

(***************************************************************************)
(* Any number of processes.                                                *)
(***************************************************************************)

BreakerInv == TypeOK /\ OpenAtThreshold

LEMMA FailedAtThreshold ==
    ASSUME NEW st \in States, st.state = "open" => st.failureCount = Threshold
    PROVE  Failed(st).state = "open" => Failed(st).failureCount = Threshold
<1>1. st.failureCount \in 0..Threshold /\ Threshold \in Nat /\ st.failureCount + 1 \in Nat
  BY ThresholdAssumption DEF States
<1>2. st.failureCount = Threshold => Saturated(st.failureCount + 1, Threshold) = Threshold
  BY <1>1, SaturatedType
<1>3. Saturated(st.failureCount + 1, Threshold) \in 0..Threshold
  BY <1>1, SaturatedType
<1>4. Failed(st).failureCount = Saturated(st.failureCount + 1, Threshold)
      /\ (Failed(st).state = "open" => st.state = "open" \/ Saturated(st.failureCount + 1, Threshold) >= Threshold)
  BY FailedState
<1> QED  BY <1>1, <1>2, <1>3, <1>4

LEMMA BreakerStep ==
    ASSUME BreakerInv, [Next]_vars
    PROVE  BreakerInv'
<1> USE DEF BreakerInv
<1>1. ASSUME NEW p \in Clients, shouldAttemptHttp(p) \/ ConnectFails(p) \/ SuccessNotSaved(p) \/ FailureNotSaved(p)
      PROVE  BreakerInv'
  BY <1>1 DEF shouldAttemptHttp, ConnectFails, SuccessNotSaved, FailureNotSaved, TypeOK, OpenAtThreshold
<1>2. ASSUME NEW p \in Clients, ConnectOk(p)
      PROVE  BreakerInv'
  BY <1>2, InitialType DEF ConnectOk, TypeOK, OpenAtThreshold
<1>3. ASSUME NEW p \in Clients, LoadForFailure(p)
      PROVE  BreakerInv'
  BY <1>3, FailedState, FailedAtThreshold DEF LoadForFailure, TypeOK, OpenAtThreshold
<1>4. ASSUME NEW p \in Clients, SaveSuccess(p)
      PROVE  BreakerInv'
  BY <1>4, ThresholdAssumption DEF SaveSuccess, TypeOK, OpenAtThreshold
<1>5. ASSUME NEW p \in Clients, SaveFailure(p)
      PROVE  BreakerInv'
  <2>1. streak' \in 0..Threshold
    BY <1>5, ThresholdAssumption, SaturatedType DEF SaveFailure, TypeOK
  <2> QED  BY <1>5, <2>1 DEF SaveFailure, TypeOK, OpenAtThreshold
<1>6. CASE FileLost
  BY <1>6, InitialType, ThresholdAssumption DEF FileLost, TypeOK, OpenAtThreshold
<1>9. CASE BackendFlips \/ DiskFlips
  <2>1. UNCHANGED <<file, pc, local, streak>>
    BY <1>9 DEF BackendFlips, DiskFlips
  <2>2. up' \in BOOLEAN /\ diskOk' \in BOOLEAN
    BY <1>9, Zenon DEF BackendFlips, DiskFlips, TypeOK
  <2> QED  BY <2>1, <2>2 DEF TypeOK, OpenAtThreshold
<1>7. CASE Tick
  <2>1. /\ Older(file) \in States /\ Older(file).state = file.state /\ Older(file).failureCount = file.failureCount
        /\ \A p \in Clients : /\ Older(local[p]) \in States /\ Older(local[p]).state = local[p].state
                              /\ Older(local[p]).failureCount = local[p].failureCount
    BY OlderState DEF TypeOK
  <2> QED  BY <1>7, <2>1 DEF Tick, TypeOK, OpenAtThreshold
<1>8. CASE UNCHANGED vars
  BY <1>8 DEF vars, TypeOK, OpenAtThreshold
<1> QED  BY <1>1, <1>2, <1>3, <1>4, <1>5, <1>6, <1>7, <1>8, <1>9 DEF Next, ClientStep

LEMMA BreakerInit ==
    ASSUME Init
    PROVE  BreakerInv
  BY InitialType, ThresholdAssumption DEF Init, BreakerInv, TypeOK, OpenAtThreshold

LEMMA BreakerInvariant == Spec => []BreakerInv
  BY BreakerInit, BreakerStep, PTL DEF Spec

(* Every variable keeps its type; counts and ages stay in their bounds.    *)
THEOREM BreakerTypes == Spec => []TypeOK
  BY BreakerInvariant, PTL DEF BreakerInv

(* However the unlocked saves of several processes overlap, an open        *)
(* circuit has counted up to the threshold (circuit-breaker.ts 255).       *)
THEOREM OpensAtThreshold == Spec => []OpenAtThreshold
  BY BreakerInvariant, PTL DEF BreakerInv

(***************************************************************************)
(* One process: the refinement.                                            *)
(*                                                                         *)
(* What it has computed is still right for the file when it saves, since   *)
(* nobody else saves in between and a save takes less than the cooldown.   *)
(***************************************************************************)

(* The result of a failure, while the file waits for it.                   *)
Pending(st, new) ==
    CASE resolveState(st) = "half-open" -> new.state = "open" /\ new.failureCount = st.failureCount
      [] OTHER -> /\ new.failureCount = st.failureCount + 1
                  /\ new.state = IF new.failureCount >= Threshold THEN "open" ELSE "closed"

SerialInv ==
    /\ streak = file.failureCount
    /\ file.state = "closed" => file.failureCount < Threshold
    /\ \A p \in Clients :
          /\ pc[p] # "idle" => resolveState(file) # "open"
          /\ pc[p] = "saveSuccess" => local[p] = initialState
          /\ pc[p] = "saveFailure" =>
                Pending(file, local[p]) /\ (local[p].state = "open" => local[p].age < Cooldown)

LEMMA MachineSteps ==
    ASSUME NEW p, Clients = {p}, BreakerInv, SerialInv, BreakerInv', [Next]_vars
    PROVE  SerialInv' /\ [Machine!Next]_(Machine!machineVars)
<1> USE DEF BreakerInv
<1> USE ThresholdAssumption, CooldownAssumption
<1>1. file \in States /\ local[p] \in States /\ file' \in States
  BY DEF TypeOK
<1>2. file.failureCount \in 0..Threshold /\ file.age \in 0..Cooldown /\ file.state \in {"closed", "open"}
      /\ (file.state = "open" => file.failureCount = Threshold)
  BY <1>1 DEF States, Ages, OpenAtThreshold
<1>3. resolveState(initialState) = "closed" /\ initialState.failureCount = 0 /\ initialState.state = "closed"
  BY DEF resolveState, initialState
<1> DEFINE Stutters == resolveState(file)' = resolveState(file) /\ file'.failureCount = file.failureCount
<1>4. ASSUME Stutters
      PROVE  [Machine!Next]_(Machine!machineVars)
  BY <1>4 DEF Machine!machineVars
<1>5. CASE shouldAttemptHttp(p) \/ ConnectOk(p) \/ ConnectFails(p) \/ SuccessNotSaved(p) \/ FailureNotSaved(p)
  <2>1. Stutters
    BY <1>5 DEF shouldAttemptHttp, ConnectOk, ConnectFails, SuccessNotSaved, FailureNotSaved
  <2>2. SerialInv'
    BY <1>5 DEF shouldAttemptHttp, ConnectOk, ConnectFails, SuccessNotSaved, FailureNotSaved, SerialInv, TypeOK
  <2> QED  BY <1>4, <2>1, <2>2
<1>6. CASE LoadForFailure(p)
  <2>1. file' = file /\ streak' = streak /\ pc'[p] = "saveFailure" /\ local'[p] = Failed(file) /\ pc[p] = "recordFailure"
    BY <1>6 DEF LoadForFailure, TypeOK
  <2>2. Stutters
    BY <2>1
  <2>3. resolveState(file) # "open" /\ (file.state = "closed" => file.failureCount < Threshold)
    BY <2>1 DEF SerialInv
  <2>4. resolveState(file) \in {"closed", "half-open"} /\ (resolveState(file) = "closed" <=> file.state = "closed")
        /\ (resolveState(file) = "half-open" => file.state = "open")
    BY <1>2, <2>3 DEF resolveState
  <2>5. Saturated(file.failureCount + 1, Threshold) =
            IF file.state = "closed" THEN file.failureCount + 1 ELSE file.failureCount
    BY <1>2, <2>3 DEF Saturated
  <2>6. Pending(file, Failed(file))
    BY <1>1, <1>2, <2>3, <2>4, <2>5, FailedState DEF Pending, States
  <2>7. Failed(file).state = "open" => Failed(file).age < Cooldown
    BY <1>1, <2>3, FailedState
  <2>8. SerialInv'
    BY <2>1, <2>3, <2>6, <2>7 DEF SerialInv
  <2> QED  BY <1>4, <2>2, <2>8
<1>7. CASE SaveSuccess(p)
  <2>1. file' = initialState /\ resolveState(file) # "open" /\ pc'[p] = "idle" /\ streak' = 0
    BY <1>7 DEF SaveSuccess, SerialInv, TypeOK
  <2>2. resolveState(file) \in {"closed", "half-open"}
    BY <1>2, <2>1 DEF resolveState
  <2>3. Machine!Success
    BY <1>3, <2>1, <2>2 DEF Machine!Success
  <2>4. SerialInv'
    BY <1>3, <2>1 DEF SerialInv
  <2> QED  BY <2>3, <2>4 DEF Machine!Next
<1>8. CASE SaveFailure(p)
  <2>1. file' = local[p] /\ pc'[p] = "idle" /\ streak' = Saturated(streak + 1, Threshold) /\ resolveState(file) # "open"
        /\ Pending(file, local[p]) /\ (local[p].state = "open" => local[p].age < Cooldown)
    BY <1>8 DEF SaveFailure, SerialInv, TypeOK
  <2>2. resolveState(local[p]) = local[p].state
    BY <1>1, <2>1 DEF resolveState, States, Ages
  <2>3. CASE resolveState(file) = "half-open"
    <3>1. Machine!ProbeFails
      BY <2>1, <2>2, <2>3 DEF Pending, Machine!ProbeFails
    <3>2. streak' = file'.failureCount
      BY <1>2, <2>1, <2>3 DEF Pending, SerialInv, Saturated, resolveState
    <3>3. SerialInv'
      BY <2>1, <2>3, <3>2 DEF Pending, SerialInv
    <3> QED  BY <3>1, <3>3 DEF Machine!Next
  <2>4. CASE resolveState(file) = "closed"
    <3>1. Machine!FailureWhileClosed
      BY <2>1, <2>2, <2>4 DEF Pending, Machine!FailureWhileClosed
    <3>2. streak' = file'.failureCount
      BY <1>2, <2>1, <2>4 DEF Pending, SerialInv, Saturated, resolveState
    <3>3. SerialInv'
      BY <1>1, <2>1, <2>4, <3>2 DEF Pending, SerialInv, States
    <3> QED  BY <3>1, <3>3 DEF Machine!Next
  <2>5. resolveState(file) \in {"closed", "half-open"}
    BY <1>2, <2>1 DEF resolveState
  <2> QED  BY <2>3, <2>4, <2>5
<1>9. CASE FileLost
  <2>1. file' = initialState /\ pc' = pc /\ local' = local /\ pc[p] # "saveFailure" /\ streak' = 0
    BY <1>9 DEF FileLost
  <2>2. Machine!Reset
    BY <1>3, <2>1 DEF Machine!Reset
  <2>3. SerialInv'
    BY <1>3, <2>1 DEF SerialInv
  <2> QED  BY <2>2, <2>3 DEF Machine!Next
<1>10. CASE Tick
  <2>1. file' = Older(file) /\ pc' = pc /\ streak' = streak
        /\ local'[p] = (IF pc[p] = "saveFailure" THEN Older(local[p]) ELSE local[p])
        /\ (pc[p] = "saveFailure" => Older(local[p]).age < Cooldown)
    BY <1>10 DEF Tick
  <2>2. file'.state = file.state /\ file'.failureCount = file.failureCount
        /\ (file.state = "closed" => file' = file)
        /\ (file.state = "open" => file'.age = Saturated(file.age + 1, Cooldown))
    BY <1>1, <2>1, OlderState
  <2>3. resolveState(file') = resolveState(file)
        \/ (resolveState(file) = "open" /\ resolveState(file') = "half-open")
    BY <1>2, <2>2 DEF resolveState, Saturated
  <2>4. [Machine!Next]_(Machine!machineVars)
    BY <1>4, <2>2, <2>3 DEF Machine!Next, Machine!CooldownOver
  <2>5. SerialInv'
    <3>1. pc[p] # "idle" => resolveState(file) # "open" /\ resolveState(file') = resolveState(file)
      BY <2>3 DEF SerialInv
    <3>2. Older(local[p]).state = local[p].state /\ Older(local[p]).failureCount = local[p].failureCount
      BY <1>1, OlderState
    <3>3. pc[p] = "saveFailure" => Pending(file', local'[p])
      BY <2>1, <2>2, <3>1, <3>2 DEF SerialInv, Pending
    <3>4. (file'.state = "closed" => file'.failureCount < Threshold) /\ (pc[p] = "saveSuccess" => local'[p] = initialState)
      BY <2>1, <2>2 DEF SerialInv
    <3>5. streak' = file'.failureCount
      BY <2>1, <2>2 DEF SerialInv
    <3>6. pc[p] = "saveFailure" /\ local'[p].state = "open" => local'[p].age < Cooldown
      BY <2>1
    <3> QED  BY <2>1, <3>1, <3>3, <3>4, <3>5, <3>6 DEF SerialInv
  <2> QED  BY <2>4, <2>5
<1>11. CASE BackendFlips \/ DiskFlips \/ UNCHANGED vars
  <2>1. Stutters
    BY <1>11 DEF BackendFlips, DiskFlips, vars
  <2>2. SerialInv'
    BY <1>11 DEF BackendFlips, DiskFlips, vars, SerialInv
  <2> QED  BY <1>4, <2>1, <2>2
<1> QED
  BY <1>5, <1>6, <1>7, <1>8, <1>9, <1>10, <1>11 DEF Next, ClientStep

LEMMA SerialInvariant ==
    ASSUME NEW p, Clients = {p}
    PROVE  Spec => [](BreakerInv /\ SerialInv) /\ RefinesMachine
<1>1. Init => Machine!Init /\ SerialInv
  BY ThresholdAssumption DEF Init, Machine!Init, SerialInv, initialState, resolveState
<1>2. BreakerInv /\ SerialInv /\ BreakerInv' /\ [Next]_vars => SerialInv' /\ [Machine!Next]_(Machine!machineVars)
  BY MachineSteps
<1>3. Spec => [](BreakerInv /\ SerialInv) /\ Machine!Spec
  BY <1>1, <1>2, BreakerInvariant, PTL DEF Spec, Machine!Spec
<1> QED  BY <1>3 DEF RefinesMachine

(* A process that has the file to itself goes through the state machine in *)
(* the header of circuit-breaker.ts, at every threshold and cooldown.      *)
THEOREM OneProcessRefines ==
    ASSUME NEW p, Clients = {p}
    PROVE  Spec => RefinesMachine
  BY SerialInvariant, PTL

(* Its circuit is open only after Threshold failures in a row.             *)
THEOREM OneProcessOpensRightly ==
    ASSUME NEW p, Clients = {p}
    PROVE  Spec => []NoSpuriousOpen
<1>1. BreakerInv /\ SerialInv => NoSpuriousOpen
  BY DEF BreakerInv, OpenAtThreshold, SerialInv, NoSpuriousOpen
<1> QED  BY <1>1, SerialInvariant, PTL
=============================================================================
