-------------------------- MODULE ModelBookProofs --------------------------
(***************************************************************************)
(* Proofs about ModelBook, for any models, requests, weights and bounds.   *)
(***************************************************************************)
EXTENDS ModelBook, FiniteSetTheorems, TLAPS

\* Each record transformer of the book maps a well-typed row to a well-typed row.
LEMMA RowTypes ==
    ASSUME NEW r \in Runtime
    PROVE  /\ bootstrap_stopped(r) \in Runtime
           /\ \A m \in Models, id \in Nat : begin_load(m, r, id) \in Runtime
           /\ \A t \in Nat : loaded(r, t) \in Runtime
           /\ failed(r) \in Runtime
           /\ \A lease \in Lease : acquire_ready(r, lease) \in Runtime
           /\ \A lease \in Lease, outcome \in Outcome, t \in Nat :
                  release(r, lease, outcome, t) \in Runtime
           /\ \A lease \in Lease : begin_cancel(r, lease) \in Runtime
           /\ \A id \in Nat : begin_stop(r, id) \in Runtime
           /\ freeze_for_switch(r) \in Runtime
           /\ unfreeze_switch(r) \in Runtime
           /\ rollback_unsent(r) \in Runtime
           /\ \A t \in Nat : stopped(r, t) \in Runtime
           /\ begin_recovery(r) \in Runtime
           /\ finish_recovery(r) \in Runtime
<1> USE DEF Runtime, State
<1>1. bootstrap_stopped(r) \in Runtime /\ failed(r) \in Runtime
  BY Zenon DEF bootstrap_stopped, failed
<1>2. ASSUME NEW m \in Models, NEW id \in Nat PROVE begin_load(m, r, id) \in Runtime
  <2>1. Required[m] \in Nat /\ r.generation + 1 \in Nat
    BY ConstantAssumption
  <2> QED BY Zenon, <2>1 DEF begin_load
<1>3. ASSUME NEW t \in Nat PROVE loaded(r, t) \in Runtime /\ stopped(r, t) \in Runtime
  BY Zenon DEF loaded, stopped
<1>4. ASSUME NEW lease \in Lease
      PROVE  acquire_ready(r, lease) \in Runtime /\ begin_cancel(r, lease) \in Runtime
  BY Zenon DEF acquire_ready, begin_cancel
<1>5. ASSUME NEW lease \in Lease, NEW outcome \in Outcome, NEW t \in Nat
      PROVE  release(r, lease, outcome, t) \in Runtime
  BY Zenon DEF release
<1>6. ASSUME NEW id \in Nat PROVE begin_stop(r, id) \in Runtime
  BY Zenon DEF begin_stop
<1>7. freeze_for_switch(r) \in Runtime /\ unfreeze_switch(r) \in Runtime
  BY Zenon DEF freeze_for_switch, unfreeze_switch
<1>8. rollback_unsent(r) \in Runtime /\ begin_recovery(r) \in Runtime
  BY Zenon DEF rollback_unsent, begin_recovery
<1>9. finish_recovery(r) \in Runtime
  BY Zenon DEF finish_recovery
<1> HIDE DEF Runtime, State
<1> QED BY <1>1, <1>2, <1>3, <1>4, <1>5, <1>6, <1>7, <1>8, <1>9

\* A fresh book is well typed.
LEMMA TypeInit == Init => TypeOK
<1>1. ASSUME NEW m \in Models PROVE new_runtime(m) \in Runtime
  <2>1. Required[m] \in Nat
    BY ConstantAssumption
  <2> QED BY <2>1 DEF new_runtime, Runtime, State
<1>2. Init => runtime \in [Models -> Runtime]
  BY <1>1 DEF Init
<1>3. Init => recovering \in BOOLEAN /\ operations \subseteq Operation /\ granted \subseteq Lease
  BY Zenon DEF Init
<1> QED BY <1>2, <1>3 DEF Init, TypeOK

\* Every call keeps the book well typed.
LEMMA TypeStep == TypeOK /\ [Next]_bookVars => TypeOK'
<1> SUFFICES ASSUME TypeOK, [Next]_bookVars PROVE TypeOK'
  OBVIOUS
<1> USE DEF TypeOK
<1>1. ASSUME NEW m \in Models, BootstrapStopped(m) PROVE TypeOK'
  BY <1>1, RowTypes DEF BootstrapStopped, Update
<1>2. ASSUME NEW m \in Models, NEW sample, BeginLoad(m, sample) PROVE TypeOK'
  <2>1. uuid + 1 \in Nat /\ runtime[m].generation + 1 \in Nat
    BY DEF Runtime
  <2>2. begin_load(m, runtime[m], uuid + 1) \in Runtime
    BY <2>1, RowTypes
  <2>3. Token(m, uuid + 1, runtime[m].generation + 1) \in Operation
    BY <2>1 DEF Token, Operation
  <2> QED BY <1>2, <2>1, <2>2, <2>3 DEF BeginLoad, Update, Fresh
<1>3. ASSUME NEW op \in operations, Loaded(op) PROVE TypeOK'
  <2>1. op.model_id \in Models
    BY DEF Operation
  <2> QED BY Zenon, <1>3, <2>1, RowTypes DEF Loaded, Update
<1>4. ASSUME NEW op \in operations, Failed(op) PROVE TypeOK'
  <2>1. op.model_id \in Models
    BY DEF Operation
  <2> QED BY <1>4, <2>1, RowTypes DEF Failed, Update
<1>5. ASSUME NEW m \in Models, NEW req \in Requests, AcquireReady(m, req) PROVE TypeOK'
  <2>1. NewLease(m, req) \in Lease
    BY DEF NewLease, Lease, Runtime
  <2>2. acquire_ready(runtime[m], NewLease(m, req)) \in Runtime
    BY <2>1, RowTypes
  <2> QED BY <1>5, <2>1, <2>2 DEF AcquireReady, Update, Fresh
<1>6. ASSUME NEW lease \in granted, NEW outcome \in Outcome, Release(lease, outcome)
      PROVE  TypeOK'
  <2>1. lease \in Lease /\ lease.model_id \in Models
    BY DEF Lease
  <2> QED BY <1>6, <2>1, RowTypes DEF Release, Update
<1>7. ASSUME NEW lease \in granted, BeginCancel(lease) PROVE TypeOK'
  <2>1. lease \in Lease /\ lease.model_id \in Models
    BY DEF Lease
  <2> QED BY <1>7, <2>1, RowTypes DEF BeginCancel, Update
<1>8. ASSUME NEW S \in SUBSET Models, BeginStop(S) PROVE TypeOK'
  <2>1. uuid + 1 \in Nat
    OBVIOUS
  <2>2. \A m \in Models : begin_stop(runtime[m], uuid + 1) \in Runtime
    BY <2>1, RowTypes
  <2>3. \A m \in S : Token(m, uuid + 1, runtime[m].generation) \in Operation
    BY <2>1 DEF Token, Operation, Runtime
  <2> QED BY <1>8, <2>1, <2>2, <2>3 DEF BeginStop, Fresh
<1>9. ASSUME NEW S \in SUBSET Models, FreezeForSwitch(S) \/ UnfreezeSwitch(S) PROVE TypeOK'
  BY <1>9, RowTypes DEF FreezeForSwitch, UnfreezeSwitch
<1>10. ASSUME NEW op \in operations, RollbackUnsent(op) \/ Stopped(op) PROVE TypeOK'
  <2>1. op.model_id \in Models
    BY DEF Operation
  <2> QED BY <1>10, <2>1, RowTypes DEF RollbackUnsent, Stopped, Update
<1>11. CASE BeginRecovery
  BY <1>11, RowTypes DEF BeginRecovery
<1>12. ASSUME NEW e, NEW confirmed, FinishRecovery(e, confirmed) PROVE TypeOK'
  BY Zenon, <1>12, RowTypes DEF FinishRecovery
<1>13. CASE Tick
  BY <1>13 DEF Tick
<1>14. CASE UNCHANGED bookVars
  BY <1>14 DEF bookVars
<1> QED
  BY Zenon, <1>1, <1>2, <1>3, <1>4, <1>5, <1>6, <1>7, <1>8, <1>9, <1>10, <1>11, <1>12,
     <1>13, <1>14 DEF Next, BeginEviction, BeginCleanup

\* The book is well typed after any sequence of calls.
THEOREM TypeCorrect == Spec => []TypeOK
BY TypeInit, TypeStep, PTL DEF Spec

-----------------------------------------------------------------------------
(* Rows stay consistent *)

\* A transformer applied under its guard keeps a row consistent.
LEMMA RowSteps ==
    ASSUME NEW m \in Models, NEW r \in Runtime, RowInv(m, r)
    PROVE  /\ r.state = "UNKNOWN" => RowInv(m, bootstrap_stopped(r))
           /\ \A id \in Nat : r.state = "UNLOADED" => RowInv(m, begin_load(m, r, id))
           /\ \A t \in Nat : r.state = "LOADING" => RowInv(m, loaded(r, t))
           /\ r.operation_id # None => RowInv(m, failed(r))
           /\ \A id \in Nat : may_clean(r) => RowInv(m, begin_stop(r, id))
           /\ RowInv(m, freeze_for_switch(r))
           /\ RowInv(m, unfreeze_switch(r))
           /\ may_settle(r) => RowInv(m, rollback_unsent(r))
           /\ \A t \in Nat : may_settle(r) => RowInv(m, stopped(r, t))
           /\ RowInv(m, begin_recovery(r))
           /\ r.leases = {} => RowInv(m, finish_recovery(r))
<1> USE ConstantAssumption DEF RowInv, Runtime, State
<1>1. r.state = "UNKNOWN" => RowInv(m, bootstrap_stopped(r))
  BY DEF bootstrap_stopped
<1>2. ASSUME NEW id \in Nat, r.state = "UNLOADED" PROVE RowInv(m, begin_load(m, r, id))
  BY <1>2 DEF begin_load
<1>3. ASSUME NEW t \in Nat, r.state = "LOADING" PROVE RowInv(m, loaded(r, t))
  BY <1>3 DEF loaded
<1>4. r.operation_id # None => RowInv(m, failed(r))
  BY DEF failed
<1>5. ASSUME NEW id \in Nat, may_clean(r) PROVE RowInv(m, begin_stop(r, id))
  BY Zenon, <1>5 DEF begin_stop, may_clean
<1>6. RowInv(m, freeze_for_switch(r))
  BY DEF freeze_for_switch
<1>7. RowInv(m, unfreeze_switch(r))
  BY DEF unfreeze_switch
<1>8. may_settle(r) => RowInv(m, rollback_unsent(r))
  BY DEF may_settle, rollback_unsent
<1>9. ASSUME NEW t \in Nat, may_settle(r) PROVE RowInv(m, stopped(r, t))
  BY <1>9 DEF may_settle, stopped
<1>10. RowInv(m, begin_recovery(r))
  BY DEF begin_recovery
<1>11. r.leases = {} => RowInv(m, finish_recovery(r))
  BY DEF finish_recovery
<1> HIDE DEF RowInv, Runtime, State
<1> QED BY <1>1, <1>2, <1>3, <1>4, <1>5, <1>6, <1>7, <1>8, <1>9, <1>10, <1>11

\* Adding an element adds at most one to a finite set, removing one adds nothing.
LEMMA SlotCount ==
    ASSUME NEW S, NEW x, IsFiniteSet(S)
    PROVE  /\ Cardinality(S) \in Nat
           /\ IsFiniteSet(S \cup {x})
           /\ Cardinality(S \cup {x}) \in Nat
           /\ Cardinality(S \cup {x}) <= Cardinality(S) + 1
           /\ IsFiniteSet(S \ {x})
           /\ Cardinality(S \ {x}) \in Nat
           /\ Cardinality(S \ {x}) <= Cardinality(S)
<1>1. Cardinality(S) \in Nat
  BY FS_CardinalityType
<1>2. /\ IsFiniteSet(S \cup {x})
      /\ Cardinality(S \cup {x}) = IF x \in S THEN Cardinality(S) ELSE Cardinality(S) + 1
  BY FS_AddElement
<1>3. /\ IsFiniteSet(S \ {x})
      /\ Cardinality(S \ {x}) = IF x \in S THEN Cardinality(S) - 1 ELSE Cardinality(S)
  BY FS_RemoveElement
<1>4. Cardinality(S \ {x}) \in Nat
  BY <1>3, FS_CardinalityType
<1> QED BY <1>1, <1>2, <1>3, <1>4

\* Taking and returning a lease keep a row consistent and inside its slots.
LEMMA RowLeaseSteps ==
    ASSUME NEW m \in Models, NEW r \in Runtime, RowInv(m, r), NEW lease \in Lease
    PROVE  /\ /\ r.state = "READY"
              /\ Cardinality(r.leases) < MaxConcurrency[m]
              /\ lease.model_id = m
              /\ lease.generation = r.generation
              => RowInv(m, acquire_ready(r, lease))
           /\ \A outcome \in Outcome, t \in Nat :
                  lease \in r.leases => RowInv(m, release(r, lease, outcome, t))
           /\ RowInv(m, begin_cancel(r, lease))
<1>1. IsFiniteSet(r.leases)
  BY DEF RowInv
<1>2. /\ Cardinality(r.leases) \in Nat
      /\ IsFiniteSet(r.leases \cup {lease})
      /\ Cardinality(r.leases \cup {lease}) \in Nat
      /\ Cardinality(r.leases \cup {lease}) <= Cardinality(r.leases) + 1
      /\ IsFiniteSet(r.leases \ {lease})
      /\ Cardinality(r.leases \ {lease}) \in Nat
      /\ Cardinality(r.leases \ {lease}) <= Cardinality(r.leases)
  BY Zenon, <1>1, SlotCount
<1>3. MaxConcurrency[m] \in Nat
  BY ConstantAssumption
<1> USE DEF RowInv, Runtime, State
<1>5. ASSUME r.state = "READY", Cardinality(r.leases) < MaxConcurrency[m],
             lease.model_id = m, lease.generation = r.generation
      PROVE  RowInv(m, acquire_ready(r, lease))
  <2>1. Cardinality(r.leases \cup {lease}) <= MaxConcurrency[m]
    BY <1>2, <1>3, <1>5
  <2> QED BY <1>2, <1>5, <2>1 DEF acquire_ready
<1>6. ASSUME NEW outcome \in Outcome, NEW t \in Nat, lease \in r.leases
      PROVE  RowInv(m, release(r, lease, outcome, t))
  <2>1. Cardinality(r.leases \ {lease}) <= MaxConcurrency[m]
    BY <1>2, <1>3
  <2> QED BY Zenon, <1>2, <1>6, <2>1 DEF release
<1>7. RowInv(m, begin_cancel(r, lease))
  BY DEF begin_cancel
<1> HIDE DEF RowInv, Runtime, State
<1> QED BY <1>5, <1>6, <1>7

\* Every call keeps every row consistent.
LEMMA RowsStep == TypeOK /\ RowsInv /\ [Next]_bookVars => RowsInv'
<1> SUFFICES ASSUME TypeOK, RowsInv, [Next]_bookVars PROVE RowsInv'
  OBVIOUS
<1> USE DEF RowsInv, TypeOK
<1>1. ASSUME NEW m \in Models, BootstrapStopped(m) PROVE RowsInv'
  BY <1>1, RowSteps DEF BootstrapStopped, Update
<1>2. ASSUME NEW m \in Models, NEW sample, BeginLoad(m, sample) PROVE RowsInv'
  <2>1. RowInv(m, begin_load(m, runtime[m], uuid + 1))
    BY <1>2, RowSteps DEF BeginLoad, can_load
  <2> QED BY <1>2, <2>1 DEF BeginLoad, Update
<1>3. ASSUME NEW op \in operations, Loaded(op) \/ Failed(op) PROVE RowsInv'
  <2>1. op.model_id \in Models /\ op.operation_id \in Nat
    BY DEF Operation
  <2>2. CASE Loaded(op)
    BY <2>1, <2>2, RowSteps DEF Loaded, Update
  <2>3. CASE Failed(op)
    <3>1. runtime[op.model_id].operation_id # None
      BY <2>1, <2>3, ConstantAssumption DEF Failed, _operation
    <3> QED BY <2>1, <2>3, <3>1, RowSteps DEF Failed, Update
  <2> QED BY <1>3, <2>2, <2>3
<1>4. ASSUME NEW m \in Models, NEW req \in Requests, AcquireReady(m, req) PROVE RowsInv'
  <2>1. /\ NewLease(m, req) \in Lease
        /\ NewLease(m, req).model_id = m
        /\ NewLease(m, req).generation = runtime[m].generation
    BY DEF NewLease, Lease, Runtime
  <2>2. RowInv(m, acquire_ready(runtime[m], NewLease(m, req)))
    BY <1>4, <2>1, RowLeaseSteps DEF AcquireReady, may_acquire
  <2> QED BY <1>4, <2>2 DEF AcquireReady, Update
<1>5. ASSUME NEW lease \in granted, NEW outcome \in Outcome,
             Release(lease, outcome) \/ BeginCancel(lease)
      PROVE  RowsInv'
  <2>1. lease \in Lease /\ lease.model_id \in Models
    BY DEF Lease
  <2>2. CASE Release(lease, outcome)
    <3>1. RowInv(lease.model_id, release(runtime[lease.model_id], lease, outcome, now))
      BY <2>1, <2>2, RowLeaseSteps DEF Release, holds
    <3> QED BY <2>1, <2>2, <3>1 DEF Release, Update
  <2>3. CASE BeginCancel(lease)
    <3>1. RowInv(lease.model_id, begin_cancel(runtime[lease.model_id], lease))
      BY <2>1, RowLeaseSteps
    <3> QED BY <2>1, <2>3, <3>1 DEF BeginCancel, Update
  <2> QED BY <1>5, <2>2, <2>3
<1>6. ASSUME NEW S \in SUBSET Models, BeginStop(S), \A m \in S : may_clean(runtime[m])
      PROVE  RowsInv'
  <2>1. \A m \in S : RowInv(m, begin_stop(runtime[m], uuid + 1))
    BY <1>6, RowSteps
  <2> QED BY <1>6, <2>1 DEF BeginStop
<1>7. ASSUME NEW S \in SUBSET Models, FreezeForSwitch(S) \/ UnfreezeSwitch(S) PROVE RowsInv'
  BY <1>7, RowSteps DEF FreezeForSwitch, UnfreezeSwitch
<1>8. ASSUME NEW op \in operations, RollbackUnsent(op) \/ Stopped(op) PROVE RowsInv'
  <2>1. op.model_id \in Models
    BY DEF Operation
  <2> QED BY <1>8, <2>1, RowSteps DEF RollbackUnsent, Stopped, Update
<1>9. CASE BeginRecovery
  BY <1>9, RowSteps DEF BeginRecovery
<1>10. ASSUME NEW e, NEW confirmed, FinishRecovery(e, confirmed) PROVE RowsInv'
  BY <1>10, RowSteps DEF FinishRecovery
<1>11. CASE Tick \/ UNCHANGED bookVars
  BY <1>11 DEF Tick, bookVars
<1>12. \A S \in SUBSET Models, automatic \in BOOLEAN : BeginEviction(S, automatic) =>
           BeginStop(S) /\ \A m \in S : may_clean(runtime[m])
  BY DEF BeginEviction, may_evict, may_clean
<1> QED
  BY Zenon, <1>1, <1>2, <1>3, <1>4, <1>5, <1>6, <1>7, <1>8, <1>9, <1>10, <1>11, <1>12
     DEF Next, BeginCleanup, Outcome

-----------------------------------------------------------------------------
(* Tokens, recovery and holders *)

\* Every call leaves the token of a busy row with its caller.
LEMMA TokensStep == TypeOK /\ TokensInv /\ [Next]_bookVars => TokensInv'
<1> SUFFICES ASSUME TypeOK, TokensInv, [Next]_bookVars PROVE TokensInv'
  OBVIOUS
<1> USE DEF TypeOK
<1>1. ASSUME epoch' = epoch, operations \subseteq operations',
             \A m \in Models : \/ runtime'[m].operation_id = None
                              \/ /\ runtime'[m].operation_id = runtime[m].operation_id
                                 /\ runtime'[m].generation = runtime[m].generation
                              \/ Token(m, runtime'[m].operation_id, runtime'[m].generation)
                                     \in operations'
      PROVE  TokensInv'
  BY <1>1 DEF TokensInv, RowToken, Token
<1>2. ASSUME NEW m \in Models, BootstrapStopped(m) PROVE TokensInv'
  BY <1>1, <1>2 DEF BootstrapStopped, Update, bootstrap_stopped, Runtime
<1>3. ASSUME NEW m \in Models, NEW sample, BeginLoad(m, sample) PROVE TokensInv'
  BY <1>1, <1>3 DEF BeginLoad, Update, begin_load, Runtime
<1>4. ASSUME NEW op \in operations,
             Loaded(op) \/ Failed(op) \/ RollbackUnsent(op) \/ Stopped(op)
      PROVE  TokensInv'
  <2>1. op.model_id \in Models
    BY DEF Operation
  <2>2. \A r \in Runtime : /\ loaded(r, now).operation_id = None
                          /\ failed(r).operation_id = None
                          /\ rollback_unsent(r).operation_id = None
                          /\ stopped(r, now).operation_id = None
    BY DEF loaded, failed, rollback_unsent, stopped, Runtime
  <2>3. \A m \in Models : runtime'[m].operation_id = None \/ runtime'[m] = runtime[m]
    BY <1>4, <2>1, <2>2 DEF Loaded, Failed, RollbackUnsent, Stopped, Update
  <2> QED BY <1>1, <1>4, <2>3 DEF Loaded, Failed, RollbackUnsent, Stopped
<1>5. ASSUME NEW m \in Models, NEW req \in Requests, AcquireReady(m, req) PROVE TokensInv'
  BY <1>1, <1>5 DEF AcquireReady, Update, acquire_ready, Runtime
<1>6. ASSUME NEW lease \in granted, NEW outcome \in Outcome,
             Release(lease, outcome) \/ BeginCancel(lease)
      PROVE  TokensInv'
  <2>1. lease.model_id \in Models
    BY DEF Lease
  <2>2. \A r \in Runtime : /\ release(r, lease, outcome, now).operation_id = r.operation_id
                          /\ release(r, lease, outcome, now).generation = r.generation
                          /\ begin_cancel(r, lease).operation_id = r.operation_id
                          /\ begin_cancel(r, lease).generation = r.generation
    BY DEF release, begin_cancel, Runtime
  <2>3. \A m \in Models : /\ runtime'[m].operation_id = runtime[m].operation_id
                         /\ runtime'[m].generation = runtime[m].generation
    BY <1>6, <2>1, <2>2 DEF Release, BeginCancel, Update
  <2> QED BY <1>1, <1>6, <2>3 DEF Release, BeginCancel
<1>7. ASSUME NEW S \in SUBSET Models, BeginStop(S) PROVE TokensInv'
  BY Zenon, <1>1, <1>7 DEF BeginStop, begin_stop, Runtime
<1>8. ASSUME NEW S \in SUBSET Models, FreezeForSwitch(S) \/ UnfreezeSwitch(S) PROVE TokensInv'
  BY <1>1, <1>8 DEF FreezeForSwitch, UnfreezeSwitch, freeze_for_switch, unfreeze_switch, Runtime
<1>9. CASE BeginRecovery
  BY Zenon, <1>9 DEF BeginRecovery, begin_recovery, TokensInv, Runtime
<1>10. ASSUME NEW e, NEW confirmed, FinishRecovery(e, confirmed) PROVE TokensInv'
  BY Zenon, <1>10 DEF FinishRecovery, finish_recovery, TokensInv, Runtime
<1>11. CASE Tick \/ UNCHANGED bookVars
  BY <1>11 DEF Tick, bookVars, TokensInv, RowToken
<1> QED
  BY Zenon, <1>2, <1>3, <1>4, <1>5, <1>6, <1>7, <1>8, <1>9, <1>10, <1>11
     DEF Next, BeginEviction, BeginCleanup, Outcome

\* Nothing but its end moves a row of an open recovery.
LEMMA QuiescedStep ==
    TypeOK /\ RowsInv /\ QuiescedInv /\ [Next]_bookVars => QuiescedInv'
<1> SUFFICES ASSUME TypeOK, RowsInv, QuiescedInv, [Next]_bookVars, recovering'
             PROVE  \A m \in Models : /\ runtime'[m].state \in {"UNLOADED", "ERROR"}
                                      /\ runtime'[m].admission_blocked
  BY DEF QuiescedInv
<1> USE DEF TypeOK
<1>1. CASE BeginRecovery
  BY Zenon, <1>1 DEF BeginRecovery, begin_recovery, Runtime
<1>2. CASE recovering
  <2>1. \A m \in Models : /\ runtime[m].state \in {"UNLOADED", "ERROR"}
                         /\ runtime[m].admission_blocked
                         /\ runtime[m].operation_id = None
    BY <1>2 DEF QuiescedInv, RowsInv, RowInv
  <2>2. \A op \in operations : ~_operation(runtime, op)
    BY <2>1, ConstantAssumption DEF _operation, Operation
  <2>3. ASSUME NEW lease \in granted, NEW outcome \in Outcome,
               Release(lease, outcome) \/ BeginCancel(lease)
        PROVE  \A m \in Models : /\ runtime'[m].state \in {"UNLOADED", "ERROR"}
                                /\ runtime'[m].admission_blocked
    <3>1. lease.model_id \in Models
      BY DEF Lease
    <3>2. \A r \in Runtime : r.state = "ERROR" /\ r.admission_blocked =>
              /\ release(r, lease, outcome, now).state = "ERROR"
              /\ release(r, lease, outcome, now).admission_blocked
      BY DEF release, Runtime
    <3>3. \A r \in Runtime : /\ begin_cancel(r, lease).state = r.state
                            /\ begin_cancel(r, lease).admission_blocked = r.admission_blocked
      BY DEF begin_cancel, Runtime
    <3>4. lease \in runtime[lease.model_id].leases
      BY Zenon, <2>3 DEF Release, BeginCancel, holds
    <3>5. runtime[lease.model_id].state = "ERROR"
      BY <2>1, <3>1, <3>4 DEF RowsInv, RowInv
    <3>6. CASE Release(lease, outcome)
      BY <2>1, <3>1, <3>2, <3>5, <3>6 DEF Release, Update
    <3>7. CASE BeginCancel(lease)
      BY <2>1, <3>1, <3>3, <3>7 DEF BeginCancel, Update
    <3> QED BY <2>3, <3>6, <3>7
  <2>4. ASSUME NEW S \in SUBSET Models, UnfreezeSwitch(S)
        PROVE  \A m \in Models : /\ runtime'[m].state \in {"UNLOADED", "ERROR"}
                                /\ runtime'[m].admission_blocked
    BY <2>1, <2>4 DEF UnfreezeSwitch, unfreeze_switch, Runtime
  <2>5. ASSUME NEW m \in Models PROVE ~BootstrapStopped(m)
    BY Zenon, <2>1 DEF BootstrapStopped
  <2>6. CASE Tick \/ UNCHANGED bookVars
    BY Zenon, <2>1, <2>6 DEF Tick, bookVars
  <2>7. /\ \A m \in Models : \A sample : ~BeginLoad(m, sample)
        /\ \A m \in Models, req \in Requests : ~AcquireReady(m, req)
        /\ \A S \in SUBSET Models : ~BeginStop(S) /\ ~FreezeForSwitch(S)
        /\ \A e, confirmed : ~FinishRecovery(e, confirmed)
    BY <1>2 DEF BeginLoad, can_load, AcquireReady, may_acquire, BeginStop, FreezeForSwitch,
       FinishRecovery
  <2> QED BY Zenon, <1>1, <2>2, <2>3, <2>4, <2>5, <2>6, <2>7 DEF Next, Loaded, Failed, RollbackUnsent,
             Stopped, BeginEviction, BeginCleanup, Outcome
<1>3. CASE ~recovering /\ ~BeginRecovery
  <2>1. recovering' = recovering
    BY Zenon, <1>3 DEF Next, BootstrapStopped, BeginLoad, Loaded, Failed, AcquireReady, Release,
       BeginCancel, BeginEviction, BeginCleanup, BeginStop, FreezeForSwitch, UnfreezeSwitch,
       RollbackUnsent, Stopped, FinishRecovery, Tick, bookVars
  <2> QED BY <1>3, <2>1
<1> QED BY <1>1, <1>2, <1>3

\* Only AcquireReady adds a lease, and only a request that holds none.
LEMMA LeasesStep ==
    ASSUME TypeOK, [Next]_bookVars
    PROVE  \/ \A m \in Models : runtime'[m].leases \subseteq runtime[m].leases
           \/ \E m \in Models, req \in Requests : AcquireReady(m, req)
<1> USE DEF TypeOK
<1> DEFINE Shrinks == \A m \in Models : runtime'[m].leases \subseteq runtime[m].leases
<1>1. ASSUME NEW m \in Models, BootstrapStopped(m) PROVE Shrinks
  BY <1>1 DEF BootstrapStopped, Update, bootstrap_stopped, Runtime
<1>2. ASSUME NEW m \in Models, NEW sample, BeginLoad(m, sample) PROVE Shrinks
  BY <1>2 DEF BeginLoad, Update, begin_load, Runtime
<1>3. ASSUME NEW op \in operations,
             Loaded(op) \/ Failed(op) \/ RollbackUnsent(op) \/ Stopped(op)
      PROVE  Shrinks
  <2>1. op.model_id \in Models
    BY DEF Operation
  <2>2. \A r \in Runtime : /\ loaded(r, now).leases = r.leases
                          /\ failed(r).leases = r.leases
                          /\ rollback_unsent(r).leases = r.leases
                          /\ stopped(r, now).leases = r.leases
    BY DEF loaded, failed, rollback_unsent, stopped, Runtime
  <2> QED BY <1>3, <2>1, <2>2 DEF Loaded, Failed, RollbackUnsent, Stopped, Update
<1>4. ASSUME NEW lease \in granted, NEW outcome \in Outcome,
             Release(lease, outcome) \/ BeginCancel(lease)
      PROVE  Shrinks
  <2>1. lease.model_id \in Models
    BY DEF Lease
  <2>2. \A r \in Runtime : /\ release(r, lease, outcome, now).leases \subseteq r.leases
                          /\ begin_cancel(r, lease).leases = r.leases
    BY DEF release, begin_cancel, Runtime
  <2> QED BY <1>4, <2>1, <2>2 DEF Release, BeginCancel, Update
<1>5. ASSUME NEW S \in SUBSET Models, BeginStop(S) \/ FreezeForSwitch(S) \/ UnfreezeSwitch(S)
      PROVE  Shrinks
  <2>1. \A r \in Runtime : /\ begin_stop(r, uuid + 1).leases = r.leases
                          /\ freeze_for_switch(r).leases = r.leases
                          /\ unfreeze_switch(r).leases = r.leases
    BY DEF begin_stop, freeze_for_switch, unfreeze_switch, Runtime
  <2> QED BY <1>5, <2>1 DEF BeginStop, FreezeForSwitch, UnfreezeSwitch
<1>6. ASSUME BeginRecovery PROVE Shrinks
  BY Zenon, <1>6 DEF BeginRecovery, begin_recovery, Runtime
<1>10. ASSUME NEW e, NEW confirmed, FinishRecovery(e, confirmed) PROVE Shrinks
  BY Zenon, <1>10 DEF FinishRecovery, finish_recovery, Runtime
<1>7. ASSUME Tick \/ UNCHANGED bookVars PROVE Shrinks
  BY <1>7 DEF Tick, bookVars
<1> HIDE DEF Shrinks
<1>8. CASE \E m \in Models, req \in Requests : AcquireReady(m, req)
  BY <1>8
<1>9. ASSUME ~\E m \in Models, req \in Requests : AcquireReady(m, req) PROVE Shrinks
  BY Zenon, <1>1, <1>2, <1>3, <1>4, <1>5, <1>6, <1>7, <1>9, <1>10
     DEF Next, BeginEviction, BeginCleanup, Outcome
<1> QED BY <1>8, <1>9 DEF Shrinks

\* No call gives a request a second lease.
LEMMA HoldersStep == TypeOK /\ DistinctHolders /\ [Next]_bookVars => DistinctHolders'
<1> SUFFICES ASSUME TypeOK, DistinctHolders, [Next]_bookVars PROVE DistinctHolders'
  OBVIOUS
<1>1. CASE \A m \in Models : runtime'[m].leases \subseteq runtime[m].leases
  BY <1>1 DEF DistinctHolders
<1>2. ASSUME NEW m \in Models, NEW req \in Requests, AcquireReady(m, req)
      PROVE  DistinctHolders'
  <2>1. acquire_ready(runtime[m], NewLease(m, req)).leases
            = runtime[m].leases \cup {NewLease(m, req)}
    BY DEF acquire_ready, Runtime, TypeOK
  <2>2. \A k \in Models : runtime'[k].leases =
            IF k = m THEN runtime[k].leases \cup {NewLease(m, req)} ELSE runtime[k].leases
    BY <1>2, <2>1 DEF AcquireReady, Update, TypeOK
  <2>3. \A k \in Models : \A held \in runtime[k].leases : held.request_id # req
    BY <1>2 DEF AcquireReady, may_acquire
  <2>4. NewLease(m, req).request_id = req
    BY DEF NewLease
  <2>5. \A k \in Models : \A held \in runtime'[k].leases :
            held = NewLease(m, req) \/ held \in runtime[k].leases
    BY Zenon, <2>2
  <2> QED BY <2>3, <2>4, <2>5 DEF DistinctHolders
<1> QED BY <1>1, <1>2, LeasesStep

-----------------------------------------------------------------------------
(* The ledgers *)

\* The charged models are those not proven stopped.
LEMMA ChargedByState ==
    ASSUME NEW rt \in [Models -> Runtime], \A m \in Models : RowInv(m, rt[m])
    PROVE  /\ Charged(rt) = {m \in Models : rt[m].state # "UNLOADED"}
           /\ committed(rt) = Sum(Masked(Required, Charged(rt)))
<1>1. ASSUME NEW m \in Models PROVE rt[m].reservation > 0 <=> rt[m].state # "UNLOADED"
  BY ConstantAssumption DEF RowInv
<1>2. Charged(rt) = {m \in Models : rt[m].state # "UNLOADED"}
  BY <1>1 DEF Charged
<1>3. ASSUME NEW m \in Models
      PROVE  rt[m].reservation = IF m \in Charged(rt) THEN Required[m] ELSE 0
  BY <1>2 DEF RowInv
<1>4. [m \in Models |-> rt[m].reservation] = Masked(Required, Charged(rt))
  BY <1>3 DEF Masked
<1> QED BY <1>2, <1>4 DEF committed

\* What a step does to the ledgers, seen from outside: it ends leases, refunds
\* idle models, admits a load, or grants a lease.
Settles ==
    /\ Charged(runtime') = Charged(runtime)
    /\ \A m \in Models : runtime'[m].leases \subseteq runtime[m].leases
    /\ \A m \in Models : runtime'[m].generation = runtime[m].generation

Refunds(S) ==
    /\ Charged(runtime') = Charged(runtime) \ S
    /\ \A m \in S : runtime[m].leases = {}
    /\ \A m \in Models : runtime'[m].leases = runtime[m].leases
    /\ \A m \in Models : runtime'[m].generation = runtime[m].generation

\* Every step of the book is one of the four.
LEMMA StepEffects ==
    ASSUME TypeOK, RowsInv, [Next]_bookVars
    PROVE  \/ Settles
           \/ \E m \in Charged(runtime) : Refunds({m})
           \/ Refunds(Charged(runtime))
           \/ \E m \in Models, sample \in Sample : BeginLoad(m, sample)
           \/ \E m \in Models, req \in Requests : AcquireReady(m, req)
<1> USE DEF TypeOK
<1> DEFINE Refunded == (\E m \in Charged(runtime) : Refunds({m})) \/ Refunds(Charged(runtime))
<1>1. ASSUME NEW m \in Models, BootstrapStopped(m) PROVE Refunded
  <2>1. /\ runtime' = [runtime EXCEPT ![m] = bootstrap_stopped(runtime[m])]
        /\ runtime[m].leases = {}
        /\ runtime[m].state = "UNKNOWN"
    BY <1>1 DEF BootstrapStopped, Update
  <2>2. /\ bootstrap_stopped(runtime[m]).reservation = 0
        /\ bootstrap_stopped(runtime[m]).leases = runtime[m].leases
        /\ bootstrap_stopped(runtime[m]).generation = runtime[m].generation
    BY DEF bootstrap_stopped, Runtime
  <2>3. m \in Charged(runtime)
    BY <2>1, ChargedByState DEF RowsInv
  <2>4. \A k \in Models : /\ runtime'[k].reservation = IF k = m THEN 0 ELSE runtime[k].reservation
                         /\ runtime'[k].leases = runtime[k].leases
                         /\ runtime'[k].generation = runtime[k].generation
    BY <2>1, <2>2
  <2>5. Charged(runtime') = Charged(runtime) \ {m}
    BY <2>4 DEF Charged
  <2>6. Refunds({m})
    BY Zenon, <2>1, <2>4, <2>5 DEF Refunds
  <2> QED BY <2>3, <2>6
<1>2. ASSUME NEW op \in operations, Stopped(op) PROVE Refunded
  <2> DEFINE m == op.model_id
  <2>1. m \in Models
    BY DEF Operation
  <2>2. /\ runtime' = [runtime EXCEPT ![m] = stopped(runtime[m], now)]
        /\ runtime[m].leases = {}
        /\ runtime[m].state = "EVICTING"
    BY <1>2 DEF Stopped, Update, may_settle
  <2>3. /\ stopped(runtime[m], now).reservation = 0
        /\ stopped(runtime[m], now).leases = runtime[m].leases
        /\ stopped(runtime[m], now).generation = runtime[m].generation
    BY <2>1 DEF stopped, Runtime
  <2>4. m \in Charged(runtime)
    BY <2>1, <2>2, ChargedByState DEF RowsInv
  <2> HIDE DEF m
  <2>5. \A k \in Models : /\ runtime'[k].reservation = IF k = m THEN 0 ELSE runtime[k].reservation
                         /\ runtime'[k].leases = runtime[k].leases
                         /\ runtime'[k].generation = runtime[k].generation
    BY <2>1, <2>2, <2>3
  <2>6. Charged(runtime') = Charged(runtime) \ {m}
    BY <2>5 DEF Charged
  <2>7. Refunds({m})
    BY Zenon, <2>2, <2>5, <2>6 DEF Refunds
  <2> QED BY <2>4, <2>7
<1>3. ASSUME NEW e, NEW confirmed, FinishRecovery(e, confirmed) PROVE Refunded
  <2>1. \A r \in Runtime : /\ finish_recovery(r).reservation = 0
                          /\ finish_recovery(r).leases = r.leases
                          /\ finish_recovery(r).generation = r.generation
    BY DEF finish_recovery, Runtime
  <2> QED BY <1>3, <2>1 DEF FinishRecovery, Refunds, Charged
<1>4. ASSUME NEW op \in operations, Loaded(op) \/ Failed(op) \/ RollbackUnsent(op) PROVE Settles
  <2> DEFINE m == op.model_id
  <2>1. m \in Models
    BY DEF Operation
  <2>2. \A r \in Runtime :
            /\ loaded(r, now).reservation = r.reservation
            /\ loaded(r, now).leases = r.leases
            /\ loaded(r, now).generation = r.generation
            /\ failed(r).reservation = r.reservation
            /\ failed(r).leases = r.leases
            /\ failed(r).generation = r.generation
            /\ rollback_unsent(r).reservation = r.reservation
            /\ rollback_unsent(r).leases = r.leases
            /\ rollback_unsent(r).generation = r.generation
    BY DEF loaded, failed, rollback_unsent, Runtime
  <2>3. \A k \in Models : /\ runtime'[k].reservation = runtime[k].reservation
                         /\ runtime'[k].leases = runtime[k].leases
                         /\ runtime'[k].generation = runtime[k].generation
    BY <1>4, <2>1, <2>2 DEF Loaded, Failed, RollbackUnsent, Update
  <2> QED BY <2>3 DEF Settles, Charged
<1>5. ASSUME NEW lease \in granted, NEW outcome \in Outcome,
             Release(lease, outcome) \/ BeginCancel(lease)
      PROVE  Settles
  <2>1. lease.model_id \in Models
    BY DEF Lease
  <2>2. \A r \in Runtime :
            /\ release(r, lease, outcome, now).reservation = r.reservation
            /\ release(r, lease, outcome, now).leases \subseteq r.leases
            /\ release(r, lease, outcome, now).generation = r.generation
            /\ begin_cancel(r, lease).reservation = r.reservation
            /\ begin_cancel(r, lease).leases = r.leases
            /\ begin_cancel(r, lease).generation = r.generation
    BY DEF release, begin_cancel, Runtime
  <2>3. \A k \in Models : /\ runtime'[k].reservation = runtime[k].reservation
                         /\ runtime'[k].leases \subseteq runtime[k].leases
                         /\ runtime'[k].generation = runtime[k].generation
    BY <1>5, <2>1, <2>2 DEF Release, BeginCancel, Update
  <2> QED BY <2>3 DEF Settles, Charged
<1>6. ASSUME NEW S \in SUBSET Models, BeginStop(S) \/ FreezeForSwitch(S) \/ UnfreezeSwitch(S)
      PROVE  Settles
  <2>1. \A r \in Runtime :
            /\ begin_stop(r, uuid + 1).reservation = r.reservation
            /\ begin_stop(r, uuid + 1).leases = r.leases
            /\ begin_stop(r, uuid + 1).generation = r.generation
            /\ freeze_for_switch(r).reservation = r.reservation
            /\ freeze_for_switch(r).leases = r.leases
            /\ freeze_for_switch(r).generation = r.generation
            /\ unfreeze_switch(r).reservation = r.reservation
            /\ unfreeze_switch(r).leases = r.leases
            /\ unfreeze_switch(r).generation = r.generation
    BY DEF begin_stop, freeze_for_switch, unfreeze_switch, Runtime
  <2>2. \A k \in Models : /\ runtime'[k].reservation = runtime[k].reservation
                         /\ runtime'[k].leases = runtime[k].leases
                         /\ runtime'[k].generation = runtime[k].generation
    BY <1>6, <2>1 DEF BeginStop, FreezeForSwitch, UnfreezeSwitch
  <2> QED BY <2>2 DEF Settles, Charged
<1>7. ASSUME BeginRecovery PROVE Settles
  <2>1. \A r \in Runtime : /\ begin_recovery(r).reservation = r.reservation
                          /\ begin_recovery(r).leases = r.leases
                          /\ begin_recovery(r).generation = r.generation
    BY DEF begin_recovery, Runtime
  <2> QED BY <1>7, <2>1 DEF BeginRecovery, Settles, Charged
<1>8. ASSUME Tick \/ UNCHANGED bookVars PROVE Settles
  BY <1>8 DEF Tick, bookVars, Settles, Charged
<1>9. CASE \E m \in Models, req \in Requests : AcquireReady(m, req)
  BY <1>9
<1>10. ASSUME NEW m \in Models, NEW at \in 0..(now + 1), NEW bytes \in Readings,
              BeginLoad(m, [sampled_at |-> at, available_bytes |-> bytes])
       PROVE  \E sample \in Sample : BeginLoad(m, sample)
  BY <1>10 DEF Sample
<1> HIDE DEF Refunded
<1>11. ASSUME ~\E m \in Models, req \in Requests : AcquireReady(m, req),
              ~\E m \in Models, sample \in Sample : BeginLoad(m, sample)
       PROVE  Settles \/ Refunded
  BY Zenon, <1>1, <1>2, <1>3, <1>4, <1>5, <1>6, <1>7, <1>8, <1>10, <1>11
     DEF Next, BeginEviction, BeginCleanup, Outcome
<1> QED BY <1>9, <1>11 DEF Refunded

\* Both weights are numbers of bytes, and taking a model out of a ledger never
\* makes it larger.
LEMMA SumFacts ==
    /\ Required \in [Models -> Nat]
    /\ Figure \in [Models -> Nat]
    /\ \A w \in {Required, Figure}, S \in SUBSET Models :
           /\ Sum(Masked(w, S)) \in Nat
           /\ Sum(Masked(w, {})) = 0
           /\ \A m \in S : Sum(Masked(w, S \ {m})) <= Sum(Masked(w, S))
<1>1. Required \in [Models -> Nat]
  BY ConstantAssumption
<1>2. Figure \in [Models -> Nat]
  BY ConstantAssumption DEF Figure
<1>3. ASSUME NEW w \in {Required, Figure}, NEW S \in SUBSET Models, NEW m \in S
      PROVE  Sum(Masked(w, S \ {m})) <= Sum(Masked(w, S))
  <2>1. (S \ {m}) \cup {m} = S /\ S \ {m} \in SUBSET Models /\ m \in Models \ (S \ {m})
    OBVIOUS
  <2>2. /\ Sum(Masked(w, S \ {m})) \in Nat
        /\ Sum(Masked(w, (S \ {m}) \cup {m})) = Sum(Masked(w, S \ {m})) + w[m]
    BY <2>1, SumAssumption
  <2>3. w[m] \in Nat
    BY <1>1, <1>2
  <2>4. Sum(Masked(w, S)) = Sum(Masked(w, S \ {m})) + w[m]
    BY <2>1, <2>2
  <2> QED BY <2>2, <2>3, <2>4
<1> QED BY <1>1, <1>2, <1>3, SumAssumption

\* An admitted load charges one more model and leaves both ledgers in budget.
LEMMA LoadInsideBudget ==
    ASSUME TypeOK, RowsInv, NEW m \in Models, NEW sample, BeginLoad(m, sample)
    PROVE  /\ m \notin Charged(runtime)
           /\ Charged(runtime') = Charged(runtime) \cup {m}
           /\ Sum(Masked(Required, Charged(runtime'))) <= Budget
           /\ Sum(Masked(Figure, Charged(runtime'))) <= Budget
           /\ \A k \in Models : runtime'[k].leases = runtime[k].leases
<1> USE DEF TypeOK
<1>1. /\ runtime' = [runtime EXCEPT ![m] = begin_load(m, runtime[m], uuid + 1)]
      /\ runtime[m].state = "UNLOADED"
      /\ committed(runtime) + Required[m] <= Budget
      /\ physical_admissible(runtime, m)
  BY DEF BeginLoad, Update, can_load
<1>2. m \notin Charged(runtime) /\ Charged(runtime) \in SUBSET Models
  BY Zenon, <1>1, ChargedByState DEF RowsInv, Charged
<1>3. /\ begin_load(m, runtime[m], uuid + 1).reservation = Required[m]
      /\ begin_load(m, runtime[m], uuid + 1).leases = runtime[m].leases
  BY DEF begin_load, Runtime
<1>4. \A k \in Models : /\ runtime'[k].reservation =
                               IF k = m THEN Required[m] ELSE runtime[k].reservation
                       /\ runtime'[k].leases = runtime[k].leases
  BY <1>1, <1>3
<1>5. Required[m] > 0
  BY ConstantAssumption
<1>6. Charged(runtime') = Charged(runtime) \cup {m}
  BY <1>4, <1>5 DEF Charged
<1>7. Sum(Masked(Required, Charged(runtime'))) <= Budget
  <2>1. Sum(Masked(Required, Charged(runtime'))) = committed(runtime) + Required[m]
    BY <1>2, <1>6, ChargedByState, SumAssumption DEF RowsInv
  <2> QED BY <1>1, <2>1
<1>8. Sum(Masked(Figure, Charged(runtime'))) <= Budget
  <2>1. Sum(Masked(Figure, Charged(runtime'))) = Sum(Masked(Figure, Charged(runtime))) + Figure[m]
    BY <1>2, <1>6, SumAssumption
  <2>2. CASE physical_enforced
    <3>1. Charged(runtime) \ {m} = Charged(runtime)
      BY <1>2
    <3>2. /\ Physical[m] # None
          /\ Sum(Masked(Figure, Charged(runtime))) + Physical[m] <= Budget
      BY <1>1, <2>2, <3>1 DEF physical_admissible
    <3>3. Figure[m] = Physical[m]
      BY <3>2 DEF Figure
    <3> QED BY <2>1, <3>2, <3>3
  <2>3. CASE ~physical_enforced
    <3>1. \A k \in Models : Figure[k] = 0
      BY <2>3 DEF physical_enforced, Figure
    <3>2. Masked(Figure, Charged(runtime')) = Masked(Figure, {})
      BY <3>1 DEF Masked
    <3>3. Budget \in Nat
      BY ConstantAssumption
    <3> QED BY <3>2, <3>3, SumFacts
  <2> QED BY <2>2, <2>3
<1> QED BY <1>2, <1>4, <1>6, <1>7, <1>8

\* No call takes either ledger over the budget once something was loaded.
LEMMA BudgetStep ==
    TypeOK /\ BookInv /\ [Next]_bookVars => BudgetHolds'
<1> SUFFICES ASSUME TypeOK, BookInv, [Next]_bookVars PROVE BudgetHolds'
  OBVIOUS
<1>1. TypeOK' /\ RowsInv /\ RowsInv'
  BY TypeStep, RowsStep DEF BookInv
<1>2. /\ committed(runtime) = Sum(Masked(Required, Charged(runtime)))
      /\ committed(runtime') = Sum(Masked(Required, Charged(runtime')))
      /\ Charged(runtime) \in SUBSET Models
      /\ Budget \in Nat
  BY <1>1, ChargedByState, ConstantAssumption DEF RowsInv, TypeOK, Charged
<1>3. /\ Sum(Masked(Required, Charged(runtime))) \in Nat
      /\ Sum(Masked(Figure, Charged(runtime))) \in Nat
      /\ Sum(Masked(Required, {})) = 0
      /\ Sum(Masked(Figure, {})) = 0
  BY <1>2, SumFacts
<1> DEFINE Within(S) == /\ Sum(Masked(Required, S)) <= Budget
                       /\ Sum(Masked(Figure, S)) <= Budget
<1>4. BudgetHolds <=> ((\E m \in Models : runtime[m].generation > 0) => Within(Charged(runtime)))
  BY <1>2 DEF BudgetHolds, physical_committed
<1>5. BudgetHolds' <=> ((\E m \in Models : runtime'[m].generation > 0) => Within(Charged(runtime')))
  BY <1>2 DEF BudgetHolds, physical_committed, committed, Charged
<1> HIDE DEF Within
<1>6. CASE Settles
  BY <1>4, <1>5, <1>6 DEF Settles, BookInv
<1>7. ASSUME NEW m \in Charged(runtime), Refunds({m}) PROVE BudgetHolds'
  <2>1. /\ Sum(Masked(Required, Charged(runtime) \ {m})) <= Sum(Masked(Required, Charged(runtime)))
        /\ Sum(Masked(Figure, Charged(runtime) \ {m})) <= Sum(Masked(Figure, Charged(runtime)))
        /\ Sum(Masked(Required, Charged(runtime) \ {m})) \in Nat
        /\ Sum(Masked(Figure, Charged(runtime) \ {m})) \in Nat
    BY <1>2, SumFacts
  <2>2. Within(Charged(runtime)) => Within(Charged(runtime) \ {m})
    BY <1>2, <1>3, <2>1 DEF Within
  <2> QED BY <1>4, <1>5, <1>7, <2>2 DEF Refunds, BookInv
<1>8. CASE Refunds(Charged(runtime))
  <2>1. Charged(runtime') = {}
    BY <1>8 DEF Refunds
  <2> QED BY <1>2, <1>3, <1>5, <2>1 DEF Within
<1>9. ASSUME NEW m \in Models, NEW sample \in Sample, BeginLoad(m, sample) PROVE BudgetHolds'
  BY <1>1, <1>5, <1>9, LoadInsideBudget DEF Within
<1>10. ASSUME NEW m \in Models, NEW req \in Requests, AcquireReady(m, req) PROVE BudgetHolds'
  <2>1. /\ acquire_ready(runtime[m], NewLease(m, req)).reservation = runtime[m].reservation
        /\ acquire_ready(runtime[m], NewLease(m, req)).generation = runtime[m].generation
    BY DEF acquire_ready, Runtime, TypeOK
  <2>2. \A k \in Models : /\ runtime'[k].reservation = runtime[k].reservation
                         /\ runtime'[k].generation = runtime[k].generation
    BY <1>10, <2>1 DEF AcquireReady, Update, TypeOK
  <2>3. Charged(runtime') = Charged(runtime)
    BY <2>2 DEF Charged
  <2> QED BY <1>4, <1>5, <2>2, <2>3 DEF BookInv
<1> QED BY Zenon, <1>1, <1>6, <1>7, <1>8, <1>9, <1>10, StepEffects

-----------------------------------------------------------------------------
(* Theorems *)

\* A fresh book satisfies the inductive invariant.
LEMMA BookInit == Init => BookInv
<1> SUFFICES ASSUME Init PROVE BookInv
  OBVIOUS
<1>1. \A m \in Models : runtime[m] = new_runtime(m)
  BY DEF Init
<1>2. RowsInv
  <2>1. ASSUME NEW m \in Models PROVE RowInv(m, new_runtime(m))
    <3>1. IsFiniteSet({}) /\ Cardinality({}) = 0
      BY FS_EmptySet
    <3> QED BY <3>1, ConstantAssumption DEF RowInv, new_runtime
  <2> QED BY <1>1, <2>1 DEF RowsInv
<1>6. \A m \in Models : /\ runtime[m].operation_id = None
                       /\ runtime[m].leases = {}
                       /\ runtime[m].generation = 0
  <2>1. \A m \in Models : /\ new_runtime(m).operation_id = None
                         /\ new_runtime(m).leases = {}
                         /\ new_runtime(m).generation = 0
    BY DEF new_runtime
  <2> QED BY <1>1, <2>1
<1>3. TokensInv
  BY <1>6 DEF TokensInv
<1>7. DistinctHolders
  BY <1>6, Zenon DEF DistinctHolders
<1>4. QuiescedInv
  BY Zenon DEF QuiescedInv, Init
<1>5. BudgetHolds
  BY <1>6 DEF BudgetHolds
<1> QED BY <1>2, <1>3, <1>4, <1>5, <1>7 DEF BookInv

\* The inductive invariant holds after any sequence of calls, late and repeated
\* tokens included.
THEOREM Inductive == Spec => []BookInv
<1>1. TypeOK /\ BookInv /\ [Next]_bookVars => BookInv'
  BY RowsStep, TokensStep, QuiescedStep, HoldersStep, BudgetStep DEF BookInv
<1> QED BY <1>1, BookInit, TypeCorrect, PTL DEF Spec

\* Both ledgers stay inside the model budget once any load was admitted.
THEOREM BudgetSafety == Spec => []BudgetHolds
<1>1. BookInv => BudgetHolds
  BY DEF BookInv
<1> QED BY <1>1, Inductive, PTL

\* A held lease always names a resident model of its own generation.
THEOREM LeaseSafety == Spec => []LeaseHeldOnResidentModel
<1>1. BookInv => LeaseHeldOnResidentModel
  BY DEF BookInv, RowsInv, RowInv, LeaseHeldOnResidentModel
<1> QED BY <1>1, Inductive, PTL

\* No request holds two leases and no model serves more than its slots.
THEOREM SlotSafety == Spec => []SlotsRespected
<1>1. BookInv => SlotsRespected
  BY DEF BookInv, RowsInv, RowInv, DistinctHolders, SlotsRespected
<1> QED BY <1>1, Inductive, PTL

\* While a recovery is open nothing serves and no token is accepted.
THEOREM FenceSafety == Spec => []RecoveryFence
<1>1. TypeOK /\ BookInv => RecoveryFence
  <2> SUFFICES ASSUME TypeOK, BookInv, recovering PROVE RecoveryFence
    BY DEF RecoveryFence
  <2>1. \A m \in Models : /\ runtime[m].state \in {"UNLOADED", "ERROR"}
                         /\ runtime[m].admission_blocked
                         /\ runtime[m].operation_id = None
    BY DEF BookInv, QuiescedInv, RowsInv, RowInv
  <2>2. \A op \in operations : op.model_id \in Models /\ op.operation_id # None
    BY ConstantAssumption DEF TypeOK, Operation
  <2> QED BY <2>1, <2>2 DEF RecoveryFence, _operation
<1> QED BY <1>1, Inductive, TypeCorrect, PTL

\* A loading or stopping row waits for exactly one token, which was handed out;
\* every other row accepts none.
THEOREM TokenSafety == Spec => []BusyRowHasItsToken
<1>1. TypeOK /\ BookInv => BusyRowHasItsToken
  <2> SUFFICES ASSUME TypeOK, BookInv, NEW m \in Models
               PROVE  LET current == {op \in operations : op.model_id = m /\ _operation(runtime, op)}
                      IN  IF runtime[m].state \in {"LOADING", "EVICTING"}
                          THEN \E op \in current : current = {op}
                          ELSE current = {}
    BY DEF BusyRowHasItsToken
  <2> DEFINE current == {op \in operations : op.model_id = m /\ _operation(runtime, op)}
  <2>1. runtime[m].operation_id # None <=> runtime[m].state \in {"LOADING", "EVICTING"}
    BY DEF BookInv, RowsInv, RowInv
  <2>2. \A op \in operations : op.operation_id # None
    BY ConstantAssumption DEF TypeOK, Operation
  <2>3. ASSUME NEW op \in current PROVE op = RowToken(m)
    BY DEF TypeOK, Operation, RowToken, _operation
  <2>4. CASE runtime[m].operation_id = None
    <3>1. current = {}
      BY <2>2, <2>4 DEF _operation
    <3> QED BY <2>1, <2>4, <3>1
  <2>5. CASE runtime[m].operation_id # None
    <3>1. RowToken(m) \in current
      BY <2>5 DEF BookInv, TokensInv, RowToken, _operation
    <3>2. current = {RowToken(m)}
      BY <2>3, <3>1
    <3> QED BY <2>1, <2>5, <3>1, <3>2
  <2> QED BY <2>4, <2>5
<1> QED BY <1>1, Inductive, TypeCorrect, PTL

\* Memory leaves the ledger only on a proven stop, and never under a lease.
THEOREM RefundSafety == Spec => RefundOnlyOnProof
<1> DEFINE Proven == \A m \in Models : runtime'[m].reservation < runtime[m].reservation =>
                        /\ runtime[m].leases = {}
                        /\ \/ runtime[m].state = "EVICTING"
                           \/ runtime[m].state = "UNKNOWN"
                           \/ recovering /\ ~recovering'
<1>1. TypeOK /\ BookInv /\ [Next]_bookVars => [Proven]_bookVars
  <2> SUFFICES ASSUME TypeOK, RowsInv, Next, NEW m \in Models,
                      runtime'[m].reservation < runtime[m].reservation
               PROVE  /\ runtime[m].leases = {}
                      /\ \/ runtime[m].state = "EVICTING"
                         \/ runtime[m].state = "UNKNOWN"
                         \/ recovering /\ ~recovering'
    BY DEF BookInv
  <2> USE DEF TypeOK
  <2>1. runtime[m].reservation \in Nat /\ Required[m] \in Nat
    BY ConstantAssumption DEF Runtime
  <2>2. ASSUME NEW k \in Models, BootstrapStopped(k)
        PROVE  runtime[m].leases = {} /\ runtime[m].state = "UNKNOWN"
    BY <2>1, <2>2 DEF BootstrapStopped, Update
  <2>3. ASSUME NEW op \in operations, Stopped(op)
        PROVE  runtime[m].leases = {} /\ runtime[m].state = "EVICTING"
    BY <2>1, <2>3 DEF Stopped, Update, may_settle, Operation
  <2>4. ASSUME NEW e, NEW confirmed, FinishRecovery(e, confirmed)
        PROVE  runtime[m].leases = {} /\ recovering /\ ~recovering'
    BY <2>4 DEF FinishRecovery
  <2>5. ASSUME NEW k \in Models, NEW sample, BeginLoad(k, sample) PROVE FALSE
    <3>1. begin_load(k, runtime[k], uuid + 1).reservation = Required[k]
      BY DEF begin_load, Runtime
    <3>2. runtime[k].reservation = 0
      BY Zenon, <2>5 DEF BeginLoad, can_load, RowsInv, RowInv
    <3> QED BY <2>1, <2>5, <3>1, <3>2 DEF BeginLoad, Update
  <2>6. ASSUME NEW k \in Models, NEW req \in Requests, AcquireReady(k, req) PROVE FALSE
    <3>1. acquire_ready(runtime[k], NewLease(k, req)).reservation = runtime[k].reservation
      BY DEF acquire_ready, Runtime
    <3> QED BY <2>1, <2>6, <3>1 DEF AcquireReady, Update
  <2>7. ASSUME NEW op \in operations, Loaded(op) \/ Failed(op) \/ RollbackUnsent(op) PROVE FALSE
    <3>1. \A r \in Runtime : /\ loaded(r, now).reservation = r.reservation
                            /\ failed(r).reservation = r.reservation
                            /\ rollback_unsent(r).reservation = r.reservation
      BY DEF loaded, failed, rollback_unsent, Runtime
    <3> QED BY <2>1, <2>7, <3>1 DEF Loaded, Failed, RollbackUnsent, Update, Operation
  <2>8. ASSUME NEW lease \in granted, NEW outcome \in Outcome,
               Release(lease, outcome) \/ BeginCancel(lease)
        PROVE  FALSE
    <3>1. \A r \in Runtime : /\ release(r, lease, outcome, now).reservation = r.reservation
                            /\ begin_cancel(r, lease).reservation = r.reservation
      BY DEF release, begin_cancel, Runtime
    <3> QED BY <2>1, <2>8, <3>1 DEF Release, BeginCancel, Update, Lease
  <2>9. ASSUME NEW S \in SUBSET Models, BeginStop(S) \/ FreezeForSwitch(S) \/ UnfreezeSwitch(S)
        PROVE  FALSE
    <3>1. \A r \in Runtime : /\ begin_stop(r, uuid + 1).reservation = r.reservation
                            /\ freeze_for_switch(r).reservation = r.reservation
                            /\ unfreeze_switch(r).reservation = r.reservation
      BY DEF begin_stop, freeze_for_switch, unfreeze_switch, Runtime
    <3> QED BY <2>1, <2>9, <3>1 DEF BeginStop, FreezeForSwitch, UnfreezeSwitch
  <2>10. ~BeginRecovery
    <3>1. \A r \in Runtime : begin_recovery(r).reservation = r.reservation
      BY DEF begin_recovery, Runtime
    <3> QED BY <2>1, <3>1 DEF BeginRecovery
  <2>11. ~Tick
    BY <2>1 DEF Tick
  <2> QED BY Zenon, <2>2, <2>3, <2>4, <2>5, <2>6, <2>7, <2>8, <2>9, <2>10, <2>11
             DEF Next, BeginEviction, BeginCleanup, Outcome
<1> QED BY <1>1, Inductive, TypeCorrect, PTL DEF Spec, RefundOnlyOnProof

\* A failed model leaves ERROR only by a stop or a finished recovery, after its
\* last lease.
THEOREM FailureSafety == Spec => FailedLeavesByStop
<1> DEFINE Legal(m) == /\ runtime[m].leases = {}
                       /\ \/ runtime'[m].state = "EVICTING"
                          \/ runtime'[m].state = "UNLOADED" /\ recovering /\ ~recovering'
<1> DEFINE Leaves == \A m \in Models :
                        runtime[m].state = "ERROR" /\ runtime'[m].state # "ERROR" => Legal(m)
<1>1. TypeOK /\ BookInv /\ [Next]_bookVars => [Leaves]_bookVars
  <2> SUFFICES ASSUME TypeOK, RowsInv, Next, NEW m \in Models,
                      runtime[m].state = "ERROR", runtime'[m].state # "ERROR"
               PROVE  Legal(m)
    BY DEF BookInv
  <2> USE DEF TypeOK
  <2>1. runtime[m].operation_id = None
    BY DEF RowsInv, RowInv
  <2>2. ASSUME NEW op \in operations PROVE op.model_id = m => ~_operation(runtime, op)
    BY <2>1, ConstantAssumption DEF _operation, Operation
  <2>3. ASSUME NEW S \in SUBSET Models, BeginStop(S), \A k \in S : may_clean(runtime[k])
        PROVE  Legal(m)
    <3>1. begin_stop(runtime[m], uuid + 1).state = "EVICTING"
      BY DEF begin_stop, Runtime
    <3> QED BY <2>3, <3>1 DEF BeginStop, may_clean
  <2>4. ASSUME NEW e, NEW confirmed, FinishRecovery(e, confirmed) PROVE Legal(m)
    <3>1. finish_recovery(runtime[m]).state = "UNLOADED"
      BY DEF finish_recovery, Runtime
    <3> QED BY <2>4, <3>1 DEF FinishRecovery
  <2>5. ASSUME NEW op \in operations,
               Loaded(op) \/ Failed(op) \/ RollbackUnsent(op) \/ Stopped(op)
        PROVE  FALSE
    BY <2>2, <2>5 DEF Loaded, Failed, RollbackUnsent, Stopped, Update
  <2>6. ASSUME NEW k \in Models, NEW sample, BootstrapStopped(k) \/ BeginLoad(k, sample) PROVE FALSE
    BY <2>6 DEF BootstrapStopped, BeginLoad, can_load, Update
  <2>7. ASSUME NEW k \in Models, NEW req \in Requests, AcquireReady(k, req) PROVE FALSE
    BY <2>7 DEF AcquireReady, may_acquire, Update
  <2>8. ASSUME NEW lease \in granted, NEW outcome \in Outcome,
               Release(lease, outcome) \/ BeginCancel(lease)
        PROVE  FALSE
    <3>1. \A r \in Runtime : r.state = "ERROR" =>
              /\ release(r, lease, outcome, now).state = "ERROR"
              /\ begin_cancel(r, lease).state = "ERROR"
      BY DEF release, begin_cancel, Runtime
    <3> QED BY <2>8, <3>1 DEF Release, BeginCancel, Update, Lease
  <2>9. ASSUME NEW S \in SUBSET Models, FreezeForSwitch(S) \/ UnfreezeSwitch(S) PROVE FALSE
    <3>1. \A r \in Runtime : /\ freeze_for_switch(r).state = r.state
                            /\ unfreeze_switch(r).state = r.state
      BY DEF freeze_for_switch, unfreeze_switch, Runtime
    <3> QED BY <2>9, <3>1 DEF FreezeForSwitch, UnfreezeSwitch
  <2>10. ~BeginRecovery
    <3>1. begin_recovery(runtime[m]).state = "ERROR"
      BY DEF begin_recovery, Runtime
    <3> QED BY <3>1 DEF BeginRecovery
  <2>11. ~Tick
    BY DEF Tick
  <2>12. \A S \in SUBSET Models, automatic \in BOOLEAN : BeginEviction(S, automatic) =>
             BeginStop(S) /\ \A k \in S : may_clean(runtime[k])
    BY DEF BeginEviction, may_evict, may_clean
  <2> HIDE DEF Legal
  <2> QED BY Zenon, <2>3, <2>4, <2>5, <2>6, <2>7, <2>8, <2>9, <2>10, <2>11, <2>12
             DEF Next, BeginCleanup, Outcome
<1> QED BY <1>1, Inductive, TypeCorrect, PTL DEF Spec, FailedLeavesByStop

\* The book implements the abstract ledger: every call is a charge inside both
\* budgets, a refund of models nobody holds, a grant to a request that holds
\* nothing, an end of leases, or no step of the ledger at all.
THEOREM Refinement == Spec => ResidencySpec
<1>1. Init => Ledger!Init
  <2> SUFFICES ASSUME Init PROVE Ledger!Init
    OBVIOUS
  <2>1. \A m \in Models : runtime[m] = new_runtime(m)
    BY DEF Init
  <2>2. \A m \in Models : new_runtime(m).reservation = Required[m] /\ new_runtime(m).leases = {}
    BY DEF new_runtime
  <2>3. Charged(runtime) = Models
    BY <2>1, <2>2, ConstantAssumption DEF Charged
  <2>4. Holders(runtime) = [m \in Models |-> {}]
    BY <2>1, <2>2 DEF Holders
  <2> QED BY <2>3, <2>4 DEF Ledger!Init
<1>2. TypeOK /\ BookInv /\ [Next]_bookVars => [Ledger!Next]_(Ledger!resVars)
  <2> SUFFICES ASSUME TypeOK, BookInv, [Next]_bookVars
               PROVE  Ledger!Next \/ UNCHANGED Ledger!resVars
    OBVIOUS
  <2>1. TypeOK' /\ RowsInv
    BY TypeStep DEF BookInv
  <2>2. /\ Holders(runtime) \in [Models -> SUBSET Requests]
        /\ Holders(runtime') \in [Models -> SUBSET Requests]
        /\ Charged(runtime) \in SUBSET Models
    BY <2>1 DEF Holders, TypeOK, Runtime, Lease, Charged
  <2>3. CASE Settles
    <3>1. \A m \in Models : Holders(runtime')[m] \subseteq Holders(runtime)[m]
      BY <2>3 DEF Settles, Holders
    <3>2. Ledger!Return
      BY <2>2, <2>3, <3>1 DEF Settles, Ledger!Return
    <3> QED BY <3>2 DEF Ledger!Next
  <2>4. ASSUME NEW S \in SUBSET Charged(runtime), Refunds(S) PROVE Ledger!Next
    <3>1. Holders(runtime') = Holders(runtime) /\ \A m \in S : Holders(runtime)[m] = {}
      BY <2>2, <2>4 DEF Refunds, Holders
    <3>2. Ledger!Refund(S)
      BY <2>4, <3>1 DEF Refunds, Ledger!Refund
    <3> QED BY <2>2, <3>2 DEF Ledger!Next
  <2>5. ASSUME NEW m \in Models, NEW sample \in Sample, BeginLoad(m, sample) PROVE Ledger!Next
    <3>1. /\ m \notin Charged(runtime)
          /\ Charged(runtime') = Charged(runtime) \cup {m}
          /\ Sum(Masked(Required, Charged(runtime'))) <= Budget
          /\ Sum(Masked(Figure, Charged(runtime'))) <= Budget
          /\ \A k \in Models : runtime'[k].leases = runtime[k].leases
      BY <2>1, <2>5, LoadInsideBudget
    <3>2. Holders(runtime') = Holders(runtime)
      BY <3>1 DEF Holders
    <3>3. Ledger!Charge(m)
      BY <3>1, <3>2 DEF Ledger!Charge, Ledger!Masked, Masked
    <3> QED BY <3>3 DEF Ledger!Next
  <2>6. ASSUME NEW m \in Models, NEW req \in Requests, AcquireReady(m, req) PROVE Ledger!Next
    <3> DEFINE new == acquire_ready(runtime[m], NewLease(m, req))
    <3>1. /\ new.leases = runtime[m].leases \cup {NewLease(m, req)}
          /\ new.reservation = runtime[m].reservation
          /\ NewLease(m, req).request_id = req
      BY DEF acquire_ready, Runtime, TypeOK, NewLease
    <3> HIDE DEF new
    <3>2. runtime' = [runtime EXCEPT ![m] = new]
      BY <2>6 DEF AcquireReady, Update, new
    <3>3. Charged(runtime') = Charged(runtime)
      BY <3>1, <3>2 DEF Charged, TypeOK
    <3>4. m \in Charged(runtime)
      BY Zenon, <2>1, <2>6, ChargedByState DEF AcquireReady, may_acquire, RowsInv, TypeOK
    <3>5. \A k \in Models : req \notin Holders(runtime)[k]
      BY Zenon, <2>6 DEF AcquireReady, may_acquire, Holders
    <3>6. \A k \in Models : Holders(runtime')[k] =
              IF k = m THEN Holders(runtime)[k] \cup {req} ELSE Holders(runtime)[k]
      BY <3>1, <3>2 DEF Holders, TypeOK
    <3>7. Holders(runtime') = [Holders(runtime) EXCEPT ![m] = @ \cup {req}]
      BY <2>2, <3>6
    <3>8. Ledger!Grant(m, req)
      BY <3>3, <3>4, <3>5, <3>7 DEF Ledger!Grant
    <3> QED BY <3>8 DEF Ledger!Next
  <2> QED BY Zenon, <2>1, <2>3, <2>4, <2>5, <2>6, StepEffects
<1> QED BY <1>1, <1>2, Inductive, TypeCorrect, PTL DEF Spec, ResidencySpec, Ledger!Spec
=============================================================================
