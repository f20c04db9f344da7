----------------------------- MODULE ModelBook -----------------------------
(***************************************************************************)
(* The Book of model_scheduler/model_registry.py: atomic, I/O-free state   *)
(* transitions for residency, leases and the two memory ledgers.           *)
(*                                                                         *)
(* Here the book serves the most general client: every operation may be    *)
(* called at any time, with any operation token or lease that was ever     *)
(* handed out, however late or repeated.  A call the code refuses with     *)
(* Conflict or StaleOperation changes nothing and is no step.              *)
(*                                                                         *)
(* The operators in source spelling are the record transformers that the   *)
(* compositions reuse; the actions in CamelCase are the calls.             *)
(***************************************************************************)
EXTENDS Integers, FiniteSets

CONSTANTS
    Models,          \* registered model ids
    Requests,        \* request ids
    Required,        \* [Models -> Nat \ {0}], effective_reserved_bytes
    Physical,        \* [Models -> Nat or None], physical_reserved_bytes
    MaxConcurrency,  \* [Models -> Nat \ {0}]
    Pinned,          \* models registered pinned
    Evictable,       \* models registered evictable
    Ttl,             \* [Models -> Nat], ttl_seconds
    Budget,          \* model_budget
    FreeFloor,       \* free_floor
    MemTotal,        \* total_bytes of a well-formed memory sample
    MaxSampleAge,    \* max_sample_age
    Readings,        \* available_bytes values a sample may report
    Sum(_),          \* summation of a function from Models to bytes
    None,            \* Python's None
    MaxUuid,         \* bound on fresh ids (operations and leases)
    MaxEpoch,        \* bound on recovery epochs
    MaxTime          \* bound on the clock

Figure == [m \in Models |-> IF Physical[m] = None THEN 0 ELSE Physical[m]]

Masked(w, S) == [m \in Models |-> IF m \in S THEN w[m] ELSE 0]

ASSUME ConstantAssumption ==
    /\ None \notin Nat
    /\ Required \in [Models -> Nat \ {0}]
    /\ Physical \in [Models -> Nat \cup {None}]
    /\ MaxConcurrency \in [Models -> Nat \ {0}]
    /\ Pinned \subseteq Models
    /\ Evictable \subseteq Models
    /\ Ttl \in [Models -> Nat]
    /\ Budget \in Nat \ {0}
    /\ FreeFloor \in Nat
    /\ MemTotal \in Nat
    /\ MaxSampleAge \in Nat
    /\ Readings \subseteq Nat
    /\ MaxUuid \in Nat
    /\ MaxEpoch \in Nat
    /\ MaxTime \in Nat

\* Sum really adds up, on the ledgers the book can hold.
ASSUME SumAssumption ==
    \A w \in {Required, Figure}, S \in SUBSET Models :
        /\ Sum(Masked(w, {})) = 0
        /\ Sum(Masked(w, S)) \in Nat
        /\ \A m \in Models \ S :
               Sum(Masked(w, S \cup {m})) = Sum(Masked(w, S)) + w[m]

VARIABLES
    runtime,      \* [Models -> Runtime], the book's rows
    epoch,        \* recovery epoch
    recovering,   \* admission closed for a recovery
    now,          \* the caller's monotonic clock
    uuid,         \* fresh-id source (uuid4 never repeats)
    operations,   \* every Operation token handed out so far
    granted       \* every Lease handed out so far

bookVars == <<runtime, epoch, recovering, now, uuid, operations, granted>>

State == {"UNKNOWN", "UNLOADED", "LOADING", "READY", "EVICTING", "ERROR"}

Outcome == {"SUCCESS", "REJECTED", "ABORTED"}

Operation == [operation_id : Nat, model_id : Models, generation : Nat, epoch : Nat]

Lease == [lease_id : Nat, request_id : Requests, model_id : Models, generation : Nat]

Sample == [sampled_at : Nat, available_bytes : Readings]

Runtime ==
    [state : State, generation : Nat, operation_id : Nat \cup {None},
     leases : SUBSET Lease, cancelling : SUBSET Lease,
     admission_blocked : BOOLEAN, reservation : Nat,
     idle_since : Nat \cup {None}, stopped_at : Nat \cup {None}]

TypeOK ==
    /\ runtime \in [Models -> Runtime]
    /\ epoch \in Nat
    /\ recovering \in BOOLEAN
    /\ now \in Nat
    /\ uuid \in Nat
    /\ operations \subseteq Operation
    /\ granted \subseteq Lease

\* A fresh row: nothing is known of the model, so its memory is charged.
new_runtime(m) ==
    [state |-> "UNKNOWN", generation |-> 0, operation_id |-> None,
     leases |-> {}, cancelling |-> {}, admission_blocked |-> FALSE,
     reservation |-> Required[m], idle_since |-> None, stopped_at |-> None]

Init ==
    /\ runtime = [m \in Models |-> new_runtime(m)]
    /\ epoch = 0
    /\ recovering = FALSE
    /\ now = 0
    /\ uuid = 0
    /\ operations = {}
    /\ granted = {}

-----------------------------------------------------------------------------
(* The two ledgers and the load gate *)

Charged(rt) == {m \in Models : rt[m].reservation > 0}

committed(rt) == Sum([m \in Models |-> rt[m].reservation])

physical_committed(rt) == Sum(Masked(Figure, Charged(rt)))

physical_enforced == \E m \in Models : Physical[m] # None

physical_admissible(rt, m) ==
    physical_enforced =>
        /\ Physical[m] # None
        /\ Sum(Masked(Figure, Charged(rt) \ {m})) + Physical[m] <= Budget

sample_valid(sample, t) ==
    /\ sample.sampled_at <= t
    /\ t - sample.sampled_at <= MaxSampleAge
    /\ 0 < MemTotal
    /\ sample.available_bytes <= MemTotal

sample_after_stop(r, sample) ==
    r.stopped_at # None => sample.sampled_at >= r.stopped_at

can_load(rt, m, sample, t) ==
    /\ ~recovering
    /\ rt[m].state = "UNLOADED"
    /\ rt[m].leases = {}
    /\ ~rt[m].admission_blocked
    /\ sample_valid(sample, t)
    /\ sample_after_stop(rt[m], sample)
    /\ sample.available_bytes >= FreeFloor + Required[m]
    /\ committed(rt) + Required[m] <= Budget
    /\ physical_admissible(rt, m)

can_admit_ready(rt, m, sample, t) ==
    /\ ~recovering
    /\ rt[m].state = "READY"
    /\ ~rt[m].admission_blocked
    /\ Cardinality(rt[m].leases) < MaxConcurrency[m]
    /\ sample_valid(sample, t)
    /\ sample.available_bytes >= FreeFloor

-----------------------------------------------------------------------------
(* What each operation makes of a model's row r *)

bootstrap_stopped(r) == [r EXCEPT !.state = "UNLOADED", !.reservation = 0]

begin_load(m, r, id) ==
    [r EXCEPT !.state = "LOADING", !.generation = @ + 1,
              !.reservation = Required[m], !.operation_id = id, !.idle_since = None]

loaded(r, t) ==
    [r EXCEPT !.state = "READY", !.operation_id = None,
              !.admission_blocked = FALSE, !.idle_since = t]

\* Mutant: a failed operation gives its memory back.
failed_refunds(r) ==
    [r EXCEPT !.state = "ERROR", !.operation_id = None, !.admission_blocked = TRUE,
              !.reservation = 0]

failed(r) ==
    [r EXCEPT !.state = "ERROR", !.operation_id = None, !.admission_blocked = TRUE]

acquire_ready(r, lease) ==
    [r EXCEPT !.leases = @ \cup {lease}, !.idle_since = None]

\* Mutant: a successful release makes the model serve again.
release_revives(r, lease, outcome, t) ==
    [r EXCEPT !.leases = @ \ {lease}, !.cancelling = @ \ {lease},
              !.state = IF outcome = "ABORTED" THEN "ERROR" ELSE "READY"]

release(r, lease, outcome, t) ==
    [r EXCEPT
        !.leases = @ \ {lease},
        !.cancelling = @ \ {lease},
        !.state = IF outcome = "ABORTED" THEN "ERROR" ELSE @,
        !.admission_blocked = @ \/ outcome = "ABORTED",
        !.idle_since = IF r.leases \subseteq {lease} THEN t ELSE @]

begin_cancel(r, lease) == [r EXCEPT !.cancelling = @ \cup {lease}]

\* The common effect of begin_eviction and begin_cleanup.
begin_stop(r, id) ==
    [r EXCEPT !.state = "EVICTING", !.admission_blocked = TRUE, !.operation_id = id]

freeze_for_switch(r) == [r EXCEPT !.admission_blocked = TRUE]

unfreeze_switch(r) ==
    IF r.state = "READY" /\ r.operation_id = None
    THEN [r EXCEPT !.admission_blocked = FALSE]
    ELSE r

rollback_unsent(r) ==
    [r EXCEPT !.state = "READY", !.admission_blocked = FALSE, !.operation_id = None]

\* Mutant: the stop is dated one tick early.
stopped_early(r, t) ==
    [r EXCEPT !.state = "UNLOADED", !.operation_id = None, !.reservation = 0,
              !.admission_blocked = FALSE, !.idle_since = None, !.stopped_at = t - 1]

stopped(r, t) ==
    [r EXCEPT !.state = "UNLOADED", !.operation_id = None, !.reservation = 0,
              !.admission_blocked = FALSE, !.idle_since = None, !.stopped_at = t]

begin_recovery(r) ==
    [r EXCEPT !.operation_id = None, !.admission_blocked = TRUE,
              !.state = IF @ = "UNLOADED" THEN @ ELSE "ERROR"]

\* Mutant: a finished recovery reopens the rows without refunding them.
finish_recovery_keeps_charge(r) ==
    [r EXCEPT !.state = "UNLOADED", !.operation_id = None,
              !.admission_blocked = FALSE, !.idle_since = None]

finish_recovery(r) ==
    [r EXCEPT !.state = "UNLOADED", !.reservation = 0, !.operation_id = None,
              !.admission_blocked = FALSE, !.idle_since = None]

-----------------------------------------------------------------------------
(* When an operation is refused: the negations of the code's raises *)

\* _operation: the token is the one the row is waiting for, of this epoch.
_operation(rt, op) ==
    /\ op.epoch = epoch
    /\ rt[op.model_id].generation = op.generation
    /\ rt[op.model_id].operation_id = op.operation_id

may_acquire(rt, m, req) ==
    /\ ~recovering
    /\ rt[m].state = "READY"
    /\ ~rt[m].admission_blocked
    /\ Cardinality(rt[m].leases) < MaxConcurrency[m]
    /\ \A k \in Models : \A held \in rt[k].leases : held.request_id # req

holds(r, lease) == lease \in r.leases /\ r.generation = lease.generation

may_evict(r, m, automatic) ==
    /\ r.state = "READY"
    /\ r.leases = {}
    /\ r.operation_id = None
    /\ m \notin Pinned
    /\ automatic => m \in Evictable

may_freeze(r, m) ==
    /\ r.state = "READY"
    /\ ~r.admission_blocked
    /\ r.operation_id = None
    /\ m \notin Pinned
    /\ m \in Evictable

may_clean(r) ==
    /\ r.state \in {"READY", "ERROR"}
    /\ r.leases = {}
    /\ r.operation_id = None

may_settle(r) == r.state = "EVICTING" /\ r.leases = {}

ttl_due(r, m, t) ==
    /\ r.state = "READY"
    /\ r.leases = {}
    /\ ~r.admission_blocked
    /\ m \notin Pinned
    /\ m \in Evictable
    /\ Ttl[m] > 0
    /\ r.idle_since # None
    /\ t - r.idle_since >= Ttl[m]

-----------------------------------------------------------------------------
(* The calls *)

Token(m, id, generation) ==
    [operation_id |-> id, model_id |-> m, generation |-> generation, epoch |-> epoch]

Update(m, r) == runtime' = [runtime EXCEPT ![m] = r]

\* The fresh id is shared by a batch: only a row's own token is ever compared.
Fresh == uuid < MaxUuid /\ uuid' = uuid + 1

BootstrapStopped(m) ==
    /\ runtime[m].state = "UNKNOWN"
    /\ runtime[m].operation_id = None
    /\ runtime[m].leases = {}
    /\ Update(m, bootstrap_stopped(runtime[m]))
    /\ UNCHANGED <<epoch, recovering, now, uuid, operations, granted>>

BeginLoad(m, sample) ==
    /\ can_load(runtime, m, sample, now)
    /\ Fresh
    /\ Update(m, begin_load(m, runtime[m], uuid + 1))
    /\ operations' = operations \cup {Token(m, uuid + 1, runtime[m].generation + 1)}
    /\ UNCHANGED <<epoch, recovering, now, granted>>

Loaded(op) ==
    /\ _operation(runtime, op)
    /\ runtime[op.model_id].state = "LOADING"
    /\ Update(op.model_id, loaded(runtime[op.model_id], now))
    /\ UNCHANGED <<epoch, recovering, now, uuid, operations, granted>>

Failed(op) ==
    /\ _operation(runtime, op)
    /\ Update(op.model_id, failed(runtime[op.model_id]))
    /\ UNCHANGED <<epoch, recovering, now, uuid, operations, granted>>

NewLease(m, req) ==
    [lease_id |-> uuid + 1, request_id |-> req, model_id |-> m,
     generation |-> runtime[m].generation]

AcquireReady(m, req) ==
    /\ may_acquire(runtime, m, req)
    /\ Fresh
    /\ Update(m, acquire_ready(runtime[m], NewLease(m, req)))
    /\ granted' = granted \cup {NewLease(m, req)}
    /\ UNCHANGED <<epoch, recovering, now, operations>>

Release(lease, outcome) ==
    /\ holds(runtime[lease.model_id], lease)
    /\ Update(lease.model_id, release(runtime[lease.model_id], lease, outcome, now))
    /\ UNCHANGED <<epoch, recovering, now, uuid, operations, granted>>

BeginCancel(lease) ==
    /\ holds(runtime[lease.model_id], lease)
    /\ Update(lease.model_id, begin_cancel(runtime[lease.model_id], lease))
    /\ UNCHANGED <<epoch, recovering, now, uuid, operations, granted>>

\* A batch is validated as a whole before any row changes.
BeginStop(S) ==
    /\ ~recovering
    /\ S # {}
    /\ Fresh
    /\ runtime' = [m \in Models |->
           IF m \in S THEN begin_stop(runtime[m], uuid + 1) ELSE runtime[m]]
    /\ operations' = operations \cup {Token(m, uuid + 1, runtime[m].generation) : m \in S}
    /\ UNCHANGED <<epoch, recovering, now, granted>>

BeginEviction(S, automatic) ==
    /\ \A m \in S : may_evict(runtime[m], m, automatic)
    /\ BeginStop(S)

BeginCleanup(S) ==
    /\ \A m \in S : may_clean(runtime[m])
    /\ BeginStop(S)

FreezeForSwitch(S) ==
    /\ ~recovering
    /\ S # {}
    /\ \A m \in S : may_freeze(runtime[m], m)
    /\ runtime' = [m \in Models |->
           IF m \in S THEN freeze_for_switch(runtime[m]) ELSE runtime[m]]
    /\ UNCHANGED <<epoch, recovering, now, uuid, operations, granted>>

UnfreezeSwitch(S) ==
    /\ runtime' = [m \in Models |->
           IF m \in S THEN unfreeze_switch(runtime[m]) ELSE runtime[m]]
    /\ UNCHANGED <<epoch, recovering, now, uuid, operations, granted>>

RollbackUnsent(op) ==
    /\ _operation(runtime, op)
    /\ may_settle(runtime[op.model_id])
    /\ Update(op.model_id, rollback_unsent(runtime[op.model_id]))
    /\ UNCHANGED <<epoch, recovering, now, uuid, operations, granted>>

Stopped(op) ==
    /\ _operation(runtime, op)
    /\ may_settle(runtime[op.model_id])
    /\ Update(op.model_id, stopped(runtime[op.model_id], now))
    /\ UNCHANGED <<epoch, recovering, now, uuid, operations, granted>>

BeginRecovery ==
    /\ ~recovering
    /\ epoch < MaxEpoch
    /\ epoch' = epoch + 1
    /\ recovering' = TRUE
    /\ runtime' = [m \in Models |-> begin_recovery(runtime[m])]
    /\ UNCHANGED <<now, uuid, operations, granted>>

\* Mutant: a recovery finishes although leases are still held.
FinishRecoveryUnderLease(e, confirmed) ==
    /\ recovering
    /\ e = epoch
    /\ confirmed = Models
    /\ runtime' = [m \in Models |-> finish_recovery(runtime[m])]
    /\ recovering' = FALSE
    /\ UNCHANGED <<epoch, now, uuid, operations, granted>>

FinishRecovery(e, confirmed) ==
    /\ recovering
    /\ e = epoch
    /\ confirmed = Models
    /\ \A m \in Models : runtime[m].leases = {}
    /\ runtime' = [m \in Models |-> finish_recovery(runtime[m])]
    /\ recovering' = FALSE
    /\ UNCHANGED <<epoch, now, uuid, operations, granted>>

Tick ==
    /\ now < MaxTime
    /\ now' = now + 1
    /\ UNCHANGED <<runtime, epoch, recovering, uuid, operations, granted>>

Next ==
    \/ \E m \in Models : BootstrapStopped(m)
    \/ \E m \in Models, at \in 0..(now + 1), bytes \in Readings :
           BeginLoad(m, [sampled_at |-> at, available_bytes |-> bytes])
    \/ \E op \in operations : Loaded(op)
    \/ \E op \in operations : Failed(op)
    \/ \E m \in Models, req \in Requests : AcquireReady(m, req)
    \/ \E lease \in granted, outcome \in Outcome : Release(lease, outcome)
    \/ \E lease \in granted : BeginCancel(lease)
    \/ \E S \in SUBSET Models, automatic \in BOOLEAN : BeginEviction(S, automatic)
    \/ \E S \in SUBSET Models : BeginCleanup(S)
    \/ \E S \in SUBSET Models : FreezeForSwitch(S)
    \/ \E S \in SUBSET Models : UnfreezeSwitch(S)
    \/ \E op \in operations : RollbackUnsent(op)
    \/ \E op \in operations : Stopped(op)
    \/ BeginRecovery
    \/ \E e \in 0..epoch, confirmed \in SUBSET Models : FinishRecovery(e, confirmed)
    \/ Tick

Spec == Init /\ [][Next]_bookVars

-----------------------------------------------------------------------------
(* Properties *)

Holders(rt) == [m \in Models |-> {lease.request_id : lease \in rt[m].leases}]

Ledger == INSTANCE Residency WITH
    charged <- Charged(runtime),
    holders <- Holders(runtime)

\* The book implements the abstract ledger: whatever tokens and leases callers
\* replay, memory is charged only inside both budgets, refunded only for models
\* nobody holds, and a request never holds two leases.
ResidencySpec == Ledger!Spec

\* A held lease always names a model that is serving or has failed, of the same
\* generation, whose memory is still charged: no path (late token, recovery,
\* eviction) strands a request on a model that was given back or reloaded.
LeaseHeldOnResidentModel ==
    \A m \in Models : \A lease \in runtime[m].leases :
        /\ runtime[m].state \in {"READY", "ERROR"}
        /\ runtime[m].reservation = Required[m]
        /\ lease.model_id = m
        /\ lease.generation = runtime[m].generation

\* Across all models a request id holds at most one lease, and a model never
\* serves more leases than its max_concurrency.
SlotsRespected ==
    /\ \A m \in Models : Cardinality(runtime[m].leases) <= MaxConcurrency[m]
    /\ \A m, k \in Models : \A a \in runtime[m].leases, b \in runtime[k].leases :
           a.request_id = b.request_id => a = b

\* Once any load was admitted, both ledgers stay inside the model budget for
\* ever: only the rows of a book that never loaded anything may exceed it.
BudgetHolds ==
    (\E m \in Models : runtime[m].generation > 0) =>
        /\ committed(runtime) <= Budget
        /\ physical_committed(runtime) <= Budget

\* While a recovery is open no model can serve, load or stop, and no operation
\* token anyone still holds is accepted.
RecoveryFence ==
    recovering =>
        /\ \A m \in Models : /\ runtime[m].state \in {"UNLOADED", "ERROR"}
                              /\ runtime[m].admission_blocked
        /\ \A op \in operations : ~_operation(runtime, op)

\* A row that is loading or stopping waits for exactly one token, which its
\* caller holds, so it can always be settled; no other row accepts a token.
BusyRowHasItsToken ==
    \A m \in Models :
        LET current == {op \in operations : op.model_id = m /\ _operation(runtime, op)}
        IN  IF runtime[m].state \in {"LOADING", "EVICTING"}
            THEN \E op \in current : current = {op}
            ELSE current = {}

\* A model's memory leaves the ledger only when its stop was proven: by the
\* token of its own stop, by a finished recovery, or at bootstrap; and never
\* under a lease.
RefundOnlyOnProof ==
    [][\A m \in Models : runtime'[m].reservation < runtime[m].reservation =>
          /\ runtime[m].leases = {}
          /\ \/ runtime[m].state = "EVICTING"
             \/ runtime[m].state = "UNKNOWN"
             \/ recovering /\ ~recovering']_bookVars

\* A failed model is not revived by a late success: it leaves ERROR only after
\* its last lease, by a stop or by a finished recovery.
FailedLeavesByStop ==
    [][\A m \in Models : runtime[m].state = "ERROR" /\ runtime'[m].state # "ERROR" =>
          /\ runtime[m].leases = {}
          /\ \/ runtime'[m].state = "EVICTING"
             \/ runtime'[m].state = "UNLOADED" /\ recovering /\ ~recovering']_bookVars

-----------------------------------------------------------------------------
(* The inductive invariant behind the properties *)

RowInv(m, r) ==
    /\ r.reservation = IF r.state = "UNLOADED" THEN 0 ELSE Required[m]
    /\ r.operation_id # None <=> r.state \in {"LOADING", "EVICTING"}
    /\ r.leases # {} => r.state \in {"READY", "ERROR"}
    /\ r.state \in {"ERROR", "EVICTING"} => r.admission_blocked
    /\ \A lease \in r.leases : lease.model_id = m /\ lease.generation = r.generation
    /\ IsFiniteSet(r.leases)
    /\ Cardinality(r.leases) <= MaxConcurrency[m]

RowsInv == \A m \in Models : RowInv(m, runtime[m])

\* The token a busy row waits for is in its caller's hands.
RowToken(m) ==
    [operation_id |-> runtime[m].operation_id, model_id |-> m,
     generation |-> runtime[m].generation, epoch |-> epoch]

TokensInv ==
    \A m \in Models : runtime[m].operation_id # None => RowToken(m) \in operations

\* An open recovery has quiesced and closed every row.
QuiescedInv ==
    recovering => \A m \in Models : /\ runtime[m].state \in {"UNLOADED", "ERROR"}
                                    /\ runtime[m].admission_blocked

DistinctHolders ==
    \A m, k \in Models : \A a \in runtime[m].leases, b \in runtime[k].leases :
        a.request_id = b.request_id => a = b

\* The inductive invariant: consistent rows, reachable tokens, a quiesced
\* recovery, distinct holders and both budgets, after any sequence of calls.
BookInv == RowsInv /\ TokensInv /\ QuiescedInv /\ DistinctHolders /\ BudgetHolds

=============================================================================
