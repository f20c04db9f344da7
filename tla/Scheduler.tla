----------------------------- MODULE Scheduler -----------------------------
(***************************************************************************)
(* The asyncio coordinator of model_scheduler/scheduler.py around the Book:*)
(* waiting requests, switch intents, load and stop tasks, recovery,        *)
(* storage loss, shutdown and warm-up, interleaved at every point where    *)
(* the code gives up its condition.                                        *)
(*                                                                         *)
(* One action is one critical section.  The clock is abstracted: a         *)
(* deadline, a drain window, a TTL or a cooldown may run out between any   *)
(* two sections.  The state of exclusive sessions is declared here because  *)
(* acquire() and shutdown() use it; module Sessions holds their actions.    *)
(***************************************************************************)
EXTENDS Integers, FiniteSets, Sequences

CONSTANTS
    Models, Requests, Required, Physical, MaxConcurrency, Pinned, Evictable,
    Ttl, Budget, FreeFloor, MemTotal, MaxSampleAge, Readings, Sum(_), None,
    Registered,      \* the models in registration order
    Confirmations,   \* sets of models that may be observed stopped at startup
    SessionIds,      \* exclusive sessions
    SessionOf,       \* [Requests -> SessionIds], None for an interactive request
    Target,          \* [Requests \cup SessionIds -> Models], what each asks for
    Warmers,         \* callers of warm(), and the session worker's own call
    SessionWorker,   \* the member of Warmers that is the session worker, if any
    WarmTarget,      \* [Warmers -> SUBSET Models], what each may warm
    QueueCapacity,   \* queue_capacity
    MaxEvictions,    \* max_evictions
    LoadRetryLimit,  \* load_retry_limit
    Generations,     \* generations and epochs are counted modulo this bound
    LoadOutcomes,    \* what backend.load may report: "RUNNING", "UNVERIFIED"
    StopOutcomes,    \* what backend.stop may report: "STOPPED", "UNVERIFIED"
    Elapsed,         \* whether the drain window of an intent may have elapsed
    Verdicts,        \* what backend.observe may report: "alive", "gone", "failed"
    GuardAnswers,    \* what the storage guard may answer
    RecoveryPorts,   \* whether a recovery port is injected: TRUE, FALSE or either
    RecoveryResults, \* what the recovery port may report: TRUE, FALSE
    Admin            \* administrative calls in use: "unload", "ttl", "shutdown"

ASSUME SchedulerAssumption ==
    /\ Registered \in [1..Cardinality(Models) -> Models]
    /\ \A m \in Models : \E i \in DOMAIN Registered : Registered[i] = m
    /\ Confirmations \subseteq SUBSET Models
    /\ Target \in [Requests \cup SessionIds -> Models]
    /\ SessionOf \in [Requests -> SessionIds \cup {None}]
    /\ WarmTarget \in [Warmers -> SUBSET Models]
    /\ QueueCapacity \in Nat \ {0}
    /\ MaxEvictions \in Nat \ {0}
    /\ LoadRetryLimit \in Nat
    /\ Generations \in Nat \ {0, 1}

VARIABLES
    runtime, epoch, recovering,  \* the book
    queue,                \* _queue: waiting request and session ids, oldest first
    request,              \* acquire(), one activation per request
    loads,                \* _loads: the load task of each model
    eviction,             \* _eviction: the tokens the shared stop task still has to settle
    intent,               \* _switch_intent
    cooling,              \* models whose _next_switch_attempt lies ahead
    cold_blocked,         \* _cold_load_not_before lies ahead
    storage_unavailable,  \* _storage_unavailable
    shutdown,             \* shutdown(): "no", "drain" or "done"
    recovery,             \* _recovery_task, or "absent" when no recovery port is injected
    operator,             \* storage_recovered()
    warm,                 \* _preload_one(), one activation per warmer
    retries,              \* _load_retries
    spinning,             \* the warmer that loops without yielding, or None
    sessions,             \* SessionManager.records
    session_freeze,       \* _session_freeze
    worker,               \* _session_worker: _run_session_lifecycle
    suspect               \* history: models that failed since they were last stopped

era == <<epoch, recovering>>
book == <<runtime, era>>
clients == <<queue, request>>
tasks == <<loads, eviction>>
pauses == <<cooling, cold_blocked>>
switch == <<intent, pauses>>
closed == <<storage_unavailable, shutdown>>
fault == <<closed, recovery, operator>>
retrying == <<retries, spinning>>
warming == <<warm, retrying>>
exclusive == <<sessions, session_freeze, worker>>
schedVars == <<book, clients, tasks, switch, fault, warming, exclusive, suspect>>

Book == INSTANCE ModelBook WITH
    now <- 0, uuid <- 0, operations <- {}, granted <- {},
    MaxUuid <- 0, MaxEpoch <- 0, MaxTime <- 0

\* Mutant: the flag is raised only after the drain.
shutting_down_late == shutdown = "done"

shutting_down == shutdown # "no"

-----------------------------------------------------------------------------
(* Types *)

Idle == [pc |-> "idle", admitted |-> FALSE, bytes |-> None, lease |-> None]

Resting ==
    [pc |-> "idle", target |-> None, loaded_here |-> FALSE, admitted |-> FALSE, bytes |-> None,
     reclaimed |-> FALSE, op |-> None, late |-> FALSE, result |-> None]

\* A session that is not registered yet, and the absence of a worker.
Unopened == [phase |-> "NONE", late |-> FALSE, resting |-> FALSE]

NoWorker ==
    [pc |-> "none", session |-> None, purpose |-> None, targets |-> {},
     borrowed |-> FALSE, raised |-> FALSE]

Init ==
    /\ \E confirmed \in Confirmations :
           runtime = [m \in Models |->
               IF m \in confirmed THEN Book!bootstrap_stopped(Book!new_runtime(m))
                                 ELSE Book!new_runtime(m)]
    /\ epoch = 0
    /\ recovering = FALSE
    /\ queue = <<>>
    /\ request = [r \in Requests |-> Idle]
    /\ loads = [m \in Models |-> None]
    /\ eviction = None
    /\ intent = None
    /\ cooling = {}
    /\ cold_blocked = FALSE
    /\ storage_unavailable = FALSE
    /\ shutdown = "no"
    /\ recovery \in {IF port THEN "idle" ELSE "absent" : port \in RecoveryPorts}
    /\ operator = "idle"
    /\ warm = [p \in Warmers |-> Resting]
    /\ retries = [m \in Models |-> 0]
    /\ spinning = None
    /\ sessions = [s \in SessionIds |-> Unopened]
    /\ session_freeze = None
    /\ worker = NoWorker
    /\ suspect = {}

-----------------------------------------------------------------------------
(* Ids, samples and the two ways to start work *)

Elements(seq) == {seq[i] : i \in DOMAIN seq}

InOrder(S) == SelectSeq(Registered, LAMBDA m : m \in S)

Leases(rt) == UNION {rt[m].leases : m \in Models}

\* The tokens of a model that a task still holds.
HeldTokens(m) ==
    {op \in {loads[k].op : k \in {n \in Models : loads[n] # None}}
                \cup (IF eviction = None THEN {} ELSE Elements(eviction))
                \cup {warm[p].op : p \in {q \in Warmers : warm[q].op # None}} :
         op.model_id = m}

Unused(ids) == CHOOSE id \in 1..(Cardinality(ids) + 1) :
                   id \notin ids /\ 1..(id - 1) \subseteq ids

\* uuid4: an id no row and no task of the model still holds, and one no lease
\* of the request still holds.  Ids of different models or requests never meet.
NewId(m) == Unused({runtime[m].operation_id} \cup {op.operation_id : op \in HeldTokens(m)})

NewLeaseId(r) == Unused({lease.lease_id : lease \in {l \in Leases(runtime) : l.request_id = r}})

SampleOf(bytes) == [sampled_at |-> 0, available_bytes |-> bytes]

\* begin_load and the task that finishes it.  Stale tokens differ in their id,
\* so counting generations modulo a bound confuses none of them.
StartLoad(rt, m) ==
    LET row == Book!begin_load(m, rt[m], NewId(m))
        kept == [row EXCEPT !.generation = @ % Generations]
    IN  /\ runtime' = [rt EXCEPT ![m] = kept]
        /\ loads' = [loads EXCEPT ![m] =
               [op |-> Book!Token(m, NewId(m), kept.generation), pc |-> "io", recover |-> FALSE]]

Stopping(rt, S) ==
    [m \in Models |-> IF m \in S THEN Book!begin_stop(rt[m], NewId(m)) ELSE rt[m]]

StopTokens(rt, seq) ==
    [i \in DOMAIN seq |-> Book!Token(seq[i], NewId(seq[i]), rt[seq[i]].generation)]

\* begin_eviction or begin_cleanup, and the shared task that stops the batch.
StartEviction(rt, seq) ==
    /\ runtime' = Stopping(rt, Elements(seq))
    /\ eviction' = StopTokens(rt, seq)

-----------------------------------------------------------------------------
(* eviction_policy.py *)

candidates(rt, include_busy) ==
    {m \in Models : /\ rt[m].state = "READY"
                    /\ rt[m].leases = {} \/ include_busy
                    /\ ~rt[m].admission_blocked
                    /\ m \notin Pinned
                    /\ m \in Evictable}

\* The score depends on heat, so any order of the candidates is possible.
Orders(S) == {s \in [1..Cardinality(S) -> S] : Elements(s) = S}

Released(order, k) == Sum(Book!Masked(Required, {order[i] : i \in 1..k}))

\* The shortest prefix that frees enough, unless it is longer than the limit.
choose(order, bytes_needed) ==
    LET enough == {k \in 1..Len(order) : k <= MaxEvictions /\ Released(order, k) >= bytes_needed}
    IN  IF bytes_needed <= 0 \/ enough = {}
        THEN <<>>
        ELSE SubSeq(order, 1, CHOOSE k \in enough : \A j \in enough : k <= j)

_load_deficit(rt, m, bytes) ==
    LET memory == FreeFloor + Required[m] - bytes
        budget == Book!committed(rt) + Required[m] - Budget
    IN  IF memory > budget THEN memory ELSE budget

-----------------------------------------------------------------------------
(* Switch intents *)

Unfrozen(rt, frozen) ==
    [m \in Models |-> IF m \in Elements(frozen) THEN Book!unfreeze_switch(rt[m]) ELSE rt[m]]

Queued == Elements(queue)

\* _expire_switch_intent: the state a section sees after its first line.
_expire_switch_intent(elapsed) ==
    IF intent # None /\ (elapsed \/ intent.request \notin Queued)
    THEN [runtime |-> Unfrozen(runtime, intent.frozen), intent |-> None,
          cooling |-> cooling \cup {intent.target}]
    ELSE [runtime |-> runtime, intent |-> intent, cooling |-> cooling]

\* Mutant: the frozen models are stopped without waiting for their leases.
Advance_undrained(rt, wanted) == StartEviction(rt, wanted.frozen) /\ intent' = None

\* _establish_or_advance_switch, once the intent (old or new) is known to be
\* this request's: stop the frozen models as soon as they have drained.
Advance(rt, wanted) ==
    IF \E m \in Elements(wanted.frozen) : rt[m].leases # {}
    THEN runtime' = rt /\ intent' = wanted /\ UNCHANGED eviction
    ELSE IF \A m \in Elements(wanted.frozen) : Book!may_evict(rt[m], m, TRUE)
    THEN StartEviction(rt, wanted.frozen) /\ intent' = None
    ELSE runtime' = Unfrozen(rt, wanted.frozen) /\ intent' = None /\ UNCHANGED eviction

_establish_or_advance_switch(r) ==
    LET m == Target[r]
        need == _load_deficit(runtime, m, request[r].bytes)
    IN  \/ /\ intent = None
           /\ \E order \in Orders(candidates(runtime, TRUE)) :
                  LET models == choose(order, need)
                      frozen == [k \in Models |->
                          IF k \in Elements(models)
                          THEN Book!freeze_for_switch(runtime[k]) ELSE runtime[k]]
                  IN  IF models = <<>>
                      THEN UNCHANGED <<runtime, intent, eviction>>
                      ELSE Advance(frozen, [request |-> r, target |-> m, frozen |-> models])
        \/ /\ intent # None
           /\ IF intent.request = r
              THEN Advance(runtime, intent)
              ELSE UNCHANGED <<runtime, intent, eviction>>

-----------------------------------------------------------------------------
(* acquire() *)

Interactive(r) == r \in Requests /\ SessionOf[r] = None

_cold_request_eligible(w, r) ==
    LET state == w.runtime[Target[r]].state
    IN  /\ Interactive(r) => session_freeze = None
        /\ state \notin {"LOADING", "EVICTING"}
        /\ state = "UNLOADED" => ~cold_blocked /\ Target[r] \notin w.cooling

\* All priorities are equal, so aging leaves the queue in arrival order.
is_head(w, r) ==
    \E i \in DOMAIN queue :
        /\ queue[i] = r
        /\ _cold_request_eligible(w, r)
        /\ \A j \in 1..(i - 1) : ~_cold_request_eligible(w, queue[j])

Goto(r, pc) == request' = [request EXCEPT ![r].pc = pc]

\* SessionManager.is_live
is_live(s) == sessions[s].phase = "ACTIVE" /\ ~sessions[s].late

\* Who may ask: nobody from outside while a session is exclusive, and a session
\* only while it lives, for its own model, with a free slot.
Invited(r) ==
    LET s == SessionOf[r]
        row == runtime[Target[r]]
    IN  IF Interactive(r) THEN session_freeze = None
        ELSE /\ Target[s] = Target[r]
             /\ is_live(s)
             /\ row.state = "READY" => Cardinality(row.leases) < MaxConcurrency[Target[r]]

Enqueue(r) ==
    /\ request[r].pc = "idle"
    /\ ~shutting_down
    /\ ~storage_unavailable
    /\ Invited(r)
    /\ Len(queue) < QueueCapacity
    /\ queue' = Append(queue, r)
    /\ Goto(r, "waiting")
    /\ UNCHANGED <<book, tasks, switch, fault, warming>>

\* The deadline of a waiter passes: the next look at the queue drops it.
Lapse(r) ==
    /\ r \in Queued
    /\ queue' = SelectSeq(queue, LAMBDA q : q # r)
    /\ UNCHANGED <<book, request, tasks, switch, fault, warming>>

\* Outside the condition: a memory sample and the storage guard's answer.
Sample(r) ==
    /\ request[r].pc = "waiting"
    /\ \E bytes \in Readings, admitted \in GuardAnswers :
           request' = [request EXCEPT ![r].pc = "decide", ![r].bytes = bytes,
                                      ![r].admitted = admitted]
    /\ UNCHANGED <<book, queue, tasks, switch, fault, warming>>

may_grant(w, r) ==
    /\ request[r].admitted
    /\ Book!can_admit_ready(w.runtime, Target[r], SampleOf(request[r].bytes), 0)
    /\ Book!may_acquire(w.runtime, Target[r], r)

Grant(w, r) ==
    LET m == Target[r]
        lease == [lease_id |-> NewLeaseId(r), request_id |-> r, model_id |-> m,
                  generation |-> w.runtime[m].generation]
    IN  /\ runtime' = [w.runtime EXCEPT ![m] = Book!acquire_ready(@, lease)]
        /\ queue' = SelectSeq(queue, LAMBDA q : q # r)
        /\ request' = [request EXCEPT ![r] = [Idle EXCEPT !.pc = "closing", !.lease = lease]]

Raise(r) == request' = [request EXCEPT ![r] = [Idle EXCEPT !.pc = "closing"]]

\* Mutant: an open intent keeps even its own request from deciding again.
needs_sample_once(w, r) ==
    /\ w.runtime[Target[r]].state = "UNLOADED"
    /\ loads[Target[r]] = None
    /\ eviction = None
    /\ w.intent = None
    /\ Target[r] \notin w.cooling

\* needs_sample: the head is cold and nothing is under way for it.
needs_sample(w, r) ==
    /\ w.runtime[Target[r]].state = "UNLOADED"
    /\ loads[Target[r]] = None
    /\ eviction = None
    /\ w.intent = None \/ w.intent.request = r
    /\ Target[r] \notin w.cooling

\* The first section of the loop, on the sample and the answer taken before it.
Decide(r) ==
    /\ request[r].pc = "decide"
    /\ \E elapsed \in Elapsed :
           LET w == _expire_switch_intent(elapsed)
               open == ~shutting_down /\ ~storage_unavailable /\ r \in Queued
               head == open /\ is_head(w, r)
               failed == w.runtime[Target[r]].state = "ERROR"
           IN  /\ intent' = w.intent
               /\ cooling' = w.cooling
               /\ \/ /\ head /\ may_grant(w, r)
                     /\ Grant(w, r)
                  \/ /\ ~open \/ (head /\ ~may_grant(w, r) /\ failed)
                     /\ Raise(r)
                     /\ runtime' = w.runtime
                     /\ UNCHANGED queue
                  \/ /\ open
                     /\ ~(head /\ (may_grant(w, r) \/ failed))
                     /\ Goto(r, IF head /\ needs_sample(w, r) THEN "commit" ELSE "waiting")
                     /\ runtime' = w.runtime
                     /\ UNCHANGED queue
    /\ UNCHANGED <<era, tasks, cold_blocked, fault, warming>>

\* The second section: only the model's own state is looked at again.
Commit(r) ==
    LET m == Target[r]
        still == request[r].admitted /\ runtime[m].state = "UNLOADED" /\ loads[m] = None
        fits == Book!can_load(runtime, m, SampleOf(request[r].bytes), 0)
    IN  /\ request[r].pc = "commit"
        /\ \/ /\ still /\ fits
              /\ StartLoad(runtime, m)
              /\ UNCHANGED <<eviction, intent>>
           \/ /\ still /\ ~fits /\ eviction = None
              /\ _establish_or_advance_switch(r)
              /\ UNCHANGED loads
           \/ /\ ~still \/ (~fits /\ eviction # None)
              /\ UNCHANGED <<runtime, tasks, intent>>
        /\ request' = [request EXCEPT ![r] = [Idle EXCEPT !.pc = "waiting"]]
        /\ UNCHANGED <<era, queue, pauses, fault, warming>>

\* The caller's task is cancelled while it waits.
Abandon(r) ==
    /\ request[r].pc \in {"waiting", "decide", "commit"}
    /\ Raise(r)
    /\ UNCHANGED <<book, queue, tasks, switch, fault, warming>>

\* Mutant: the finally block forgets the intent of the request.
Close_keeps_intent(r) ==
    /\ request[r].pc = "closing"
    /\ queue' = SelectSeq(queue, LAMBDA q : q # r)
    /\ Goto(r, IF request[r].lease = None THEN "idle" ELSE "leased")
    /\ UNCHANGED <<book, tasks, switch, fault, warming>>

\* The finally block: leave the queue, drop the intent, hand over the result.
Close(r) ==
    /\ request[r].pc = "closing"
    /\ queue' = SelectSeq(queue, LAMBDA q : q # r)
    /\ IF intent # None /\ intent.request = r
       THEN runtime' = Unfrozen(runtime, intent.frozen) /\ intent' = None
       ELSE UNCHANGED <<runtime, intent>>
    /\ Goto(r, IF request[r].lease = None THEN "idle" ELSE "leased")
    /\ UNCHANGED <<era, tasks, pauses, fault, warming>>

-----------------------------------------------------------------------------
(* release() and cancel() *)

\* Mutant: an aborted request drops its lease without releasing it.
Release_leaks(r, outcome) ==
    LET lease == request[r].lease
    IN  /\ request[r].pc = "leased"
        /\ runtime' = IF outcome # "ABORTED" /\ Book!holds(runtime[lease.model_id], lease)
                      THEN [runtime EXCEPT ![lease.model_id] = Book!release(@, lease, outcome, 0)]
                      ELSE runtime
        /\ request' = [request EXCEPT ![r] = Idle]
        /\ UNCHANGED <<era, queue, tasks, switch, fault, warming>>

Release(r, outcome) ==
    LET lease == request[r].lease
        row == runtime[lease.model_id]
    IN  /\ request[r].pc = "leased"
        /\ runtime' = IF Book!holds(row, lease)
                      THEN [runtime EXCEPT ![lease.model_id] = Book!release(@, lease, outcome, 0)]
                      ELSE runtime
        /\ request' = [request EXCEPT ![r] = Idle]
        /\ UNCHANGED <<era, queue, tasks, switch, fault, warming>>

Cancel(r) ==
    LET lease == request[r].lease
    IN  /\ request[r].pc = "leased"
        /\ Book!holds(runtime[lease.model_id], lease)
        /\ runtime' = [runtime EXCEPT ![lease.model_id] = Book!begin_cancel(@, lease)]
        /\ UNCHANGED <<era, clients, tasks, switch, fault, warming>>

-----------------------------------------------------------------------------
(* _finish_load, _run_eviction and _finish_eviction *)

\* Mutant: a late success of a superseded load is believed.
FinishLoad_late(m, outcome) ==
    /\ loads[m] # None /\ loads[m].pc = "io"
    /\ runtime' = [runtime EXCEPT ![m] =
           IF outcome = "RUNNING" THEN Book!loaded(@, 0) ELSE Book!failed(@)]
    /\ loads' = [loads EXCEPT ![m].pc = "end"]
    /\ UNCHANGED <<era, clients, eviction, switch, fault, warming>>

\* A verified load may complete a burst of switches, which starts the cooldown.
FinishLoad(m, outcome) ==
    LET op == loads[m].op
        live == Book!_operation(runtime, op)
    IN  /\ loads[m] # None /\ loads[m].pc = "io"
        /\ \/ /\ outcome = "RUNNING"
              /\ runtime' = IF live THEN [runtime EXCEPT ![m] = Book!loaded(@, 0)] ELSE runtime
              /\ cold_blocked' \in IF live THEN {cold_blocked, TRUE} ELSE {cold_blocked}
              /\ loads' = [loads EXCEPT ![m].pc = "end"]
           \/ /\ outcome = "UNVERIFIED"
              /\ runtime' = IF live THEN [runtime EXCEPT ![m] = Book!failed(@)] ELSE runtime
              /\ loads' = [loads EXCEPT ![m].pc = "end",
                                        ![m].recover = live /\ recovery # "absent" /\ ~recovering]
              /\ UNCHANGED cold_blocked
        /\ UNCHANGED <<era, clients, eviction, intent, cooling, fault, warming>>

\* The finally block: forget the task and, after a failure, start a recovery.
EndLoad(m) ==
    /\ loads[m] # None /\ loads[m].pc = "end"
    /\ loads' = [loads EXCEPT ![m] = None]
    /\ recovery' = IF loads[m].recover /\ recovery = "idle" THEN "drain" ELSE recovery
    /\ UNCHANGED <<book, clients, eviction, switch, closed, operator, warming>>

Settle(rt, op, outcome) ==
    IF ~Book!_operation(rt, op) THEN rt
    ELSE [rt EXCEPT ![op.model_id] =
              IF outcome = "STOPPED" THEN Book!stopped(@, 0) ELSE Book!failed(@)]

\* Mutant: the rest of the batch is forgotten after an unverified stop.
_rollback_forgotten(rt, ops) == rt

\* After an unverified stop the models not yet asked to stop serve again.
_rollback_pending(rt, ops) ==
    [m \in Models |->
        IF \E op \in Elements(ops) : op.model_id = m /\ Book!_operation(rt, op)
        THEN Book!rollback_unsent(rt[m]) ELSE rt[m]]

\* A token made stale by a recovery ends the batch by StaleOperation, which
\* reaches a session worker that awaits the batch.
StopNext(outcome) ==
    /\ eviction # None /\ eviction # <<>>
    /\ LET op == Head(eviction)
           settled == Settle(runtime, op, outcome)
           raises == outcome = "UNVERIFIED" /\ ~Book!_operation(runtime, op)
       IN  /\ \/ /\ outcome = "STOPPED"
                 /\ runtime' = settled
                 /\ eviction' = Tail(eviction)
              \/ /\ outcome = "UNVERIFIED"
                 /\ runtime' = IF raises THEN runtime
                               ELSE _rollback_pending(settled, Tail(eviction))
                 /\ eviction' = <<>>
           /\ worker' = [worker EXCEPT !.raised = @ \/ (raises /\ worker.pc = "await")]
    /\ UNCHANGED <<era, clients, loads, switch, fault, warming, sessions, session_freeze>>

EndEviction ==
    /\ eviction = <<>>
    /\ eviction' = None
    /\ worker' = [worker EXCEPT !.pc = IF @ = "await" THEN "awaited" ELSE @]
    /\ UNCHANGED <<book, clients, loads, switch, fault, warming, sessions, session_freeze>>

-----------------------------------------------------------------------------
(* Recovery, storage loss and shutdown *)

\* release(ABORTED) of every lease of a row.
Aborted(r) ==
    IF r.leases = {} THEN r
    ELSE [r EXCEPT !.leases = {}, !.cancelling = {}, !.state = "ERROR",
                   !.admission_blocked = TRUE, !.idle_since = 0]

AbortAll(rt) == [m \in Models |-> Aborted(rt[m])]

\* _recover_after_unverified_load: wait for the leases, abort them at the deadline.
RecoverDrain ==
    /\ recovery = "drain"
    /\ runtime' = AbortAll(runtime)
    /\ recovery' = "call"
    /\ UNCHANGED <<era, clients, tasks, switch, closed, operator, warming>>

\* The first section of recover(): refused while another recovery is open or a
\* lease is held.
begin_recovery ==
    IF recovering \/ Leases(runtime) # {}
    THEN UNCHANGED book
    ELSE /\ epoch' = (epoch + 1) % Generations
         /\ recovering' = TRUE
         /\ runtime' = [m \in Models |-> Book!begin_recovery(runtime[m])]

\* The second section: a failed recovery leaves the book recovering.
finish_recovery(ok) ==
    IF ok
    THEN /\ recovering' = FALSE
         /\ runtime' = [m \in Models |-> Book!finish_recovery(runtime[m])]
         /\ UNCHANGED epoch
    ELSE UNCHANGED book

RecoverCall ==
    /\ recovery = "call"
    /\ begin_recovery
    /\ recovery' = IF recovering \/ Leases(runtime) # {} THEN "end" ELSE "io"
    /\ UNCHANGED <<clients, tasks, switch, closed, operator, warming>>

RecoverAnswer(ok) ==
    /\ recovery = "io"
    /\ finish_recovery(ok)
    /\ recovery' = "end"
    /\ UNCHANGED <<clients, tasks, switch, closed, operator, warming>>

RecoverEnd ==
    /\ recovery = "end"
    /\ recovery' = "idle"
    /\ UNCHANGED <<book, clients, tasks, switch, closed, operator, warming>>

\* Mutant: a running stop task is replaced.
CloseDown_replaces ==
    LET rt == AbortAll(runtime)
        targets == {m \in Models : rt[m].state \in {"READY", "ERROR"}}
    IN  IF recovering THEN runtime' = rt /\ UNCHANGED eviction
        ELSE StartEviction(rt, InOrder(targets))

\* What storage_lost and shutdown share: abort every lease and stop what is
\* resident, unless a stop task is already running or a recovery is open.
CloseDown ==
    LET rt == AbortAll(runtime)
        targets == {m \in Models : rt[m].state \in {"READY", "ERROR"}}
    IN  IF eviction # None \/ targets = {} \/ recovering
        THEN runtime' = rt /\ UNCHANGED eviction
        ELSE StartEviction(rt, InOrder(targets))

\* monitor_storage_once, when the guard reports a fault.
StorageLost ==
    /\ FALSE \in GuardAnswers
    /\ ~storage_unavailable
    /\ storage_unavailable' = TRUE
    /\ queue' = <<>>
    /\ CloseDown
    /\ UNCHANGED <<era, request, loads, switch, shutdown, recovery, operator, warming>>

\* storage_recovered: revalidate, recover, reopen.
OperatorStart ==
    /\ operator = "idle"
    /\ TRUE \in GuardAnswers
    /\ storage_unavailable
    /\ recovery # "absent"
    /\ operator' = "call"
    /\ UNCHANGED <<book, clients, tasks, switch, closed, recovery, warming>>

OperatorCall ==
    /\ operator = "call"
    /\ begin_recovery
    /\ operator' = IF recovering \/ Leases(runtime) # {} THEN "idle" ELSE "io"
    /\ UNCHANGED <<clients, tasks, switch, closed, recovery, warming>>

OperatorAnswer(ok) ==
    /\ operator = "io"
    /\ finish_recovery(ok)
    /\ operator' = IF ok THEN "reopen" ELSE "idle"
    /\ UNCHANGED <<clients, tasks, switch, closed, recovery, warming>>

OperatorReopen ==
    /\ operator = "reopen"
    /\ storage_unavailable' = FALSE
    /\ operator' = "idle"
    /\ UNCHANGED <<book, clients, tasks, switch, shutdown, recovery, warming>>

\* SessionManager.begin_drain.  Deadlines and retry_at are not asked any more.
begin_drain(record) ==
    IF record.phase = "CLOSED" THEN record ELSE [Unopened EXCEPT !.phase = "DRAINING"]

ShutdownStart ==
    /\ "shutdown" \in Admin
    /\ shutdown = "no"
    /\ shutdown' = "drain"
    /\ queue' = <<>>
    /\ sessions' = [s \in SessionIds |->
           IF sessions[s].phase = "NONE" THEN sessions[s] ELSE begin_drain(sessions[s])]
    /\ session_freeze' =
           IF session_freeze # None /\ sessions[session_freeze].phase # "CLOSED"
           THEN None ELSE session_freeze
    /\ UNCHANGED <<book, request, tasks, switch, storage_unavailable, recovery, operator, warming,
                    worker>>

\* The leases have ended or the grace period has.
ShutdownStop ==
    /\ shutdown = "drain"
    /\ shutdown' = "done"
    /\ CloseDown
    /\ UNCHANGED <<era, clients, loads, switch, storage_unavailable, recovery, operator, warming>>

-----------------------------------------------------------------------------
(* unload() and sweep_ttl() *)

Unload(m) ==
    /\ "unload" \in Admin
    /\ eviction = None
    /\ ~recovering
    /\ Book!may_evict(runtime[m], m, FALSE)
    /\ StartEviction(runtime, <<m>>)
    /\ UNCHANGED <<era, clients, loads, switch, fault, warming>>

\* Models idle for their TTL, unless a request waits for them.
SweepTtl ==
    /\ "ttl" \in Admin
    /\ eviction = None
    /\ \E due \in SUBSET {m \in Models : Book!ttl_due(runtime[m], m, Ttl[m])} :
           LET models == due \ {Target[r] : r \in Queued}
           IN  models # {} /\ StartEviction(runtime, InOrder(models))
    /\ UNCHANGED <<era, clients, loads, switch, fault, warming>>

\* A cooldown, or the pause after an expired intent, runs out.
CooldownOver ==
    /\ \/ cold_blocked /\ cold_blocked' = FALSE /\ UNCHANGED cooling
       \/ \E m \in cooling : cooling' = cooling \ {m} /\ UNCHANGED cold_blocked
    /\ UNCHANGED <<book, clients, tasks, intent, fault, warming>>

-----------------------------------------------------------------------------
(* warm(): _preload_one for one model *)

Step(p, pc) == warm' = [warm EXCEPT ![p].pc = pc]

\* Only the session worker looks at how the call ended.
Return(p, how) ==
    warm' = [warm EXCEPT ![p] = [Resting EXCEPT !.result =
                 IF worker.pc = "preload" /\ p = SessionWorker THEN how ELSE None]]

\* Go on without the sample taken before.
Resume(p, pc, here) ==
    warm' = [warm EXCEPT ![p] = [Resting EXCEPT !.pc = pc, !.target = warm[p].target,
                                                !.late = warm[p].late,
                                                !.loaded_here = warm[p].loaded_here \/ here]]

NothingRuns == eviction = None /\ \A m \in Models : loads[m] = None

WarmStart(p) ==
    /\ warm[p].pc = "idle"
    /\ \E m \in WarmTarget[p] :
           warm' = [warm EXCEPT ![p].pc = "check", ![p].target = m]
    /\ UNCHANGED <<book, clients, tasks, switch, fault, retrying>>

\* The deadline of the call passes; only the wait at the end of the loop asks.
WarmLapse(p) ==
    /\ warm[p].pc # "idle" /\ ~warm[p].late
    /\ warm' = [warm EXCEPT ![p].late = TRUE]
    /\ UNCHANGED <<book, clients, tasks, switch, fault, retrying>>

WarmCheck(p) ==
    LET m == warm[p].target
        state == runtime[m].state
    IN  /\ warm[p].pc = "check"
        /\ \/ /\ storage_unavailable
              /\ Return(p, "refused") /\ UNCHANGED retries
           \/ /\ ~storage_unavailable /\ state = "READY"
              /\ retries' = [retries EXCEPT ![m] = 0]
              /\ IF warm[p].loaded_here THEN Return(p, "ready") ELSE Step(p, "observe")
           \/ /\ ~storage_unavailable /\ state = "ERROR"
              /\ IF retries[m] >= LoadRetryLimit THEN Return(p, "refused") ELSE Step(p, "reclaim")
              /\ UNCHANGED retries
           \/ /\ ~storage_unavailable /\ state \notin {"READY", "ERROR"}
              /\ Step(p, IF state = "UNLOADED" /\ NothingRuns THEN "sample" ELSE "wait")
              /\ UNCHANGED retries
        /\ UNCHANGED <<book, clients, tasks, switch, fault, spinning>>

\* begin_eviction and stopped in one section, for a runtime seen to be gone.
Reclaimed(rt, m) ==
    [rt EXCEPT ![m] = Book!stopped(Book!begin_stop(@, NewId(m)), 0)]

\* Mutant: the model is not looked at again after the observation.
WarmObserve_unchecked(p, verdict) ==
    LET m == warm[p].target
    IN  /\ warm[p].pc = "observe"
        /\ runtime' = IF verdict = "gone" THEN Reclaimed(runtime, m) ELSE runtime
        /\ IF verdict = "gone" THEN Step(p, "check") ELSE Return(p, "ready")
        /\ UNCHANGED <<era, clients, tasks, switch, fault, retrying>>

\* _reclaim_lost_runtime
WarmObserve(p, verdict) ==
    LET m == warm[p].target
        idle == runtime[m].state = "READY" /\ runtime[m].leases = {}
        reclaim == verdict = "gone" /\ ~recovering /\ Book!may_evict(runtime[m], m, FALSE)
        refused == verdict = "failed" \/ (verdict = "gone" /\ idle)
    IN  /\ warm[p].pc = "observe"
        /\ runtime' = IF reclaim THEN Reclaimed(runtime, m) ELSE runtime
        /\ IF reclaim THEN Step(p, "check") ELSE Return(p, IF refused THEN "refused" ELSE "ready")
        /\ UNCHANGED <<era, clients, tasks, switch, fault, retrying>>

\* _reclaim_failed_model up to its stop.  When the model cannot be cleaned yet
\* the loop starts over at once; no await on the way suspends the task unless
\* somebody else happens to queue for the condition.
WarmReclaim(p) ==
    LET m == warm[p].target
        clean == runtime[m].state = "ERROR" /\ Book!may_clean(runtime[m])
    IN  /\ warm[p].pc = "reclaim"
        /\ \/ /\ clean /\ ~recovering
              /\ runtime' = Stopping(runtime, {m})
              /\ warm' = [warm EXCEPT ![p].pc = "stopping",
                                      ![p].op = Book!Token(m, NewId(m), runtime[m].generation)]
              /\ retries' = [retries EXCEPT ![m] = @ + 1]
              /\ UNCHANGED spinning
           \/ /\ clean /\ recovering
              /\ Return(p, "refused")
              /\ UNCHANGED <<runtime, retries, spinning>>
           \/ /\ ~clean
              /\ Step(p, "check")
              /\ spinning' \in IF runtime[m].state = "ERROR" THEN {spinning, p} ELSE {spinning}
              /\ UNCHANGED <<runtime, retries>>
        /\ UNCHANGED <<era, clients, tasks, switch, fault>>

\* The rest of _reclaim_failed_model: its own one-model stop batch, whose
\* unverified stop of a stale token escapes to the caller.
WarmStopped(p, outcome) ==
    LET op == warm[p].op
    IN  /\ warm[p].pc = "stopping"
        /\ runtime' = Settle(runtime, op, outcome)
        /\ IF outcome = "UNVERIFIED" /\ ~Book!_operation(runtime, op)
           THEN Return(p, "raised")
           ELSE warm' = [warm EXCEPT ![p].pc = "check", ![p].op = None]
        /\ UNCHANGED <<era, clients, tasks, switch, fault, retrying>>

WarmSample(p) ==
    /\ warm[p].pc = "sample"
    /\ \E bytes \in Readings, admitted \in GuardAnswers :
           warm' = [warm EXCEPT ![p].pc = "begin", ![p].bytes = bytes, ![p].admitted = admitted]
    /\ UNCHANGED <<book, clients, tasks, switch, fault, retrying>>

WarmBegin(p) ==
    LET m == warm[p].target
        clear == warm[p].admitted /\ runtime[m].state = "UNLOADED" /\ NothingRuns
        fits == Book!can_load(runtime, m, SampleOf(warm[p].bytes), 0)
    IN  /\ warm[p].pc = "begin"
        /\ \/ /\ clear /\ fits
              /\ StartLoad(runtime, m)
              /\ Resume(p, "check", TRUE)
           \/ /\ clear /\ ~fits
              /\ Step(p, "phantom")
              /\ UNCHANGED <<runtime, loads>>
           \/ /\ ~clear
              /\ Resume(p, "wait", FALSE)
              /\ UNCHANGED <<runtime, loads>>
        /\ UNCHANGED <<era, clients, eviction, switch, fault, retrying>>

\* _reclaim_phantom_residents: an idle resident whose runtime is seen to be gone.
WarmPhantom(p, k) ==
    /\ warm[p].pc = "phantom"
    /\ "gone" \in Verdicts
    /\ k # warm[p].target
    /\ ~recovering
    /\ Book!may_evict(runtime[k], k, FALSE)
    /\ runtime' = Reclaimed(runtime, k)
    /\ warm' = [warm EXCEPT ![p].reclaimed = TRUE]
    /\ UNCHANGED <<era, clients, tasks, switch, fault, retrying>>

\* After the scan: decide again if anything came back, else evict.  An observation
\* that fails ends the call.
WarmScanned(p) ==
    /\ warm[p].pc = "phantom"
    /\ \/ "failed" \in Verdicts /\ Return(p, "refused")
       \/ IF warm[p].reclaimed THEN Resume(p, "check", FALSE) ELSE Step(p, "evict")
    /\ UNCHANGED <<book, clients, tasks, switch, fault, retrying>>

WarmEvict(p) ==
    LET m == warm[p].target
        need == _load_deficit(runtime, m, warm[p].bytes)
        clear == runtime[m].state = "UNLOADED" /\ NothingRuns
    IN  /\ warm[p].pc = "evict"
        /\ \E order \in Orders(candidates(runtime, FALSE)) :
               LET models == choose(order, need)
               IN  IF clear /\ models # <<>>
                   THEN StartEviction(runtime, models) /\ Resume(p, "check", FALSE)
                   ELSE UNCHANGED <<runtime, eviction>> /\ Resume(p, "wait", FALSE)
        /\ UNCHANGED <<era, clients, loads, switch, fault, retrying>>

WarmWait(p) ==
    /\ warm[p].pc = "wait"
    /\ IF warm[p].late THEN Return(p, "refused") ELSE Step(p, "check")
    /\ UNCHANGED <<book, clients, tasks, switch, fault, retrying>>

-----------------------------------------------------------------------------
(* The event loop *)

\* What a request does by itself once it is called.
Proceed(r) ==
    \/ Sample(r) \/ Decide(r) \/ Commit(r) \/ Close(r)
    \/ \E outcome \in Book!Outcome : Release(r, outcome)

RequestStep == \E r \in Requests : Proceed(r) \/ Enqueue(r) \/ Lapse(r) \/ Abandon(r) \/ Cancel(r)

LoadTask(m) == EndLoad(m) \/ \E outcome \in LoadOutcomes : FinishLoad(m, outcome)

StopTask == EndEviction \/ \E outcome \in StopOutcomes : StopNext(outcome)

RecoverTask ==
    \/ RecoverDrain \/ RecoverCall \/ RecoverEnd
    \/ \E ok \in RecoveryResults : RecoverAnswer(ok)

OperatorTask ==
    \/ OperatorCall \/ OperatorReopen
    \/ \E ok \in RecoveryResults : OperatorAnswer(ok)

FaultStep == StorageLost \/ OperatorStart \/ ShutdownStop

AdminStep == SweepTtl \/ \E m \in Models : Unload(m)

\* What a warmer does by itself once it is called.
WarmTask(p) ==
    \/ WarmCheck(p) \/ WarmReclaim(p) \/ WarmSample(p) \/ WarmBegin(p)
    \/ WarmScanned(p) \/ WarmEvict(p) \/ WarmWait(p)
    \/ \E verdict \in Verdicts : WarmObserve(p, verdict)
    \/ \E k \in Models : WarmPhantom(p, k)
    \/ \E outcome \in StopOutcomes : WarmStopped(p, outcome)

Track ==
    suspect' = {m \in Models : \/ runtime'[m].state = "ERROR"
                               \/ m \in suspect /\ runtime'[m].state # "UNLOADED"}

\* A warmer that never yields keeps every other task off the event loop.
Turn(A) == spinning = None /\ A /\ Track

\* A turn of a task that has nothing to do with sessions.
Quietly(A) == Turn(A) /\ UNCHANGED exclusive

WarmTurn(p) == spinning \in {None, p} /\ WarmTask(p) /\ Track /\ UNCHANGED exclusive

LapseTurn(p) == WarmLapse(p) /\ Track /\ UNCHANGED exclusive

Next ==
    \/ Quietly(RequestStep)
    \/ \E m \in Models : Quietly(LoadTask(m))
    \/ Turn(StopTask)
    \/ Quietly(CooldownOver)
    \/ Quietly(RecoverTask)
    \/ Quietly(OperatorTask)
    \/ Quietly(FaultStep)
    \/ Turn(ShutdownStart)
    \/ Quietly(AdminStep)
    \/ \E p \in Warmers : Quietly(WarmStart(p)) \/ WarmTurn(p) \/ LapseTurn(p)

Spec == Init /\ [][Next]_schedVars

\* The event loop runs every ready task, the backend answers within its
\* deadline, callers end their leases, cooldowns and deadlines of warm() pass.
Fairness ==
    /\ \A r \in Requests : WF_schedVars(Quietly(Proceed(r)))
    /\ \A m \in Models : WF_schedVars(Quietly(LoadTask(m)))
    /\ WF_schedVars(Turn(StopTask))
    /\ WF_schedVars(Quietly(CooldownOver))
    /\ WF_schedVars(Quietly(RecoverTask))
    /\ WF_schedVars(Quietly(OperatorTask))
    /\ \A p \in Warmers : WF_schedVars(WarmTurn(p)) /\ WF_schedVars(LapseTurn(p))

LiveSpec == Spec /\ Fairness

-----------------------------------------------------------------------------
(* Properties *)

\* However the tasks interleave, the scheduler's book implements the abstract
\* ledger: charges only inside both budgets, refunds only for unleased models.
SchedulerResidency == Book!ResidencySpec

PendingStops ==
    (IF eviction = None THEN {} ELSE Elements(eviction))
        \cup {warm[p].op : p \in {q \in Warmers : warm[q].op # None}}

\* Every loading or stopping row has a live task that holds its current token:
\* no interleaving of loads, batches, recoveries and aborts orphans a row, whose
\* memory would then stay charged for ever.
BusyRowOwned ==
    \A m \in Models :
        /\ runtime[m].state = "LOADING" =>
               loads[m] # None /\ loads[m].pc = "io" /\ Book!_operation(runtime, loads[m].op)
        /\ runtime[m].state = "EVICTING" =>
               \E op \in PendingStops : op.model_id = m /\ Book!_operation(runtime, op)

\* A READY model refuses requests only while a switch intent has frozen it, and
\* the request behind the intent is still inside acquire: no freeze is leaked.
FreezeHasOwner ==
    /\ \A m \in Models : runtime[m].state = "READY" /\ runtime[m].admission_blocked =>
           intent # None /\ m \in Elements(intent.frozen)
    /\ intent # None => request[intent.request].pc \in {"waiting", "decide", "commit", "closing"}

\* Every lease in the book is in the hands of the request it was granted to.
LeaseHasOwner ==
    \A lease \in Leases(runtime) : request[lease.request_id].lease = lease

\* After a storage fault or the start of a shutdown no new lease is granted.
ClosedGrantsNothing ==
    [][storage_unavailable \/ shutdown # "no" => Leases(runtime') \subseteq Leases(runtime)]_schedVars

\* A model that failed serves no request before its stop was proven.
NoSuspectServes == \A m \in Models : runtime[m].state = "READY" => m \notin suspect

\* A waiting request is not forgotten: without any deadline to help, acquire
\* serves or refuses it, even when a busy model must first drain and be stopped,
\* unless a failed model keeps the memory it needs.
WaiterServed ==
    \A r \in Requests : r \in Queued ~>
        r \notin Queued \/ \E m \in Models \ {Target[r]} : runtime[m].state = "ERROR"

\* _preload_one returns once its deadline has passed, whichever of its loads
\* and stops fail.
WarmReturns == \A p \in Warmers : warm[p].pc # "idle" ~> warm[p].pc = "idle"
=============================================================================
