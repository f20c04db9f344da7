--------------------------- MODULE ExecutionService ---------------------------
(***************************************************************************)
(* The execution queue of one ACTIVE session on its one model              *)
(* (model_scheduler/execution_service.py): submission, the dispatch loop,  *)
(* the coroutine `_run` of every execution, the backend call and its       *)
(* timeout, the managed termination (one proven stop settles a batch), the *)
(* publication of results, cancellation and the drain hook.                *)
(*                                                                         *)
(* One action is one stretch of code between two awaits that can suspend;  *)
(* everything under the service lock is one action.  The scheduler is seen *)
(* through `acquire`, `release` and `unload`, the blob store through the   *)
(* rows it keeps for an output and for a read lease.                       *)
(***************************************************************************)
EXTENDS Naturals, FiniteSets

CONSTANTS
    Executions,      \* execution ids
    BlobInputs,      \* the executions whose input is a blob reference
    Slots,           \* max_concurrency of the session's model
    QueueCapacity,   \* EXECUTION_QUEUE_CAPACITY
    MaxGeneration    \* bound on how often the model is loaded

ASSUME ExecConstants ==
    /\ BlobInputs \subseteq Executions
    /\ Slots \in Nat \ {0} /\ QueueCapacity \in Nat \ {0}
    /\ MaxGeneration \in Nat \ {0}

VARIABLES
    rec,          \* _records: the ExecutionRecord of every execution
    run,          \* where the execution's coroutine stands
    write,        \* the write_output call of its publication
    output,       \* the blob store's row for its output
    revoked,      \* outputs whose reservation cancel_output marked
    reading,      \* executions whose id holds a row of the leases table
    dropped,      \* executions with an unclosed, overwritten input context
    cleanup,      \* _pending_cleanup
    overdue,      \* executions whose deadline has passed
    dispatcher,   \* the dispatch loop of the session is running
    quiescing,    \* the model is in _quiescing
    quiescer,     \* the quiescer task: its stage and its batch still to do
    holders,      \* executions with a lease in the scheduler's book
    generation,   \* the model's generation in the book
    loaded,       \* the model is READY
    session,      \* active and live; draining (or lapsed); hooked: the drain
                  \* hook has run
    proof         \* where a dispatched execution's terminal evidence comes
                  \* from: the trusted request protocol, a proven stop of the
                  \* instance (managed_termination), or reports (unmanaged)

serviceVars == <<rec, run, write, cleanup, dispatcher, quiescing, quiescer>>
storeVars   == <<output, revoked, reading, dropped>>
schedulerVars == <<holders, generation, loaded, session>>
execVars == <<serviceVars, storeVars, schedulerVars, overdue, proof>>

Terminal == {"succeeded", "failed", "cancelled"}

NoRecord ==
    [state |-> "none", evidence |-> FALSE, body |-> FALSE, publishing |-> FALSE,
     started |-> FALSE, claimed |-> FALSE, instance |-> FALSE,
     lease |-> FALSE, lease_released |-> FALSE, reservation |-> FALSE,
     input |-> FALSE, input_closed |-> FALSE, cancel_pending |-> FALSE,
     reason |-> FALSE, awaiting |-> FALSE, expected |-> FALSE, generation |-> 0]

Known(e)     == rec[e].state # "none"
Settled(r)   == r.state \in Terminal
Unsettled(e) == Known(e) /\ ~Settled(rec[e])

ExecInit ==
    /\ rec = [e \in Executions |-> NoRecord]
    /\ run = [e \in Executions |-> "idle"]
    /\ write = [e \in Executions |-> "none"]
    /\ output = [e \in Executions |-> "none"]
    /\ revoked = {} /\ reading = {} /\ dropped = {}
    /\ cleanup = {} /\ overdue = {}
    /\ dispatcher = FALSE /\ quiescing = FALSE
    /\ quiescer = [stage |-> "off", todo |-> {}]
    /\ holders = {} /\ generation = 1 /\ loaded = TRUE
    /\ session = "active"
    /\ proof \in {"request", "stop", "report"}

-----------------------------------------------------------------------------
(* Settling decisions: pure functions of a record.                         *)

\* _terminate_local: a never-dispatched execution ends with its own proof
TerminateLocal(r, state) == [r EXCEPT !.evidence = TRUE, !.state = state]

\* Mutant: the reported output is enough, no terminal proof is waited for.
Evaluate_unproven(r) ==
    IF Settled(r) THEN r
    ELSE IF r.cancel_pending THEN [r EXCEPT !.state = "cancelled"]
    ELSE IF r.reason THEN [r EXCEPT !.state = "failed"]
    ELSE IF r.body /\ ~r.reservation THEN [r EXCEPT !.state = "failed"]
    ELSE IF r.body THEN [r EXCEPT !.publishing = TRUE]
    ELSE r

\* _evaluate: what the evidence settles now
Evaluate(r) ==
    IF Settled(r) \/ ~r.evidence THEN r
    ELSE IF r.cancel_pending THEN [r EXCEPT !.state = "cancelled"]
    ELSE IF r.reason THEN [r EXCEPT !.state = "failed"]
    ELSE IF r.body /\ ~r.reservation THEN [r EXCEPT !.state = "failed"]
    ELSE IF r.body THEN [r EXCEPT !.publishing = TRUE]
    ELSE r

\* the marks of a cancellation, a timeout or a drain on a dispatched execution
Cancelling(r) ==
    [r EXCEPT !.cancel_pending = TRUE, !.reason = TRUE, !.state = "cancelling"]

\* the record after _teardown; what nobody reads of a settled record again is
\* forgotten
TornDown(r) ==
    [r EXCEPT !.lease_released = @ \/ r.lease, !.input_closed = @ \/ r.input,
              !.claimed = FALSE, !.reason = FALSE, !.awaiting = FALSE,
              !.expected = FALSE, !.instance = FALSE, !.generation = 0]

\* _pending_cleanup after an abandon that raised for the broken ones
Remembered(tracked, abandoned, broken) == (tracked \ (abandoned \ broken)) \cup broken

(* _teardown of the executions S whose records are now R: the lease is     *)
(* released once, the input context is left once, and the reservation of   *)
(* an unsuccessful execution is abandoned; an abandon that raises keeps it  *)
(* in _pending_cleanup.  abandon_output deletes a row that is still        *)
(* reserved; it leaves a published row alone.                              *)
Teardown(S, R, tracked, marked) ==
    LET abandoned == {e \in S : R[e].reservation /\ R[e].state # "succeeded"}
    IN /\ rec' = [e \in Executions |-> IF e \in S THEN TornDown(R[e]) ELSE R[e]]
       /\ holders' = holders \ {e \in S : R[e].lease /\ ~R[e].lease_released}
       /\ reading' = reading \ {e \in S : R[e].input /\ ~R[e].input_closed}
       /\ revoked' = marked \cup abandoned
       /\ \E broken \in SUBSET abandoned :
            /\ cleanup' = Remembered(tracked, abandoned, broken)
            /\ output' = [e \in Executions |->
                            IF e \in abandoned \ broken /\ output[e] = "reserved"
                            THEN "gone" ELSE output[e]]

\* Mutant: every locked section is followed by a teardown.
Advance_tears(e, r, tracked, marked) ==
    /\ write' = IF r.publishing /\ write[e] = "none"
                THEN [write EXCEPT ![e] = IF e \in marked THEN "refused" ELSE "writing"]
                ELSE write
    /\ Teardown({e}, [rec EXCEPT ![e] = r], tracked, marked)

(* _advance after a locked section that left e's record as r: start the    *)
(* publication the section decided on, tear a settled record down.         *)
Advance(e, r, tracked, marked) ==
    /\ write' = IF r.publishing /\ write[e] = "none"
                THEN [write EXCEPT ![e] = IF e \in marked THEN "refused" ELSE "writing"]
                ELSE write
    /\ IF Settled(r)
       THEN Teardown({e}, [rec EXCEPT ![e] = r], tracked, marked)
       ELSE /\ rec' = [rec EXCEPT ![e] = r]
            /\ cleanup' = tracked /\ revoked' = marked
            /\ UNCHANGED <<holders, reading, output>>

\* _cancel_reservation: the output becomes unsubmittable and is tracked
Cancelled(e, r, set) == IF r.reservation THEN set \cup {e} ELSE set

\* a dispatched execution is cancelled: _cancel_side_effects, then _evaluate
CancelDispatched(e, r) ==
    Advance(e, Evaluate(r), Cancelled(e, r, cleanup), Cancelled(e, r, revoked))

\* an execution that was never dispatched ends here
EndLocally(e, state) ==
    /\ Teardown({e}, [rec EXCEPT ![e] = IF Settled(@) THEN @ ELSE TerminateLocal(@, state)],
                cleanup, revoked)
    /\ UNCHANGED write

-----------------------------------------------------------------------------
(* Submission, cancellation, reports, the drain hook.                      *)

\* submit (the part after the idempotency decision): queue one execution
Submit(e) ==
    /\ ~Known(e)
    /\ session = "active"
    /\ Cardinality({d \in Executions : rec[d].state = "queued"}) < QueueCapacity
    /\ generation >= 1
    /\ rec' = [rec EXCEPT ![e] = [NoRecord EXCEPT !.state = "queued", !.generation = generation]]
    /\ dispatcher' = TRUE
    /\ UNCHANGED <<run, write, cleanup, quiescing, quiescer, storeVars, schedulerVars,
                   overdue, proof>>

\* cancel by the owner
Cancel(e) ==
    /\ Unsettled(e)
    /\ IF rec[e].started
       THEN CancelDispatched(e, Cancelling(rec[e]))
       ELSE EndLocally(e, "cancelled")
    /\ UNCHANGED <<run, dispatcher, quiescing, quiescer, dropped, generation, loaded,
                   session, overdue, proof>>

\* report_output: the backend delivers result bytes for an execution it was
\* given; no caller in the repository wires these reports with managed stops
ReportOutput(e) ==
    LET r == rec[e] IN
    /\ proof = "report" /\ rec[e].started
    /\ Unsettled(e)
    /\ IF r.cancel_pending
       THEN Advance(e, [r EXCEPT !.body = FALSE], Cancelled(e, r, cleanup), Cancelled(e, r, revoked))
       ELSE /\ ~r.publishing
            /\ Advance(e, Evaluate([r EXCEPT !.body = TRUE]), cleanup, revoked)
    /\ UNCHANGED <<run, dispatcher, quiescing, quiescer, dropped, generation, loaded,
                   session, overdue, proof>>

\* report_terminal: evidence whose fence names the record's generation; a
\* not_started report after the dispatch and a second report are no-ops
ReportTerminal(e, fence, dispatched) ==
    LET r == rec[e] IN
    /\ proof = "report" /\ rec[e].started
    /\ fence = r.generation
    /\ dispatched \/ ~r.instance
    /\ ~r.evidence
    /\ Advance(e, Evaluate([r EXCEPT !.evidence = TRUE, !.instance = @ \/ dispatched]), cleanup, revoked)
    /\ UNCHANGED <<run, dispatcher, quiescing, quiescer, dropped, generation, loaded,
                   session, overdue, proof>>

\* the session stops being live or begins to drain: both refuse alike
SessionEnds ==
    /\ session = "active" /\ session' = "draining"
    /\ UNCHANGED <<serviceVars, storeVars, holders, generation, loaded, overdue, proof>>

\* _on_session_draining: every live execution is cancelled under one lock
OnSessionDraining ==
    LET live == {e \in Executions : Unsettled(e)}
        R == [e \in Executions |->
                IF e \notin live THEN rec[e]
                ELSE IF rec[e].started THEN Evaluate(Cancelling(rec[e]))
                ELSE TerminateLocal(rec[e], "cancelled")]
        marks == {e \in live : rec[e].started /\ rec[e].reservation}
    IN /\ session = "draining"
       /\ session' = "hooked"
       /\ Teardown({e \in live : Settled(R[e])}, R, cleanup \cup marks, revoked \cup marks)
       /\ UNCHANGED <<run, write, dispatcher, quiescing, quiescer, dropped, generation,
                      loaded, overdue, proof>>

\* time: the deadline of an execution passes
DeadlinePasses(e) ==
    /\ Unsettled(e) /\ e \notin overdue
    /\ overdue' = overdue \cup {e}
    /\ UNCHANGED <<serviceVars, storeVars, schedulerVars, proof>>

-----------------------------------------------------------------------------
(* The dispatch loop and the coroutine of one execution.                   *)

Waiting(e) == rec[e].state = "queued" /\ ~rec[e].started /\ ~rec[e].claimed

\* Mutant: the dispatch loop does not look at _quiescing.
Seen_unfrozen == {e \in Executions : Waiting(e)}

\* one scan of _dispatch_loop: expire or claim every waiting record unless a
\* stop is owed; the loop ends when the session has nothing unsettled left
Seen    == IF quiescing THEN {} ELSE {e \in Executions : Waiting(e)}
Expired == Seen \cap overdue
Heads   == Seen \ overdue

\* Mutant: the loop returns as soon as a scan finds nothing.
GoesOn_hasty == Seen # {}

\* the loop returns when it found nothing and every record is settled
GoesOn == Seen # {} \/ \E e \in Executions : Unsettled(e)

Scan ==
    /\ dispatcher
    /\ rec' = [e \in Executions |->
                 IF e \in Expired THEN TerminateLocal(rec[e], "cancelled")
                 ELSE [rec[e] EXCEPT !.claimed = @ \/ e \in Heads]]
    /\ run' = [e \in Executions |-> IF e \in Heads THEN "guard" ELSE run[e]]
    /\ dispatcher' = GoesOn
    /\ UNCHANGED <<write, cleanup, quiescing, quiescer, storeVars, schedulerVars, overdue, proof>>

Goes(e, from, to) == run[e] = from /\ run' = [run EXCEPT ![e] = to]

\* what a step of the run coroutine leaves alone
RunFrame == UNCHANGED <<dispatcher, quiescing, session, overdue, proof>>

\* _pre_dispatch_guard: re-validate, refresh the fence
Guard(e) ==
    /\ IF Settled(rec[e])
       THEN Goes(e, "guard", "ended") /\ UNCHANGED <<rec, write, cleanup, storeVars, holders>>
       ELSE IF session # "active"
       THEN /\ Goes(e, "guard", "ended")
            /\ EndLocally(e, "cancelled")
            /\ UNCHANGED dropped
       ELSE /\ Goes(e, "guard", IF e \in BlobInputs THEN "open" ELSE "enqueue")
            /\ rec' = [rec EXCEPT ![e].generation = generation]
            /\ UNCHANGED <<write, cleanup, storeVars, holders>>
    /\ RunFrame /\ UNCHANGED <<quiescer, generation, loaded>>

\* _open_input_lease: the row of the leases table carries the execution id as
\* its holder; a context opened on an earlier try is overwritten, not left
OpenInput(e) ==
    /\ \/ /\ Goes(e, "open", "enqueue")
          /\ rec' = [rec EXCEPT ![e].input = TRUE]
          /\ reading' = reading \cup {e}
          /\ dropped' = IF rec[e].input /\ ~rec[e].input_closed THEN dropped \cup {e} ELSE dropped
          /\ UNCHANGED <<write, cleanup, output, revoked, holders>>
       \/ /\ Goes(e, "open", "ended")
          /\ EndLocally(e, "failed")
          /\ UNCHANGED dropped
    /\ RunFrame /\ UNCHANGED <<quiescer, generation, loaded>>

\* the interpreter finalizes an overwritten context: its release_lease
\* removes the row of the same holder
FinalizeDropped(e) ==
    /\ e \in dropped
    /\ dropped' = dropped \ {e}
    /\ reading' = reading \ {e}
    /\ UNCHANGED <<serviceVars, output, revoked, schedulerVars, overdue, proof>>

\* _admit, the entry of scheduler.acquire: refused, retried later, or queued
Enqueue(e) ==
    /\ IF e \in overdue \/ session # "active"
       THEN /\ Goes(e, "enqueue", "ended")
            /\ EndLocally(e, "cancelled")
       ELSE IF loaded /\ Cardinality(holders) >= Slots
       THEN /\ Goes(e, "enqueue", "idle")   \* session_slots_exhausted
            /\ rec' = [rec EXCEPT ![e].claimed = FALSE]
            /\ UNCHANGED <<write, cleanup, output, revoked, reading, holders>>
       ELSE /\ Goes(e, "enqueue", "waiting")
            /\ UNCHANGED <<rec, write, cleanup, output, revoked, reading, holders>>
    /\ RunFrame /\ UNCHANGED <<dropped, quiescer, generation, loaded>>

\* scheduler.acquire grants the waiter a lease, after a cold load if need be;
\* the session's phase is not looked at again
Grant(e) ==
    /\ Goes(e, "waiting", "admitted")
    /\ Cardinality(holders) < Slots
    /\ quiescer.stage # "stopping"
    /\ IF loaded THEN UNCHANGED <<loaded, generation>>
       ELSE /\ generation < MaxGeneration
            /\ loaded' = TRUE /\ generation' = generation + 1
    /\ holders' = holders \cup {e}
    /\ RunFrame /\ UNCHANGED <<rec, write, cleanup, storeVars, quiescer>>

\* scheduler.acquire times out or is refused while waiting
AdmitFails(e) ==
    /\ Goes(e, "waiting", "ended")
    /\ \/ e \in overdue /\ EndLocally(e, "cancelled")
       \/ EndLocally(e, "failed")
    /\ RunFrame /\ UNCHANGED <<dropped, quiescer, generation, loaded>>

\* the lease is bound to the record, unless the record settled meanwhile:
\* _teardown then sees no lease on the record
Admitted(e) ==
    /\ IF Settled(rec[e])
       THEN /\ Goes(e, "admitted", "ended")
            /\ Teardown({e}, rec, cleanup, revoked)
       ELSE /\ Goes(e, "admitted", "reserve")
            /\ rec' = [rec EXCEPT ![e].lease = TRUE, ![e].generation = generation]
            /\ UNCHANGED <<cleanup, output, revoked, reading, holders>>
    /\ RunFrame /\ UNCHANGED <<write, dropped, quiescer, generation, loaded>>

\* _terminate_uncertain: no terminal is invented; a dispatched execution
\* waits for a proven stop, if the adapter knows an identity or not
Uncertain(e, knows) ==
    LET r == rec[e]
        marked == [r EXCEPT !.reason = TRUE, !.state = "cancelling",
                            !.awaiting = @ \/ (proof # "report" /\ r.started),
                            !.expected = @ \/ (proof # "report" /\ r.started /\ ~r.instance /\ knows)]
    IN IF Settled(r) THEN UNCHANGED <<rec, write, cleanup, holders, reading, revoked, output>>
       ELSE CancelDispatched(e, marked)

\* _ensure_quiescer
EnsureQuiescer(needed) ==
    quiescer' = IF needed /\ quiescer.stage = "off"
                THEN [stage |-> "scan", todo |-> {}] ELSE quiescer

\* reserve_output: the ceiling goes on the books before the dispatch; a
\* refusal (quota, storage) is an exception of the run coroutine
Reserve(e) ==
    /\ \/ /\ Goes(e, "reserve", "reserved")
          /\ output' = [output EXCEPT ![e] = "reserved"]
          /\ UNCHANGED <<rec, write, cleanup, holders, reading, revoked>>
       \/ /\ Goes(e, "reserve", "ended")
          /\ Uncertain(e, FALSE)
    /\ RunFrame /\ UNCHANGED <<dropped, quiescer, generation, loaded>>

\* the dispatch is committed, or the reservation of a settled record discarded
Dispatch(e) ==
    /\ IF Settled(rec[e])
       THEN /\ Goes(e, "reserved", "ended")
            /\ output' \in {output, [output EXCEPT ![e] = "gone"]}   \* abandon may raise
            /\ UNCHANGED <<rec, write, cleanup, holders, reading, revoked>>
       ELSE /\ Goes(e, "reserved", "executing")
            /\ rec' = [rec EXCEPT ![e].reservation = TRUE, ![e].started = TRUE, ![e].state = "running"]
            /\ UNCHANGED <<write, cleanup, output, holders, reading, revoked>>
    /\ RunFrame /\ UNCHANGED <<dropped, quiescer, generation, loaded>>

\* _on_timeout: the deadline passes before the backend answers; the answer is
\* still awaited by a callback
OnTimeout(e) ==
    /\ e \in overdue
    /\ Goes(e, "executing", "late")
    /\ IF Settled(rec[e])
       THEN UNCHANGED <<rec, write, cleanup, holders, reading, revoked, output>>
       ELSE CancelDispatched(e, Cancelling(rec[e]))
    /\ RunFrame /\ UNCHANGED <<dropped, quiescer, generation, loaded>>

Ends(e) == run[e] \in {"executing", "late"} /\ run' = [run EXCEPT ![e] = "ended"]

\* _after_execute: the backend returned a handle, and a body or none
Answered(e, body) ==
    LET r == rec[e]
        kept == [r EXCEPT !.instance = TRUE,
                          !.body = IF ~body \/ r.publishing THEN @ ELSE ~r.cancel_pending,
                          !.evidence = @ \/ proof = "request",
                          !.awaiting = @ \/ proof = "stop"]
    IN /\ Ends(e)
       /\ IF Settled(r)
          THEN UNCHANGED <<rec, write, cleanup, holders, reading, revoked, output, quiescer>>
          ELSE /\ Advance(e, Evaluate(kept), cleanup, revoked)
               /\ EnsureQuiescer(proof = "stop")
       /\ RunFrame /\ UNCHANGED <<dropped, generation, loaded>>

\* _after_execute: the adapter asserts that nothing reached the backend
NotDispatched(e) ==
    /\ Ends(e)
    /\ IF Settled(rec[e])
       THEN UNCHANGED <<rec, write, cleanup, holders, reading, revoked, output>>
       ELSE EndLocally(e, "failed")
    /\ RunFrame /\ UNCHANGED <<dropped, quiescer, generation, loaded>>

\* _after_execute: the backend raised without a trusted terminal
Raised(e) ==
    /\ Ends(e)
    /\ \E knows \in BOOLEAN : Uncertain(e, knows)
    /\ EnsureQuiescer(proof # "report" /\ ~Settled(rec[e]))
    /\ RunFrame /\ UNCHANGED <<dropped, generation, loaded>>

-----------------------------------------------------------------------------
(* Publication: write_output outside the lock, then the settling section.  *)

\* write_output commits the blob, fails and removes its own row, or refuses a
\* cancelled reservation
WriteOutput(e) ==
    /\ \/ /\ write[e] = "writing" /\ output[e] = "reserved"
          /\ write' = [write EXCEPT ![e] = "done"]
          /\ output' = [output EXCEPT ![e] = "published"]
       \/ /\ write[e] \in {"writing", "refused"}
          /\ write' = [write EXCEPT ![e] = IF @ = "refused" THEN "cancelled" ELSE "failed"]
          /\ output' = [output EXCEPT ![e] = "gone"]
    /\ UNCHANGED <<rec, run, cleanup, dispatcher, quiescing, quiescer, revoked, reading,
                   dropped, schedulerVars, overdue, proof>>

\* Mutant: the settling section does not look at the record again.
SettledAs_blind(r, end) == [r EXCEPT !.state = end, !.cancel_pending = @ \/ end = "cancelled"]

\* the record keeps the state it settled in while the result was written
SettledAs(r, end) ==
    IF Settled(r) THEN r
    ELSE [r EXCEPT !.state = end, !.cancel_pending = @ \/ end = "cancelled"]

\* the locked tail of _publish_and_settle
PublishAndSettle(e) ==
    LET r == [rec[e] EXCEPT !.publishing = FALSE, !.body = FALSE]
        end == CASE write[e] = "done"      -> "succeeded"
                 [] write[e] = "cancelled" -> "cancelled"
                 [] write[e] = "failed"    -> "failed"
    IN /\ write[e] \in {"done", "cancelled", "failed"}
       /\ write' = [write EXCEPT ![e] = "none"]
       /\ Teardown({e}, [rec EXCEPT ![e] = SettledAs(r, end)],
                   IF Settled(r) \/ end = "succeeded" THEN cleanup ELSE cleanup \cup {e}, revoked)
       /\ UNCHANGED <<run, dispatcher, quiescing, quiescer, dropped, generation, loaded,
                      session, overdue, proof>>

-----------------------------------------------------------------------------
(* Managed termination: one shared stop settles the awaiting batch.        *)

Computing(e) == Unsettled(e) /\ ~rec[e].awaiting
                /\ (rec[e].started \/ rec[e].claimed \/ rec[e].lease)
Batch == {e \in Executions : Unsettled(e) /\ rec[e].started /\ rec[e].awaiting}

\* the quiescer sleeps and scans again, or its grace is over and it returns
NextRound == quiescer' \in {[stage |-> "scan", todo |-> {}], [stage |-> "off", todo |-> {}]}

\* one round of _quiesce_model up to the stop: freeze the dispatches; once
\* nothing computes, release the batch's leases and ask for the stop
QuiesceScan ==
    LET computing == {e \in Executions : Computing(e)} IN
    /\ quiescer.stage = "scan"
    /\ quiescing' = (Batch \cup computing # {})
    /\ IF computing # {} THEN NextRound /\ UNCHANGED <<rec, holders>>
       ELSE IF Batch = {}
       THEN quiescer' = [stage |-> "off", todo |-> {}] /\ UNCHANGED <<rec, holders>>
       ELSE /\ quiescer' = [stage |-> "stopping", todo |-> Batch]
            /\ rec' = [e \in Executions |-> [rec[e] EXCEPT !.lease_released = @ \/ e \in Batch]]
            /\ holders' = holders \ {e \in Batch : ~rec[e].lease_released}
    /\ UNCHANGED <<run, write, cleanup, dispatcher, storeVars, generation, loaded, session,
                   overdue, proof>>

\* scheduler.unload: proven, or refused (a lease is left) or unproven
QuiesceStop ==
    /\ quiescer.stage = "stopping"
    /\ \/ /\ loaded => holders = {}
          /\ loaded' = FALSE
          /\ quiescer' = [quiescer EXCEPT !.stage = "settling"]
       \/ loaded /\ NextRound /\ UNCHANGED loaded
    /\ UNCHANGED <<rec, run, write, cleanup, dispatcher, quiescing, storeVars, holders,
                   generation, session, overdue, proof>>

\* _settle_with_stopped_proof for one record of the batch; the code awaits
\* each publication before the next record, the model lets them overlap
QuiesceSettle(e) ==
    LET r == rec[e]
        proven == [r EXCEPT !.evidence = TRUE, !.instance = TRUE]
    IN /\ quiescer.stage = "settling" /\ e \in quiescer.todo
       /\ quiescer' = [quiescer EXCEPT !.todo = @ \ {e}]
       /\ IF Settled(r) \/ r.evidence \/ ~(r.instance \/ r.expected)
          THEN UNCHANGED <<rec, write, cleanup, holders, reading, revoked, output>>
          ELSE Advance(e, Evaluate(proven), cleanup, revoked)
       /\ UNCHANGED <<run, dispatcher, quiescing, dropped, generation, loaded, session,
                      overdue, proof>>

QuiesceRest ==
    /\ quiescer.stage = "settling" /\ quiescer.todo = {}
    /\ NextRound
    /\ UNCHANGED <<rec, run, write, cleanup, dispatcher, quiescing, storeVars, schedulerVars,
                   overdue, proof>>

RunStep(e) ==
    \/ Guard(e) \/ OpenInput(e) \/ Enqueue(e) \/ Grant(e) \/ AdmitFails(e) \/ Admitted(e)
    \/ Reserve(e) \/ Dispatch(e) \/ OnTimeout(e) \/ NotDispatched(e) \/ Raised(e)
    \/ \E body \in BOOLEAN : Answered(e, body)

Quiescer == QuiesceScan \/ QuiesceStop \/ QuiesceRest \/ \E e \in Executions : QuiesceSettle(e)

ExecNext ==
    \/ Scan \/ Quiescer \/ SessionEnds \/ OnSessionDraining
    \/ \E e \in Executions :
         \/ Submit(e) \/ Cancel(e) \/ ReportOutput(e) \/ DeadlinePasses(e)
         \/ \E fence \in 1..MaxGeneration, dispatched \in BOOLEAN : ReportTerminal(e, fence, dispatched)
         \/ RunStep(e) \/ FinalizeDropped(e) \/ WriteOutput(e) \/ PublishAndSettle(e)

ExecSpec == ExecInit /\ [][ExecNext]_execVars

-----------------------------------------------------------------------------
(* Properties.                                                             *)

(* _publish_and_settle: an execution is shown as succeeded only with both  *)
(* a terminal proof and a published output; whatever cancels, times out or *)
(* drains meanwhile, no success is invented.                               *)
SuccessIsProven ==
    \A e \in Executions : rec[e].state = "succeeded" =>
        rec[e].evidence /\ output[e] = "published" /\ ~rec[e].cancel_pending

(* _teardown, _release_quiescence_lease: a dispatched execution that may   *)
(* still be computing keeps its lease in the scheduler's book, so nobody   *)
(* takes its slot or stops its instance, until it settles or its response  *)
(* has ended.                                                              *)
ComputingHoldsLease ==
    \A e \in Executions :
        rec[e].started /\ ~Settled(rec[e]) /\ ~rec[e].awaiting => e \in holders

(* _quiesce_model: while the shared stop runs no unsettled execution is    *)
(* anywhere between its claim and the end of its response: the stop never  *)
(* kills a request and never waits for one that waits for it.              *)
StopFindsNobody ==
    quiescer.stage \in {"stopping", "settling"} =>
        \A e \in Executions : ~Computing(e)

(* _dispatch_loop, _ensure_dispatcher: a record that waits for a dispatch  *)
(* always has a running loop to scan it; the loop's exit loses no wake-up. *)
WaitingIsScanned ==
    \A e \in Executions : Waiting(e) => dispatcher

(* _mark_settled: a terminal state is final.  No late answer, report,      *)
(* proof or drain moves a settled execution to another state.              *)
TerminalIsFinal ==
    [][\A e \in Executions : Settled(rec[e]) => rec'[e].state = rec[e].state]_execVars

(* Line 600, "never strand a record or a lease": when the coroutine of an  *)
(* execution has ended, the record is settled or dispatched.               *)
NeverStranded ==
    \A e \in Executions :
        run[e] = "ended" => Settled(rec[e]) \/ rec[e].started
====
