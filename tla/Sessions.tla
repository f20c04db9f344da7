------------------------------ MODULE Sessions ------------------------------
(***************************************************************************)
(* Exclusive sessions: session_manager.py and the session worker of        *)
(* scheduler.py, interleaved with everything module Scheduler does.        *)
(*                                                                         *)
(* A record has a phase, "late" once its preparation or its TTL has run    *)
(* out, and "resting" while its retry_at lies ahead.  A heartbeat only     *)
(* postpones the moment a session gets late, which may come at any time    *)
(* here, so it needs no action.                                            *)
(***************************************************************************)
EXTENDS Scheduler

Phase(s) == sessions[s].phase

InPhase(phases) == {s \in SessionIds : Phase(s) \in phases}

-----------------------------------------------------------------------------
(* SessionManager *)

SetPhase(s, phase) == [sessions EXCEPT ![s] = [Unopened EXCEPT !.phase = phase]]

mark_blocked(s) == [sessions EXCEPT ![s] = [Unopened EXCEPT !.phase = "BLOCKED", !.resting = TRUE]]

Draining(s) == [sessions EXCEPT ![s] = begin_drain(@)]

holding == InPhase({"ACTIVE", "DRAINING", "BLOCKED"})

candidate(s) ==
    /\ Phase(s) = "PREPARING"
    /\ ~sessions[s].resting /\ ~sessions[s].late
    /\ holding = {}

expired == {s \in InPhase({"PREPARING", "ACTIVE"}) : sessions[s].late}

blocked_due == {s \in InPhase({"BLOCKED"}) : ~sessions[s].resting}

pending == InPhase({"PREPARING", "ACTIVE", "DRAINING", "BLOCKED"}) # {}

Without(s) == SelectSeq(queue, LAMBDA q : q # s)

_release_session_freeze(s) == session_freeze' = IF session_freeze = s THEN None ELSE session_freeze

_ensure_session_worker ==
    worker' = IF worker.pc = "none" THEN [NoWorker EXCEPT !.pc = "plan"] ELSE worker

-----------------------------------------------------------------------------
(* Calls of the clients, and the clock *)

\* Pinned stands for the pinned and the preload models of _exclusive_conflict,
\* and SessionIds for the records that max_sessions leaves room for.
register_session(s) ==
    /\ Phase(s) = "NONE"
    /\ ~shutting_down
    /\ ~storage_unavailable
    /\ Pinned = {}
    /\ Len(queue) < QueueCapacity
    /\ queue' = Append(queue, s)
    /\ sessions' = SetPhase(s, "PREPARING")
    /\ _ensure_session_worker
    /\ UNCHANGED <<book, request, tasks, switch, fault, warming, session_freeze>>

close_session(s) ==
    /\ Phase(s) \notin {"NONE", "CLOSED"}
    /\ sessions' = Draining(s)
    /\ queue' = Without(s)
    /\ _ensure_session_worker
    /\ UNCHANGED <<book, request, tasks, switch, fault, warming, session_freeze>>

\* The preparation deadline or the TTL passes.
SessionLapse(s) ==
    /\ Phase(s) \in {"PREPARING", "ACTIVE"} /\ ~sessions[s].late
    /\ sessions' = [sessions EXCEPT ![s].late = TRUE]
    /\ UNCHANGED <<book, clients, tasks, switch, fault, warming, session_freeze, worker>>

\* The wait deadline passes, never before the preparation deadline: the next
\* look at the queue drops the waiter.
WaiterLapse(s) ==
    /\ s \in Queued
    /\ Phase(s) = "PREPARING" => sessions[s].late
    /\ queue' = Without(s)
    /\ UNCHANGED <<book, request, tasks, switch, fault, warming, exclusive>>

\* The backoff of a session that yielded or is blocked runs out.
RetryDue(s) ==
    /\ sessions[s].resting
    /\ sessions' = [sessions EXCEPT ![s].resting = FALSE]
    /\ UNCHANGED <<book, clients, tasks, switch, fault, warming, session_freeze, worker>>

-----------------------------------------------------------------------------
(* The session worker *)

At(pc) == worker.pc = pc

Serve(pc, s) == worker' = [NoWorker EXCEPT !.pc = pc, !.session = s]

Plan == worker' = [NoWorker EXCEPT !.pc = "plan"]

\* An exception the worker does not catch: its finally block forgets the task.
Die == worker' = NoWorker

\* _next_session_plan.  With nothing to plan the worker waits while a session is
\* pending and ends otherwise; from the last look to its finally block it meets
\* no held condition, so nothing comes in between.
WorkerPlan ==
    LET waiting == SelectSeq(queue, LAMBDA q : q \in SessionIds /\ candidate(q))
    IN  /\ At("plan")
        /\ \/ \E s \in expired :
                  /\ queue' = IF Phase(s) = "PREPARING" THEN Without(s) ELSE queue
                  /\ Serve("expire", s)
           \/ /\ expired = {}
              /\ UNCHANGED queue
              /\ \/ \E s \in blocked_due : Serve("leases", s)
                 \/ /\ blocked_due = {} /\ waiting # <<>>
                    /\ Serve("prepare", Head(waiting))
                 \/ /\ blocked_due = {} /\ waiting = <<>>
                    /\ \/ \E s \in InPhase({"DRAINING"}) : Serve("leases", s)
                       \/ ~pending /\ Die
        /\ UNCHANGED <<book, request, tasks, switch, fault, warming, sessions, session_freeze>>

_expire_session ==
    LET s == worker.session
        preparing == Phase(s) = "PREPARING"
    IN  /\ At("expire")
        /\ IF preparing
           THEN queue' = Without(s) /\ sessions' = SetPhase(s, "CLOSED") /\ _release_session_freeze(s)
           ELSE sessions' = Draining(s) /\ UNCHANGED <<queue, session_freeze>>
        /\ Plan
        /\ UNCHANGED <<book, request, tasks, switch, fault, warming>>

\* _prepare_session: freeze, drain every lease, stop the others, load, activate.
PrepareStart ==
    LET s == worker.session
    IN  /\ At("prepare")
        /\ IF Phase(s) = "PREPARING"
           THEN session_freeze' = s /\ Serve("drain", s)
           ELSE Plan /\ UNCHANGED session_freeze
        /\ UNCHANGED <<book, clients, tasks, switch, fault, warming, sessions>>

\* Mutant: a window that closes counts as drained.
PrepareDrained_always ==
    /\ At("drain")
    /\ Serve("others", worker.session)
    /\ UNCHANGED <<book, clients, tasks, switch, fault, warming, sessions, session_freeze>>

\* _wait_for_leases_to_drain: the window may close while a lease is held.
PrepareDrained ==
    /\ At("drain")
    /\ \/ Leases(runtime) = {} /\ Serve("others", worker.session)
       \/ Leases(runtime) # {} /\ Serve("yield", worker.session)
    /\ UNCHANGED <<book, clients, tasks, switch, fault, warming, sessions, session_freeze>>

\* yield_prepare refuses a session that was closed in the meantime, and nobody
\* catches the refusal.
PrepareYield ==
    LET s == worker.session
    IN  /\ At("yield")
        /\ IF Phase(s) = "PREPARING"
           THEN /\ sessions' = [sessions EXCEPT ![s].resting = TRUE]
                /\ _release_session_freeze(s)
                /\ Plan
           ELSE Die /\ UNCHANGED <<sessions, session_freeze>>
        /\ UNCHANGED <<book, clients, tasks, switch, fault, warming>>

Stop(purpose, targets) ==
    worker' = [NoWorker EXCEPT !.pc = "stop", !.session = worker.session,
                               !.purpose = purpose, !.targets = targets]

Stoppable(S) == {m \in S : runtime[m].state \in {"READY", "ERROR"} /\ runtime[m].leases = {}}

StartPreload ==
    /\ Serve("preload", worker.session)
    /\ warm' = [warm EXCEPT ![SessionWorker] =
                    [Resting EXCEPT !.pc = "check", !.target = Target[worker.session]]]

_stop_other_models ==
    LET others == Stoppable(Models \ {Target[worker.session]})
    IN  /\ At("others")
        /\ IF others = {} THEN StartPreload ELSE Stop("others", others) /\ UNCHANGED warm
        /\ UNCHANGED <<book, clients, tasks, switch, fault, retrying, sessions, session_freeze>>

\* What follows _stop_models, by what it was called for.
Stopped(confirmed) ==
    IF worker.purpose # "others"
    THEN /\ worker' = [worker EXCEPT !.pc = "settle", !.targets = {}, !.borrowed = FALSE,
                           !.purpose = IF confirmed \/ @ = "ended" THEN "close" ELSE "block"]
         /\ UNCHANGED warm
    ELSE IF confirmed THEN StartPreload
    ELSE Serve("block", worker.session) /\ UNCHANGED warm

StartBatch(targets) == StartEviction(runtime, InOrder(targets))

\* _stop_models: join the batch that runs, or start one.  begin_cleanup refuses
\* during a recovery, which only the preparation catches.
_stop_models ==
    LET targets == Stoppable(worker.targets)
        Await(borrowed) == worker' = [worker EXCEPT !.pc = "await", !.borrowed = borrowed]
    IN  /\ At("stop")
        /\ \/ /\ eviction # None
              /\ Await(TRUE)
              /\ UNCHANGED <<runtime, eviction, warm>>
           \/ /\ eviction = None /\ targets = {}
              /\ Stopped(TRUE)
              /\ UNCHANGED <<runtime, eviction>>
           \/ /\ eviction = None /\ targets # {} /\ recovering
              /\ IF worker.purpose = "others" THEN Serve("block", worker.session) ELSE Die
              /\ UNCHANGED <<runtime, eviction, warm>>
           \/ /\ eviction = None /\ targets # {} /\ ~recovering
              /\ StartBatch(targets)
              /\ Await(FALSE)
              /\ UNCHANGED warm
        /\ UNCHANGED <<era, clients, loads, switch, fault, retrying, sessions, session_freeze>>

\* The batch is over: a joined one counts as confirmed, an own one is looked at.
StopsAwaited ==
    /\ At("awaited")
    /\ IF worker.raised THEN Die /\ UNCHANGED warm
       ELSE Stopped(worker.borrowed \/ \A m \in worker.targets : runtime[m].state = "UNLOADED")
    /\ UNCHANGED <<book, clients, tasks, switch, fault, retrying, sessions, session_freeze>>

\* _preload_one has returned, was refused, or let a StaleOperation through.
Preloaded ==
    LET result == warm[SessionWorker].result
    IN  /\ At("preload")
        /\ warm[SessionWorker].pc = "idle"
        /\ \/ result = "ready" /\ Serve("activate", worker.session)
           \/ result = "refused" /\ Serve("block", worker.session)
           \/ result = "raised" /\ Die
        /\ warm' = [warm EXCEPT ![SessionWorker] = Resting]
        /\ UNCHANGED <<book, clients, tasks, switch, fault, retrying, sessions, session_freeze>>

\* mark_active, unless the session ended while its model was loading.
Activate ==
    LET s == worker.session
    IN  /\ At("activate")
        /\ \/ /\ Phase(s) = "PREPARING"
              /\ sessions' = SetPhase(s, "ACTIVE")
              /\ queue' = Without(s)
              /\ Plan
           \/ /\ Phase(s) # "PREPARING"
              /\ Stop("ended", {Target[s]})
              /\ UNCHANGED <<sessions, queue>>
        /\ UNCHANGED <<book, request, tasks, switch, fault, warming, session_freeze>>

PrepareBlocked ==
    /\ At("block")
    /\ sessions' = mark_blocked(worker.session)
    /\ Plan
    /\ UNCHANGED <<book, clients, tasks, switch, fault, warming, session_freeze>>

\* _drain_session up to the end of _wait_for_session_leases, which gives up
\* when the time to cancel is over.
DrainLeases ==
    /\ At("leases")
    /\ Stop("drain", {Target[worker.session]})
    /\ UNCHANGED <<book, clients, tasks, switch, fault, warming, sessions, session_freeze>>

\* Mutant: the freeze is kept.
Settled_frozen ==
    LET s == worker.session
    IN  /\ At("settle")
        /\ sessions' = IF worker.purpose = "close" THEN SetPhase(s, "CLOSED") ELSE mark_blocked(s)
        /\ Plan
        /\ UNCHANGED <<book, clients, tasks, switch, fault, warming, session_freeze>>

\* The last section of _drain_session and of a preparation that came too late.
Settled ==
    LET s == worker.session
    IN  /\ At("settle")
        /\ IF worker.purpose = "close"
           THEN sessions' = SetPhase(s, "CLOSED") /\ _release_session_freeze(s)
           ELSE sessions' = mark_blocked(s) /\ UNCHANGED session_freeze
        /\ Plan
        /\ UNCHANGED <<book, clients, tasks, switch, fault, warming>>

-----------------------------------------------------------------------------
(* Sessions beside the scheduler *)

ClientStep == \E s \in SessionIds :
    register_session(s) \/ close_session(s) \/ SessionLapse(s) \/ WaiterLapse(s)

WorkerStep ==
    \/ WorkerPlan \/ _expire_session \/ PrepareStart \/ PrepareDrained \/ PrepareYield
    \/ _stop_other_models \/ _stop_models \/ StopsAwaited \/ Preloaded \/ Activate
    \/ PrepareBlocked \/ DrainLeases \/ Settled

SessionNext ==
    \/ Next
    \/ Turn(ClientStep)
    \/ Turn(WorkerStep)
    \/ \E s \in SessionIds : Turn(RetryDue(s))

SessionSpec == Init /\ [][SessionNext]_schedVars

\* The worker is a task of the event loop, and every backoff is finite.
SessionLiveSpec ==
    /\ SessionSpec
    /\ Fairness
    /\ WF_schedVars(Turn(WorkerStep))
    /\ \A s \in SessionIds : WF_schedVars(Turn(RetryDue(s)))

-----------------------------------------------------------------------------
(* Properties *)

\* An ACTIVE session owns the freeze, so it is the only one, and no interactive
\* request holds a lease: the drain, the stop of the other models and the load
\* between freeze and activation let none in.
ActiveAlone ==
    \A s \in InPhase({"ACTIVE"}) :
        /\ session_freeze = s
        /\ \A lease \in Leases(runtime) : ~Interactive(lease.request_id)

\* The freeze never outlives its session: interactive requests are not refused
\* on behalf of a session that is CLOSED.
FreezeOwnerOpen == session_freeze # None => Phase(session_freeze) \notin {"NONE", "CLOSED"}

\* A session that is being closed, or has expired, ends up CLOSED or BLOCKED
\* and does not keep the interactive requests out for ever.
DrainEnds == \A s \in SessionIds : Phase(s) = "DRAINING" ~> Phase(s) \in {"CLOSED", "BLOCKED"}
=============================================================================
