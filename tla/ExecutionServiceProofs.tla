------------------------- MODULE ExecutionServiceProofs -------------------------
(***************************************************************************)
(* Proofs about ExecutionService: what a success rests on, who holds a     *)
(* lease, whom a shared stop finds, and that a terminal state is final.    *)
(*                                                                         *)
(* The invariant is local: ExecutionOK relates the record of one execution *)
(* to its coroutine, its publication, its output row and its lease.  Two   *)
(* facts span the executions: while the quiescer stops or settles, the     *)
(* dispatches are frozen and nothing computes; and as long as a record is  *)
(* unsettled the dispatch loop runs.                                       *)
(***************************************************************************)
EXTENDS ExecutionService, TLAPS

Fields == {"state", "evidence", "body", "publishing", "started", "claimed", "instance",
           "lease", "lease_released", "reservation", "input", "input_closed",
           "cancel_pending", "reason", "awaiting", "expected", "generation"}

\* the stages of the coroutine before the dispatch is committed
BeforeDispatch == {"guard", "open", "enqueue", "waiting", "admitted", "reserve", "reserved"}

ExecShape ==
    /\ DOMAIN rec = Executions /\ DOMAIN run = Executions
    /\ DOMAIN write = Executions /\ DOMAIN output = Executions
    /\ \A e \in Executions : DOMAIN rec[e] = Fields
    /\ DOMAIN quiescer = {"stage", "todo"}

\* The record r of an execution whose coroutine is at `at`, whose publication
\* is at w, whose output row is o, and which holds a lease or not.
LocalOK(r, at, w, o, held) ==
    /\ r.state = "none" => at = "idle" /\ w = "none" /\ ~r.started
                             /\ ~r.instance /\ ~r.expected
    /\ Settled(r) => r.evidence
    /\ r.evidence /\ ~Settled(r) => ~r.cancel_pending
    /\ r.publishing <=> w # "none"
    /\ r.publishing => r.evidence /\ r.started
    /\ r.reservation => r.started
    /\ w = "done" => o = "published"
    /\ r.state = "succeeded" =>
         r.evidence /\ o = "published" /\ ~r.cancel_pending /\ r.started /\ w = "none"
    /\ r.awaiting => r.started
    /\ at \in BeforeDispatch => ~r.started /\ (Settled(r) \/ r.claimed)
    /\ at \in {"executing", "late"} => r.started
    /\ ~Settled(r) /\ (at \in {"admitted", "reserve", "reserved"} \/ (r.started /\ ~r.awaiting))
         => held

ExecutionOK(e) == LocalOK(rec[e], run[e], write[e], output[e], e \in holders)

StopInv == quiescer.stage \in {"stopping", "settling"} =>
              quiescing /\ \A e \in Executions : ~Computing(e)

LoopInv == \A e \in Executions : Unsettled(e) => dispatcher

ExecInv ==
    /\ ExecShape
    /\ \A e \in Executions : ExecutionOK(e)
    /\ StopInv
    /\ LoopInv

\* The service starts without executions.
LEMMA ExecInitInv == ExecInit => ExecInv
<1> SUFFICES ASSUME ExecInit PROVE ExecInv
  OBVIOUS
<1>1. ExecShape
  BY DEF ExecInit, ExecShape, NoRecord, Fields
<1>2. ASSUME NEW e \in Executions PROVE ExecutionOK(e) /\ ~Unsettled(e)
  BY DEF ExecInit, ExecutionOK, LocalOK, NoRecord, Settled, Terminal, BeforeDispatch,
         Unsettled, Known
<1>3. StopInv
  BY DEF ExecInit, StopInv
<1> QED BY <1>1, <1>2, <1>3 DEF ExecInv, LoopInv

-----------------------------------------------------------------------------
(* The settling decisions on one record.                                   *)

\* r may replace the record r0 of a known execution in a locked section that
\* neither claims, leases, reserves nor dispatches.
Evolves(r0, r) ==
    /\ DOMAIN r = Fields
    /\ r0.state # "none" /\ r.state # "none"
    /\ r.started = r0.started /\ r.reservation = r0.reservation
    /\ r.lease = r0.lease /\ r.claimed = r0.claimed
    /\ r0.evidence => r.evidence
    /\ r0.awaiting => r.awaiting
    /\ r.awaiting => r0.awaiting \/ r.started
    /\ Settled(r0) => r.state = r0.state /\ r.cancel_pending = r0.cancel_pending
    /\ r.state = "succeeded" => r0.state = "succeeded"
    /\ Settled(r) => r.evidence
    /\ r.evidence /\ ~Settled(r) => ~r.cancel_pending
    /\ r0.publishing => r.publishing
    /\ r.publishing /\ ~r0.publishing => r.evidence /\ r.started /\ ~Settled(r)

\* What _evaluate leaves alone and what it decides.
LEMMA EvaluateFields ==
  ASSUME NEW r, DOMAIN r = Fields
  PROVE  LET v == Evaluate(r) IN
         /\ DOMAIN v = Fields
         /\ v.evidence = r.evidence /\ v.started = r.started
         /\ v.reservation = r.reservation /\ v.lease = r.lease /\ v.claimed = r.claimed
         /\ v.awaiting = r.awaiting /\ v.cancel_pending = r.cancel_pending
         /\ Settled(r) => v = r
         /\ v.state = r.state \/ v.state \in {"cancelled", "failed"}
         /\ Settled(v) /\ ~Settled(r) => r.evidence
         /\ ~Settled(v) /\ r.evidence => ~r.cancel_pending
         /\ r.publishing => v.publishing
         /\ v.publishing /\ ~r.publishing => r.evidence /\ r.reservation /\ ~Settled(v)
         /\ r.cancel_pending /\ v.publishing => r.publishing
<1> DEFINE c == [r EXCEPT !.state = "cancelled"]
           f == [r EXCEPT !.state = "failed"]
           p == [r EXCEPT !.publishing = TRUE]
<1>1. /\ DOMAIN c = Fields /\ c.state = "cancelled"
      /\ c.evidence = r.evidence /\ c.started = r.started
      /\ c.reservation = r.reservation /\ c.lease = r.lease /\ c.claimed = r.claimed
      /\ c.awaiting = r.awaiting /\ c.cancel_pending = r.cancel_pending
      /\ c.publishing = r.publishing
  BY DEF Fields
<1>2. /\ DOMAIN f = Fields /\ f.state = "failed"
      /\ f.evidence = r.evidence /\ f.started = r.started
      /\ f.reservation = r.reservation /\ f.lease = r.lease /\ f.claimed = r.claimed
      /\ f.awaiting = r.awaiting /\ f.cancel_pending = r.cancel_pending
      /\ f.publishing = r.publishing
  BY DEF Fields
<1>3. /\ DOMAIN p = Fields /\ p.state = r.state
      /\ p.evidence = r.evidence /\ p.started = r.started
      /\ p.reservation = r.reservation /\ p.lease = r.lease /\ p.claimed = r.claimed
      /\ p.awaiting = r.awaiting /\ p.cancel_pending = r.cancel_pending
      /\ p.publishing = TRUE
  BY DEF Fields
<1>4. Evaluate(r) = IF Settled(r) \/ ~r.evidence THEN r
                    ELSE IF r.cancel_pending THEN c
                    ELSE IF r.reason THEN f
                    ELSE IF r.body /\ ~r.reservation THEN f
                    ELSE IF r.body THEN p
                    ELSE r
  BY DEF Evaluate
<1> HIDE DEF c, f, p
<1> QED BY <1>1, <1>2, <1>3, <1>4 DEF Settled, Terminal

\* _evaluate after a section that set the marks of a cancellation, a timeout,
\* an answer or a proof on an unsettled record r0.
LEMMA EvaluateEvolves ==
  ASSUME NEW r0, NEW r, r0.state # "none", ~Settled(r0), DOMAIN r = Fields,
         r.state # "none", ~Settled(r),
         r.started = r0.started, r.reservation = r0.reservation,
         r.lease = r0.lease, r.claimed = r0.claimed,
         r0.evidence => r.evidence, r0.awaiting => r.awaiting,
         r.awaiting => r0.awaiting \/ r.started,
         r.publishing = r0.publishing,
         r0.reservation => r0.started
  PROVE  Evolves(r0, Evaluate(r))
<1> DEFINE v == Evaluate(r)
<1>1. /\ DOMAIN v = Fields
      /\ v.evidence = r.evidence /\ v.started = r.started
      /\ v.reservation = r.reservation /\ v.lease = r.lease /\ v.claimed = r.claimed
      /\ v.awaiting = r.awaiting /\ v.cancel_pending = r.cancel_pending
      /\ v.state = r.state \/ v.state \in {"cancelled", "failed"}
      /\ Settled(v) => r.evidence
      /\ ~Settled(v) /\ r.evidence => ~r.cancel_pending
      /\ r.publishing => v.publishing
      /\ v.publishing /\ ~r.publishing => r.evidence /\ r.reservation /\ ~Settled(v)
  BY EvaluateFields
<1> HIDE DEF v
<1>2. v.state # "none" /\ v.state # "succeeded"
  BY <1>1 DEF Settled, Terminal
<1>3. Evolves(r0, v)
  BY <1>1, <1>2 DEF Evolves
<1> QED BY <1>3 DEF v

\* _terminate_local on a record that is not settled yet.
LEMMA TerminateEvolves ==
  ASSUME NEW r0, DOMAIN r0 = Fields, r0.state # "none", ~Settled(r0),
         NEW end \in {"cancelled", "failed"}
  PROVE  Evolves(r0, TerminateLocal(r0, end)) /\ Settled(TerminateLocal(r0, end))
<1> DEFINE t == TerminateLocal(r0, end)
<1>1. /\ DOMAIN t = Fields /\ t.state = end /\ t.evidence = TRUE
      /\ t.started = r0.started /\ t.reservation = r0.reservation
      /\ t.lease = r0.lease /\ t.claimed = r0.claimed /\ t.awaiting = r0.awaiting
      /\ t.cancel_pending = r0.cancel_pending /\ t.publishing = r0.publishing
  BY DEF TerminateLocal, Fields
<1> HIDE DEF t
<1>2. Evolves(r0, t) /\ Settled(t)
  BY <1>1 DEF Evolves, Settled, Terminal
<1> QED BY <1>2 DEF t

\* What _teardown leaves of a record.
LEMMA TornDownFields ==
  ASSUME NEW r, DOMAIN r = Fields
  PROVE  LET t == TornDown(r) IN
         /\ DOMAIN t = Fields
         /\ t.state = r.state /\ t.evidence = r.evidence /\ t.publishing = r.publishing
         /\ t.started = r.started /\ t.reservation = r.reservation
         /\ t.cancel_pending = r.cancel_pending /\ ~t.awaiting /\ ~t.claimed
BY DEF TornDown, Fields

-----------------------------------------------------------------------------
(* Steps of one execution.                                                 *)

\* the step leaves every other execution alone
Others(e) ==
    /\ DOMAIN rec' = Executions /\ DOMAIN run' = Executions
    /\ DOMAIN write' = Executions /\ DOMAIN output' = Executions
    /\ DOMAIN rec'[e] = Fields
    /\ \A d \in Executions : d # e =>
         /\ rec'[d] = rec[d] /\ run'[d] = run[d] /\ write'[d] = write[d]
         /\ output'[d] = output[d] /\ (d \in holders' <=> d \in holders)

\* the step does not unfreeze, stop or settle, and ends no dispatch loop
Calm ==
    /\ quiescing' = quiescing /\ DOMAIN quiescer' = {"stage", "todo"}
    /\ quiescer'.stage \in {"stopping", "settling"} =>
         quiescer.stage \in {"stopping", "settling"}
    /\ dispatcher => dispatcher'

\* no settled record has left its state
Final == \A e \in Executions : Settled(rec[e]) => rec'[e].state = rec[e].state

Kept == ExecInv' /\ Final

LEMMA OneStep ==
  ASSUME ExecInv, NEW e \in Executions, Others(e), Calm, ExecutionOK(e)',
         Unsettled(e)' => dispatcher',
         quiescing /\ Computing(e)' => Computing(e),
         Settled(rec[e]) => rec'[e].state = rec[e].state
  PROVE  Kept
<1>1. ExecShape'
  BY DEF ExecInv, ExecShape, Others, Calm
<1>2. ASSUME NEW d \in Executions PROVE ExecutionOK(d)'
  <2>1. CASE d # e
    <3>1. ExecutionOK(d)
      BY DEF ExecInv
    <3> QED BY <2>1, <3>1 DEF Others, ExecutionOK, LocalOK
  <2> QED BY <2>1
<1>3. StopInv'
  BY DEF ExecInv, StopInv, Others, Calm, Computing, Unsettled, Known
<1>4. LoopInv'
  BY DEF ExecInv, LoopInv, Others, Calm, Unsettled, Known
<1>5. Final
  BY DEF Final, Others
<1> QED BY <1>1, <1>2, <1>3, <1>4, <1>5 DEF ExecInv, Kept

\* the record of e becomes r and, if r is settled, is torn down
Effect(e, r) ==
    LET n == rec'[e] IN
    /\ Others(e)
    /\ n.state = r.state /\ n.evidence = r.evidence /\ n.publishing = r.publishing
    /\ n.started = r.started /\ n.reservation = r.reservation
    /\ n.cancel_pending = r.cancel_pending
    /\ n = r \/ (Settled(r) /\ ~n.awaiting)
    /\ ~Settled(r) => (e \in holders => e \in holders')
    /\ output'[e] # output[e] => output[e] = "reserved"
    /\ write'[e] = write[e]
         \/ (r.publishing /\ write[e] = "none" /\ write'[e] \in {"writing", "refused"})
    /\ r.publishing => write'[e] # "none"

LEMMA EffectKeeps ==
  ASSUME ExecInv, NEW e \in Executions, NEW r, Evolves(rec[e], r), Effect(e, r), Calm,
         run'[e] \in {run[e], "ended"} \/ (run'[e] = "late" /\ rec[e].started)
  PROVE  Kept
<1> DEFINE n == rec'[e]
<1>1. /\ Others(e)
      /\ n.state = r.state /\ n.evidence = r.evidence /\ n.publishing = r.publishing
      /\ n.started = r.started /\ n.reservation = r.reservation
      /\ n.cancel_pending = r.cancel_pending
      /\ n = r \/ (Settled(r) /\ ~n.awaiting)
      /\ ~Settled(r) => (e \in holders => e \in holders')
      /\ output'[e] # output[e] => output[e] = "reserved"
      /\ write'[e] = write[e]
           \/ (r.publishing /\ write[e] = "none" /\ write'[e] \in {"writing", "refused"})
      /\ r.publishing => write'[e] # "none"
  BY DEF Effect
<1>2. LocalOK(rec[e], run[e], write[e], output[e], e \in holders)
  BY DEF ExecInv, ExecutionOK
<1> HIDE DEF n
<1>3. Settled(n) <=> Settled(r)
  BY <1>1 DEF Settled
<1>4. Settled(rec[e]) => Settled(r)
  BY DEF Evolves, Settled
<1>5. LocalOK(n, run'[e], write'[e], output'[e], e \in holders')
  <2>1. n.state # "none" /\ (Settled(n) => n.evidence)
        /\ (n.evidence /\ ~Settled(n) => ~n.cancel_pending)
    BY <1>1, <1>3 DEF Evolves
  <2>2. (n.publishing <=> write'[e] # "none") /\ (n.publishing => n.evidence /\ n.started)
        /\ (n.reservation => n.started)
    BY <1>1, <1>2 DEF Evolves, LocalOK
  <2>3. write'[e] = "done" => output'[e] = "published"
    BY <1>1, <1>2 DEF LocalOK
  <2>4. n.state = "succeeded" =>
          n.evidence /\ output'[e] = "published" /\ ~n.cancel_pending /\ n.started
            /\ write'[e] = "none"
    BY <1>1, <1>2 DEF Evolves, LocalOK, Settled, Terminal
  <2>5. n.awaiting => n.started
    BY <1>1, <1>2 DEF Evolves, LocalOK
  <2>6. /\ run'[e] \in BeforeDispatch => ~n.started /\ (Settled(n) \/ n.claimed)
        /\ run'[e] \in {"executing", "late"} => n.started
    BY <1>1, <1>2, <1>3, <1>4 DEF Evolves, LocalOK, BeforeDispatch
  <2>7. ~Settled(n) /\ (run'[e] \in {"admitted", "reserve", "reserved"}
                          \/ (n.started /\ ~n.awaiting)) => e \in holders'
    BY <1>1, <1>2, <1>3, <1>4 DEF Evolves, LocalOK
  <2> QED BY <2>1, <2>2, <2>3, <2>4, <2>5, <2>6, <2>7 DEF LocalOK
<1>6. ExecutionOK(e)'
  BY <1>5 DEF ExecutionOK, n
<1>7. Unsettled(e)' => Unsettled(e)
  BY <1>3, <1>4 DEF Unsettled, Known, Evolves, n
<1>8. Unsettled(e) => dispatcher
  BY DEF ExecInv, LoopInv
<1>9. Computing(e)' => Computing(e)
  BY <1>1, <1>3, <1>7 DEF Computing, Evolves, Unsettled, Known, n
<1>10. Settled(rec[e]) => rec'[e].state = rec[e].state
  BY <1>1 DEF Evolves, n
<1> QED BY <1>1, <1>6, <1>7, <1>8, <1>9, <1>10, OneStep DEF Calm

\* _teardown of one settled record.
LEMMA TeardownEffect ==
  ASSUME ExecInv, NEW e \in Executions, NEW R, NEW tracked, NEW marked,
         DOMAIN R[e] = Fields, \A d \in Executions : d # e => R[d] = rec[d],
         Settled(R[e]), Teardown({e}, R, tracked, marked),
         DOMAIN run' = Executions, \A d \in Executions : d # e => run'[d] = run[d]
  PROVE  /\ DOMAIN rec' = Executions /\ DOMAIN output' = Executions
         /\ rec'[e] = TornDown(R[e])
         /\ \A d \in Executions : d # e =>
              rec'[d] = rec[d] /\ output'[d] = output[d] /\ (d \in holders' <=> d \in holders)
         /\ output'[e] # output[e] => output[e] = "reserved"
BY DEF Teardown

\* the coroutine of e alone may move
RunOf(e) ==
    /\ DOMAIN run' = Executions
    /\ \A d \in Executions : d # e => run'[d] = run[d]
    /\ run'[e] \in {run[e], "ended"} \/ (run'[e] = "late" /\ rec[e].started)

\* A locked section that settles an execution that was never dispatched, or
\* leaves a settled one as it is, and tears it down.
LEMMA EndLocallyKeeps ==
  ASSUME ExecInv, NEW e \in Executions, NEW end \in {"cancelled", "failed"},
         rec[e].state # "none", EndLocally(e, end), RunOf(e), Calm
  PROVE  Kept
<1> DEFINE r == IF Settled(rec[e]) THEN rec[e] ELSE TerminateLocal(rec[e], end)
           R == [rec EXCEPT ![e] = r]
<1>1. DOMAIN rec = Executions /\ DOMAIN rec[e] = Fields /\ DOMAIN write = Executions
  BY DEF ExecInv, ExecShape
<1>2. LocalOK(rec[e], run[e], write[e], output[e], e \in holders)
  BY DEF ExecInv, ExecutionOK
<1>3. Evolves(rec[e], r) /\ Settled(r)
  <2>1. CASE Settled(rec[e])
    BY <1>1, <1>2, <2>1 DEF Evolves, LocalOK
  <2>2. CASE ~Settled(rec[e])
    BY <1>1, <2>2, TerminateEvolves
  <2> QED BY <2>1, <2>2
<1>4. Teardown({e}, R, cleanup, revoked) /\ write' = write
  BY <1>1 DEF EndLocally
<1> HIDE DEF r
<1>5. R[e] = r /\ \A d \in Executions : d # e => R[d] = rec[d]
  BY <1>1
<1> HIDE DEF R
<1>6. DOMAIN r = Fields
  BY <1>3 DEF Evolves
<1>7. /\ DOMAIN rec' = Executions /\ DOMAIN output' = Executions
      /\ rec'[e] = TornDown(r)
      /\ \A d \in Executions : d # e =>
           rec'[d] = rec[d] /\ output'[d] = output[d] /\ (d \in holders' <=> d \in holders)
      /\ output'[e] # output[e] => output[e] = "reserved"
  BY <1>3, <1>4, <1>5, <1>6, TeardownEffect DEF RunOf
<1>8. Effect(e, r)
  <2>1. Others(e)
    BY <1>1, <1>4, <1>6, <1>7, TornDownFields DEF Others, RunOf
  <2>2. r.publishing => write'[e] # "none"
    BY <1>2, <1>3, <1>4 DEF Evolves, LocalOK
  <2> QED BY <1>3, <1>4, <1>6, <1>7, <2>1, <2>2, TornDownFields DEF Effect
<1> QED BY <1>3, <1>8, EffectKeeps DEF RunOf

\* _advance after a locked section that evolved the record.
LEMMA AdvanceKeeps ==
  ASSUME ExecInv, NEW e \in Executions, NEW r, NEW tracked, NEW marked,
         Evolves(rec[e], r), Advance(e, r, tracked, marked), RunOf(e), Calm
  PROVE  Kept
<1> DEFINE R == [rec EXCEPT ![e] = r]
<1>1. DOMAIN rec = Executions /\ DOMAIN write = Executions /\ DOMAIN output = Executions
  BY DEF ExecInv, ExecShape
<1>2. DOMAIN r = Fields
  BY DEF Evolves
<1>3. R[e] = r /\ DOMAIN R = Executions /\ \A d \in Executions : d # e => R[d] = rec[d]
  BY <1>1
<1>4. /\ DOMAIN write' = Executions /\ \A d \in Executions : d # e => write'[d] = write[d]
      /\ write'[e] = write[e]
           \/ (r.publishing /\ write[e] = "none" /\ write'[e] \in {"writing", "refused"})
      /\ r.publishing => write'[e] # "none"
  BY <1>1 DEF Advance
<1>5. CASE Settled(r)
  <2>1. Teardown({e}, R, tracked, marked)
    BY <1>5 DEF Advance
  <2> HIDE DEF R
  <2>2. /\ DOMAIN rec' = Executions /\ DOMAIN output' = Executions
        /\ rec'[e] = TornDown(r)
        /\ \A d \in Executions : d # e =>
             rec'[d] = rec[d] /\ output'[d] = output[d] /\ (d \in holders' <=> d \in holders)
        /\ output'[e] # output[e] => output[e] = "reserved"
    BY <1>2, <1>3, <1>5, <2>1, TeardownEffect DEF RunOf
  <2>3. Others(e)
    BY <1>2, <1>4, <2>2, TornDownFields DEF Others, RunOf
  <2>4. Effect(e, r)
    BY <1>2, <1>4, <1>5, <2>2, <2>3, TornDownFields DEF Effect
  <2> QED BY <2>4, EffectKeeps DEF RunOf
<1>6. CASE ~Settled(r)
  <2>1. rec' = R /\ UNCHANGED <<holders, output>>
    BY <1>6 DEF Advance
  <2> HIDE DEF R
  <2>2. Others(e)
    BY <1>1, <1>2, <1>3, <1>4, <2>1 DEF Others, RunOf
  <2>3. Effect(e, r)
    BY <1>3, <1>4, <1>6, <2>1, <2>2 DEF Effect
  <2> QED BY <2>3, EffectKeeps DEF RunOf
<1> QED BY <1>5, <1>6

\* A step that leaves the record, its publication, its output and its lease
\* alone, and only moves the coroutine.
LEMMA RunMovesKeeps ==
  ASSUME ExecInv, NEW e \in Executions, RunOf(e), Calm,
         rec[e].state # "none" \/ UNCHANGED run,
         UNCHANGED <<rec, write, output, holders>>
  PROVE  Kept
<1>1. LocalOK(rec[e], run[e], write[e], output[e], e \in holders)
  BY DEF ExecInv, ExecutionOK
<1>2. LocalOK(rec[e], run'[e], write[e], output[e], e \in holders)
  BY <1>1 DEF LocalOK, RunOf, BeforeDispatch
<1>3. ExecutionOK(e)'
  BY <1>2 DEF ExecutionOK
<1>4. Others(e)
  BY DEF Others, RunOf, ExecInv, ExecShape
<1>5. Unsettled(e) => dispatcher
  BY DEF ExecInv, LoopInv
<1>6. (Unsettled(e)' <=> Unsettled(e)) /\ (Computing(e)' <=> Computing(e))
  BY DEF Unsettled, Known, Computing
<1> QED BY <1>3, <1>4, <1>5, <1>6, OneStep DEF Calm

-----------------------------------------------------------------------------
(* Submission, cancellation and reports.                                   *)

\* what the records of the service look like
LEMMA Local ==
  ASSUME ExecInv, NEW e \in Executions
  PROVE  /\ LocalOK(rec[e], run[e], write[e], output[e], e \in holders)
         /\ DOMAIN rec[e] = Fields /\ DOMAIN rec = Executions /\ DOMAIN run = Executions
         /\ DOMAIN write = Executions /\ DOMAIN output = Executions
         /\ DOMAIN quiescer = {"stage", "todo"}
BY DEF ExecInv, ExecutionOK, ExecShape

LEMMA CancellingFields ==
  ASSUME NEW r, DOMAIN r = Fields
  PROVE  LET c == Cancelling(r) IN
         /\ DOMAIN c = Fields /\ c.state = "cancelling" /\ c.cancel_pending
         /\ c.evidence = r.evidence /\ c.publishing = r.publishing
         /\ c.started = r.started /\ c.reservation = r.reservation
         /\ c.lease = r.lease /\ c.claimed = r.claimed /\ c.awaiting = r.awaiting
BY DEF Cancelling, Fields

\* A cancellation, a timeout or a drain of an unsettled, dispatched execution.
LEMMA CancelEvolves ==
  ASSUME ExecInv, NEW e \in Executions, Unsettled(e)
  PROVE  Evolves(rec[e], Evaluate(Cancelling(rec[e])))
<1> DEFINE c == Cancelling(rec[e])
<1>1. LocalOK(rec[e], run[e], write[e], output[e], e \in holders) /\ DOMAIN rec[e] = Fields
  BY Local
<1>2. /\ DOMAIN c = Fields /\ c.state = "cancelling"
      /\ c.evidence = rec[e].evidence /\ c.publishing = rec[e].publishing
      /\ c.started = rec[e].started /\ c.reservation = rec[e].reservation
      /\ c.lease = rec[e].lease /\ c.claimed = rec[e].claimed /\ c.awaiting = rec[e].awaiting
  BY <1>1, CancellingFields
<1> HIDE DEF c
<1>3. rec[e].state # "none" /\ ~Settled(rec[e]) /\ (rec[e].reservation => rec[e].started)
  BY <1>1 DEF Unsettled, Known, LocalOK
<1>4. c.state # "none" /\ ~Settled(c)
  BY <1>2 DEF Settled, Terminal
<1>5. Evolves(rec[e], Evaluate(c))
  BY <1>2, <1>3, <1>4, EvaluateEvolves
<1> QED BY <1>5 DEF c

LEMMA SubmitKeeps == ASSUME ExecInv, NEW e \in Executions, Submit(e) PROVE Kept
<1> DEFINE n == [NoRecord EXCEPT !.state = "queued", !.generation = generation]
<1>1. /\ DOMAIN n = Fields /\ n.state = "queued"
      /\ ~n.evidence /\ ~n.publishing /\ ~n.started /\ ~n.reservation /\ ~n.awaiting
      /\ ~n.claimed /\ ~n.lease
  BY DEF NoRecord, Fields
<1>2. /\ rec' = [rec EXCEPT ![e] = n] /\ dispatcher' = TRUE /\ rec[e].state = "none"
      /\ UNCHANGED <<run, write, output, holders, quiescing, quiescer>>
  BY DEF Submit, Known, storeVars, schedulerVars
<1> HIDE DEF n
<1>3. rec'[e] = n
  BY <1>2, Local
<1>4. Others(e)
  BY <1>1, <1>2, <1>3, Local DEF Others
<1>5. run[e] = "idle" /\ write[e] = "none"
  BY <1>2, Local DEF LocalOK
<1>6. ExecutionOK(e)'
  BY <1>1, <1>2, <1>3, <1>5 DEF ExecutionOK, LocalOK, Settled, Terminal, BeforeDispatch
<1>7. Calm
  BY <1>2, Local DEF Calm
<1>8. ~Computing(e)'
  BY <1>1, <1>3 DEF Computing
<1>9. ~Settled(rec[e])
  BY <1>2 DEF Settled, Terminal
<1> QED BY <1>2, <1>4, <1>6, <1>7, <1>8, <1>9, OneStep

\* The callers of the service leave the coroutines and the loops alone.
LEMMA CallerFrame ==
  ASSUME ExecInv, NEW e \in Executions, UNCHANGED <<run, dispatcher, quiescing, quiescer>>
  PROVE  RunOf(e) /\ Calm
BY Local DEF RunOf, Calm

LEMMA CancelKeeps == ASSUME ExecInv, NEW e \in Executions, Cancel(e) PROVE Kept
<1>1. RunOf(e) /\ Calm
  BY CallerFrame DEF Cancel
<1>2. CASE rec[e].started
  BY <1>1, <1>2, CancelEvolves, AdvanceKeeps DEF Cancel, CancelDispatched
<1>3. CASE ~rec[e].started
  BY <1>1, <1>3, EndLocallyKeeps DEF Cancel, Unsettled, Known
<1> QED BY <1>2, <1>3

LEMMA ReportOutputKeeps == ASSUME ExecInv, NEW e \in Executions, ReportOutput(e) PROVE Kept
<1>1. RunOf(e) /\ Calm
  BY CallerFrame DEF ReportOutput
<1>2. rec[e].state # "none" /\ ~Settled(rec[e])
  BY DEF ReportOutput, Unsettled, Known
<1>3. LocalOK(rec[e], run[e], write[e], output[e], e \in holders) /\ DOMAIN rec[e] = Fields
  BY Local
<1>4. ASSUME NEW b
      PROVE  LET r == [rec[e] EXCEPT !.body = b] IN
             /\ DOMAIN r = Fields /\ r.state = rec[e].state
             /\ r.evidence = rec[e].evidence /\ r.publishing = rec[e].publishing
             /\ r.started = rec[e].started /\ r.reservation = rec[e].reservation
             /\ r.lease = rec[e].lease /\ r.claimed = rec[e].claimed
             /\ r.awaiting = rec[e].awaiting /\ r.cancel_pending = rec[e].cancel_pending
  BY <1>3 DEF Fields
<1>5. CASE rec[e].cancel_pending
  <2> DEFINE r == [rec[e] EXCEPT !.body = FALSE]
  <2>1. Advance(e, r, Cancelled(e, rec[e], cleanup), Cancelled(e, rec[e], revoked))
    BY <1>5 DEF ReportOutput
  <2>2. /\ DOMAIN r = Fields /\ r.state = rec[e].state
        /\ r.evidence = rec[e].evidence /\ r.publishing = rec[e].publishing
        /\ r.started = rec[e].started /\ r.reservation = rec[e].reservation
        /\ r.lease = rec[e].lease /\ r.claimed = rec[e].claimed
        /\ r.awaiting = rec[e].awaiting /\ r.cancel_pending = rec[e].cancel_pending
    BY <1>4
  <2> HIDE DEF r
  <2>3. Evolves(rec[e], r)
    BY <1>2, <1>3, <2>2 DEF Evolves, LocalOK, Settled, Terminal
  <2> QED BY <1>1, <2>1, <2>3, AdvanceKeeps
<1>6. CASE ~rec[e].cancel_pending
  <2> DEFINE r == [rec[e] EXCEPT !.body = TRUE]
  <2>1. Advance(e, Evaluate(r), cleanup, revoked)
    BY <1>6 DEF ReportOutput
  <2>2. /\ DOMAIN r = Fields /\ r.state = rec[e].state
        /\ r.evidence = rec[e].evidence /\ r.publishing = rec[e].publishing
        /\ r.started = rec[e].started /\ r.reservation = rec[e].reservation
        /\ r.lease = rec[e].lease /\ r.claimed = rec[e].claimed
        /\ r.awaiting = rec[e].awaiting
    BY <1>4
  <2> HIDE DEF r
  <2>3. ~Settled(r) /\ (rec[e].reservation => rec[e].started)
    BY <1>2, <1>3, <2>2 DEF Settled, LocalOK
  <2>4. Evolves(rec[e], Evaluate(r))
    BY <1>2, <2>2, <2>3, EvaluateEvolves
  <2> QED BY <1>1, <2>1, <2>4, AdvanceKeeps
<1> QED BY <1>5, <1>6

LEMMA ReportTerminalKeeps ==
  ASSUME ExecInv, NEW e \in Executions, NEW fence, NEW dispatched \in BOOLEAN,
         ReportTerminal(e, fence, dispatched)
  PROVE  Kept
<1> DEFINE r == [rec[e] EXCEPT !.evidence = TRUE, !.instance = @ \/ dispatched]
<1>1. RunOf(e) /\ Calm
  BY CallerFrame DEF ReportTerminal
<1>2. LocalOK(rec[e], run[e], write[e], output[e], e \in holders) /\ DOMAIN rec[e] = Fields
  BY Local
<1>3. rec[e].started /\ ~rec[e].evidence /\ Advance(e, Evaluate(r), cleanup, revoked)
  BY DEF ReportTerminal
<1>4. /\ DOMAIN r = Fields /\ r.state = rec[e].state
      /\ r.evidence /\ r.publishing = rec[e].publishing
      /\ r.started = rec[e].started /\ r.reservation = rec[e].reservation
      /\ r.lease = rec[e].lease /\ r.claimed = rec[e].claimed
      /\ r.awaiting = rec[e].awaiting
  BY <1>2 DEF Fields
<1> HIDE DEF r
<1>5. rec[e].state # "none" /\ ~Settled(rec[e]) /\ ~Settled(r)
  BY <1>2, <1>3, <1>4 DEF LocalOK, Settled
<1>6. Evolves(rec[e], Evaluate(r))
  BY <1>2, <1>3, <1>4, <1>5, EvaluateEvolves
<1> QED BY <1>1, <1>3, <1>6, AdvanceKeeps

-----------------------------------------------------------------------------
(* The coroutine of one execution.                                         *)

\* A step of the coroutine that ends where Goes says.
LEMMA GoesRun ==
  ASSUME ExecInv, NEW e \in Executions, NEW from, NEW to, Goes(e, from, to)
  PROVE  /\ run[e] = from /\ run'[e] = to /\ DOMAIN run' = Executions
         /\ \A d \in Executions : d # e => run'[d] = run[d]
         /\ from # "idle" => rec[e].state # "none"
         /\ to = "ended" => RunOf(e)
BY Local DEF Goes, RunOf, LocalOK

LEMMA FrameCalm ==
  ASSUME ExecInv, RunFrame, \E needed : EnsureQuiescer(needed)
  PROVE  Calm
<1>1. DOMAIN quiescer = {"stage", "todo"}
  BY DEF ExecInv, ExecShape
<1>2. /\ quiescing' = quiescing /\ dispatcher' = dispatcher
      /\ quiescer' = quiescer \/ quiescer' = [stage |-> "scan", todo |-> {}]
  BY DEF RunFrame, EnsureQuiescer
<1> QED BY <1>1, <1>2 DEF Calm

LEMMA FrameStill == ASSUME ExecInv, RunFrame, UNCHANGED quiescer PROVE Calm
BY DEF RunFrame, Calm, ExecInv, ExecShape

\* the record of e on its way to a dispatch: what the properties look at stays
OnTheWay(e) ==
    /\ DOMAIN rec' = Executions
    /\ \A d \in Executions : d # e => rec'[d] = rec[d]
    /\ DOMAIN rec'[e] = Fields /\ rec'[e].state = rec[e].state
    /\ rec'[e].evidence = rec[e].evidence /\ rec'[e].publishing = rec[e].publishing
    /\ rec'[e].started = rec[e].started /\ rec'[e].reservation = rec[e].reservation
    /\ rec'[e].awaiting = rec[e].awaiting /\ rec'[e].cancel_pending = rec[e].cancel_pending

\* the output rows and the leases of the others stay
OthersKept(e) ==
    /\ write' = write /\ DOMAIN output' = Executions
    /\ \A d \in Executions : d # e => output'[d] = output[d]
    /\ \A d \in Executions : d # e => (d \in holders' <=> d \in holders)

\* A step on the way: the coroutine goes from one stage before the dispatch to
\* another, or back to the queue.
LEMMA OnTheWayKeeps ==
  ASSUME ExecInv, NEW e \in Executions, NEW from, NEW to, Goes(e, from, to),
         from \in BeforeDispatch, to \in BeforeDispatch \/ to = "idle",
         OnTheWay(e), OthersKept(e), Calm,
         to \in BeforeDispatch => rec'[e].claimed = rec[e].claimed,
         to \in {"admitted", "reserve", "reserved"} => Settled(rec[e]) \/ e \in holders'
  PROVE  Kept
<1> DEFINE n == rec'[e]
<1>1. LocalOK(rec[e], run[e], write[e], output[e], e \in holders)
      /\ DOMAIN write = Executions
  BY Local
<1>2. run[e] \in BeforeDispatch /\ run'[e] = to /\ Others(e)
  <2>1. /\ run[e] = from /\ run'[e] = to /\ DOMAIN run' = Executions
        /\ \A d \in Executions : d # e => run'[d] = run[d]
    BY GoesRun
  <2> QED BY <1>1, <2>1 DEF Others, OnTheWay, OthersKept
<1>3. ~rec[e].started /\ rec[e].state # "none" /\ (Settled(rec[e]) \/ rec[e].claimed)
  BY <1>1, <1>2 DEF LocalOK, BeforeDispatch
<1>4. Settled(n) <=> Settled(rec[e])
  BY DEF OnTheWay, Settled
<1>5. write[e] = "none" /\ write'[e] = "none"
  BY <1>1, <1>3 DEF LocalOK, OthersKept
<1>6. LocalOK(n, to, write'[e], output'[e], e \in holders')
  BY <1>1, <1>3, <1>4, <1>5 DEF LocalOK, OnTheWay, BeforeDispatch
<1>7. ExecutionOK(e)'
  BY <1>2, <1>6 DEF ExecutionOK
<1>8. Unsettled(e)' => Unsettled(e)
  BY <1>4 DEF Unsettled, Known, OnTheWay
<1>9. Unsettled(e) => dispatcher
  BY DEF ExecInv, LoopInv
<1>10. Computing(e)' => Computing(e)
  BY <1>1, <1>3, <1>4, <1>8 DEF Computing, Unsettled, Known, OnTheWay
<1>11. rec'[e].state = rec[e].state
  BY DEF OnTheWay
<1> QED BY <1>2, <1>7, <1>8, <1>9, <1>10, <1>11, OneStep DEF Calm

\* one field of the record is written
LEMMA FieldOnTheWay ==
  ASSUME ExecInv, NEW e \in Executions, NEW v,
         \/ UNCHANGED rec
         \/ rec' = [rec EXCEPT ![e].generation = v]
         \/ rec' = [rec EXCEPT ![e].input = v]
         \/ rec' = [rec EXCEPT ![e].lease = TRUE, ![e].generation = v]
  PROVE  OnTheWay(e) /\ rec'[e].claimed = rec[e].claimed
BY Local DEF OnTheWay, Fields

LEMMA GuardKeeps == ASSUME ExecInv, NEW e \in Executions, Guard(e) PROVE Kept
<1>1. Calm
  BY FrameStill DEF Guard
<1>2. CASE Settled(rec[e])
  BY <1>1, <1>2, GoesRun, RunMovesKeeps DEF Guard, storeVars
<1>3. CASE ~Settled(rec[e]) /\ session # "active"
  BY <1>1, <1>3, GoesRun, EndLocallyKeeps DEF Guard
<1>4. CASE ~Settled(rec[e]) /\ session = "active"
  <2>1. PICK to \in {"open", "enqueue"} : Goes(e, "guard", to)
    BY <1>4 DEF Guard
  <2>2. OnTheWay(e) /\ rec'[e].claimed = rec[e].claimed
    BY <1>4, FieldOnTheWay DEF Guard
  <2>3. OthersKept(e)
    BY <1>4, Local DEF Guard, storeVars, OthersKept
  <2> QED BY <1>1, <2>1, <2>2, <2>3, OnTheWayKeeps DEF BeforeDispatch
<1> QED BY <1>2, <1>3, <1>4

LEMMA OpenInputKeeps == ASSUME ExecInv, NEW e \in Executions, OpenInput(e) PROVE Kept
<1>1. Calm
  BY FrameStill DEF OpenInput
<1>2. CASE Goes(e, "open", "ended") /\ EndLocally(e, "failed")
  BY <1>1, <1>2, GoesRun, EndLocallyKeeps
<1>3. CASE /\ Goes(e, "open", "enqueue") /\ rec' = [rec EXCEPT ![e].input = TRUE]
           /\ UNCHANGED <<write, output, holders>>
  <2>1. OnTheWay(e) /\ rec'[e].claimed = rec[e].claimed
    BY <1>3, FieldOnTheWay
  <2>2. OthersKept(e)
    BY <1>3, Local DEF OthersKept
  <2> QED BY <1>1, <1>3, <2>1, <2>2, OnTheWayKeeps DEF BeforeDispatch
<1> QED BY <1>2, <1>3 DEF OpenInput

LEMMA EnqueueKeeps == ASSUME ExecInv, NEW e \in Executions, Enqueue(e) PROVE Kept
<1>1. Calm
  BY FrameStill DEF Enqueue
<1>2. CASE Goes(e, "enqueue", "ended") /\ EndLocally(e, "cancelled")
  BY <1>1, <1>2, GoesRun, EndLocallyKeeps
<1>3. CASE /\ Goes(e, "enqueue", "idle") /\ rec' = [rec EXCEPT ![e].claimed = FALSE]
           /\ UNCHANGED <<write, output, holders>>
  <2>1. OnTheWay(e)
    BY <1>3, Local DEF OnTheWay, Fields
  <2>2. OthersKept(e)
    BY <1>3, Local DEF OthersKept
  <2> QED BY <1>1, <1>3, <2>1, <2>2, OnTheWayKeeps DEF BeforeDispatch
<1>4. CASE Goes(e, "enqueue", "waiting") /\ UNCHANGED <<rec, write, output, holders>>
  <2>1. OnTheWay(e) /\ rec'[e].claimed = rec[e].claimed
    BY <1>4, FieldOnTheWay
  <2>2. OthersKept(e)
    BY <1>4, Local DEF OthersKept
  <2> QED BY <1>1, <1>4, <2>1, <2>2, OnTheWayKeeps DEF BeforeDispatch
<1> QED BY <1>2, <1>3, <1>4 DEF Enqueue

LEMMA GrantKeeps == ASSUME ExecInv, NEW e \in Executions, Grant(e) PROVE Kept
<1>1. Calm
  BY FrameStill DEF Grant
<1>2. /\ Goes(e, "waiting", "admitted") /\ holders' = holders \cup {e}
      /\ UNCHANGED <<rec, write, output>>
  BY DEF Grant, storeVars
<1>3. OnTheWay(e) /\ rec'[e].claimed = rec[e].claimed
  BY <1>2, FieldOnTheWay
<1>4. OthersKept(e) /\ e \in holders'
  BY <1>2, Local DEF OthersKept
<1> QED BY <1>1, <1>2, <1>3, <1>4, OnTheWayKeeps DEF BeforeDispatch

LEMMA AdmitFailsKeeps == ASSUME ExecInv, NEW e \in Executions, AdmitFails(e) PROVE Kept
<1>1. Calm
  BY FrameStill DEF AdmitFails
<1>2. Goes(e, "waiting", "ended") /\ (EndLocally(e, "cancelled") \/ EndLocally(e, "failed"))
  BY DEF AdmitFails
<1> QED BY <1>1, <1>2, GoesRun, EndLocallyKeeps

LEMMA AdmittedKeeps == ASSUME ExecInv, NEW e \in Executions, Admitted(e) PROVE Kept
<1>1. Calm
  BY FrameStill DEF Admitted
<1>2. CASE Settled(rec[e])
  <2>1. /\ Goes(e, "admitted", "ended") /\ Teardown({e}, rec, cleanup, revoked)
        /\ write' = write
    BY <1>2 DEF Admitted
  <2>2. LocalOK(rec[e], run[e], write[e], output[e], e \in holders) /\ DOMAIN rec[e] = Fields
        /\ DOMAIN write = Executions
    BY Local
  <2>3. RunOf(e) /\ DOMAIN run' = Executions /\ \A d \in Executions : d # e => run'[d] = run[d]
    BY <2>1, GoesRun
  <2>4. /\ DOMAIN rec' = Executions /\ DOMAIN output' = Executions
        /\ rec'[e] = TornDown(rec[e])
        /\ \A d \in Executions : d # e =>
             rec'[d] = rec[d] /\ output'[d] = output[d] /\ (d \in holders' <=> d \in holders)
        /\ output'[e] # output[e] => output[e] = "reserved"
    BY <1>2, <2>1, <2>2, <2>3, TeardownEffect
  <2>5. Evolves(rec[e], rec[e]) /\ rec[e].state # "none"
    BY <1>2, <2>2 DEF Evolves, LocalOK, Settled, Terminal
  <2>6. Effect(e, rec[e])
    <3> DEFINE n == rec'[e]
    <3>1. /\ DOMAIN n = Fields
          /\ n.state = rec[e].state /\ n.evidence = rec[e].evidence
          /\ n.publishing = rec[e].publishing
          /\ n.started = rec[e].started /\ n.reservation = rec[e].reservation
          /\ n.cancel_pending = rec[e].cancel_pending /\ ~n.awaiting
      BY <2>2, <2>4, TornDownFields
    <3>2. Others(e)
      BY <2>1, <2>2, <2>3, <2>4, <3>1 DEF Others
    <3>3. rec[e].publishing => write'[e] # "none"
      BY <2>1, <2>2 DEF LocalOK
    <3> QED BY <1>2, <2>1, <2>4, <3>1, <3>2, <3>3 DEF Effect
  <2> QED BY <1>1, <2>3, <2>5, <2>6, EffectKeeps DEF RunOf
<1>3. CASE ~Settled(rec[e])
  <2>1. /\ Goes(e, "admitted", "reserve") /\ UNCHANGED <<output, holders, write>>
        /\ rec' = [rec EXCEPT ![e].lease = TRUE, ![e].generation = generation]
    BY <1>3 DEF Admitted
  <2>2. OnTheWay(e) /\ rec'[e].claimed = rec[e].claimed
    BY <2>1, FieldOnTheWay
  <2>3. run[e] = "admitted"
    BY <2>1 DEF Goes
  <2>4. OthersKept(e) /\ e \in holders'
    BY <1>3, <2>1, <2>3, Local DEF OthersKept, LocalOK
  <2> QED BY <1>1, <2>1, <2>2, <2>4, OnTheWayKeeps DEF BeforeDispatch
<1> QED BY <1>2, <1>3

\* _terminate_uncertain marks the record and lets _evaluate decide.
LEMMA UncertainKeeps ==
  ASSUME ExecInv, NEW e \in Executions, NEW knows \in BOOLEAN, Uncertain(e, knows),
         rec[e].state # "none", RunOf(e), Calm
  PROVE  Kept
<1> DEFINE r == [rec[e] EXCEPT !.reason = TRUE, !.state = "cancelling",
                   !.awaiting = @ \/ (proof # "report" /\ rec[e].started),
                   !.expected = @ \/ (proof # "report" /\ rec[e].started
                                        /\ ~rec[e].instance /\ knows)]
<1>1. LocalOK(rec[e], run[e], write[e], output[e], e \in holders) /\ DOMAIN rec[e] = Fields
  BY Local
<1>2. CASE Settled(rec[e])
  BY <1>2, RunMovesKeeps DEF Uncertain
<1>3. CASE ~Settled(rec[e])
  <2>1. Advance(e, Evaluate(r), Cancelled(e, r, cleanup), Cancelled(e, r, revoked))
    BY <1>3 DEF Uncertain, CancelDispatched
  <2>2. /\ DOMAIN r = Fields /\ r.state = "cancelling"
        /\ r.evidence = rec[e].evidence /\ r.publishing = rec[e].publishing
        /\ r.started = rec[e].started /\ r.reservation = rec[e].reservation
        /\ r.lease = rec[e].lease /\ r.claimed = rec[e].claimed
        /\ rec[e].awaiting => r.awaiting
        /\ r.awaiting => rec[e].awaiting \/ rec[e].started
    BY <1>1 DEF Fields
  <2> HIDE DEF r
  <2>3. r.state # "none" /\ ~Settled(r) /\ (rec[e].reservation => rec[e].started)
    BY <1>1, <2>2 DEF Settled, Terminal, LocalOK
  <2>4. Evolves(rec[e], Evaluate(r))
    BY <1>3, <2>2, <2>3, EvaluateEvolves
  <2> QED BY <2>1, <2>4, AdvanceKeeps
<1> QED BY <1>2, <1>3

LEMMA ReserveKeeps == ASSUME ExecInv, NEW e \in Executions, Reserve(e) PROVE Kept
<1>1. Calm
  BY FrameStill DEF Reserve
<1>2. CASE /\ Goes(e, "reserve", "reserved") /\ output' = [output EXCEPT ![e] = "reserved"]
           /\ UNCHANGED <<rec, write, holders>>
  <2>1. OnTheWay(e) /\ rec'[e].claimed = rec[e].claimed
    BY <1>2, FieldOnTheWay
  <2>2. run[e] = "reserve"
    BY <1>2 DEF Goes
  <2>3. OthersKept(e) /\ (Settled(rec[e]) \/ e \in holders')
    BY <1>2, <2>2, Local DEF OthersKept, LocalOK
  <2> QED BY <1>1, <1>2, <2>1, <2>3, OnTheWayKeeps DEF BeforeDispatch
<1>3. CASE Goes(e, "reserve", "ended") /\ Uncertain(e, FALSE)
  <2>1. RunOf(e) /\ rec[e].state # "none"
    BY <1>3, GoesRun
  <2>2. PICK knows \in BOOLEAN : Uncertain(e, knows)
    BY <1>3
  <2> QED BY <1>1, <2>1, <2>2, UncertainKeeps
<1> QED BY <1>2, <1>3 DEF Reserve

\* The dispatch is committed: from here on the record needs its lease.
LEMMA DispatchKeeps == ASSUME ExecInv, NEW e \in Executions, Dispatch(e) PROVE Kept
<1>1. Calm
  BY FrameStill DEF Dispatch
<1>2. LocalOK(rec[e], run[e], write[e], output[e], e \in holders) /\ DOMAIN rec[e] = Fields
      /\ DOMAIN rec = Executions /\ DOMAIN write = Executions /\ DOMAIN output = Executions
  BY Local
<1>3. run[e] = "reserved" /\ run[e] \in BeforeDispatch
  BY DEF Dispatch, Goes, BeforeDispatch
<1>4. ~rec[e].started /\ rec[e].state # "none" /\ write[e] = "none" /\ ~rec[e].awaiting
      /\ (Settled(rec[e]) \/ (rec[e].claimed /\ e \in holders))
  BY <1>2, <1>3 DEF LocalOK
<1>5. Unsettled(e) => dispatcher
  BY DEF ExecInv, LoopInv
<1>6. CASE Settled(rec[e])
  <2>1. /\ Goes(e, "reserved", "ended") /\ UNCHANGED <<rec, write, holders>>
        /\ output' = output \/ output' = [output EXCEPT ![e] = "gone"]
    BY <1>6 DEF Dispatch
  <2>2. DOMAIN run' = Executions /\ run'[e] = "ended"
        /\ \A d \in Executions : d # e => run'[d] = run[d]
    BY <2>1, GoesRun
  <2>3. Others(e)
    BY <1>2, <2>1, <2>2 DEF Others
  <2>4. LocalOK(rec[e], "ended", write[e], output'[e], e \in holders)
    BY <1>2, <1>4, <1>6 DEF LocalOK, BeforeDispatch
  <2>5. ExecutionOK(e)'
    BY <2>1, <2>2, <2>4 DEF ExecutionOK
  <2>6. ~Unsettled(e)' /\ ~Computing(e)'
    BY <1>6, <2>1 DEF Unsettled, Computing
  <2> QED BY <1>1, <2>1, <2>3, <2>5, <2>6, OneStep
<1>7. CASE ~Settled(rec[e])
  <2> DEFINE n == rec'[e]
  <2>1. /\ Goes(e, "reserved", "executing") /\ UNCHANGED <<write, output, holders>>
        /\ rec' = [rec EXCEPT ![e].reservation = TRUE, ![e].started = TRUE,
                              ![e].state = "running"]
    BY <1>7 DEF Dispatch
  <2>2. DOMAIN run' = Executions /\ run'[e] = "executing"
        /\ \A d \in Executions : d # e => run'[d] = run[d]
    BY <2>1, GoesRun
  <2>3. /\ DOMAIN rec' = Executions /\ \A d \in Executions : d # e => rec'[d] = rec[d]
        /\ DOMAIN n = Fields /\ n.state = "running" /\ n.started /\ n.reservation
        /\ n.evidence = rec[e].evidence /\ n.publishing = rec[e].publishing
        /\ n.awaiting = rec[e].awaiting /\ n.cancel_pending = rec[e].cancel_pending
        /\ n.claimed = rec[e].claimed
    BY <1>2, <2>1 DEF Fields
  <2>4. Others(e)
    BY <1>2, <2>1, <2>2, <2>3 DEF Others
  <2> HIDE DEF n
  <2>5. LocalOK(n, "executing", write[e], output[e], e \in holders)
    BY <1>2, <1>4, <1>7, <2>3 DEF LocalOK, Settled, Terminal, BeforeDispatch
  <2>6. ExecutionOK(e)'
    BY <2>1, <2>2, <2>5 DEF ExecutionOK, n
  <2>7. Unsettled(e) /\ Computing(e)
    BY <1>4, <1>7 DEF Unsettled, Known, Computing
  <2> QED BY <1>1, <1>5, <1>7, <2>4, <2>6, <2>7, OneStep DEF Calm
<1> QED BY <1>6, <1>7

\* an execution whose backend call is out
LEMMA AtBackend ==
  ASSUME ExecInv, NEW e \in Executions, run[e] \in {"executing", "late"}
  PROVE  rec[e].started /\ rec[e].state # "none"
BY Local DEF LocalOK

LEMMA OnTimeoutKeeps == ASSUME ExecInv, NEW e \in Executions, OnTimeout(e) PROVE Kept
<1>1. Calm
  BY FrameStill DEF OnTimeout
<1>2. Goes(e, "executing", "late")
  BY DEF OnTimeout
<1>3. RunOf(e) /\ rec[e].state # "none"
  BY <1>2, GoesRun, AtBackend DEF RunOf
<1>4. CASE Settled(rec[e])
  BY <1>1, <1>3, <1>4, RunMovesKeeps DEF OnTimeout
<1>5. CASE ~Settled(rec[e])
  BY <1>1, <1>3, <1>5, CancelEvolves, AdvanceKeeps
     DEF OnTimeout, CancelDispatched, Unsettled, Known
<1> QED BY <1>4, <1>5

LEMMA EndsRun ==
  ASSUME ExecInv, NEW e \in Executions, Ends(e)
  PROVE  RunOf(e) /\ rec[e].state # "none" /\ rec[e].started
BY Local, AtBackend DEF Ends, RunOf

LEMMA AnsweredKeeps ==
  ASSUME ExecInv, NEW e \in Executions, NEW body \in BOOLEAN, Answered(e, body)
  PROVE  Kept
<1> DEFINE r == [rec[e] EXCEPT !.instance = TRUE,
                   !.body = IF ~body \/ rec[e].publishing THEN @ ELSE ~rec[e].cancel_pending,
                   !.evidence = @ \/ proof = "request",
                   !.awaiting = @ \/ proof = "stop"]
<1>1. LocalOK(rec[e], run[e], write[e], output[e], e \in holders) /\ DOMAIN rec[e] = Fields
  BY Local
<1>2. RunOf(e) /\ rec[e].state # "none" /\ rec[e].started
  BY EndsRun DEF Answered
<1>3. CASE Settled(rec[e])
  <2>1. Calm
    BY <1>3, FrameStill DEF Answered
  <2> QED BY <1>2, <1>3, <2>1, RunMovesKeeps DEF Answered
<1>4. CASE ~Settled(rec[e])
  <2>1. Calm
    BY <1>4, FrameCalm DEF Answered
  <2>2. Advance(e, Evaluate(r), cleanup, revoked)
    BY <1>4 DEF Answered
  <2>3. /\ DOMAIN r = Fields /\ r.state = rec[e].state
        /\ r.publishing = rec[e].publishing
        /\ r.started = rec[e].started /\ r.reservation = rec[e].reservation
        /\ r.lease = rec[e].lease /\ r.claimed = rec[e].claimed
        /\ rec[e].evidence => r.evidence
        /\ rec[e].awaiting => r.awaiting
    BY <1>1 DEF Fields
  <2> HIDE DEF r
  <2>4. r.state # "none" /\ ~Settled(r)
    BY <1>2, <1>4, <2>3 DEF Settled
  <2>5. Evolves(rec[e], Evaluate(r))
    BY <1>2, <1>4, <2>3, <2>4, EvaluateEvolves
  <2> QED BY <1>2, <2>1, <2>2, <2>5, AdvanceKeeps
<1> QED BY <1>3, <1>4

LEMMA NotDispatchedKeeps ==
  ASSUME ExecInv, NEW e \in Executions, NotDispatched(e)
  PROVE  Kept
<1>1. Calm
  BY FrameStill DEF NotDispatched
<1>2. RunOf(e) /\ rec[e].state # "none"
  BY EndsRun DEF NotDispatched
<1>3. CASE Settled(rec[e])
  BY <1>1, <1>2, <1>3, RunMovesKeeps DEF NotDispatched
<1>4. CASE ~Settled(rec[e])
  BY <1>1, <1>2, <1>4, EndLocallyKeeps DEF NotDispatched
<1> QED BY <1>3, <1>4

LEMMA RaisedKeeps == ASSUME ExecInv, NEW e \in Executions, Raised(e) PROVE Kept
<1>1. Calm
  BY FrameCalm DEF Raised
<1>2. RunOf(e) /\ rec[e].state # "none"
  BY EndsRun DEF Raised
<1>3. PICK knows \in BOOLEAN : Uncertain(e, knows)
  BY DEF Raised
<1> QED BY <1>1, <1>2, <1>3, UncertainKeeps

-----------------------------------------------------------------------------
(* Publication and managed termination.                                    *)

LEMMA WriteOutputKeeps == ASSUME ExecInv, NEW e \in Executions, WriteOutput(e) PROVE Kept
<1>1. LocalOK(rec[e], run[e], write[e], output[e], e \in holders) /\ DOMAIN rec[e] = Fields
      /\ DOMAIN rec = Executions /\ DOMAIN run = Executions
      /\ DOMAIN write = Executions /\ DOMAIN output = Executions
  BY Local
<1>2. UNCHANGED <<rec, run, holders, quiescing, quiescer, dispatcher>>
  BY DEF WriteOutput, schedulerVars
<1>3. /\ DOMAIN write' = Executions /\ DOMAIN output' = Executions
      /\ \A d \in Executions : d # e => write'[d] = write[d] /\ output'[d] = output[d]
      /\ write[e] # "none" /\ write'[e] # "none"
      /\ write'[e] = "done" => output'[e] = "published"
  BY <1>1 DEF WriteOutput
<1>4. Others(e) /\ Calm
  BY <1>1, <1>2, <1>3, Local DEF Others, Calm
<1>5. LocalOK(rec[e], run[e], write'[e], output'[e], e \in holders)
  BY <1>1, <1>3 DEF LocalOK
<1>6. ExecutionOK(e)'
  BY <1>2, <1>5 DEF ExecutionOK
<1>7. (Unsettled(e)' <=> Unsettled(e)) /\ (Computing(e)' <=> Computing(e))
  BY <1>2 DEF Unsettled, Known, Computing
<1>8. Unsettled(e) => dispatcher
  BY DEF ExecInv, LoopInv
<1> QED BY <1>2, <1>4, <1>6, <1>7, <1>8, OneStep

\* The locked tail of the publication: the only section that shows a success.
LEMMA PublishKeeps == ASSUME ExecInv, NEW e \in Executions, PublishAndSettle(e) PROVE Kept
<1> DEFINE r == [rec[e] EXCEPT !.publishing = FALSE, !.body = FALSE]
           end == CASE write[e] = "done"      -> "succeeded"
                    [] write[e] = "cancelled" -> "cancelled"
                    [] write[e] = "failed"    -> "failed"
           s == SettledAs(r, end)
           R == [rec EXCEPT ![e] = s]
<1>1. LocalOK(rec[e], run[e], write[e], output[e], e \in holders) /\ DOMAIN rec[e] = Fields
      /\ DOMAIN rec = Executions /\ DOMAIN run = Executions
      /\ DOMAIN write = Executions /\ DOMAIN output = Executions
  BY Local
<1>2. /\ write[e] \in {"done", "cancelled", "failed"}
      /\ write' = [write EXCEPT ![e] = "none"]
      /\ UNCHANGED <<run, dispatcher, quiescing, quiescer>>
      /\ \E tracked : Teardown({e}, R, tracked, revoked)
  BY DEF PublishAndSettle
<1>3. /\ DOMAIN r = Fields /\ r.state = rec[e].state /\ r.evidence = rec[e].evidence
      /\ r.started = rec[e].started /\ r.reservation = rec[e].reservation
      /\ r.cancel_pending = rec[e].cancel_pending /\ ~r.publishing
  BY <1>1 DEF Fields
<1>4. end \in Terminal /\ (end = "succeeded" => write[e] = "done")
  BY <1>2 DEF Terminal
<1> HIDE DEF r, end
<1>5. /\ DOMAIN s = Fields /\ s.evidence = rec[e].evidence /\ ~s.publishing
      /\ s.started = rec[e].started /\ s.reservation = rec[e].reservation
      /\ Settled(rec[e]) => s.state = rec[e].state /\ s.cancel_pending = rec[e].cancel_pending
      /\ ~Settled(rec[e]) => /\ s.state = end
                             /\ s.cancel_pending <=> (rec[e].cancel_pending \/ end = "cancelled")
  <2>1. CASE Settled(r)
    BY <1>3, <2>1 DEF SettledAs, Settled
  <2>2. CASE ~Settled(r)
    BY <1>3, <2>2 DEF SettledAs, Settled, Fields
  <2> QED BY <2>1, <2>2
<1>6. Settled(s)
  BY <1>4, <1>5 DEF Settled
<1> HIDE DEF s
<1>7. R[e] = s /\ \A d \in Executions : d # e => R[d] = rec[d]
  BY <1>1
<1>8. DOMAIN run' = Executions /\ \A d \in Executions : d # e => run'[d] = run[d]
  BY <1>1, <1>2
<1> HIDE DEF R
<1>9. /\ DOMAIN rec' = Executions /\ DOMAIN output' = Executions
      /\ rec'[e] = TornDown(s)
      /\ \A d \in Executions : d # e =>
           rec'[d] = rec[d] /\ output'[d] = output[d] /\ (d \in holders' <=> d \in holders)
      /\ output'[e] # output[e] => output[e] = "reserved"
  <2>1. PICK tracked : Teardown({e}, R, tracked, revoked)
    BY <1>2
  <2>2. DOMAIN R[e] = Fields /\ Settled(R[e])
    BY <1>5, <1>6, <1>7
  <2> QED BY <1>7, <1>8, <2>1, <2>2, TeardownEffect
<1>10. LET n == rec'[e] IN
       /\ DOMAIN n = Fields
       /\ n.state = s.state /\ n.evidence = s.evidence /\ ~n.publishing
       /\ n.started = s.started /\ n.reservation = s.reservation
       /\ n.cancel_pending = s.cancel_pending /\ ~n.awaiting
  <2>1. DOMAIN s = Fields /\ ~s.publishing
    BY <1>5
  <2>2. rec'[e] = TornDown(s)
    BY <1>9
  <2> QED BY <2>1, <2>2, TornDownFields
<1>11. Settled(rec'[e]) /\ rec[e].evidence /\ rec[e].started /\ write'[e] = "none"
  BY <1>1, <1>2, <1>6, <1>10 DEF Settled, LocalOK
<1>12. rec'[e].state = "succeeded" =>
         output'[e] = "published" /\ ~rec'[e].cancel_pending
  <2>1. CASE Settled(rec[e])
    BY <1>1, <1>5, <1>9, <1>10, <2>1 DEF LocalOK
  <2>2. CASE ~Settled(rec[e])
    BY <1>1, <1>4, <1>5, <1>9, <1>10, <1>11, <2>2 DEF LocalOK
  <2> QED BY <2>1, <2>2
<1>13. ~(run[e] \in BeforeDispatch) /\ rec'[e].state # "none"
  BY <1>1, <1>11 DEF LocalOK, Settled, Terminal
<1>14. LocalOK(rec'[e], run'[e], write'[e], output'[e], e \in holders')
  BY <1>2, <1>5, <1>10, <1>11, <1>12, <1>13 DEF LocalOK
<1>15. ExecutionOK(e)'
  BY <1>14 DEF ExecutionOK
<1>16. Others(e) /\ Calm
  BY <1>1, <1>2, <1>8, <1>9, <1>10, Local DEF Others, Calm
<1>17. ~Unsettled(e)' /\ ~Computing(e)'
  BY <1>11 DEF Unsettled, Computing
<1>18. Settled(rec[e]) => rec'[e].state = rec[e].state
  BY <1>5, <1>10
<1> QED BY <1>15, <1>16, <1>17, <1>18, OneStep

LEMMA QuiesceSettleKeeps ==
  ASSUME ExecInv, NEW e \in Executions, QuiesceSettle(e)
  PROVE  Kept
<1> DEFINE r == [rec[e] EXCEPT !.evidence = TRUE, !.instance = TRUE]
<1>1. LocalOK(rec[e], run[e], write[e], output[e], e \in holders) /\ DOMAIN rec[e] = Fields
      /\ DOMAIN quiescer = {"stage", "todo"} /\ DOMAIN run = Executions
  BY Local
<1>2. RunOf(e) /\ Calm
  BY <1>1 DEF QuiesceSettle, RunOf, Calm
<1>3. CASE Settled(rec[e]) \/ rec[e].evidence \/ ~(rec[e].instance \/ rec[e].expected)
  BY <1>2, <1>3, RunMovesKeeps DEF QuiesceSettle
<1>4. CASE ~(Settled(rec[e]) \/ rec[e].evidence \/ ~(rec[e].instance \/ rec[e].expected))
  <2>1. Advance(e, Evaluate(r), cleanup, revoked)
    BY <1>4 DEF QuiesceSettle
  <2>2. /\ DOMAIN r = Fields /\ r.state = rec[e].state /\ r.evidence
        /\ r.publishing = rec[e].publishing /\ r.awaiting = rec[e].awaiting
        /\ r.started = rec[e].started /\ r.reservation = rec[e].reservation
        /\ r.lease = rec[e].lease /\ r.claimed = rec[e].claimed
    BY <1>1 DEF Fields
  <2> HIDE DEF r
  <2>3. /\ rec[e].state # "none" /\ r.state # "none" /\ ~Settled(r)
        /\ rec[e].reservation => rec[e].started
    BY <1>1, <1>4, <2>2 DEF Settled, LocalOK
  <2>4. Evolves(rec[e], Evaluate(r))
    BY <1>4, <2>2, <2>3, EvaluateEvolves
  <2> QED BY <1>2, <2>1, <2>4, AdvanceKeeps
<1> QED BY <1>3, <1>4

LEMMA QuiesceScanKeeps == ASSUME ExecInv, QuiesceScan PROVE Kept
<1> DEFINE computing == {e \in Executions : Computing(e)}
<1>1. /\ ExecShape /\ LoopInv /\ quiescer.stage = "scan"
      /\ UNCHANGED <<run, write, output, dispatcher>>
  BY DEF ExecInv, QuiesceScan, storeVars
<1>2. CASE UNCHANGED <<rec, holders>> /\ quiescer'.stage \in {"scan", "off"}
           /\ DOMAIN quiescer' = {"stage", "todo"}
  <2>1. \A e \in Executions : ExecutionOK(e)'
    BY <1>1, <1>2 DEF ExecInv, ExecutionOK
  <2>2. ExecShape' /\ StopInv' /\ LoopInv'
    BY <1>1, <1>2 DEF ExecShape, StopInv, LoopInv, Unsettled, Known
  <2> QED BY <1>2, <2>1, <2>2 DEF ExecInv, Kept, Final
<1>3. CASE /\ computing = {} /\ Batch # {}
           /\ quiescer' = [stage |-> "stopping", todo |-> Batch]
           /\ rec' = [e \in Executions |-> [rec[e] EXCEPT !.lease_released = @ \/ e \in Batch]]
           /\ holders' = holders \ {e \in Batch : ~rec[e].lease_released}
  <2>1. ASSUME NEW e \in Executions
        PROVE  /\ DOMAIN rec'[e] = Fields /\ rec'[e].state = rec[e].state
               /\ rec'[e].evidence = rec[e].evidence /\ rec'[e].publishing = rec[e].publishing
               /\ rec'[e].started = rec[e].started /\ rec'[e].reservation = rec[e].reservation
               /\ rec'[e].awaiting = rec[e].awaiting /\ rec'[e].claimed = rec[e].claimed
               /\ rec'[e].lease = rec[e].lease /\ rec'[e].instance = rec[e].instance
               /\ rec'[e].expected = rec[e].expected
               /\ rec'[e].cancel_pending = rec[e].cancel_pending
    BY <1>1, <1>3 DEF ExecShape, Fields
  <2>2. \A e \in Executions : (Settled(rec'[e]) <=> Settled(rec[e]))
                                /\ (Unsettled(e)' <=> Unsettled(e))
    BY <2>1 DEF Settled, Unsettled, Known
  <2>3. ASSUME NEW e \in Executions PROVE ExecutionOK(e)'
    <3>1. LocalOK(rec[e], run[e], write[e], output[e], e \in holders)
      BY DEF ExecInv, ExecutionOK
    <3>2. e \in holders' \/ ~(e \in holders) \/ e \in Batch
      BY <1>3
    <3>3. e \in Batch => rec[e].awaiting /\ rec[e].started
      BY DEF Batch
    <3>4. run[e] \in BeforeDispatch => ~rec[e].started
      BY <3>1 DEF LocalOK
    <3>5. LocalOK(rec'[e], run[e], write[e], output[e], e \in holders')
      BY <2>1, <2>2, <3>1, <3>2, <3>3, <3>4 DEF LocalOK, BeforeDispatch
    <3> QED BY <1>1, <3>5 DEF ExecutionOK
  <2>4. ExecShape'
    BY <1>1, <1>3, <2>1 DEF ExecShape
  <2>5. LoopInv'
    BY <1>1, <2>2 DEF LoopInv
  <2>6. StopInv'
    <3>1. quiescing' = TRUE
      BY <1>3 DEF QuiesceScan
    <3>2. \A e \in Executions : Computing(e)' <=> Computing(e)
      BY <2>1, <2>2 DEF Computing
    <3>3. \A e \in Executions : ~Computing(e)
      BY <1>3
    <3> QED BY <3>1, <3>2, <3>3 DEF StopInv
  <2>7. Final
    BY <2>1 DEF Final
  <2> QED BY <2>3, <2>4, <2>5, <2>6, <2>7 DEF ExecInv, Kept
<1>4. \/ UNCHANGED <<rec, holders>> /\ NextRound
      \/ UNCHANGED <<rec, holders>> /\ quiescer' = [stage |-> "off", todo |-> {}]
      \/ /\ computing = {} /\ Batch # {}
         /\ quiescer' = [stage |-> "stopping", todo |-> Batch]
         /\ rec' = [e \in Executions |-> [rec[e] EXCEPT !.lease_released = @ \/ e \in Batch]]
         /\ holders' = holders \ {e \in Batch : ~rec[e].lease_released}
  BY Zenon DEF QuiesceScan
<1> QED BY <1>2, <1>3, <1>4 DEF NextRound

\* Steps that leave the records, their coroutines and their leases alone.
LEMMA StillKeeps ==
  ASSUME ExecInv, UNCHANGED <<rec, run, write, output, holders, dispatcher, quiescing>>,
         DOMAIN quiescer' = {"stage", "todo"},
         quiescer'.stage \in {"stopping", "settling"} =>
           quiescer.stage \in {"stopping", "settling"}
  PROVE  Kept
<1>1. ExecShape' /\ LoopInv'
  BY DEF ExecInv, ExecShape, LoopInv, Unsettled, Known
<1>2. \A e \in Executions : ExecutionOK(e)'
  BY DEF ExecInv, ExecutionOK
<1>3. StopInv'
  BY DEF ExecInv, StopInv, Computing, Unsettled, Known
<1> QED BY <1>1, <1>2, <1>3 DEF ExecInv, Kept, Final

LEMMA StillSteps ==
  ASSUME ExecInv,
         \/ QuiesceStop \/ QuiesceRest \/ SessionEnds \/ UNCHANGED execVars
         \/ \E e \in Executions : DeadlinePasses(e) \/ FinalizeDropped(e)
  PROVE  Kept
<1>1. DOMAIN quiescer = {"stage", "todo"}
  BY DEF ExecInv, ExecShape
<1>2. CASE QuiesceStop \/ QuiesceRest
  <2>1. UNCHANGED <<rec, run, write, output, holders, dispatcher, quiescing>>
    BY <1>2 DEF QuiesceStop, QuiesceRest, storeVars, schedulerVars
  <2>2. /\ quiescer.stage \in {"stopping", "settling"}
        /\ NextRound \/ quiescer' = [quiescer EXCEPT !.stage = "settling"]
    BY <1>2 DEF QuiesceStop, QuiesceRest
  <2>3. DOMAIN quiescer' = {"stage", "todo"}
    BY <1>1, <2>2 DEF NextRound
  <2> QED BY <2>1, <2>2, <2>3, StillKeeps
<1>3. CASE SessionEnds \/ UNCHANGED execVars
           \/ \E e \in Executions : DeadlinePasses(e) \/ FinalizeDropped(e)
  <2>1. UNCHANGED <<rec, run, write, output, holders, dispatcher, quiescing, quiescer>>
    BY <1>3 DEF SessionEnds, DeadlinePasses, FinalizeDropped, execVars, serviceVars,
                storeVars, schedulerVars
  <2> QED BY <1>1, <2>1, StillKeeps
<1> QED BY <1>2, <1>3

-----------------------------------------------------------------------------
(* The dispatch loop and the drain hook go through all executions.         *)

LEMMA ScanKeeps == ASSUME ExecInv, Scan PROVE Kept
<1>1. /\ ExecShape /\ LoopInv /\ StopInv
      /\ UNCHANGED <<write, output, holders, quiescing, quiescer>>
      /\ rec' = [e \in Executions |->
                   IF e \in Expired THEN TerminateLocal(rec[e], "cancelled")
                   ELSE [rec[e] EXCEPT !.claimed = @ \/ e \in Heads]]
      /\ run' = [e \in Executions |-> IF e \in Heads THEN "guard" ELSE run[e]]
      /\ dispatcher' = GoesOn
  BY DEF ExecInv, Scan, storeVars, schedulerVars
<1>2. ASSUME NEW e \in Executions, e \in Seen
      PROVE  rec[e].state = "queued" /\ ~rec[e].started /\ ~quiescing /\ ~Settled(rec[e])
  BY <1>2 DEF Seen, Waiting, Settled, Terminal
<1>3. ASSUME NEW e \in Executions
      PROVE  /\ DOMAIN rec'[e] = Fields /\ ExecutionOK(e)'
             /\ Unsettled(e)' => Unsettled(e)
             /\ quiescing /\ Computing(e)' => Computing(e)
             /\ Settled(rec[e]) => rec'[e].state = rec[e].state
  <2> DEFINE n == rec'[e]
  <2>1. LocalOK(rec[e], run[e], write[e], output[e], e \in holders) /\ DOMAIN rec[e] = Fields
    BY Local
  <2>2. CASE e \in Expired
    <3>1. n = TerminateLocal(rec[e], "cancelled") /\ run'[e] = run[e] /\ e \in Seen
      BY <1>1, <2>2 DEF Expired, Heads
    <3>2. rec[e].state # "none" /\ ~Settled(rec[e]) /\ ~rec[e].started
      BY <1>2, <3>1
    <3>3. Evolves(rec[e], n) /\ Settled(n)
      BY <2>1, <3>1, <3>2, TerminateEvolves
    <3> HIDE DEF n
    <3>4. LocalOK(n, run'[e], write[e], output[e], e \in holders)
      BY <2>1, <3>1, <3>2, <3>3 DEF LocalOK, Evolves
    <3>5. DOMAIN n = Fields /\ ExecutionOK(e)'
      BY <1>1, <3>3, <3>4 DEF ExecutionOK, Evolves, n
    <3> QED BY <3>2, <3>3, <3>5 DEF Unsettled, Computing, n
  <2>3. CASE e \notin Expired
    <3>1. n = [rec[e] EXCEPT !.claimed = @ \/ e \in Heads]
      BY <1>1, <2>3
    <3>2. /\ DOMAIN n = Fields /\ n.state = rec[e].state
          /\ n.evidence = rec[e].evidence /\ n.publishing = rec[e].publishing
          /\ n.started = rec[e].started /\ n.reservation = rec[e].reservation
          /\ n.awaiting = rec[e].awaiting /\ n.lease = rec[e].lease
          /\ n.instance = rec[e].instance /\ n.expected = rec[e].expected
          /\ n.cancel_pending = rec[e].cancel_pending
          /\ n.claimed <=> (rec[e].claimed \/ e \in Heads)
      BY <2>1, <3>1 DEF Fields
    <3>3. run'[e] = IF e \in Heads THEN "guard" ELSE run[e]
      BY <1>1
    <3>4. e \in Heads => ~rec[e].started /\ ~quiescing /\ rec[e].state = "queued"
      BY <1>2 DEF Heads
    <3> HIDE DEF n
    <3>5. Settled(n) <=> Settled(rec[e])
      BY <3>2 DEF Settled
    <3>6. LocalOK(n, run'[e], write[e], output[e], e \in holders)
      BY <2>1, <3>2, <3>3, <3>4, <3>5 DEF LocalOK, BeforeDispatch
    <3>7. ExecutionOK(e)'
      BY <1>1, <3>6 DEF ExecutionOK, n
    <3>8. Unsettled(e)' <=> Unsettled(e)
      BY <3>2, <3>5 DEF Unsettled, Known, n
    <3> QED BY <3>2, <3>4, <3>7, <3>8 DEF Computing, n
  <2> QED BY <2>2, <2>3
<1>4. ExecShape'
  BY <1>1, <1>3 DEF ExecShape
<1>5. StopInv'
  BY <1>1, <1>3 DEF StopInv
<1>6. LoopInv'
  BY <1>1, <1>3 DEF LoopInv, GoesOn
<1>7. Final
  BY <1>3 DEF Final
<1> QED BY <1>3, <1>4, <1>5, <1>6, <1>7 DEF ExecInv, Kept

LEMMA DrainKeeps == ASSUME ExecInv, OnSessionDraining PROVE Kept
<1> DEFINE live == {e \in Executions : Unsettled(e)}
           R == [e \in Executions |->
                   IF e \notin live THEN rec[e]
                   ELSE IF rec[e].started THEN Evaluate(Cancelling(rec[e]))
                   ELSE TerminateLocal(rec[e], "cancelled")]
           S == {e \in live : Settled(R[e])}
<1>1. /\ ExecShape /\ LoopInv /\ StopInv
      /\ UNCHANGED <<run, write, dispatcher, quiescing, quiescer>>
      /\ \E tracked, marked : Teardown(S, R, tracked, marked)
  BY DEF ExecInv, OnSessionDraining
<1>2. ASSUME NEW e \in Executions
      PROVE  /\ e \in live => Evolves(rec[e], R[e])
             /\ e \notin live => R[e] = rec[e]
             /\ DOMAIN R[e] = Fields
             /\ R[e].publishing => write[e] # "none"
  <2>1. LocalOK(rec[e], run[e], write[e], output[e], e \in holders) /\ DOMAIN rec[e] = Fields
    BY Local
  <2>2. CASE e \notin live
    BY <2>1, <2>2 DEF LocalOK
  <2>3. CASE e \in live /\ ~rec[e].started
    <3>1. R[e] = TerminateLocal(rec[e], "cancelled") /\ rec[e].state # "none"
          /\ ~Settled(rec[e])
      BY <2>3 DEF Unsettled, Known
    <3>2. Evolves(rec[e], R[e]) /\ Settled(R[e])
      BY <2>1, <3>1, TerminateEvolves
    <3> HIDE DEF R
    <3> QED BY <2>1, <2>3, <3>2 DEF Evolves, LocalOK
  <2>4. CASE e \in live /\ rec[e].started
    <3> DEFINE c == Cancelling(rec[e])
    <3>1. R[e] = Evaluate(c) /\ Unsettled(e)
      BY <2>4
    <3>2. Evolves(rec[e], R[e])
      BY <3>1, CancelEvolves
    <3>3. DOMAIN c = Fields /\ c.cancel_pending /\ c.publishing = rec[e].publishing
      BY <2>1, CancellingFields
    <3> HIDE DEF R, c
    <3>4. R[e].publishing => rec[e].publishing
      BY <3>1, <3>3, EvaluateFields
    <3> QED BY <2>1, <2>4, <3>2, <3>4 DEF Evolves, LocalOK
  <2> QED BY <2>2, <2>3, <2>4
<1>3. S \subseteq live /\ \A e \in live : e \in S <=> Settled(R[e])
  OBVIOUS
<1>4. \A e \in live : e \in Executions /\ ~Settled(rec[e])
  BY DEF Unsettled
<1> HIDE DEF R, S, live
<1>5. /\ DOMAIN rec' = Executions /\ DOMAIN output' = Executions
      /\ \A e \in Executions :
           /\ rec'[e] = IF e \in S THEN TornDown(R[e]) ELSE R[e]
           /\ e \notin S => output'[e] = output[e] /\ (e \in holders => e \in holders')
           /\ output'[e] # output[e] => output[e] = "reserved"
  BY <1>1 DEF Teardown
<1>6. ASSUME NEW e \in Executions
      PROVE  /\ DOMAIN rec'[e] = Fields /\ ExecutionOK(e)'
             /\ Unsettled(e)' => Unsettled(e)
             /\ Computing(e)' => Computing(e)
             /\ Settled(rec[e]) => rec'[e].state = rec[e].state
  <2> DEFINE n == rec'[e]
             r == R[e]
  <2>1. LocalOK(rec[e], run[e], write[e], output[e], e \in holders)
    BY Local
  <2>2. /\ DOMAIN n = Fields
        /\ n.state = r.state /\ n.evidence = r.evidence /\ n.publishing = r.publishing
        /\ n.started = r.started /\ n.reservation = r.reservation
        /\ n.cancel_pending = r.cancel_pending
        /\ e \notin S => n = r
        /\ e \in S => ~n.awaiting
    BY <1>2, <1>5, TornDownFields
  <2>3. output'[e] # output[e] => output[e] = "reserved"
    BY <1>5
  <2>4. e \notin S => (e \in holders => e \in holders')
    BY <1>5
  <2> HIDE DEF n
  <2>5. CASE e \notin live
    <3>1. n = rec[e] /\ e \notin S
      BY <1>2, <1>3, <2>2, <2>5
    <3>2. LocalOK(n, run[e], write[e], output'[e], e \in holders')
      BY <2>1, <2>3, <2>4, <3>1 DEF LocalOK
    <3>3. ExecutionOK(e)'
      BY <1>1, <3>2 DEF ExecutionOK, n
    <3> QED BY <2>2, <3>1, <3>3 DEF Unsettled, Known, Computing, n
  <2>6. CASE e \in live
    <3>1. Evolves(rec[e], r) /\ ~Settled(rec[e]) /\ (r.publishing => write[e] # "none")
      BY <1>2, <1>4, <2>6
    <3>2. Settled(n) <=> Settled(r)
      BY <2>2 DEF Settled
    <3>3. e \in S <=> Settled(r)
      BY <1>3, <2>6
    <3> HIDE DEF r
    <3>4. LocalOK(n, run[e], write[e], output'[e], e \in holders')
      <4>1. n.state # "none" /\ n.state # "succeeded" /\ (Settled(n) => n.evidence)
            /\ (n.evidence /\ ~Settled(n) => ~n.cancel_pending)
        BY <2>2, <3>1, <3>2 DEF Evolves, Settled, Terminal
      <4>2. (n.publishing <=> write[e] # "none") /\ (n.publishing => n.evidence /\ n.started)
            /\ (n.reservation => n.started)
        BY <2>1, <2>2, <3>1 DEF Evolves, LocalOK
      <4>3. (write[e] = "done" => output'[e] = "published") /\ (n.awaiting => n.started)
        BY <2>1, <2>2, <2>3, <3>1 DEF Evolves, LocalOK
      <4>4. /\ run[e] \in BeforeDispatch => ~n.started /\ (Settled(n) \/ n.claimed)
            /\ run[e] \in {"executing", "late"} => n.started
        BY <2>1, <2>2, <3>1, <3>2, <3>3 DEF Evolves, LocalOK
      <4>5. ~Settled(n) /\ (run[e] \in {"admitted", "reserve", "reserved"}
                              \/ (n.started /\ ~n.awaiting)) => e \in holders'
        BY <2>1, <2>2, <2>4, <3>1, <3>2, <3>3 DEF Evolves, LocalOK
      <4> QED BY <4>1, <4>2, <4>3, <4>4, <4>5 DEF LocalOK
    <3>5. ExecutionOK(e)'
      BY <1>1, <3>4 DEF ExecutionOK, n
    <3>6. Unsettled(e)
      BY <2>6 DEF live
    <3>7. Computing(e)' => Computing(e)
      BY <2>2, <3>1, <3>2, <3>3, <3>6 DEF Computing, Unsettled, Evolves, n
    <3> QED BY <2>2, <3>1, <3>5, <3>6, <3>7 DEF n
  <2> QED BY <2>5, <2>6
<1>7. ExecShape'
  BY <1>1, <1>5, <1>6 DEF ExecShape
<1>8. StopInv' /\ LoopInv'
  BY <1>1, <1>6 DEF StopInv, LoopInv
<1>9. Final
  BY <1>6 DEF Final
<1> QED BY <1>6, <1>7, <1>8, <1>9 DEF ExecInv, Kept

-----------------------------------------------------------------------------
(* The theorems.                                                           *)

LEMMA RunStepKeeps == ASSUME ExecInv, NEW e \in Executions, RunStep(e) PROVE Kept
BY GuardKeeps, OpenInputKeeps, EnqueueKeeps, GrantKeeps, AdmitFailsKeeps, AdmittedKeeps,
   ReserveKeeps, DispatchKeeps, OnTimeoutKeeps, NotDispatchedKeeps, RaisedKeeps,
   AnsweredKeeps DEF RunStep

\* Every step of the service, its callers, its loops and its blob store keeps
\* the invariant and no settled record moves.
LEMMA ExecStepInv == ExecInv /\ [ExecNext]_execVars => Kept
<1> SUFFICES ASSUME ExecInv, [ExecNext]_execVars PROVE Kept
  OBVIOUS
<1>1. CASE Scan \/ OnSessionDraining
  BY <1>1, ScanKeeps, DrainKeeps
<1>2. CASE SessionEnds \/ UNCHANGED execVars
  BY <1>2, StillSteps
<1>3. CASE Quiescer
  BY <1>3, QuiesceScanKeeps, QuiesceSettleKeeps, StillSteps DEF Quiescer
<1>4. ASSUME NEW e \in Executions,
             \/ Submit(e) \/ Cancel(e) \/ ReportOutput(e) \/ DeadlinePasses(e)
             \/ \E fence \in 1..MaxGeneration, dispatched \in BOOLEAN :
                  ReportTerminal(e, fence, dispatched)
      PROVE  Kept
  BY <1>4, SubmitKeeps, CancelKeeps, ReportOutputKeeps, ReportTerminalKeeps, StillSteps
<1>5. ASSUME NEW e \in Executions, RunStep(e) PROVE Kept
  BY <1>5, RunStepKeeps
<1>6. ASSUME NEW e \in Executions, FinalizeDropped(e) \/ WriteOutput(e) \/ PublishAndSettle(e)
      PROVE  Kept
  BY <1>6, StillSteps, WriteOutputKeeps, PublishKeeps
<1> QED BY <1>1, <1>2, <1>3, <1>4, <1>5, <1>6 DEF ExecNext

LEMMA ExecAlways == ExecSpec => []ExecInv
<1>1. ExecInv /\ [ExecNext]_execVars => ExecInv'
  BY ExecStepInv DEF Kept
<1> QED BY <1>1, ExecInitInv, PTL DEF ExecSpec

\* _publish_and_settle is the only place that shows a success, and it finds
\* the terminal evidence and the published output of an execution nobody has
\* cancelled: for any number of executions and slots no success is invented.
THEOREM NoInventedSuccess == ExecSpec => []SuccessIsProven
<1>1. ExecInv => SuccessIsProven
  BY DEF ExecInv, ExecutionOK, LocalOK, SuccessIsProven
<1> QED BY <1>1, ExecAlways, PTL

\* _admit binds the lease before the dispatch; _teardown and the quiescer give
\* it back only once the record is settled or its response has ended.
THEOREM LeaseWhileComputing == ExecSpec => []ComputingHoldsLease
<1>1. ExecInv => ComputingHoldsLease
  BY DEF ExecInv, ExecutionOK, LocalOK, ComputingHoldsLease
<1> QED BY <1>1, ExecAlways, PTL

\* _quiesce_model asks for the shared stop only when nothing computes, and the
\* frozen dispatch loop lets nothing start until the batch is settled.
THEOREM StopKillsNobody == ExecSpec => []StopFindsNobody
<1>1. ExecInv => StopFindsNobody
  BY DEF ExecInv, StopInv, StopFindsNobody
<1> QED BY <1>1, ExecAlways, PTL

\* _dispatch_loop returns only when every record is settled, so an execution
\* put back into the queue is always seen by a running loop.
THEOREM NoLostWakeup == ExecSpec => []WaitingIsScanned
<1>1. ExecInv => WaitingIsScanned
  BY DEF ExecInv, LoopInv, WaitingIsScanned, Waiting, Unsettled, Known, Settled, Terminal
<1> QED BY <1>1, ExecAlways, PTL

\* _mark_settled and the re-checks of every locked section: whatever answer,
\* report, proof, timeout or drain comes late, a settled record keeps its state.
THEOREM SettledForGood == ExecSpec => TerminalIsFinal
<1>1. ExecInv /\ [ExecNext]_execVars
        => [\A e \in Executions : Settled(rec[e]) => rec'[e].state = rec[e].state]_execVars
  BY ExecStepInv DEF Kept, Final
<1> QED BY <1>1, ExecAlways, PTL DEF ExecSpec, TerminalIsFinal
=============================================================================
