------------------------------ MODULE Calibration ------------------------------
(***************************************************************************)
(* Measuring a model: run_live_calibration and run_calibration              *)
(* (acceptance/calibrate.py) over the live rounds of acceptance/live.py,    *)
(* and the use of the result by candidate.py.  A scheduler may be started   *)
(* on the same machine at any time it gets the instance lock.              *)
(*                                                                         *)
(* Memory is counted in units.  A round takes three figures from the raw    *)
(* samples, the MemAvailable before the launch, its minimum while the model *)
(* ran, and the MemAvailable after the stop; MemFree is taken equal to it.  *)
(* `ok` stands for the criteria on gaps, cadence and swap.                  *)
(***************************************************************************)
EXTENDS Integers, Sequences, FiniteSetsExt

CONSTANTS CalRuns,      \* --runs
          Total,        \* MemTotal
          Peaks,        \* what the model may really use in a round
          ForeignSize,  \* what an instance of a scheduler uses
          ShiftLimit    \* BASELINE_SHIFT_LIMIT_BYTES

ASSUME CalConstants ==
  /\ CalRuns \in Nat \ {0} /\ Total \in Nat /\ Peaks \subseteq 1..Total
  /\ ForeignSize \in Nat /\ ShiftLimit \in Nat
  /\ \A p \in Peaks : p + ForeignSize <= Total   \* MemAvailable is never negative

VARIABLES source,       \* "live" rounds or "preserved" material
          scheduler,    \* a scheduler process holds the instance lock
          foreign,      \* an instance of that scheduler runs
          box,          \* units the measured container uses, 0 when it does not run
          cal,          \* the calibration: its stage and the round in progress
          metrics,      \* evaluate_round of the rounds so far, with their real peak
          result        \* summarize_measurements, and the frozen candidate

calVars == <<source, scheduler, foreign, box, cal, metrics, result>>

None == -1
NoRound == [base |-> None, low |-> None, peak |-> 0, stop |-> FALSE]
NoResult == [verdict |-> "none", reserved |-> None, physical |-> None, frozen |-> FALSE]

CalInit ==
  /\ source \in {"live", "preserved"}
  /\ scheduler \in BOOLEAN /\ foreign \in BOOLEAN /\ (foreign => scheduler)
  /\ box = 0 /\ cal = [at |-> "record", round |-> NoRound]
  /\ metrics = <<>> /\ result = NoResult

Available == Total - box - (IF foreign THEN ForeignSize ELSE 0)
CalAt(stage) == cal.at = stage
CalGoes(stage, round) == cal' = [at |-> stage, round |-> round]

CalFails == CalGoes("failed", NoRound)

---------------------------------------------------------------------------
(* The scheduler of the site. *)

SchedulerStarts ==
  /\ ~scheduler /\ scheduler' = TRUE
  /\ UNCHANGED <<source, foreign, box, cal, metrics, result>>

SchedulerStops ==
  /\ scheduler /\ ~foreign /\ scheduler' = FALSE
  /\ UNCHANGED <<source, foreign, box, cal, metrics, result>>

InstanceMoves ==
  /\ scheduler /\ foreign' = ~foreign
  /\ UNCHANGED <<source, scheduler, box, cal, metrics, result>>

---------------------------------------------------------------------------
(* The calibration. *)

(* verify_maintenance: the lock is taken and given back at once.              *)
VerifyLock ==
  /\ CalAt("record")
  /\ IF scheduler THEN CalFails ELSE CalGoes("site", NoRound)
  /\ UNCHANGED <<source, scheduler, foreign, box, metrics, result>>

(* No managed container (a docker that fails lists none), no control socket,   *)
(* no busy port.  Preserved material is evaluated before the site is looked at *)
(* and persisted after it.                                                    *)
VerifySite ==
  /\ CalAt("site")
  /\ \E listed \in BOOLEAN :
       IF (listed /\ foreign) \/ scheduler THEN CalFails
       ELSE CalGoes(IF Len(metrics) < CalRuns THEN "settle" ELSE "summary", NoRound)
  /\ UNCHANGED <<source, scheduler, foreign, box, metrics, result>>

(* run_live_round: nothing managed with this configuration runs.               *)
CheckResidual ==
  /\ CalAt("settle") /\ source = "live"
  /\ IF box # 0 \/ foreign THEN CalFails ELSE CalGoes("baseline", NoRound)
  /\ UNCHANGED <<source, scheduler, foreign, box, metrics, result>>

(* The baseline is sampled for a window before the launch.                     *)
SampleBaseline ==
  /\ CalAt("baseline") /\ CalGoes("launch", [NoRound EXCEPT !.base = Available])
  /\ UNCHANGED <<source, scheduler, foreign, box, metrics, result>>

StartContainer ==
  /\ CalAt("launch")
  /\ \E peak \in Peaks : /\ box' = peak
                         /\ CalGoes("run", [cal.round EXCEPT !.peak = peak])
  /\ UNCHANGED <<source, scheduler, foreign, metrics, result>>

(* wait_ready and the image case, sampled meanwhile; the image request may      *)
(* raise, which ends the calibration with the container still running.         *)
Measure ==
  /\ CalAt("run")
  /\ \/ CalGoes("stop", [cal.round EXCEPT !.low = Available])
     \/ CalFails
  /\ UNCHANGED <<source, scheduler, foreign, box, metrics, result>>

(* classify_stop: quiescent is exit, free port and nothing listed; unknown      *)
(* when any of them could not be established.                                 *)
StopContainer ==
  /\ CalAt("stop")
  /\ \/ box' = 0 /\ CalGoes("post", [cal.round EXCEPT !.stop = TRUE])
     \/ box' \in {0, box} /\ CalGoes("post", cal.round)
  /\ UNCHANGED <<source, scheduler, foreign, metrics, result>>

---------------------------------------------------------------------------
(* Evaluation. *)

Abs(n) == IF n < 0 THEN -n ELSE n
Larger(a, b) == IF a > b THEN a ELSE b

(* evaluate_round; free is the least MemFree of the run window, or None.        *)
Evaluated(base, low, post, ok, free, stop, peak) ==
  LET delta == IF base = None \/ low = None THEN None ELSE Larger(0, base - low)
  IN  [delta |-> delta,
       valid |-> /\ delta # None /\ delta > 0 /\ post # None
                 /\ Abs(post - base) <= ShiftLimit /\ ok,
       bound |-> IF free = None THEN None ELSE Total - free,
       stop |-> stop, peak |-> peak]

(* The samples after the stop end the round.                                   *)
EndRound ==
  /\ CalAt("post")
  /\ \E ok \in BOOLEAN :
       metrics' = Append(metrics, Evaluated(cal.round.base, cal.round.low, Available, ok,
                                            cal.round.low, cal.round.stop, cal.round.peak))
  /\ CalGoes(IF Len(metrics') < CalRuns THEN "settle" ELSE "summary", NoRound)
  /\ UNCHANGED <<source, scheduler, foreign, box, result>>

(* load_round_material: preserved rounds come with a window or without, with   *)
(* MemFree or without, and carry a stop or an explicit unknown.                *)
ReadRound ==
  /\ source = "preserved" /\ CalAt("record") /\ Len(metrics) < CalRuns
  /\ \E window, free, stop \in BOOLEAN, peak \in Peaks :
       LET low == Total - peak
       IN  metrics' = Append(metrics,
             Evaluated(IF window THEN Total ELSE None, IF window THEN low ELSE None,
                       IF window THEN Total ELSE None, TRUE, IF free THEN low ELSE None, stop, peak))
  /\ UNCHANGED <<source, scheduler, foreign, box, cal, result>>

OrZero(n) == IF n = None THEN 0 ELSE n

Reserved(peak) == (peak * 115 + 99) \div 100

\* Mutant: the stop of a round need not be proven.
Proven_valid(m) == m.valid

(* A round that counts: a valid measurement and a proven stop.                  *)
Proven(m) == m.valid /\ m.stop

(* summarize_measurements: unproven figures stay null, production stays blocked. *)
Summarize ==
  /\ CalAt("summary")
  /\ LET measured == Max({OrZero(metrics[i].delta) : i \in DOMAIN metrics})
         physical == Max({OrZero(metrics[i].bound) : i \in DOMAIN metrics})
     IN  result' = [verdict |-> IF (\A i \in DOMAIN metrics : Proven(metrics[i])) /\ physical > 0
                                THEN "passed" ELSE "blocked",
                    reserved |-> IF \E i \in DOMAIN metrics : metrics[i].valid
                                 THEN Reserved(measured) ELSE None,
                    physical |-> IF physical = 0 THEN None ELSE physical,
                    frozen |-> FALSE]
  /\ CalGoes("done", NoRound)
  /\ UNCHANGED <<source, scheduler, foreign, box, metrics>>

(* candidate._measurement_summary                                              *)
FreezeCandidate ==
  /\ CalAt("done") /\ ~result.frozen
  /\ result.verdict = "passed" /\ result.physical # None
  /\ result' = [result EXCEPT !.frozen = TRUE]
  /\ UNCHANGED <<source, scheduler, foreign, box, cal, metrics>>

CalNext ==
  \/ SchedulerStarts \/ SchedulerStops \/ InstanceMoves
  \/ (source = "preserved" => Len(metrics) = CalRuns) /\ VerifyLock
  \/ VerifySite \/ CheckResidual \/ SampleBaseline \/ StartContainer \/ Measure
  \/ StopContainer \/ EndRound \/ ReadRound
  \/ Summarize \/ FreezeCandidate

---------------------------------------------------------------------------
(* Properties *)

(* A candidate is frozen only on live rounds that all ended quiescent and whose  *)
(* physical bound covers what the model really used in every round, even when a *)
(* scheduler came up beside the calibration (summarize_measurements,            *)
(* _measurement_summary).                                                     *)
FrozenIsBounded ==
  result.frozen /\ source = "live" =>
    /\ box = 0
    /\ \A i \in DOMAIN metrics : metrics[i].stop /\ metrics[i].peak <= result.physical

=============================================================================
