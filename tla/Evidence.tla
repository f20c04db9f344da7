------------------------------- MODULE Evidence -------------------------------
(***************************************************************************)
(* From case attempts to a production gate: run_layers and the material     *)
(* store (acceptance/runner.py, materials.py), merge_runs and              *)
(* verify_evidence (verify.py) with the recomputation of evaluator.py and  *)
(* the contracts of evidence_contracts.py, the production render           *)
(* (deploy.render_v3) and preflight_v3.production_gate.                    *)
(*                                                                         *)
(* A candidate is its digest.  Case "s" stands for the layer that runs     *)
(* once per case, case "b" for the backend layer, whose case is attempted  *)
(* Rounds times and recomputed from raw device rows.  What the attempts    *)
(* observe is nondeterministic and the acceptance process may die at any   *)
(* step.  Files stay as they were written: _verify_artifacts only refuses  *)
(* directories in which one of them differs from its reference.            *)
(***************************************************************************)
EXTENDS Naturals, FiniteSets

CONSTANTS RunDirs,      \* output directories of runs
          Candidates,   \* digests of frozen candidates
          Rounds,       \* attempts of the backend case in one run
          Validity,     \* REPORT_VALIDITY_SECONDS
          MaxRunId, MaxEvClock

ASSUME EvConstants == Rounds \in Nat \ {0} /\ Validity \in Nat /\ MaxRunId \in Nat

MergedDir == "merged"
Dirs == RunDirs \cup {MergedDir}
Cases == {"s", "b"}
Last(case) == IF case = "s" THEN 1 ELSE Rounds
AllRows == {"maps", "gr3d"}
Windows == {{}, {"maps"}, AllRows}
NoReport == [cand |-> "none", started |-> 0, attempts |-> {}]

VARIABLES evClock,
          rows,         \* dir -> attempt of "b" -> its raw rows, as <<run, kind>>
          report,       \* dir -> report.json
          command,      \* the `run` command in progress
          runs,         \* run ids used
          history,      \* every attempt that was completed
          manifest,     \* manifest.json of the production render
          gate          \* the production gate that passed

evVars == <<evClock, rows, report, command, runs, history, manifest, gate>>

NoCommand == [dir |-> MergedDir, cand |-> "none", todo |-> {}, records |-> {}]
NoManifest == [cand |-> "none", started |-> 0]
NoGate == [cand |-> "none", dir |-> MergedDir, at |-> 0]

EvInit ==
  /\ evClock = 0 /\ runs = 0 /\ history = {} /\ gate = NoGate
  /\ rows = [d \in Dirs |-> [n \in 1..Rounds |-> {}]]
  /\ report = [d \in Dirs |-> NoReport]
  /\ command = NoCommand /\ manifest = NoManifest

EvTick ==
  /\ evClock < MaxEvClock /\ evClock' = evClock + 1
  /\ UNCHANGED <<rows, report, command, runs, history, manifest, gate>>

---------------------------------------------------------------------------
(* run: one candidate, the requested layers, one report. *)

(* The attempts the requested layers will make.                              *)
Planned(layers) == {a \in [case : layers, n : 1..Rounds] : a.n <= Last(a.case)}

(* _run and run_layers up to the first case: only report.json must be absent. *)
BeginRun(d, c, layers) ==
  /\ command = NoCommand /\ runs < MaxRunId /\ d # MergedDir /\ layers # {}
  /\ report[d] = NoReport
  /\ runs' = runs + 1
  /\ command' = [dir |-> d, cand |-> c, records |-> {},
                 todo |-> Planned(layers)]
  /\ UNCHANGED <<evClock, rows, report, history, manifest, gate>>

(* The attempts of a case in order, the software layer first.                *)
Due(a) ==
  /\ a \in command.todo
  /\ \A b \in command.todo \ {a} : IF a.case = b.case THEN a.n < b.n ELSE a.case = "s"

(* record_sample appends to what the attempt's directory already holds.       *)
Recorded(a, window) ==
  rows' = [rows EXCEPT ![command.dir][a.n] = @ \cup {<<runs, k>> : k \in window}]

(* One attempt from begin_case to end_case, under a window of the device      *)
(* sampler that yields no row, the maps of a process without CUDA libraries,  *)
(* or GPU activity.  Software cases keep their observations in case.json.    *)
(* EvNext leaves all rows behind a failed or cut attempt, the worse case:     *)
(* they can only help a later attempt in the same directory.                 *)
Attempt(a, passed, window) ==
  LET r == [run |-> runs, cand |-> command.cand, case |-> a.case, n |-> a.n,
            passed |-> passed, start |-> evClock]
  IN  /\ Due(a)
      /\ IF a.case = "b" THEN Recorded(a, window) ELSE UNCHANGED rows
      /\ command' = [command EXCEPT !.todo = @ \ {a}, !.records = @ \cup {r}]
      /\ history' = history \cup {r}
      /\ UNCHANGED <<evClock, report, runs, manifest, gate>>

(* The process dies, or a layer raises, with the rows of an attempt written.  *)
RunDies(a) ==
  /\ Due(a)
  /\ IF a.case = "b" THEN Recorded(a, AllRows) ELSE UNCHANGED rows
  /\ command' = NoCommand
  /\ UNCHANGED <<evClock, report, runs, history, manifest, gate>>

\* Mutant: a report starts with its latest attempt.
Earliest_latest(attempts) ==
  CHOOSE t \in {r.start : r \in attempts} : \A r \in attempts : t >= r.start

Earliest(attempts) == CHOOSE t \in {r.start : r \in attempts} : \A r \in attempts : t <= r.start

(* The report lists every attempt and starts with the earliest of them.       *)
CloseRun ==
  /\ command # NoCommand /\ command.todo = {}
  /\ report' = [report EXCEPT ![command.dir] =
                  [cand |-> command.cand, started |-> Earliest(command.records),
                   attempts |-> command.records]]
  /\ command' = NoCommand
  /\ UNCHANGED <<evClock, rows, runs, history, manifest, gate>>

---------------------------------------------------------------------------
(* merge, verify, render, gate. *)

(* _finals_of: the last attempt of each case.                                *)
Finals(attempts) == {r \in attempts : \A q \in attempts : q.case = r.case => q.n <= r.n}

Merge(c, d, e) ==
  LET a == report[d].attempts
      b == report[e].attempts
  IN  /\ d # e /\ {d, e} \subseteq RunDirs
      /\ report[MergedDir] = NoReport
      /\ report[d].cand = c /\ report[e].cand = c
      /\ \A p \in Finals(a), q \in Finals(b) : p.case # q.case
      /\ report' = [report EXCEPT ![MergedDir] =
                      [cand |-> c, started |-> Earliest(a \cup b), attempts |-> a \cup b]]
      /\ rows' = [rows EXCEPT ![MergedDir] =
                    IF \E r \in a : r.case = "b" THEN rows[d] ELSE rows[e]]
      /\ UNCHANGED <<evClock, command, runs, history, manifest, gate>>

(* validate_report_mapping                                                   *)
Mapped(r) ==
  /\ \A case \in Cases : Cardinality({f \in Finals(r.attempts) : f.case = case}) = 1
  /\ r.started = Earliest(r.attempts)

Fresh(started) == evClock < started + Validity

(* recompute_device_attribution: raw rows of the directory, of whatever run.  *)
Attributed(d, n) == \E row \in rows[d][n] : row[2] = "gr3d"

(* _evaluate_backend and _evaluate_software on the material of one final.     *)
RecomputedPass(d, f) == f.passed /\ (f.case = "b" => Attributed(d, f.n))

(* evaluate_report: every final, whatever verdict the run had stored.         *)
EvaluateReport(d) == \A f \in Finals(report[d].attempts) : RecomputedPass(d, f)

(* validate_report_identity: the report and what it lists name one candidate. *)
Identified(c, r) == r.cand = c /\ \A a \in r.attempts : a.cand = c

Verifies(c, d) ==
  /\ report[d] # NoReport
  /\ Identified(c, report[d])
  /\ Mapped(report[d])
  /\ Fresh(report[d].started)
  /\ EvaluateReport(d)

(* render_v3 in production mode, into a directory that is empty.             *)
Render(c, d) ==
  /\ manifest = NoManifest /\ Verifies(c, d)
  /\ manifest' = [cand |-> c, started |-> report[d].started]
  /\ UNCHANGED <<evClock, rows, report, command, runs, history, gate>>

(* verify_environment on a site that matches the manifest, then the evidence. *)
Gate(c, d) ==
  /\ gate = NoGate /\ manifest # NoManifest /\ Fresh(manifest.started) /\ Verifies(c, d)
  /\ gate' = [cand |-> c, dir |-> d, at |-> evClock]
  /\ UNCHANGED <<evClock, rows, report, command, runs, history, manifest>>

EvNext ==
  \/ EvTick \/ CloseRun
  \/ \E d \in RunDirs, c \in Candidates, layers \in SUBSET Cases : BeginRun(d, c, layers)
  \/ \E a \in command.todo : \/ RunDies(a)
                             \/ Attempt(a, FALSE, AllRows)
                             \/ \E window \in Windows : Attempt(a, TRUE, window)
  \/ \E c \in Candidates : \/ \E d, e \in RunDirs : Merge(c, d, e)
                           \/ \E d \in Dirs : Render(c, d) \/ Gate(c, d)

---------------------------------------------------------------------------
(* Properties *)

(* Attempts of other candidates or outside the validity window never reach    *)
(* production: when a gate passes, every case has a passed attempt on     *)
(* the gated candidate, made less than the validity ago, and so was every      *)
(* other attempt the report lists; repackaging runs by merge refreshes nothing *)
(* (verify_evidence, "repackaging never refreshes it").                       *)
GateIsEarned ==
  gate # NoGate => \A case \in Cases :
    \E r \in report[gate.dir].attempts \cap history :
      /\ r.case = case /\ r.cand = gate.cand /\ r.passed
      /\ \A q \in report[gate.dir].attempts : gate.at < q.start + Validity

=============================================================================
