------------------------------ MODULE ReleaseOps ------------------------------
(***************************************************************************)
(* Upgrading and rolling back a site: switch_release and rollback_release   *)
(* of deploy.py.  Both call the site through OpsPort, one step at a time,   *)
(* while the service goes on working; the operator's process may end        *)
(* between any two steps.                                                  *)
(*                                                                         *)
(* OpsPort is external: a call raises, answers no or answers yes, its      *)
(* effect may have happened in each case, and a yes is the truth at that   *)
(* moment.  Releases are numbered by the metadata format they write and    *)
(* read every format up to their own.                                      *)
(***************************************************************************)
EXTENDS Naturals

CONSTANTS Releases,     \* 1..n
          GoodReleases, \* those preflight accepts
          MaxOps        \* sequences an operator runs

ASSUME ReleaseConstants == Releases \subseteq Nat /\ 1 \in Releases /\ MaxOps \in Nat

VARIABLES current,      \* where the `current` link points
          serving,      \* the release whose scheduler runs, 0 for none
          admission,    \* the site admits requests
          busy,         \* queue_depth, leases or sessions are not all zero
          instances,    \* model instances of the service run
          format,       \* format of the blob metadata
          backup,       \* format of the pre-upgrade backup, 0 for none
          op,           \* the sequence in progress, or the result of the last one
          ops           \* sequences begun

siteState == <<current, serving, admission, busy, instances, format, backup>>
relVars == <<siteState, op, ops>>

Answers == {"raised", "no", "yes"}
NoOp == [kind |-> "none", at |-> "none", release |-> 1, previous |-> 1, found |-> 1, failed |-> FALSE,
         status |-> "none"]

ReleaseInit ==
  /\ current = 1 /\ serving = 1 /\ admission = TRUE /\ busy = FALSE /\ instances = FALSE
  /\ format = 1 /\ backup = 0 /\ op = NoOp /\ ops = 0

---------------------------------------------------------------------------
(* The service, outside the sequences. *)

WorkArrives ==
  /\ admission /\ serving # 0 /\ ~busy
  /\ busy' = TRUE /\ instances' = TRUE
  /\ UNCHANGED <<current, serving, admission, format, backup, op, ops>>

WorkEnds ==
  /\ busy /\ busy' = FALSE
  /\ UNCHANGED <<current, serving, admission, instances, format, backup, op, ops>>

ModelUnloads ==
  /\ instances /\ ~busy /\ instances' = FALSE
  /\ UNCHANGED <<current, serving, admission, busy, format, backup, op, ops>>

Upgraded(r) == IF r > format THEN r ELSE format

(* The scheduler of `current` starts, or nothing does; its requests are lost *)
(* and its model instances outlive it.                                      *)
Restarted(up) ==
  /\ serving' = up /\ format' = IF up = 0 THEN format ELSE Upgraded(up)
  /\ busy' = FALSE
  /\ UNCHANGED <<current, admission, instances, backup>>

ServiceRestarts ==
  /\ \E up \in {0, current} : Restarted(up)
  /\ UNCHANGED <<op, ops>>

---------------------------------------------------------------------------
(* The sequences. *)

(* The operator backs the metadata up before an upgrade.                    *)
BeginSwitch(r) ==
  /\ op.at = "none" /\ ops < MaxOps /\ r >= format /\ r # current
  /\ backup' = format
  /\ op' = [NoOp EXCEPT !.kind = "switch", !.at = "close", !.release = r,
                        !.previous = current, !.found = serving]
  /\ ops' = ops + 1
  /\ UNCHANGED <<current, serving, admission, busy, instances, format>>

(* accepted is the accepted release, 0 when there is none: the site stops.   *)
BeginRollback(accepted) ==
  /\ op.at = "none" /\ ops < MaxOps /\ accepted < current
  /\ op' = [NoOp EXCEPT !.kind = IF accepted = 0 THEN "halt" ELSE "rollback", !.at = "close",
                        !.release = IF accepted = 0 THEN 1 ELSE accepted,
                        !.previous = current, !.found = serving]
  /\ ops' = ops + 1
  /\ UNCHANGED siteState

(* _ops_step: what a step answered is kept, never raised.                    *)
Step(next, bad) == op' = [op EXCEPT !.at = next, !.failed = @ \/ bad] /\ UNCHANGED ops

Ended(status) == op' = [op EXCEPT !.at = "none", !.status = status] /\ UNCHANGED ops

(* A switch needs closed is True; a rollback only that the call returns.     *)
CloseAdmission ==
  /\ op.at = "close"
  /\ \E a \in Answers, effect \in BOOLEAN :
       /\ a = "yes" => effect
       /\ admission' = (admission /\ ~effect)
       /\ CASE op.kind = "switch" -> Step("drain", a # "yes")
            [] op.kind = "rollback" -> Step("prove", a = "raised")
            [] op.kind = "halt" -> Ended("stopped_for_repair")
  /\ UNCHANGED <<current, serving, busy, instances, format, backup>>

Drain ==
  /\ op.at = "drain"
  /\ \E a \in Answers : (a = "yes" => ~busy) /\ Step("prove", a # "yes")
  /\ UNCHANGED siteState

\* Mutant: a stop that is not proven does not count as a failure.
ProveStopped_hopes ==
  /\ op.at = "prove"
  /\ \E a \in Answers :
       /\ a = "yes" => ~instances
       /\ Step(IF op.kind = "switch" THEN "preflight" ELSE "restore", a = "raised")
  /\ UNCHANGED siteState

ProveStopped ==
  /\ op.at = "prove"
  /\ \E a \in Answers :
       /\ a = "yes" => ~instances
       /\ IF op.kind = "switch" THEN Step("preflight", a # "yes")
          ELSE Step("restore", a = "raised")
  /\ UNCHANGED siteState

(* The last fact before `current` moves: without all four the admission is   *)
(* reopened and nothing was switched.                                       *)
Preflight ==
  /\ op.at = "preflight"
  /\ \E a \in Answers :
       /\ a = "yes" => op.release \in GoodReleases
       /\ Step(IF op.failed \/ a # "yes" THEN "reopen" ELSE "current", a # "yes")
  /\ UNCHANGED siteState

(* restore_blob_metadata, when the older release cannot read the format.     *)
Restore ==
  /\ op.at = "restore"
  /\ IF format <= op.release
     THEN UNCHANGED format /\ IF op.failed THEN Ended("repair_required") ELSE Step("current", FALSE)
     ELSE \E a \in Answers, effect \in BOOLEAN :
            /\ a = "yes" => effect
            /\ backup = 0 => ~effect
            /\ format' = IF effect THEN backup ELSE format
            /\ IF op.failed \/ a # "yes" THEN Ended("repair_required") ELSE Step("current", FALSE)
  /\ UNCHANGED <<current, serving, admission, busy, instances, backup>>

SwitchCurrent ==
  /\ op.at = "current"
  /\ \E a \in Answers, effect \in BOOLEAN :
       /\ a = "yes" => effect
       /\ current' = IF effect THEN op.release ELSE current
       /\ Step("start", a # "yes")
  /\ UNCHANGED <<serving, admission, busy, instances, format, backup>>

(* The scheduler of `current` replaces the running one, or does not start.   *)
StartService ==
  /\ op.at = "start"
  /\ \E a \in Answers, up \in {0, current} :
       /\ a = "yes" => up # 0
       /\ Restarted(up)
       /\ Step("smoke", a # "yes")

(* smoke, then the verdict; a good switch reopens, a rollback does not.      *)
Smoke ==
  /\ op.at = "smoke"
  /\ \E a \in Answers :
       /\ a = "yes" => serving # 0 /\ format <= serving
       /\ IF op.failed \/ a # "yes" THEN Ended("repair_required")
          ELSE IF op.kind = "switch" THEN Step("reopen", FALSE) ELSE Ended("running")
  /\ UNCHANGED siteState

(* Whether the admission really reopened is not looked at.                   *)
Reopen ==
  /\ op.at = "reopen"
  /\ admission' \in {admission, TRUE}
  /\ Ended(IF op.failed THEN "not_switched" ELSE "switched")
  /\ UNCHANGED <<current, serving, busy, instances, format, backup>>

OperatorDies ==
  /\ op.at # "none" /\ Ended("unknown") /\ UNCHANGED siteState

ReleaseNext ==
  \/ WorkArrives \/ WorkEnds \/ ModelUnloads \/ ServiceRestarts
  \/ \E r \in Releases : BeginSwitch(r) \/ BeginRollback(r)
  \/ BeginRollback(0)
  \/ CloseAdmission \/ Drain \/ ProveStopped \/ Preflight \/ Restore \/ SwitchCurrent
  \/ StartService \/ Smoke \/ Reopen \/ OperatorDies

---------------------------------------------------------------------------
(* Properties *)

(* `current` is switched only after the old instances are proven stopped      *)
(* (switch_release), and what was proven still holds when the link moves,     *)
(* although the service worked on between the steps.                         *)
SwitchedWhenQuiet ==
  [][op.kind = "switch" /\ current' # current =>
       ~admission /\ ~busy /\ ~instances /\ op.release \in GoodReleases]_relVars

=============================================================================
