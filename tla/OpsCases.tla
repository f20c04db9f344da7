------------------------------- MODULE OpsCases -------------------------------
(***************************************************************************)
(* The operational acceptance cases O01-O06: their orchestration           *)
(* (acceptance/operational_cases.py), the ports that stage the faults on    *)
(* the machine (operational_ports.py, o02_probe.py) and the recomputation   *)
(* of a verdict from the collected facts.                                   *)
(*                                                                         *)
(* A step's facts are the set of its required keys that the answer meets.   *)
(* A step that raised, or that answered "unavailable", meets none.          *)
(***************************************************************************)
EXTENDS Naturals, Sequences, FiniteSets

CONSTANTS OpsNames     \* the cases to run

VARIABLES ocase,       \* the case being run and what it has collected
          ns,          \* the probe of O02: baseline, shadow, scratch
          disk,        \* whether the model disk verifies
          running,     \* an instance of the deployment is running
          channel,     \* the Docker socket answers
          ghost        \* the staged stranger container exists

opsVars == <<ocase, ns, disk, running, channel, ghost>>

Steps ==
  [O01 |-> <<"workload", "quiesce", "final_state">>,
   O02 |-> <<"isolation", "model_disk", "scratch", "recovery">>,
   O03 |-> <<"docker_unreachable", "unknown_instance", "stop_timeout">>,
   O04 |-> <<"restart", "residual", "old_token", "admission">>,
   O05 |-> <<"correct", "tampered">>,
   O06 |-> <<"shutdown", "logs", "backup", "restore", "rollback", "refused">>]

ASSUME OpsConstants == OpsNames \subseteq DOMAIN Steps

(* What the orchestrator requires of each step's facts.                      *)
Required ==
  [workload |-> {"rates", "deviation"}, quiesce |-> {},
   final_state |-> {"figures", "stopped"},
   isolation |-> {"private_mount_namespace"},
   model_disk |-> {"unavailable", "root_disk_writes"},
   scratch |-> {"dedicated", "full", "root_disk_writes"},
   recovery |-> {"recovered", "rehashed"},
   docker_unreachable |-> {"health_status", "budget_kept", "others_untouched"},
   unknown_instance |-> {"unknown_recorded", "health_status", "others_untouched"},
   stop_timeout |-> {"stop_timeout_recorded", "budget_kept", "health_status"},
   restart |-> {"restarted", "cleaned", "inference_replay"}, residual |-> {"none_left"},
   old_token |-> {"accepted", "reason"}, admission |-> {"admitted"},
   correct |-> {"accepted", "production_gate"},
   tampered |-> {"present", "accepted", "reason", "loaded", "production_gate"},
   shutdown |-> {"graceful", "exit_code"}, logs |-> {"capacity_ok", "redaction_ok"},
   backup |-> {"snapshot_sha256", "files"}, restore |-> {"restored", "snapshot_sha256"},
   rollback |-> {"applied"}, refused |-> {"applied", "reason"}]

(* What recompute_objections requires: not everything run_o05 and run_o06 do. *)
Recomputed(s) ==
  Required[s] \ CASE s = "backup" -> {"files"}
                  [] s = "tampered" -> {"production_gate"}
                  [] OTHER -> {}

NoProbe == [baseline |-> FALSE, shadow |-> FALSE, scratch |-> FALSE, seen |-> <<>>]

(* An unwired port is NotWiredPort: its first step answers "unavailable".     *)
OpsInit ==
  /\ ocase \in [name : OpsNames, wired : BOOLEAN, done : {0}, status : {"open"},
                facts : {[s \in DOMAIN Required |-> {}]}, failures : {{}}, unavailable : {FALSE}]
  /\ ns = NoProbe /\ disk \in BOOLEAN /\ running = FALSE /\ channel = TRUE /\ ghost = FALSE

At(s) ==
  /\ ocase.status = "open" /\ ocase.wired
  /\ ocase.done < Len(Steps[ocase.name]) /\ Steps[ocase.name][ocase.done + 1] = s

Answer(s, met) ==
  ocase' = [ocase EXCEPT !.done = @ + 1, !.facts[s] = met]

(* _step keeps the exception and goes on with an empty answer.               *)
Fail(s) ==
  ocase' = [ocase EXCEPT !.done = @ + 1, !.failures = @ \cup {s}]

Unavailable == ocase' = [ocase EXCEPT !.done = Len(Steps[ocase.name]), !.unavailable = TRUE]

(* A port that is not modelled further may miss any one requirement.          *)
Misses(s) == {Required[s]} \cup {Required[s] \ {k} : k \in Required[s]}

NotWired ==
  /\ ocase.status = "open" /\ ~ocase.wired /\ ocase.done = 0
  /\ Unavailable
  /\ UNCHANGED <<ns, disk, running, channel, ghost>>

StepsOf(c) == {Steps[c.name][i] : i \in 1..Len(Steps[c.name])}

Problems(c) == {s \in StepsOf(c) : ~(Required[s] \subseteq c.facts[s])}

Objections(c) == {s \in StepsOf(c) : ~(Recomputed(s) \subseteq c.facts[s])}

Verdict(c) ==
  CASE c.failures # {} -> "failed"
    [] c.failures = {} /\ c.unavailable -> "not_run"
    [] OTHER -> IF Problems(c) = {} THEN "passed" ELSE "failed"

Finish ==
  /\ ocase.status = "open" /\ ocase.done = Len(Steps[ocase.name])
  /\ ocase' = [ocase EXCEPT !.status = Verdict(ocase)]
  /\ UNCHANGED <<ns, disk, running, channel, ghost>>

---------------------------------------------------------------------------
(* O01: the workload, the release that ends it, the end state.               *)

(* A plan that misses the bounds ends the case before anything is sent.  A     *)
(* send that fails is a sample of the run; any send may load a model.         *)
Workload ==
  /\ At("workload")
  /\ \/ \E met \in Misses("workload") : Answer("workload", met)
     \/ ocase' = [ocase EXCEPT !.done = Len(Steps["O01"])]
  /\ running' \in {running, TRUE}
  /\ UNCHANGED <<ns, disk, channel, ghost>>

(* Every model is asked to unload; the poll ends stopped or at its deadline,  *)
(* and a refused release is only recorded.                                    *)
Quiesce ==
  /\ At("quiesce") /\ Answer("quiesce", {})
  /\ running' \in {running, FALSE}
  /\ UNCHANGED <<ns, disk, channel, ghost>>

\* Mutant: what still runs is not read.
EndState_blind ==
  /\ At("final_state")
  /\ \/ \E met \in Misses("final_state") : Answer("final_state", met)
     \/ ocase' = [ocase EXCEPT !.status = "crashed"]
  /\ UNCHANGED <<ns, disk, running, channel, ghost>>

(* The lazy mapping reads the end state here; an unreadable one escapes       *)
(* run_o01, and no verdict is recorded.                                       *)
EndState ==
  /\ At("final_state")
  /\ \/ \E met \in Misses("final_state") :
          Answer("final_state", IF running THEN met \ {"stopped"} ELSE met)
     \/ ocase' = [ocase EXCEPT !.status = "crashed"]
  /\ UNCHANGED <<ns, disk, running, channel, ghost>>

---------------------------------------------------------------------------
(* O02: the probe in its private mount namespace.                            *)

DiskChanges ==
  /\ ocase.name = "O02" /\ ocase.status = "open" /\ disk' = ~disk
  /\ UNCHANGED <<ocase, ns, running, channel, ghost>>

(* Without a verified baseline, and when the namespace or the workspace       *)
(* cannot be mounted, the case is unavailable; a dead probe is a failure.     *)
Isolate ==
  /\ At("isolation")
  /\ \/ \E met \in Misses("isolation") :
          IF disk THEN /\ Answer("isolation", met)
                       /\ ns' = [ns EXCEPT !.baseline = TRUE, !.seen = <<disk>>]
                  ELSE Unavailable /\ UNCHANGED ns
     \/ Unavailable /\ UNCHANGED ns
     \/ Fail("isolation") /\ UNCHANGED ns
  /\ UNCHANGED <<disk, running, channel, ghost>>

(* The shadow is an empty directory: no asset verifies under it.              *)
FailModelDisk ==
  /\ At("model_disk")
  /\ \/ /\ ns.baseline
        /\ Answer("model_disk", Required["model_disk"])
        /\ ns' = [ns EXCEPT !.shadow = TRUE]
     \/ Fail("model_disk") /\ UNCHANGED ns
  /\ UNCHANGED <<disk, running, channel, ghost>>

FillScratch ==
  /\ At("scratch")
  /\ \/ Fail("scratch") /\ ns' \in {ns, [ns EXCEPT !.scratch = ns.baseline]}
     \/ /\ ns.baseline
        /\ \E full \in BOOLEAN :
             Answer("scratch", Required["scratch"] \ IF full THEN {} ELSE {"full"})
        /\ ns' = [ns EXCEPT !.scratch = TRUE]
  /\ UNCHANGED <<disk, running, channel, ghost>>

(* Both unmounts, in this order, then the full hash pass.                     *)
RecoverModelDisk ==
  /\ At("recovery")
  /\ \/ /\ Answer("recovery", IF disk THEN Required["recovery"] ELSE {})
        /\ ns' = [ns EXCEPT !.shadow = FALSE, !.scratch = FALSE, !.seen = Append(@, disk)]
     \/ Fail("recovery") /\ ns' \in {ns, [ns EXCEPT !.shadow = FALSE]}
  /\ UNCHANGED <<disk, running, channel, ghost>>

(* disk.close() in run_o_layer's finally: the namespace exits.                *)
CloseProbe ==
  /\ ocase.name = "O02" /\ ocase.status # "open" /\ (ns.shadow \/ ns.scratch)
  /\ ns' = [ns EXCEPT !.shadow = FALSE, !.scratch = FALSE]
  /\ UNCHANGED <<ocase, disk, running, channel, ghost>>

---------------------------------------------------------------------------
(* O03: the Docker channel, the stranger, the stalled stop.                   *)

(* The reads between the stop and the start of the socket are not guarded: an  *)
(* exception there leaves the channel down.  The neighbours are compared with  *)
(* the channel back.                                                          *)
MakeDockerUnreachable ==
  /\ At("docker_unreachable")
  /\ \/ Fail("docker_unreachable") /\ channel' \in {channel, FALSE}
     \/ /\ channel /\ channel' = TRUE
        /\ \E met \in Misses("docker_unreachable") : Answer("docker_unreachable", met)
  /\ UNCHANGED <<ns, disk, running, ghost>>

(* Without a stranger image the step answers "unavailable", which run_o03      *)
(* only looks for in its first step.  The removal's exit code is not read.     *)
PresentUnknownInstance ==
  /\ At("unknown_instance")
  /\ \/ Fail("unknown_instance") /\ ghost' \in IF channel THEN BOOLEAN ELSE {ghost}
     \/ Answer("unknown_instance", {}) /\ UNCHANGED ghost
     \/ /\ channel /\ ghost' \in BOOLEAN
        /\ \E met \in Misses("unknown_instance") : Answer("unknown_instance", met)
  /\ UNCHANGED <<ns, disk, running, channel>>

(* Here the socket is started again in a finally, and a failed start raises.   *)
StallStop ==
  /\ At("stop_timeout")
  /\ \/ Fail("stop_timeout") /\ channel' \in BOOLEAN
     \/ /\ channel' = TRUE
        /\ \E met \in Misses("stop_timeout") : Answer("stop_timeout", met)
  /\ UNCHANGED <<ns, disk, running, ghost>>

---------------------------------------------------------------------------
(* O04-O06: ports the repository only declares (O05's preflight excepted).    *)

(* An unreadable residual list is a failure and an empty list at once.        *)
PortStep ==
  /\ ocase.name \in {"O04", "O05", "O06"}
  /\ \E s \in StepsOf(ocase) :
       /\ At(s)
       /\ \/ \E met \in Misses(s) : Answer(s, met)
          \/ s # "residual" /\ Fail(s)
          \/ s = "residual" /\ ocase' = [ocase EXCEPT !.done = @ + 1, !.failures = @ \cup {s},
                                                      !.facts[s] = Required[s]]
          \/ ocase.done = 0 /\ Unavailable
  /\ UNCHANGED <<ns, disk, running, channel, ghost>>

OpsStep ==
  \/ NotWired \/ Finish
  \/ Workload \/ Quiesce \/ EndState
  \/ Isolate \/ FailModelDisk \/ FillScratch \/ RecoverModelDisk \/ CloseProbe
  \/ MakeDockerUnreachable \/ PresentUnknownInstance \/ StallStop
  \/ PortStep

OpsNext == OpsStep \/ DiskChanges

---------------------------------------------------------------------------

(* A passed case is real.  It was measured: its port was wired, no step       *)
(* raised, and the recomputation from the same facts (recompute_objections)   *)
(* has nothing to object.  And it leaves the machine as it found it: O01 ends *)
(* with no instance running, O02 with its shadow and its scratch unmounted    *)
(* around a disk that verified before and after the fault, O03 with the       *)
(* Docker channel back.                                                       *)
PassedIsReal ==
  ocase.status = "passed" =>
    /\ ocase.wired /\ ocase.failures = {} /\ Objections(ocase) = {}
    /\ CASE ocase.name = "O01" -> ~running
         [] ocase.name = "O02" -> ~ns.shadow /\ ~ns.scratch /\ ns.seen = <<TRUE, TRUE>>
         [] ocase.name = "O03" -> channel
         [] OTHER -> TRUE
=============================================================================
