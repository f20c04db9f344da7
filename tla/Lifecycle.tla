------------------------------ MODULE Lifecycle ------------------------------
(***************************************************************************)
(* Loading and stopping one model for real: ManagedLifecycle and the       *)
(* shipped LlamaSwapBackend (backend_control.py) over the llama.cpp adapter *)
(* (adapters/llama_cpp.py), the llama-swap client and the two process      *)
(* observers (process_observer.py).                                        *)
(*                                                                         *)
(* The book runs one operation of a model at a time and loads only what it *)
(* holds for unloaded.  An instance is a launch: the launcher process that *)
(* llama-swap spawned, then the container of that launcher, then nothing.  *)
(* The container name is unique, so at most one container exists.          *)
(***************************************************************************)
EXTENDS Naturals, FiniteSets

CONSTANTS Instances    \* launches, each used once

VARIABLES backend,     \* "managed" or "legacy": which class the process runs
          supervised,  \* the observer is given launch operations (launch_lookup)
          book,        \* what the scheduler holds of the model
          task,        \* the load or stop call in progress
          identity,    \* ManagedLifecycle._instances
          launched,    \* the launch recorded last
          inst         \* the world: launching, starting (no port yet), serving, gone

lcVars == <<backend, supervised, book, task, identity, launched, inst>>

Nobody == "nobody"
ASSUME LcConstants == Nobody \notin Instances

NoTask == [kind |-> "none", at |-> "none", port |-> "unknown", late |-> FALSE]
Live(i) == inst[i] \in {"launching", "starting", "serving"}
Running == {i \in Instances : inst[i] \in {"starting", "serving"}}
PortState == IF \E i \in Instances : inst[i] = "serving" THEN "listening" ELSE "closed"

LcInit ==
  /\ backend \in {"managed", "legacy"} /\ supervised \in BOOLEAN
  /\ book = "unloaded" /\ task = NoTask /\ identity = Nobody /\ launched = Nobody
  /\ inst = [i \in Instances |-> "unused"]

---------------------------------------------------------------------------
(* The world: llama-swap, the launcher, docker.                             *)

(* model-runner start: identity, storage and digest verified, docker run.    *)
LauncherRuns(i) ==
  /\ inst[i] = "launching" /\ Running = {}
  /\ inst' = [inst EXCEPT ![i] = "starting"]
  /\ UNCHANGED <<backend, supervised, book, task, identity, launched>>

ServerListens(i) ==
  /\ inst[i] = "starting"
  /\ inst' = [inst EXCEPT ![i] = "serving"]
  /\ UNCHANGED <<backend, supervised, book, task, identity, launched>>

(* model-runner start ends without a container: a check refuses, docker run *)
(* fails (the name is taken), or a forwarded signal ends it first.          *)
LauncherRefuses(i) ==
  /\ inst[i] = "launching"
  /\ inst' = [inst EXCEPT ![i] = "gone"]
  /\ UNCHANGED <<backend, supervised, book, task, identity, launched>>

(* model-runner stop, which llama-swap runs some time after an unload call:  *)
(* the container under the manifest's name, if it has the identity labels.  *)
RunnerStops(i) ==
  /\ i \in Running /\ book \in {"stopping", "error"}
  /\ inst' = [inst EXCEPT ![i] = "gone"]
  /\ UNCHANGED <<backend, supervised, book, task, identity, launched>>

(* A server crashes, or its container is killed.                            *)
InstanceEnds(i) ==
  /\ i \in Running
  /\ inst' = [inst EXCEPT ![i] = "gone"]
  /\ UNCHANGED <<backend, supervised, book, task, identity, launched>>

---------------------------------------------------------------------------
(* The observers. *)

(* DockerProcessObserver._match: an explicit id or the one running instance. *)
Match(target) == IF target # Nobody THEN Running \cap {target} ELSE Running

\* Mutant: the launcher of the operation is not looked at.
StoppedIsProven_port(matched, port) == matched = {} /\ port = "closed"

(* The recorded launch is terminal: SupervisedLaunch.wait saw its process    *)
(* exit; a timeout proves nothing.                                          *)
LaunchEnded == launched # Nobody => ~Live(launched)

(* ports_v3.stopped_is_proven; a launcher nobody recorded counts as ended.   *)
StoppedIsProven(matched, port) ==
  /\ matched = {}
  /\ supervised => LaunchEnded
  /\ port = "closed"

(* DockerProcessObserver.observe once the facts were listed; port is the     *)
(* earlier sample.                                                          *)
Observed(target, port) ==
  LET matched == Match(target) IN
  IF Cardinality(matched) = 1
  THEN IF port = "listening" THEN "running" ELSE "unknown"
  ELSE IF StoppedIsProven(matched, port) THEN "stopped" ELSE "unknown"

(* ProcessObserver.observe (v1): docker inspect of a container that is gone  *)
(* exits with an error, which the observer takes for docker being away.      *)
LegacyObserved ==
  IF PortState = "listening" THEN "running" ELSE "unknown"

---------------------------------------------------------------------------
(* The two backends. *)

BeginLoad ==
  /\ book = "unloaded" /\ task = NoTask
  /\ book' = "loading"
  /\ task' = [NoTask EXCEPT !.kind = "load", !.at = "control"]
  /\ UNCHANGED <<backend, supervised, identity, launched, inst>>

BeginStop ==
  /\ book \in {"ready", "error"} /\ task = NoTask
  /\ book' = "stopping"
  /\ task' = [NoTask EXCEPT !.kind = "stop", !.at = "control"]
  /\ UNCHANGED <<backend, supervised, identity, launched, inst>>

Return(b) == book' = b /\ task' = NoTask

(* LlamaSwapClient.load reaches llama-swap: a launcher is spawned.           *)
SwapLaunches ==
  /\ task.kind = "load" /\ task.at = "control"
  /\ \E i \in Instances : /\ inst[i] = "unused"
                          /\ inst' = [inst EXCEPT ![i] = "launching"]
                          /\ launched' = i
  /\ task' = [task EXCEPT !.at = "launched"]
  /\ UNCHANGED <<backend, supervised, book, identity>>

(* The request fails, is refused or runs into the deadline: the call ends    *)
(* and llama-swap may go on with the launch.                                *)
LoadFails ==
  /\ task.kind = "load" /\ task.at \in {"control", "launched"}
  /\ Return("error")
  /\ UNCHANGED <<backend, supervised, identity, launched, inst>>

(* LlamaCppAdapter.load: llama-swap lists the model and its health is ok.    *)
LoadAnswered ==
  /\ task.at = "launched" /\ PortState = "listening"
  /\ task' = [task EXCEPT !.at = "port"]
  /\ UNCHANGED <<backend, supervised, book, identity, launched, inst>>

(* adapter.stop, or release by name when no identity is held; what unload    *)
(* answers, or that it failed, changes nothing.                             *)
ControlUnload ==
  /\ task.kind = "stop" /\ task.at = "control"
  /\ task' = [task EXCEPT !.at = "port"]
  /\ UNCHANGED <<backend, supervised, book, identity, launched, inst>>

(* The deadline of the call, or the verification window of a load, is over.  *)
(* The control call does not look at it and may return after it.            *)
DeadlinePasses ==
  /\ task # NoTask /\ ~task.late
  /\ task' = [task EXCEPT !.late = TRUE]
  /\ UNCHANGED <<backend, supervised, book, identity, launched, inst>>

(* observe: nothing is sampled past the deadline, and the port comes first.  *)
SamplePort ==
  /\ task.at = "port" /\ backend = "managed"
  /\ \E port \in {PortState} \cup (IF task.late THEN {"unknown"} ELSE {}) :
       task' = [task EXCEPT !.at = "facts", !.port = port]
  /\ UNCHANGED <<backend, supervised, book, identity, launched, inst>>

(* No verdict: sample again until the window or the deadline is over.        *)
NoVerdict ==
  /\ UNCHANGED identity
  /\ \/ task.late /\ Return("error")
     \/ ~task.late /\ task' = [task EXCEPT !.at = "port"] /\ UNCHANGED book

(* ManagedLifecycle.load after its last sample; no identity is held yet.     *)
VerifyRunning(seen) ==
  /\ task.kind = "load"
  /\ \/ seen = "running" /\ Return("ready") /\ identity' \in Match(identity)
     \/ seen = "stopped" /\ Return("error") /\ UNCHANGED identity
     \/ seen = "unknown" /\ NoVerdict

(* ManagedLifecycle.stop and _poll_stopped.                                 *)
PollStopped(seen) ==
  /\ task.kind = "stop"
  /\ \/ seen = "stopped" /\ Return("unloaded") /\ identity' = Nobody
     \/ seen = "running" /\ Return("error") /\ UNCHANGED identity
     \/ seen = "unknown" /\ NoVerdict

(* The container facts of the sample arrive; docker may fail to list them.   *)
SampleFacts ==
  /\ task.at = "facts"
  /\ \E seen \in {"unknown", Observed(identity, task.port)} :
       VerifyRunning(seen) \/ PollStopped(seen)
  /\ UNCHANGED <<backend, supervised, launched, inst>>

(* LlamaSwapBackend._control_then_observe: one look after the control call.  *)
LegacyObserve ==
  /\ task.at = "port" /\ backend = "legacy"
  /\ \E seen \in {"unknown", LegacyObserved} :
       Return(CASE task.kind = "load" /\ seen = "running" -> "ready"
                [] task.kind = "stop" /\ seen = "stopped" -> "unloaded"
                [] OTHER -> "error")
  /\ UNCHANGED <<backend, supervised, identity, launched, inst>>

LcStep == \/ SwapLaunches \/ LoadFails \/ LoadAnswered \/ ControlUnload
          \/ SamplePort \/ SampleFacts \/ LegacyObserve
LcNext == \/ BeginLoad \/ BeginStop \/ LcStep \/ DeadlinePasses
          \/ \E i \in Instances : \/ LauncherRuns(i) \/ LauncherRefuses(i) \/ ServerListens(i)
                                   \/ RunnerStops(i) \/ InstanceEnds(i)

(* Every await of a call is bounded by a timeout or by the poll interval.    *)
LcFair == WF_lcVars(LcStep) /\ WF_lcVars(DeadlinePasses)
LcSpec == LcInit /\ [][LcNext]_lcVars /\ LcFair

---------------------------------------------------------------------------
(* Properties *)

(* A later observation must not report STOPPED while the launcher is still  *)
(* running (LaunchOperation): where launches are recorded, what the book    *)
(* holds for unloaded stays unloaded until it asks for a load, also when    *)
(* the load before it had failed halfway.                                   *)
UnloadedStaysUnloaded ==
  supervised /\ book = "unloaded" => \A i \in Instances : ~Live(i)

(* Every load and every stop returns, whatever docker and llama-swap do: the  *)
(* scheduler's round waits for it (ManagedLifecycle.load and stop).           *)
TaskReturns == task # NoTask ~> task = NoTask
=============================================================================
