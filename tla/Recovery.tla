------------------------------ MODULE Recovery -------------------------------
(***************************************************************************)
(* Starting the scheduler process and recovering the control plane.        *)
(* run.py: the single-instance lock, startup reconciliation of the managed  *)
(* (schema 2) process, serving, shutdown; control_recovery.py: the client   *)
(* of the root helper and DeploymentRecovery; recovery_helper.py and        *)
(* deploy/control-recover.py: the root helper itself.                       *)
(*                                                                         *)
(* Processes crash and are started again, docker fails at any call, a       *)
(* helper outlives the process that called it.  A container of Ours carries *)
(* the deployment label of this site; there is one container per model.     *)
(***************************************************************************)
EXTENDS Naturals, FiniteSets

CONSTANTS Procs,      \* scheduler processes, each may be started again
          Ours,       \* the containers of this deployment, one per model
          Foreign,    \* other containers on the host
          Helpers     \* runs of the root helper, each used again

VARIABLES schema,     \* 1: shipped llama-swap process, 2: managed process
          sound,      \* docker inspect answers what is there (v1 helper)
          proc,       \* each scheduler process: where it is, what it proved
          lock,       \* holders of scheduler.lock
          cont,       \* absent, exited, starting (no port), serving
          owner,      \* history: the v2 process whose load started the container
          swap,       \* llama-swap.service is active
          helper      \* each helper run: stage, models still to stop

recVars == <<schema, sound, proc, lock, cont, owner, swap, helper>>
siteVars == <<schema, sound>>

Nil == "nil"
Down == [at |-> "down", todo |-> {}, left |-> {}, stopped |-> {}, helper |-> Nil]
NoRun == [at |-> "none", todo |-> {}, answer |-> "none"]
Alive(c) == cont[c] \in {"starting", "serving"}

RecInit ==
  /\ schema \in {1, 2} /\ sound \in BOOLEAN /\ (schema = 2 => sound)
  /\ proc = [p \in Procs |-> Down] /\ lock = {}
  /\ cont \in [Ours \cup Foreign -> {"absent", "serving"}]
  /\ owner = [c \in Ours \cup Foreign |-> Nil]
  /\ swap = TRUE /\ helper = [h \in Helpers |-> NoRun]

Set(p, stage) == proc' = [proc EXCEPT ![p].at = stage]

(* Leaving main, by an exit code, an exception or a kill, frees the lock.    *)
Exit(p) == proc' = [proc EXCEPT ![p] = Down] /\ lock' = lock \ {p}

---------------------------------------------------------------------------
(* The process: run.main, instance_lock.acquire, serve_v2.                  *)

\* Mutant: a lock file that exists is taken over.
LockFree_stale == TRUE

(* flock on scheduler.lock, without waiting.                                 *)
LockFree == lock = {}

(* acquire: a second process finds the lock taken and exits with 73.  A v1   *)
(* process then bootstraps every model as stopped and serves; a v2 process   *)
(* closes admission (begin_recovery) and reconciles.                         *)
StartProcess(p) ==
  /\ proc[p].at = "down" /\ LockFree
  /\ lock' = lock \cup {p}
  /\ Set(p, IF schema = 2 THEN "list" ELSE "serving")
  /\ UNCHANGED <<siteVars, cont, owner, swap, helper>>

(* list_container_ids filters by the deployment label; a failed listing or   *)
(* a passed deadline ends the startup with exit code 78.                     *)
ListContainers(p) ==
  /\ proc[p].at = "list"
  /\ \/ /\ proc' = [proc EXCEPT ![p].at = "stop",
                                ![p].todo = {c \in Ours : cont[c] # "absent"}]
        /\ UNCHANGED lock
     \/ Exit(p)
  /\ UNCHANGED <<siteVars, cont, owner, swap, helper>>

(* _verified_stop: what docker answered about one listed container.          *)
VerifiedStop(p, c) ==
  /\ proc[p].at = "stop" /\ c \in proc[p].todo
  /\ \E outcome \in {"proven", "refused"} :
       /\ cont' = [cont EXCEPT ![c] = IF outcome = "proven" /\ Alive(c) THEN "exited" ELSE @]
       /\ proc' = [proc EXCEPT ![p].todo = @ \ {c},
                               ![p].left = IF outcome = "proven" THEN @ ELSE @ \cup {c}]
  /\ UNCHANGED <<siteVars, lock, owner, swap, helper>>

(* docker stop was issued and its outcome is not known: the call timed out   *)
(* or failed, or the inspection after it did.                                *)
StopUnproven(p, c) ==
  /\ proc[p].at = "stop" /\ c \in proc[p].todo /\ Alive(c)
  /\ cont' = [cont EXCEPT ![c] = "exited"]
  /\ proc' = [proc EXCEPT ![p].todo = @ \ {c}, ![p].left = @ \cup {c}]
  /\ UNCHANGED <<siteVars, lock, owner, swap, helper>>

(* reconcile_startup then observes every model, one observer after another,  *)
(* whatever the cleanup returned.                                            *)
ObserveModel(p, c) ==
  /\ proc[p].at = "stop" /\ proc[p].todo = {} /\ c \in Ours \ proc[p].stopped
  /\ \/ /\ ~Alive(c) /\ proc' = [proc EXCEPT ![p].stopped = @ \cup {c}] /\ UNCHANGED lock
     \/ Exit(p)        \* not proven stopped: the startup will be refused
  /\ UNCHANGED <<siteVars, cont, owner, swap, helper>>

(* finish_recovery needs the cleanup to be complete and every model proven;  *)
(* then blob recovery, the control entry and the TCP entry.                  *)
FinishReconcile(p) ==
  /\ proc[p].at = "stop" /\ proc[p].todo = {} /\ proc[p].stopped = Ours
  /\ IF proc[p].left = {} THEN Set(p, "serving") /\ UNCHANGED lock ELSE Exit(p)
  /\ UNCHANGED <<siteVars, cont, owner, swap, helper>>

(* A serving process loads a model through llama-swap.                       *)
LoadModel(p, c) ==
  /\ proc[p].at = "serving" /\ swap /\ cont[c] \in {"absent", "exited"}
  /\ cont' = [cont EXCEPT ![c] = "starting"]
  /\ owner' = IF schema = 2 THEN [owner EXCEPT ![c] = p] ELSE owner
  /\ UNCHANGED <<siteVars, proc, lock, swap, helper>>

(* Shutdown stops what it can prove and exits; a crash stops nothing.        *)
Shutdown(p) ==
  /\ proc[p].at = "serving"
  /\ \E S \in SUBSET Ours :
       cont' = [c \in DOMAIN cont |-> IF c \in S /\ Alive(c) THEN "exited" ELSE cont[c]]
  /\ Exit(p)
  /\ UNCHANGED <<siteVars, owner, swap, helper>>

CrashProcess(p) ==
  /\ proc[p].at # "down" /\ Exit(p)
  /\ UNCHANGED <<siteVars, cont, owner, swap, helper>>

(* The containers live on: they finish starting, and they end.               *)
ContainerListens(c) ==
  /\ cont[c] = "starting" /\ cont' = [cont EXCEPT ![c] = "serving"]
  /\ UNCHANGED <<siteVars, proc, lock, owner, swap, helper>>

ContainerEnds(c) ==
  /\ Alive(c) /\ cont' = [cont EXCEPT ![c] = "exited"]
  /\ UNCHANGED <<siteVars, proc, lock, owner, swap, helper>>

---------------------------------------------------------------------------
(* The v1 recovery: Scheduler.recover, ControlRecoveryClient, the helper.    *)

(* The helper's own lock file is taken.                                      *)
HelperBusy == \E h \in Helpers : helper[h].at \notin {"none", "answered"}

(* recover finds no lease, closes admission and runs the helper under sudo;  *)
(* a helper that finds the lock taken answers already_running.               *)
BeginRecover(p, h) ==
  /\ schema = 1 /\ proc[p].at = "serving" /\ helper[h].at = "none"
  /\ proc' = [proc EXCEPT ![p].at = "recovering", ![p].helper = h]
  /\ helper' = [helper EXCEPT ![h] =
       IF HelperBusy THEN [@ EXCEPT !.at = "answered", !.answer = "busy"]
                     ELSE [@ EXCEPT !.at = "stopswap", !.todo = Ours]]
  /\ UNCHANGED <<siteVars, lock, cont, owner, swap>>

(* Any failing command, label mismatch or open port ends the helper: nothing *)
(* it did before is undone.                                                  *)
Fails(h) == helper' = [helper EXCEPT ![h].at = "answered", ![h].answer = "failed"]

\* Mutant: a failing stop of llama-swap is not looked at.
StopSwap_unchecked(h) ==
  /\ helper[h].at = "stopswap"
  /\ swap' \in {swap, FALSE} /\ helper' = [helper EXCEPT ![h].at = "models"]
  /\ UNCHANGED <<siteVars, proc, lock, cont, owner>>

StopSwap(h) ==
  /\ helper[h].at = "stopswap"
  /\ \/ swap' = FALSE /\ helper' = [helper EXCEPT ![h].at = "models"]
     \/ Fails(h) /\ swap' \in {swap, FALSE}
  /\ UNCHANGED <<siteVars, proc, lock, cont, owner>>

(* _inspect: a docker error is taken for an absent container.                *)
Inspected(c) == {Alive(c)} \cup (IF sound THEN {} ELSE {FALSE})

HelperStops(h, c) ==
  /\ helper[h].at = "models" /\ c \in helper[h].todo
  /\ \E seen \in Inspected(c) :
       \/ /\ cont' = [cont EXCEPT ![c] = IF seen THEN "exited" ELSE @]
          /\ ~seen => cont[c] # "serving"
          /\ helper' = [helper EXCEPT ![h].todo = @ \ {c}]
       \/ Fails(h) /\ cont' \in {cont, [cont EXCEPT ![c] = IF seen THEN "exited" ELSE @]}
  /\ UNCHANGED <<siteVars, proc, lock, owner, swap>>

StartSwap(h) ==
  /\ helper[h].at = "models" /\ helper[h].todo = {}
  /\ \/ /\ swap' = TRUE
        /\ helper' = [helper EXCEPT ![h].at = "answered", ![h].answer = "ok"]
     \/ Fails(h) /\ swap' \in {swap, TRUE}
  /\ UNCHANGED <<siteVars, proc, lock, cont, owner>>

(* The answer reaches the client: finish_recovery on a complete result, and  *)
(* otherwise the book stays recovering, for good.                            *)
RecoverEnds(p) ==
  /\ proc[p].at = "recovering" /\ helper[proc[p].helper].at = "answered"
  /\ proc' = [proc EXCEPT ![p].helper = Nil,
       ![p].at = IF helper[proc[p].helper].answer = "ok" THEN "serving" ELSE "closed"]
  /\ helper' = [helper EXCEPT ![proc[p].helper] = NoRun]
  /\ UNCHANGED <<siteVars, lock, cont, owner, swap>>

(* The deadline passes first: the client kills the sudo process it started.  *)
(* That may or may not end the root helper.                                  *)
RecoverTimesOut(p) ==
  /\ proc[p].at = "recovering"
  /\ proc' = [proc EXCEPT ![p].at = "closed", ![p].helper = Nil]
  /\ helper' \in {helper, [helper EXCEPT ![proc[p].helper] = NoRun]}
  /\ UNCHANGED <<siteVars, lock, cont, owner, swap>>

(* A helper nobody waits for any more exits.                                 *)
HelperForgotten(h) ==
  /\ helper[h].at = "answered" /\ \A p \in Procs : proc[p].helper # h
  /\ helper' = [helper EXCEPT ![h] = NoRun]
  /\ UNCHANGED <<siteVars, proc, lock, cont, owner, swap>>

ProcStep(p) ==
  \/ StartProcess(p) \/ ListContainers(p) \/ FinishReconcile(p) \/ Shutdown(p)
  \/ CrashProcess(p) \/ RecoverEnds(p) \/ RecoverTimesOut(p)
  \/ \E c \in DOMAIN cont : VerifiedStop(p, c) \/ StopUnproven(p, c)
  \/ \E c \in Ours : ObserveModel(p, c) \/ LoadModel(p, c)
  \/ \E h \in Helpers : BeginRecover(p, h)
HelperStep(h) == \/ StopSwap(h) \/ StartSwap(h) \/ HelperForgotten(h)
                 \/ \E c \in Ours : HelperStops(h, c)
RecNext == \/ \E p \in Procs : ProcStep(p)
           \/ \E h \in Helpers : HelperStep(h)
           \/ \E c \in Ours \cup Foreign : ContainerListens(c) \/ ContainerEnds(c)

RecSpec == RecInit /\ [][RecNext]_recVars

---------------------------------------------------------------------------
(* Properties *)

(* A managed process that serves accounts for every container of its         *)
(* deployment: whatever runs was started by it and not by a process before   *)
(* it (reconcile_startup, the instance lock).                                *)
OwnContainersOnly ==
  schema = 2 => \A p \in Procs, c \in Ours :
    proc[p].at = "serving" /\ Alive(c) => owner[c] = p

(* The helper reports success only while every container of the deployment   *)
(* is stopped, and nothing can start one before llama-swap is back, also     *)
(* when an earlier helper outlived its caller (LOCK in control-recover).     *)
OkMeansStopped ==
  [][\A h \in Helpers :
       sound /\ helper[h].answer # "ok" /\ helper'[h].answer = "ok" =>
         ~swap /\ \A c \in Ours : ~Alive(c)]_recVars

=============================================================================
