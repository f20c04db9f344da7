------------------------------ MODULE CaseDriver ------------------------------
(***************************************************************************)
(* The backend case matrix of one model: CaseExecutor (backend_cases.py)   *)
(* over ControlApiCaseDriver (acceptance/driver.py), against a deployment   *)
(* that closes, blocks and expires sessions on its own and whose answers    *)
(* may be lost.                                                            *)
(*                                                                         *)
(* Sessions of the deployment are numbered in the order of their creation;  *)
(* the model is exclusive, so one becomes active only when all earlier ones *)
(* are closed.  An execution belongs to the session that submitted it.      *)
(***************************************************************************)
EXTENDS Naturals, Sequences

CONSTANTS Matrix       \* the kinds of the cases, in the order of run_model

ASSUME DrvConstants == Matrix \in Seq({"load", "reload", "stop", "infer", "cancel"})

VARIABLES sessions,    \* state of each session of the deployment
          exec,        \* state of the last execution
          openSession, \* driver._sessions: the session, 0 for none
          stopProven,  \* driver._stop_proven
          at,          \* what the executor does next in the current case
          log          \* the attempts recorded so far

drvVars == <<sessions, exec, openSession, stopProven, at, log>>
deployment == <<sessions, exec>>

Kind == Matrix[Len(log) + 1]
InCase == Len(log) < Len(Matrix)
Terminal == {"succeeded", "cancelled", "failed"}

DrvInit ==
  /\ sessions = <<>> /\ exec = "none" /\ openSession = 0 /\ stopProven = FALSE
  /\ at = "begin" /\ log = <<>>

---------------------------------------------------------------------------
(* The deployment. *)

(* A session that ends takes its running execution with it.                  *)
CutShort(e) == IF e = "running" THEN "cancelled" ELSE e

SessionActivates(s) ==
  /\ sessions[s] = "waiting" /\ \A t \in 1..(s - 1) : sessions[t] = "closed"
  /\ sessions' = [sessions EXCEPT ![s] = "active"]
  /\ UNCHANGED <<exec, openSession, stopProven, at, log>>

(* Preparation fails, the session expires, or a blocked one is reconciled.    *)
SessionEnds(s) ==
  /\ \E state \in {"closed", "blocked"} :
       /\ sessions[s] # "closed" /\ state # sessions[s]
       /\ sessions' = [sessions EXCEPT ![s] = state]
  /\ exec' = IF sessions[s] = "active" THEN CutShort(exec) ELSE exec
  /\ UNCHANGED <<openSession, stopProven, at, log>>

ExecutionEnds ==
  /\ exec = "running" /\ exec' \in {"succeeded", "failed"}
  /\ UNCHANGED <<sessions, openSession, stopProven, at, log>>

(* What a close request makes of a session: closed once the stop is proven.   *)
Closings(s) ==
  {[sessions EXCEPT ![s] = state] : state \in IF sessions[s] = "active" THEN {"closed", "blocked"}
                                            ELSE IF sessions[s] = "waiting" THEN {"closed"}
                                            ELSE {sessions[s]}}

---------------------------------------------------------------------------
(* The executor. *)

Goto(next) == at' = next /\ UNCHANGED log

Record(status, s) ==
  log' = Append(log, [kind |-> Kind, status |-> status, session |-> s]) /\ at' = "begin"

(* _attempt: a raised error is cleaned up and recorded as failed.             *)
Raise == Goto("cleanup")

(* The first step of a case.  load closes what is open, reload and stop rely   *)
(* on the last proof when nothing is, and the others need an open session.     *)
BeginCase ==
  /\ InCase /\ at = "begin"
  /\ CASE Kind = "load" -> Goto(IF openSession = 0 THEN "create" ELSE "close")
       [] Kind \in {"reload", "stop"} /\ openSession # 0 -> Goto("close")
       [] Kind = "reload" /\ openSession = 0 -> Goto(IF stopProven THEN "create" ELSE "cleanup")
       [] Kind = "stop" /\ openSession = 0 -> Record(IF stopProven THEN "passed" ELSE "unknown", 0)
       [] Kind \in {"infer", "cancel"} -> Goto(IF openSession = 0 THEN "cleanup" ELSE "submit")
  /\ UNCHANGED <<deployment, openSession, stopProven>>

(* _stop: the answer is the proof; without an answer the session stays known.  *)
CloseSession ==
  /\ at = "close"
  /\ \/ sessions' \in Closings(openSession) \cup {sessions} /\ Raise
        /\ UNCHANGED <<openSession, stopProven>>
     \/ /\ sessions' \in Closings(openSession)
        /\ openSession' = 0
        /\ stopProven' = (sessions'[openSession] = "closed")
        /\ CASE Kind = "load" -> Goto("create")
             [] Kind = "reload" -> Goto(IF stopProven' THEN "create" ELSE "cleanup")
             [] Kind = "stop" -> Record(IF stopProven' THEN "passed" ELSE "unknown", openSession)
  /\ exec' = IF sessions' = sessions THEN exec ELSE CutShort(exec)

(* POST /internal/sessions: refused, done without the answer arriving, or done. *)
CreateSession ==
  /\ at = "create"
  /\ \/ sessions' \in {sessions, Append(sessions, "waiting")} /\ Raise /\ UNCHANGED openSession
     \/ sessions' = Append(sessions, "waiting") /\ Goto("await") /\ openSession' = Len(sessions')
  /\ UNCHANGED <<exec, stopProven>>

(* _await_active: active, ended, or not active in time; a load whose instance   *)
(* was not observed is unknown.                                                *)
AwaitActive ==
  /\ at = "await"
  /\ \/ /\ sessions[openSession] = "active"
        /\ \E status \in {"passed", "unknown"} : Record(status, openSession)
     \/ Raise
  /\ UNCHANGED <<deployment, openSession, stopProven>>

(* start: only an active session may submit.                                   *)
Submit ==
  /\ at = "submit"
  /\ \/ /\ sessions[openSession] = "active" /\ exec' = "running"
        /\ Goto(IF Kind = "cancel" THEN "cancel" ELSE "poll")
     \/ exec' \in {exec} \cup (IF sessions[openSession] = "active" THEN {"running"} ELSE {}) /\ Raise
  /\ UNCHANGED <<sessions, openSession, stopProven>>

(* _execute_view, the output blob and the judgement of the attempt.            *)
PollExecution ==
  /\ at = "poll"
  /\ \/ /\ exec \in Terminal
        /\ \E status \in IF exec = "succeeded" THEN {"passed", "failed", "unknown"}
                         ELSE {"failed", "unknown"} : Record(status, openSession)
     \/ Raise
  /\ UNCHANGED <<deployment, openSession, stopProven>>

CancelExecution ==
  /\ at = "cancel"
  /\ \/ exec' \in {exec, CutShort(exec)} /\ Goto("cancelled")
     \/ exec' \in {exec, CutShort(exec)} /\ Raise
  /\ UNCHANGED <<sessions, openSession, stopProven>>

(* _cancel: cancelled is what the execution ended as, not what was asked.       *)
PollCancelled ==
  /\ at = "cancelled"
  /\ \/ exec = "cancelled" /\ Record("passed", openSession)
     \/ exec # "cancelled" /\ Record("unknown", openSession)
     \/ Raise
  /\ UNCHANGED <<deployment, openSession, stopProven>>

\* Mutant: a failed attempt keeps its session.
Cleanup_keeps ==
  /\ at = "cleanup"
  /\ Record("failed", openSession)
  /\ UNCHANGED <<sessions, exec, openSession, stopProven>>

(* cleanup: the session is forgotten before the close is asked for.             *)
Cleanup ==
  /\ at = "cleanup"
  /\ sessions' \in IF openSession = 0 THEN {sessions} ELSE Closings(openSession) \cup {sessions}
  /\ exec' = IF sessions' = sessions THEN exec ELSE CutShort(exec)
  /\ openSession' = 0
  /\ Record("failed", openSession)
  /\ UNCHANGED stopProven

DrvStep ==
  \/ BeginCase \/ CloseSession \/ CreateSession \/ AwaitActive \/ Submit
  \/ PollExecution \/ CancelExecution \/ PollCancelled \/ Cleanup

DrvNext ==
  \/ DrvStep
  \/ InCase /\ ExecutionEnds
  \/ InCase /\ \E s \in 1..Len(sessions) : SessionActivates(s) \/ SessionEnds(s)

(* Every request has a timeout, every poll a deadline: the executor goes on. *)
DrvFair == WF_drvVars(DrvStep)
DrvSpec == DrvInit /\ [][DrvNext]_drvVars /\ DrvFair

---------------------------------------------------------------------------
(* Properties *)

(* A case passes only on a session whose own load ended with the model usable:  *)
(* the load or reload that created it did not fail, and no attempt forgot it    *)
(* in between (_await_active: a load that returns early would be a false pass;  *)
(* cleanup: what failed by an error is closed, never worked on).                *)
LoadedBeforeUse ==
  \A i \in DOMAIN log : log[i].kind \in {"infer", "cancel"} /\ log[i].status = "passed" =>
    \E j \in 1..(i - 1) : /\ log[j].kind \in {"load", "reload"}
                          /\ log[j].session = log[i].session
                          /\ log[j].status # "failed"
                          /\ \A k \in j..(i - 1) : log[k].session = log[i].session

(* A matrix that began ends with one recorded attempt per case, whatever the    *)
(* deployment does and whichever answers are lost (run_model).                  *)
MatrixEnds == at # "begin" ~> Len(log) = Len(Matrix)
=============================================================================
