--------------------------- MODULE RecoveryProofs ---------------------------
(***************************************************************************)
(* Proofs about Recovery: a managed process that serves owns what runs,    *)
(* and the root helper reports success only over a stopped deployment.     *)
(***************************************************************************)
EXTENDS Recovery, TLAPS

Stages == {"down", "list", "stop", "serving", "recovering", "closed"}

Process == [at : Stages, todo : SUBSET Ours, left : SUBSET Ours, stopped : SUBSET Ours,
            helper : Helpers \cup {Nil}]
HelperRun == [at : {"none", "stopswap", "models", "answered"}, todo : SUBSET Ours,
              answer : {"none", "busy", "failed", "ok"}]

RecTypeOK ==
  /\ schema \in {1, 2} /\ sound \in BOOLEAN /\ swap \in BOOLEAN
  /\ proc \in [Procs -> Process] /\ helper \in [Helpers -> HelperRun]
  /\ lock \subseteq Procs
  /\ cont \in [Ours \cup Foreign -> {"absent", "exited", "starting", "serving"}]
  /\ owner \in [Ours \cup Foreign -> Procs \cup {Nil}]

\* scheduler.lock: whoever is past acquire holds it, and holds it alone.
LockInv ==
  /\ \A p \in Procs : proc[p].at # "down" => p \in lock
  /\ \A p, q \in lock : p = q

\* The two wirings: helpers belong to the shipped process, reconciliation to
\* the managed one; a recovering process waits for a helper.
WiringInv ==
  /\ schema = 2 => \A h \in Helpers : helper[h].at = "none"
  /\ \A p \in Procs : /\ proc[p].at \in {"list", "stop"} => schema = 2
                      /\ proc[p].at \in {"recovering", "closed"} => schema = 1
                      /\ proc[p].at = "recovering" => proc[p].helper \in Helpers

\* What a starting process has proven stopped stays stopped: nobody serves
\* meanwhile, so nobody loads.
ReconcileInv ==
  \A p \in Procs :
    /\ proc[p].at \in {"down", "list"} => proc[p].stopped = {}
    /\ proc[p].at = "stop" => \A c \in proc[p].stopped : ~Alive(c)

Busy(h) == helper[h].at \in {"stopswap", "models"}

\* The helper's own lock, and what the one running helper has achieved.
HelperInv ==
  /\ \A g, h \in Helpers : Busy(g) /\ Busy(h) => g = h
  /\ \A h \in Helpers : helper[h].at = "models" =>
       /\ ~swap
       /\ sound => \A c \in Ours \ helper[h].todo : ~Alive(c)
  /\ \A h \in Helpers : /\ helper[h].at = "stopswap" => helper[h].todo = Ours
                        /\ helper[h].answer # "none" => helper[h].at = "answered"

RecInv == RecTypeOK /\ LockInv /\ WiringInv /\ ReconcileInv /\ OwnContainersOnly /\ HelperInv

\* A fresh host satisfies the invariant.
LEMMA RecInitInv == RecInit => RecInv
<1> SUFFICES ASSUME RecInit PROVE RecInv
  OBVIOUS
<1> USE DEF RecInit, Down, NoRun, Nil
<1>1. RecTypeOK
  BY DEF RecTypeOK, Process, HelperRun, Stages
<1>2. LockInv /\ WiringInv /\ ReconcileInv /\ OwnContainersOnly
  BY DEF LockInv, WiringInv, ReconcileInv, OwnContainersOnly
<1>3. HelperInv
  BY DEF HelperInv, Busy
<1> QED BY <1>1, <1>2, <1>3 DEF RecInv

\* What the steps write into the table of processes.
LEMMA ProcessUpdate ==
  ASSUME NEW f \in [Procs -> Process], NEW p \in Procs
  PROVE  /\ \A T, L \in SUBSET Ours :
              [f EXCEPT ![p].todo = T, ![p].left = L] \in [Procs -> Process]
         /\ \A a \in Stages, k \in Helpers \cup {Nil} :
              /\ [f EXCEPT ![p].at = a, ![p].helper = k] \in [Procs -> Process]
              /\ [f EXCEPT ![p].helper = k, ![p].at = a] \in [Procs -> Process]
<1>1. ASSUME NEW T \in SUBSET Ours, NEW L \in SUBSET Ours
      PROVE  [f EXCEPT ![p].todo = T, ![p].left = L] \in [Procs -> Process]
  BY DEF Process
<1>2. ASSUME NEW a \in Stages, NEW k \in Helpers \cup {Nil}
      PROVE  /\ [f EXCEPT ![p].at = a, ![p].helper = k] \in [Procs -> Process]
             /\ [f EXCEPT ![p].helper = k, ![p].at = a] \in [Procs -> Process]
  BY DEF Process
<1> QED BY <1>1, <1>2

\* A helper answers: it is done, and the other helpers are as they were.
LEMMA HelperAnswers ==
  ASSUME NEW f \in [Helpers -> HelperRun], NEW h \in Helpers, NEW g,
         NEW a \in {"failed", "ok"},
         g = [f EXCEPT ![h].at = "answered", ![h].answer = a]
  PROVE  /\ g \in [Helpers -> HelperRun]
         /\ g[h].at = "answered" /\ g[h].answer = a /\ g[h].todo = f[h].todo
         /\ \A k \in Helpers : k # h => g[k] = f[k]
BY DEF HelperRun

\* Every step keeps the state well typed.
LEMMA TypeStep == RecTypeOK /\ [RecNext]_recVars => RecTypeOK'
<1> SUFFICES ASSUME RecTypeOK, [RecNext]_recVars PROVE RecTypeOK'
  OBVIOUS
<1>1. swap \in BOOLEAN
  BY DEF RecTypeOK
<1>2. proc \in [Procs -> Process]
  BY DEF RecTypeOK
<1>3. helper \in [Helpers -> HelperRun]
  BY DEF RecTypeOK
<1>4. lock \subseteq Procs
  BY DEF RecTypeOK
<1>5. cont \in [Ours \cup Foreign -> {"absent", "exited", "starting", "serving"}]
  BY DEF RecTypeOK
<1>6. owner \in [Ours \cup Foreign -> Procs \cup {Nil}]
  BY DEF RecTypeOK
<1>7. ASSUME NEW p \in Procs, StartProcess(p) PROVE RecTypeOK'
  <2>1. (proc \in [Procs -> Process])'
    BY <1>7, <1>2 DEF StartProcess, siteVars, Set, LockFree, Process, Stages, Down, Nil
  <2>2. (lock \subseteq Procs)'
    BY <1>7, <1>4 DEF StartProcess, siteVars, Set, LockFree
  <2> QED BY <1>7, <2>1, <2>2 DEF RecTypeOK, StartProcess, siteVars, Set, LockFree
<1>8. ASSUME NEW p \in Procs, ListContainers(p) PROVE RecTypeOK'
  <2>1. (proc \in [Procs -> Process])'
    BY <1>8, <1>2 DEF ListContainers, siteVars, Exit, Process, Stages, Down, Nil
  <2>2. (lock \subseteq Procs)'
    BY <1>8, <1>4 DEF ListContainers, siteVars, Exit
  <2> QED BY <1>8, <2>1, <2>2 DEF RecTypeOK, ListContainers, siteVars, Exit
<1>9. ASSUME NEW p \in Procs, NEW c \in DOMAIN cont, VerifiedStop(p, c) PROVE RecTypeOK'
  <2>1. c \in Ours /\ proc[p].todo \ {c} \in SUBSET Ours
        /\ proc[p].left \in SUBSET Ours /\ proc[p].left \cup {c} \in SUBSET Ours
    BY <1>9, <1>2 DEF VerifiedStop, Process
  <2>2. (cont \in [Ours \cup Foreign -> {"absent", "exited", "starting", "serving"}])'
    BY <1>9, <1>5 DEF VerifiedStop, siteVars
  <2>3. PICK T, L \in SUBSET Ours : proc' = [proc EXCEPT ![p].todo = T, ![p].left = L]
    BY <1>9, <2>1 DEF VerifiedStop
  <2>4. (proc \in [Procs -> Process])'
    BY <1>2, <2>3, ProcessUpdate
  <2> QED BY <1>9, <2>2, <2>4 DEF RecTypeOK, VerifiedStop, siteVars
<1>10. ASSUME NEW p \in Procs, NEW c \in DOMAIN cont, StopUnproven(p, c)
      PROVE  RecTypeOK'
  <2>1. c \in Ours /\ proc[p].todo \ {c} \in SUBSET Ours
        /\ proc[p].left \in SUBSET Ours /\ proc[p].left \cup {c} \in SUBSET Ours
    BY <1>10, <1>2 DEF StopUnproven, Process
  <2>2. (cont \in [Ours \cup Foreign -> {"absent", "exited", "starting", "serving"}])'
    BY <1>10, <1>5 DEF StopUnproven, siteVars
  <2>3. PICK T, L \in SUBSET Ours : proc' = [proc EXCEPT ![p].todo = T, ![p].left = L]
    BY <1>10, <2>1 DEF StopUnproven
  <2>4. (proc \in [Procs -> Process])'
    BY <1>2, <2>3, ProcessUpdate
  <2> QED BY <1>10, <2>2, <2>4 DEF RecTypeOK, StopUnproven, siteVars
<1>11. ASSUME NEW p \in Procs, NEW c \in Ours, ObserveModel(p, c) PROVE RecTypeOK'
  <2>1. (proc \in [Procs -> Process])'
    BY <1>11, <1>2 DEF ObserveModel, siteVars, Exit, Alive, Process, Stages, Down, Nil
  <2>2. (lock \subseteq Procs)'
    BY <1>11, <1>4 DEF ObserveModel, siteVars, Exit, Alive
  <2> QED BY <1>11, <2>1, <2>2 DEF RecTypeOK, ObserveModel, siteVars, Exit, Alive
<1>12. ASSUME NEW p \in Procs, FinishReconcile(p) PROVE RecTypeOK'
  <2>1. (proc \in [Procs -> Process])'
    BY <1>12, <1>2 DEF FinishReconcile, siteVars, Set, Exit, Process, Stages, Down, Nil
  <2>2. (lock \subseteq Procs)'
    BY <1>12, <1>4 DEF FinishReconcile, siteVars, Set, Exit
  <2> QED BY <1>12, <2>1, <2>2 DEF RecTypeOK, FinishReconcile, siteVars, Set, Exit
<1>13. ASSUME NEW p \in Procs, NEW c \in Ours, LoadModel(p, c) PROVE RecTypeOK'
  <2>1. (cont \in [Ours \cup Foreign -> {"absent", "exited", "starting", "serving"}])'
    BY <1>13, <1>5 DEF LoadModel, siteVars
  <2>2. (owner \in [Ours \cup Foreign -> Procs \cup {Nil}])'
    BY <1>13, <1>6 DEF LoadModel, siteVars
  <2> QED BY <1>13, <2>1, <2>2 DEF RecTypeOK, LoadModel, siteVars
<1>14. ASSUME NEW p \in Procs, Shutdown(p) PROVE RecTypeOK'
  <2>1. (cont \in [Ours \cup Foreign -> {"absent", "exited", "starting", "serving"}])'
    BY <1>14, <1>5 DEF Shutdown, siteVars, Exit, Alive
  <2>2. (proc \in [Procs -> Process])'
    BY <1>14, <1>2 DEF Shutdown, siteVars, Exit, Alive, Process, Stages, Down, Nil
  <2>3. (lock \subseteq Procs)'
    BY <1>14, <1>4 DEF Shutdown, siteVars, Exit, Alive
  <2> QED BY <1>14, <2>1, <2>2, <2>3 DEF RecTypeOK, Shutdown, siteVars, Exit, Alive
<1>15. ASSUME NEW p \in Procs, CrashProcess(p) PROVE RecTypeOK'
  <2>1. (proc \in [Procs -> Process])'
    BY <1>15, <1>2 DEF CrashProcess, siteVars, Exit, Process, Stages, Down, Nil
  <2>2. (lock \subseteq Procs)'
    BY <1>15, <1>4 DEF CrashProcess, siteVars, Exit
  <2> QED BY <1>15, <2>1, <2>2 DEF RecTypeOK, CrashProcess, siteVars, Exit
<1>16. ASSUME NEW p \in Procs, NEW h \in Helpers, BeginRecover(p, h) PROVE RecTypeOK'
  <2>1. (proc \in [Procs -> Process])'
    <3>1. proc' = [proc EXCEPT ![p].at = "recovering", ![p].helper = h] /\ "recovering" \in Stages
      BY <1>16 DEF BeginRecover, Stages
    <3> QED BY <1>2, <3>1, ProcessUpdate
  <2>2. /\ [helper[h] EXCEPT !.at = "answered", !.answer = "busy"] \in HelperRun
        /\ [helper[h] EXCEPT !.at = "stopswap", !.todo = Ours] \in HelperRun
    BY <1>3 DEF HelperRun
  <2>3. (helper \in [Helpers -> HelperRun])'
    BY <1>16, <1>3, <2>2 DEF BeginRecover
  <2> QED BY <1>16, <2>1, <2>3 DEF RecTypeOK, BeginRecover, siteVars
<1>17. ASSUME NEW h \in Helpers, StopSwap(h) PROVE RecTypeOK'
  <2>1. (swap \in BOOLEAN)'
    BY <1>17, <1>1, Zenon DEF StopSwap
  <2>2. [helper EXCEPT ![h].at = "models"] \in [Helpers -> HelperRun]
    BY <1>3 DEF HelperRun
  <2>3. (helper \in [Helpers -> HelperRun])'
    BY <1>17, <1>3, <2>2, HelperAnswers DEF StopSwap, Fails
  <2> QED BY <1>17, <2>1, <2>3 DEF RecTypeOK, StopSwap, siteVars
<1>18. ASSUME NEW h \in Helpers, NEW c \in Ours, HelperStops(h, c) PROVE RecTypeOK'
  <2>1. (cont \in [Ours \cup Foreign -> {"absent", "exited", "starting", "serving"}])'
    BY <1>18, <1>5 DEF HelperStops, siteVars, Fails, Inspected, Alive
  <2>2. (helper \in [Helpers -> HelperRun])'
    BY <1>18, <1>3 DEF HelperStops, siteVars, Fails, Inspected, Alive, HelperRun
  <2> QED BY <1>18, <2>1, <2>2 DEF RecTypeOK, HelperStops, siteVars, Fails, Inspected,
     Alive
<1>19. ASSUME NEW h \in Helpers, StartSwap(h) PROVE RecTypeOK'
  <2>1. (swap \in BOOLEAN)'
    BY <1>19, <1>1, Zenon DEF StartSwap
  <2>2. (helper \in [Helpers -> HelperRun])'
    BY <1>19, <1>3, HelperAnswers DEF StartSwap, Fails
  <2> QED BY <1>19, <2>1, <2>2 DEF RecTypeOK, StartSwap, siteVars
<1>20. ASSUME NEW p \in Procs, RecoverEnds(p) PROVE RecTypeOK'
  <2>1. (proc \in [Procs -> Process])'
    BY <1>20, <1>2 DEF RecoverEnds, siteVars, Process, Stages, Down, Nil
  <2>2. (helper \in [Helpers -> HelperRun])'
    BY <1>20, <1>3 DEF RecoverEnds, siteVars, HelperRun, NoRun
  <2> QED BY <1>20, <2>1, <2>2 DEF RecTypeOK, RecoverEnds, siteVars
<1>21. ASSUME NEW p \in Procs, RecoverTimesOut(p) PROVE RecTypeOK'
  <2>1. (proc \in [Procs -> Process])'
    <3>1. proc' = [proc EXCEPT ![p].at = "closed", ![p].helper = Nil] /\ "closed" \in Stages
      BY <1>21 DEF RecoverTimesOut, Stages
    <3> QED BY <1>2, <3>1, ProcessUpdate
  <2>2. (helper \in [Helpers -> HelperRun])'
    BY <1>21, <1>3 DEF RecoverTimesOut, HelperRun, NoRun
  <2> QED BY <1>21, <2>1, <2>2 DEF RecTypeOK, RecoverTimesOut, siteVars
<1>22. ASSUME NEW h \in Helpers, HelperForgotten(h) PROVE RecTypeOK'
  <2>1. (helper \in [Helpers -> HelperRun])'
    BY <1>22, <1>3 DEF HelperForgotten, siteVars, HelperRun, NoRun
  <2> QED BY <1>22, <2>1 DEF RecTypeOK, HelperForgotten, siteVars
<1>23. ASSUME NEW c \in Ours \cup Foreign, ContainerListens(c) PROVE RecTypeOK'
  <2>1. (cont \in [Ours \cup Foreign -> {"absent", "exited", "starting", "serving"}])'
    BY <1>23, <1>5 DEF ContainerListens, siteVars
  <2> QED BY <1>23, <2>1 DEF RecTypeOK, ContainerListens, siteVars
<1>24. ASSUME NEW c \in Ours \cup Foreign, ContainerEnds(c) PROVE RecTypeOK'
  <2>1. (cont \in [Ours \cup Foreign -> {"absent", "exited", "starting", "serving"}])'
    BY <1>24, <1>5 DEF ContainerEnds, siteVars, Alive
  <2> QED BY <1>24, <2>1 DEF RecTypeOK, ContainerEnds, siteVars, Alive
<1>25. CASE UNCHANGED recVars
  BY <1>25 DEF RecTypeOK, recVars
<1> QED BY <1>7, <1>8, <1>9, <1>10, <1>11, <1>12, <1>13, <1>14, <1>15, <1>16, <1>17,
   <1>18, <1>19, <1>20, <1>21, <1>22, <1>23, <1>24, <1>25 DEF RecNext, ProcStep,
   HelperStep

\* The lock admits one process at a time.
LEMMA LockStep == RecTypeOK /\ LockInv /\ [RecNext]_recVars => LockInv'
<1> SUFFICES ASSUME RecTypeOK /\ LockInv, [RecNext]_recVars PROVE LockInv'
  OBVIOUS
<1> USE DEF RecTypeOK, Process, LockInv, Down
<1>1. ASSUME NEW p \in Procs, StartProcess(p) PROVE LockInv'
  BY <1>1 DEF StartProcess, siteVars, Set, LockFree
<1>2. ASSUME NEW p \in Procs, ListContainers(p) PROVE LockInv'
  BY <1>2 DEF ListContainers, siteVars, Exit
<1>3. ASSUME NEW p \in Procs, NEW c \in DOMAIN cont, VerifiedStop(p, c) PROVE LockInv'
  BY <1>3 DEF VerifiedStop, siteVars, Alive
<1>4. ASSUME NEW p \in Procs, NEW c \in DOMAIN cont, StopUnproven(p, c) PROVE LockInv'
  BY <1>4 DEF StopUnproven, siteVars, Alive
<1>5. ASSUME NEW p \in Procs, NEW c \in Ours, ObserveModel(p, c) PROVE LockInv'
  BY <1>5 DEF ObserveModel, siteVars, Exit, Alive
<1>6. ASSUME NEW p \in Procs, FinishReconcile(p) PROVE LockInv'
  BY <1>6 DEF FinishReconcile, siteVars, Set, Exit
<1>7. ASSUME NEW p \in Procs, NEW c \in Ours, LoadModel(p, c) PROVE LockInv'
  BY <1>7 DEF LoadModel, siteVars
<1>8. ASSUME NEW p \in Procs, Shutdown(p) PROVE LockInv'
  BY <1>8 DEF Shutdown, siteVars, Exit, Alive
<1>9. ASSUME NEW p \in Procs, CrashProcess(p) PROVE LockInv'
  BY <1>9 DEF CrashProcess, siteVars, Exit
<1>10. ASSUME NEW p \in Procs, NEW h \in Helpers, BeginRecover(p, h) PROVE LockInv'
  BY <1>10 DEF BeginRecover, siteVars, HelperBusy
<1>11. ASSUME NEW h \in Helpers, StopSwap(h) PROVE LockInv'
  BY <1>11 DEF StopSwap, siteVars, Fails
<1>12. ASSUME NEW h \in Helpers, NEW c \in Ours, HelperStops(h, c) PROVE LockInv'
  BY <1>12 DEF HelperStops, siteVars, Fails, Inspected, Alive
<1>13. ASSUME NEW h \in Helpers, StartSwap(h) PROVE LockInv'
  BY <1>13 DEF StartSwap, siteVars, Fails
<1>14. ASSUME NEW p \in Procs, RecoverEnds(p) PROVE LockInv'
  BY <1>14 DEF RecoverEnds, siteVars
<1>15. ASSUME NEW p \in Procs, RecoverTimesOut(p) PROVE LockInv'
  BY <1>15 DEF RecoverTimesOut, siteVars
<1>16. ASSUME NEW h \in Helpers, HelperForgotten(h) PROVE LockInv'
  BY <1>16 DEF HelperForgotten, siteVars
<1>17. ASSUME NEW c \in Ours \cup Foreign, ContainerListens(c) PROVE LockInv'
  BY <1>17 DEF ContainerListens, siteVars
<1>18. ASSUME NEW c \in Ours \cup Foreign, ContainerEnds(c) PROVE LockInv'
  BY <1>18 DEF ContainerEnds, siteVars, Alive
<1>19. CASE UNCHANGED recVars
  BY <1>19 DEF recVars
<1> QED BY <1>1, <1>2, <1>3, <1>4, <1>5, <1>6, <1>7, <1>8, <1>9, <1>10, <1>11, <1>12,
       <1>13, <1>14, <1>15, <1>16, <1>17, <1>18, <1>19 DEF RecNext, ProcStep, HelperStep

\* The two wirings do not mix.
LEMMA WiringStep == RecTypeOK /\ WiringInv /\ [RecNext]_recVars => WiringInv'
<1> SUFFICES ASSUME RecTypeOK /\ WiringInv, [RecNext]_recVars PROVE WiringInv'
  OBVIOUS
<1> USE DEF RecTypeOK, Process, HelperRun, WiringInv, Down, NoRun
<1>1. ASSUME NEW p \in Procs, StartProcess(p) PROVE WiringInv'
  BY <1>1 DEF StartProcess, siteVars, Set, LockFree
<1>2. ASSUME NEW p \in Procs, ListContainers(p) PROVE WiringInv'
  BY <1>2 DEF ListContainers, siteVars, Exit
<1>3. ASSUME NEW p \in Procs, NEW c \in DOMAIN cont, VerifiedStop(p, c) PROVE WiringInv'
  BY <1>3 DEF VerifiedStop, siteVars, Alive
<1>4. ASSUME NEW p \in Procs, NEW c \in DOMAIN cont, StopUnproven(p, c) PROVE WiringInv'
  BY <1>4 DEF StopUnproven, siteVars, Alive
<1>5. ASSUME NEW p \in Procs, NEW c \in Ours, ObserveModel(p, c) PROVE WiringInv'
  <2>1. \/ proc' = [proc EXCEPT ![p].stopped = @ \cup {c}] /\ ~Alive(c)
        \/ proc' = [proc EXCEPT ![p] = Down]
    BY <1>5 DEF ObserveModel, Exit
  <2>2. /\ \A q \in Procs : q # p => proc'[q] = proc[q]
        /\ \/ /\ proc'[p].at = proc[p].at /\ ~Alive(c)
              /\ proc'[p].stopped = proc[p].stopped \cup {c}
           \/ proc'[p] = Down
    <3>1. CASE proc' = [proc EXCEPT ![p].stopped = @ \cup {c}] /\ ~Alive(c)
      BY <3>1 DEF Process
    <3>2. CASE proc' = [proc EXCEPT ![p] = Down]
      BY <3>2
    <3> QED BY <2>1, <3>1, <3>2
  <2> HIDE DEF RecTypeOK, Process
  <2> QED BY <1>5, <2>2 DEF ObserveModel, siteVars
<1>6. ASSUME NEW p \in Procs, FinishReconcile(p) PROVE WiringInv'
  BY <1>6 DEF FinishReconcile, siteVars, Set, Exit
<1>7. ASSUME NEW p \in Procs, NEW c \in Ours, LoadModel(p, c) PROVE WiringInv'
  BY <1>7 DEF LoadModel, siteVars
<1>8. ASSUME NEW p \in Procs, Shutdown(p) PROVE WiringInv'
  BY <1>8 DEF Shutdown, siteVars, Exit, Alive
<1>9. ASSUME NEW p \in Procs, CrashProcess(p) PROVE WiringInv'
  BY <1>9 DEF CrashProcess, siteVars, Exit
<1>10. ASSUME NEW p \in Procs, NEW h \in Helpers, BeginRecover(p, h) PROVE WiringInv'
  BY <1>10 DEF BeginRecover, siteVars, HelperBusy
<1>11. ASSUME NEW h \in Helpers, StopSwap(h) PROVE WiringInv'
  BY <1>11 DEF StopSwap, siteVars, Fails
<1>12. ASSUME NEW h \in Helpers, NEW c \in Ours, HelperStops(h, c) PROVE WiringInv'
  BY <1>12 DEF HelperStops, siteVars, Fails, Inspected, Alive
<1>13. ASSUME NEW h \in Helpers, StartSwap(h) PROVE WiringInv'
  BY <1>13 DEF StartSwap, siteVars, Fails
<1>14. ASSUME NEW p \in Procs, RecoverEnds(p) PROVE WiringInv'
  BY <1>14 DEF RecoverEnds, siteVars
<1>15. ASSUME NEW p \in Procs, RecoverTimesOut(p) PROVE WiringInv'
  BY <1>15 DEF RecoverTimesOut, siteVars
<1>16. ASSUME NEW h \in Helpers, HelperForgotten(h) PROVE WiringInv'
  BY <1>16 DEF HelperForgotten, siteVars
<1>17. ASSUME NEW c \in Ours \cup Foreign, ContainerListens(c) PROVE WiringInv'
  BY <1>17 DEF ContainerListens, siteVars
<1>18. ASSUME NEW c \in Ours \cup Foreign, ContainerEnds(c) PROVE WiringInv'
  BY <1>18 DEF ContainerEnds, siteVars, Alive
<1>19. CASE UNCHANGED recVars
  BY <1>19 DEF recVars
<1> QED BY <1>1, <1>2, <1>3, <1>4, <1>5, <1>6, <1>7, <1>8, <1>9, <1>10, <1>11, <1>12,
       <1>13, <1>14, <1>15, <1>16, <1>17, <1>18, <1>19 DEF RecNext, ProcStep, HelperStep

\* A reconciling process is alone, so no load undoes what it proved.
LEMMA ReconcileStep == RecInv /\ [RecNext]_recVars => ReconcileInv'
<1> SUFFICES ASSUME RecInv, [RecNext]_recVars PROVE ReconcileInv'
  OBVIOUS
<1> USE DEF RecInv, RecTypeOK, Process, HelperRun, LockInv, WiringInv, ReconcileInv, Alive, Down
<1>1. ASSUME NEW p \in Procs, StartProcess(p) PROVE ReconcileInv'
  BY <1>1 DEF StartProcess, siteVars, Set, LockFree
<1>2. ASSUME NEW p \in Procs, ListContainers(p) PROVE ReconcileInv'
  BY <1>2 DEF ListContainers, siteVars, Exit
<1>3. ASSUME NEW p \in Procs, NEW c \in DOMAIN cont, VerifiedStop(p, c)
      PROVE  ReconcileInv'
  BY <1>3 DEF VerifiedStop, siteVars, Alive
<1>4. ASSUME NEW p \in Procs, NEW c \in DOMAIN cont, StopUnproven(p, c)
      PROVE  ReconcileInv'
  BY <1>4 DEF StopUnproven, siteVars, Alive
<1>5. ASSUME NEW p \in Procs, NEW c \in Ours, ObserveModel(p, c) PROVE ReconcileInv'
  <2>1. \/ proc' = [proc EXCEPT ![p].stopped = @ \cup {c}] /\ ~Alive(c)
        \/ proc' = [proc EXCEPT ![p] = Down]
    BY <1>5 DEF ObserveModel, Exit
  <2>2. /\ \A q \in Procs : q # p => proc'[q] = proc[q]
        /\ \/ /\ proc'[p].at = proc[p].at /\ ~Alive(c)
              /\ proc'[p].stopped = proc[p].stopped \cup {c}
           \/ proc'[p] = Down
    <3>1. CASE proc' = [proc EXCEPT ![p].stopped = @ \cup {c}] /\ ~Alive(c)
      BY <3>1 DEF Process
    <3>2. CASE proc' = [proc EXCEPT ![p] = Down]
      BY <3>2
    <3> QED BY <2>1, <3>1, <3>2
  <2> HIDE DEF RecTypeOK, Process
  <2> QED BY <1>5, <2>2 DEF ObserveModel, siteVars
<1>6. ASSUME NEW p \in Procs, FinishReconcile(p) PROVE ReconcileInv'
  BY <1>6 DEF FinishReconcile, siteVars, Set, Exit
<1>7. ASSUME NEW p \in Procs, NEW c \in Ours, LoadModel(p, c) PROVE ReconcileInv'
  BY <1>7 DEF LoadModel, siteVars
<1>8. ASSUME NEW p \in Procs, Shutdown(p) PROVE ReconcileInv'
  BY <1>8 DEF Shutdown, siteVars, Exit, Alive
<1>9. ASSUME NEW p \in Procs, CrashProcess(p) PROVE ReconcileInv'
  BY <1>9 DEF CrashProcess, siteVars, Exit
<1>10. ASSUME NEW p \in Procs, NEW h \in Helpers, BeginRecover(p, h) PROVE ReconcileInv'
  BY <1>10 DEF BeginRecover, siteVars, HelperBusy
<1>11. ASSUME NEW h \in Helpers, StopSwap(h) PROVE ReconcileInv'
  BY <1>11 DEF StopSwap, siteVars, Fails
<1>12. ASSUME NEW h \in Helpers, NEW c \in Ours, HelperStops(h, c) PROVE ReconcileInv'
  BY <1>12 DEF HelperStops, siteVars, Fails, Inspected, Alive
<1>13. ASSUME NEW h \in Helpers, StartSwap(h) PROVE ReconcileInv'
  BY <1>13 DEF StartSwap, siteVars, Fails
<1>14. ASSUME NEW p \in Procs, RecoverEnds(p) PROVE ReconcileInv'
  BY <1>14 DEF RecoverEnds, siteVars
<1>15. ASSUME NEW p \in Procs, RecoverTimesOut(p) PROVE ReconcileInv'
  BY <1>15 DEF RecoverTimesOut, siteVars
<1>16. ASSUME NEW h \in Helpers, HelperForgotten(h) PROVE ReconcileInv'
  BY <1>16 DEF HelperForgotten, siteVars
<1>17. ASSUME NEW c \in Ours \cup Foreign, ContainerListens(c) PROVE ReconcileInv'
  BY <1>17 DEF ContainerListens, siteVars
<1>18. ASSUME NEW c \in Ours \cup Foreign, ContainerEnds(c) PROVE ReconcileInv'
  BY <1>18 DEF ContainerEnds, siteVars, Alive
<1>19. CASE UNCHANGED recVars
  BY <1>19 DEF recVars
<1> QED BY <1>1, <1>2, <1>3, <1>4, <1>5, <1>6, <1>7, <1>8, <1>9, <1>10, <1>11, <1>12,
       <1>13, <1>14, <1>15, <1>16, <1>17, <1>18, <1>19 DEF RecNext, ProcStep, HelperStep

\* A process begins to serve only with every container proven stopped, and
\* alone loads from then on.
LEMMA OwnStep == RecInv /\ [RecNext]_recVars => OwnContainersOnly'
<1> SUFFICES ASSUME RecInv, [RecNext]_recVars PROVE OwnContainersOnly'
  OBVIOUS
<1> USE DEF RecInv, RecTypeOK, Process, HelperRun, LockInv, WiringInv, ReconcileInv, OwnContainersOnly,
           Alive, Down
<1>1. ASSUME NEW p \in Procs, StartProcess(p) PROVE OwnContainersOnly'
  BY <1>1 DEF StartProcess, siteVars, Set, LockFree
<1>2. ASSUME NEW p \in Procs, ListContainers(p) PROVE OwnContainersOnly'
  BY <1>2 DEF ListContainers, siteVars, Exit
<1>3. ASSUME NEW p \in Procs, NEW c \in DOMAIN cont, VerifiedStop(p, c)
      PROVE  OwnContainersOnly'
  BY <1>3 DEF VerifiedStop, siteVars, Alive
<1>4. ASSUME NEW p \in Procs, NEW c \in DOMAIN cont, StopUnproven(p, c)
      PROVE  OwnContainersOnly'
  BY <1>4 DEF StopUnproven, siteVars, Alive
<1>5. ASSUME NEW p \in Procs, NEW c \in Ours, ObserveModel(p, c)
      PROVE  OwnContainersOnly'
  BY <1>5 DEF ObserveModel, siteVars, Exit, Alive
<1>6. ASSUME NEW p \in Procs, FinishReconcile(p) PROVE OwnContainersOnly'
  BY <1>6 DEF FinishReconcile, siteVars, Set, Exit
<1>7. ASSUME NEW p \in Procs, NEW c \in Ours, LoadModel(p, c) PROVE OwnContainersOnly'
  BY <1>7 DEF LoadModel, siteVars
<1>8. ASSUME NEW p \in Procs, Shutdown(p) PROVE OwnContainersOnly'
  BY <1>8 DEF Shutdown, siteVars, Exit, Alive
<1>9. ASSUME NEW p \in Procs, CrashProcess(p) PROVE OwnContainersOnly'
  BY <1>9 DEF CrashProcess, siteVars, Exit
<1>10. ASSUME NEW p \in Procs, NEW h \in Helpers, BeginRecover(p, h)
      PROVE  OwnContainersOnly'
  BY <1>10 DEF BeginRecover, siteVars, HelperBusy
<1>11. ASSUME NEW h \in Helpers, StopSwap(h) PROVE OwnContainersOnly'
  BY <1>11 DEF StopSwap, siteVars, Fails
<1>12. ASSUME NEW h \in Helpers, NEW c \in Ours, HelperStops(h, c)
      PROVE  OwnContainersOnly'
  BY <1>12 DEF HelperStops, siteVars, Fails, Inspected, Alive
<1>13. ASSUME NEW h \in Helpers, StartSwap(h) PROVE OwnContainersOnly'
  BY <1>13 DEF StartSwap, siteVars, Fails
<1>14. ASSUME NEW p \in Procs, RecoverEnds(p) PROVE OwnContainersOnly'
  BY <1>14 DEF RecoverEnds, siteVars
<1>15. ASSUME NEW p \in Procs, RecoverTimesOut(p) PROVE OwnContainersOnly'
  BY <1>15 DEF RecoverTimesOut, siteVars
<1>16. ASSUME NEW h \in Helpers, HelperForgotten(h) PROVE OwnContainersOnly'
  BY <1>16 DEF HelperForgotten, siteVars
<1>17. ASSUME NEW c \in Ours \cup Foreign, ContainerListens(c) PROVE OwnContainersOnly'
  BY <1>17 DEF ContainerListens, siteVars
<1>18. ASSUME NEW c \in Ours \cup Foreign, ContainerEnds(c) PROVE OwnContainersOnly'
  BY <1>18 DEF ContainerEnds, siteVars, Alive
<1>19. CASE UNCHANGED recVars
  BY <1>19 DEF recVars
<1> QED BY <1>1, <1>2, <1>3, <1>4, <1>5, <1>6, <1>7, <1>8, <1>9, <1>10, <1>11, <1>12,
       <1>13, <1>14, <1>15, <1>16, <1>17, <1>18, <1>19 DEF RecNext, ProcStep, HelperStep

\* While a helper is at work llama-swap is down, so no container comes back.
LEMMA HelpersStep == RecInv /\ [RecNext]_recVars => HelperInv'
<1> SUFFICES ASSUME RecInv, [RecNext]_recVars PROVE HelperInv'
  OBVIOUS
<1> USE DEF RecInv, RecTypeOK, HelperRun, HelperInv, Busy, Alive, NoRun
<1>1. ASSUME NEW p \in Procs, StartProcess(p) PROVE HelperInv'
  BY <1>1 DEF StartProcess, siteVars, Set, LockFree
<1>2. ASSUME NEW p \in Procs, ListContainers(p) PROVE HelperInv'
  BY <1>2 DEF ListContainers, siteVars, Exit
<1>3. ASSUME NEW p \in Procs, NEW c \in DOMAIN cont, VerifiedStop(p, c) PROVE HelperInv'
  BY <1>3 DEF VerifiedStop, siteVars, Alive
<1>4. ASSUME NEW p \in Procs, NEW c \in DOMAIN cont, StopUnproven(p, c) PROVE HelperInv'
  BY <1>4 DEF StopUnproven, siteVars, Alive
<1>5. ASSUME NEW p \in Procs, NEW c \in Ours, ObserveModel(p, c) PROVE HelperInv'
  BY <1>5 DEF ObserveModel, siteVars, Exit, Alive
<1>6. ASSUME NEW p \in Procs, FinishReconcile(p) PROVE HelperInv'
  BY <1>6 DEF FinishReconcile, siteVars, Set, Exit
<1>7. ASSUME NEW p \in Procs, NEW c \in Ours, LoadModel(p, c) PROVE HelperInv'
  BY <1>7 DEF LoadModel, siteVars
<1>8. ASSUME NEW p \in Procs, Shutdown(p) PROVE HelperInv'
  BY <1>8 DEF Shutdown, siteVars, Exit, Alive
<1>9. ASSUME NEW p \in Procs, CrashProcess(p) PROVE HelperInv'
  BY <1>9 DEF CrashProcess, siteVars, Exit
<1>10. ASSUME NEW p \in Procs, NEW h \in Helpers, BeginRecover(p, h) PROVE HelperInv'
  BY <1>10 DEF BeginRecover, siteVars, HelperBusy
<1>11. ASSUME NEW h \in Helpers, StopSwap(h) PROVE HelperInv'
  <2>1. CASE swap' = FALSE /\ helper' = [helper EXCEPT ![h].at = "models"]
    <3>1. /\ helper'[h].at = "models" /\ helper'[h].todo = Ours /\ helper'[h].answer = "none"
          /\ \A k \in Helpers : k # h => helper'[k] = helper[k]
      BY <1>11, <2>1 DEF StopSwap
    <3> HIDE DEF RecTypeOK, HelperRun
    <3> QED BY <1>11, <2>1, <3>1 DEF StopSwap, siteVars
  <2>2. CASE Fails(h) /\ swap' \in {swap, FALSE}
    <3>1. /\ helper'[h].at = "answered"
          /\ \A k \in Helpers : k # h => helper'[k] = helper[k]
      BY <2>2, HelperAnswers DEF Fails
    <3> HIDE DEF RecTypeOK, HelperRun
    <3> QED BY <1>11, <2>2, <3>1 DEF StopSwap, siteVars
  <2> QED BY <1>11, <2>1, <2>2 DEF StopSwap
<1>12. ASSUME NEW h \in Helpers, NEW c \in Ours, HelperStops(h, c) PROVE HelperInv'
  <2> PICK seen \in Inspected(c) :
        \/ /\ cont' = [cont EXCEPT ![c] = IF seen THEN "exited" ELSE @]
           /\ ~seen => cont[c] # "serving"
           /\ helper' = [helper EXCEPT ![h].todo = @ \ {c}]
        \/ Fails(h) /\ cont' \in {cont, [cont EXCEPT ![c] = IF seen THEN "exited" ELSE @]}
    BY <1>12 DEF HelperStops
  <2>1. sound => seen = Alive(c)
    BY Zenon DEF Inspected
  <2>2. \A k \in Ours : Alive(k)' => Alive(k)
    OBVIOUS
  <2>3. CASE /\ cont' = [cont EXCEPT ![c] = IF seen THEN "exited" ELSE @]
             /\ helper' = [helper EXCEPT ![h].todo = @ \ {c}]
    <3>1. /\ helper'[h].at = "models" /\ helper'[h].answer = helper[h].answer
          /\ helper'[h].todo = helper[h].todo \ {c}
          /\ \A k \in Helpers : k # h => helper'[k] = helper[k]
      BY <1>12, <2>3 DEF HelperStops
    <3>2. sound => ~Alive(c)'
      BY <2>1, <2>3
    <3> HIDE DEF RecTypeOK, HelperRun, Alive
    <3> QED BY <1>12, <2>2, <3>1, <3>2 DEF HelperStops, siteVars
  <2>4. CASE Fails(h)
    <3>1. /\ helper'[h].at = "answered"
          /\ \A k \in Helpers : k # h => helper'[k] = helper[k]
      BY <2>4, HelperAnswers DEF Fails
    <3> HIDE DEF RecTypeOK, HelperRun, Alive
    <3> QED BY <1>12, <2>2, <3>1 DEF HelperStops, siteVars
  <2> QED BY <2>3, <2>4
<1>13. ASSUME NEW h \in Helpers, StartSwap(h) PROVE HelperInv'
  <2>1. /\ helper'[h].at = "answered"
        /\ \A k \in Helpers : k # h => helper'[k] = helper[k]
    <3>1. helper \in [Helpers -> HelperRun]
      OBVIOUS
    <3>2. \E a \in {"failed", "ok"} :
            helper' = [helper EXCEPT ![h].at = "answered", ![h].answer = a]
      BY <1>13 DEF StartSwap, Fails
    <3> HIDE DEF RecTypeOK, HelperRun
    <3> QED BY <3>1, <3>2, HelperAnswers
  <2> HIDE DEF RecTypeOK, HelperRun
  <2> QED BY <1>13, <2>1 DEF StartSwap, siteVars
<1>14. ASSUME NEW p \in Procs, RecoverEnds(p) PROVE HelperInv'
  BY <1>14 DEF RecoverEnds, siteVars
<1>15. ASSUME NEW p \in Procs, RecoverTimesOut(p) PROVE HelperInv'
  <2>1. \A k \in Helpers : helper'[k] \in {helper[k], NoRun}
    BY <1>15 DEF RecoverTimesOut
  <2> HIDE DEF RecTypeOK, HelperRun
  <2> QED BY <1>15, <2>1 DEF RecoverTimesOut, siteVars
<1>16. ASSUME NEW h \in Helpers, HelperForgotten(h) PROVE HelperInv'
  BY <1>16 DEF HelperForgotten, siteVars
<1>17. ASSUME NEW c \in Ours \cup Foreign, ContainerListens(c) PROVE HelperInv'
  BY <1>17 DEF ContainerListens, siteVars
<1>18. ASSUME NEW c \in Ours \cup Foreign, ContainerEnds(c) PROVE HelperInv'
  BY <1>18 DEF ContainerEnds, siteVars, Alive
<1>19. CASE UNCHANGED recVars
  BY <1>19 DEF recVars
<1> QED BY <1>1, <1>2, <1>3, <1>4, <1>5, <1>6, <1>7, <1>8, <1>9, <1>10, <1>11, <1>12,
       <1>13, <1>14, <1>15, <1>16, <1>17, <1>18, <1>19 DEF RecNext, ProcStep, HelperStep

\* RecInv is an inductive invariant of the specification.
LEMMA RecStep == RecInv /\ [RecNext]_recVars => RecInv'
BY TypeStep, LockStep, WiringStep, ReconcileStep, OwnStep, HelpersStep DEF RecInv

\* A managed process that serves (serve_v2 past reconcile_startup) owns every
\* running container of its deployment, for any number of processes started,
\* crashed and started again, containers and helpers.
THEOREM ServingOwnsContainers == RecSpec => []OwnContainersOnly
<1>1. RecInv => OwnContainersOnly
  BY DEF RecInv
<1> QED BY <1>1, RecInitInv, RecStep, PTL DEF RecSpec

\* The helper's success answer (StartSwap is the only step that gives it) is
\* given with llama-swap down and every container of the deployment stopped.
LEMMA OkStep ==
  RecInv /\ [RecNext]_recVars =>
    \A h \in Helpers : sound /\ helper[h].answer # "ok" /\ helper'[h].answer = "ok" =>
                         ~swap /\ \A c \in Ours : ~Alive(c)
<1> SUFFICES ASSUME RecInv, [RecNext]_recVars, NEW g \in Helpers,
                    sound, helper[g].answer # "ok", helper'[g].answer = "ok"
             PROVE  ~swap /\ \A c \in Ours : ~Alive(c)
  OBVIOUS
<1> USE DEF RecInv, RecTypeOK, Process, HelperRun, HelperInv, NoRun
<1>1. ASSUME NEW p \in Procs, StartProcess(p) PROVE FALSE
  BY <1>1 DEF StartProcess, siteVars, Set, LockFree
<1>2. ASSUME NEW p \in Procs, ListContainers(p) PROVE FALSE
  BY <1>2 DEF ListContainers, siteVars, Exit
<1>3. ASSUME NEW p \in Procs, NEW c \in DOMAIN cont, VerifiedStop(p, c) PROVE FALSE
  BY <1>3 DEF VerifiedStop, siteVars, Alive
<1>4. ASSUME NEW p \in Procs, NEW c \in DOMAIN cont, StopUnproven(p, c) PROVE FALSE
  BY <1>4 DEF StopUnproven, siteVars, Alive
<1>5. ASSUME NEW p \in Procs, NEW c \in Ours, ObserveModel(p, c) PROVE FALSE
  BY <1>5 DEF ObserveModel, siteVars, Exit, Alive
<1>6. ASSUME NEW p \in Procs, FinishReconcile(p) PROVE FALSE
  BY <1>6 DEF FinishReconcile, siteVars, Set, Exit
<1>7. ASSUME NEW p \in Procs, NEW c \in Ours, LoadModel(p, c) PROVE FALSE
  BY <1>7 DEF LoadModel, siteVars
<1>8. ASSUME NEW p \in Procs, Shutdown(p) PROVE FALSE
  BY <1>8 DEF Shutdown, siteVars, Exit, Alive
<1>9. ASSUME NEW p \in Procs, CrashProcess(p) PROVE FALSE
  BY <1>9 DEF CrashProcess, siteVars, Exit
<1>10. ASSUME NEW p \in Procs, NEW h \in Helpers, BeginRecover(p, h) PROVE FALSE
  BY <1>10 DEF BeginRecover, siteVars, HelperBusy
<1>11. ASSUME NEW h \in Helpers, StopSwap(h) PROVE FALSE
  <2>1. \/ helper' = [helper EXCEPT ![h].at = "models"]
        \/ helper' = [helper EXCEPT ![h].at = "answered", ![h].answer = "failed"]
    BY <1>11 DEF StopSwap, Fails
  <2> QED BY <2>1
<1>12. ASSUME NEW h \in Helpers, NEW c \in Ours, HelperStops(h, c) PROVE FALSE
  BY <1>12 DEF HelperStops, siteVars, Fails, Inspected, Alive
<1>13. ASSUME NEW h \in Helpers, StartSwap(h) PROVE ~swap /\ \A c \in Ours : ~Alive(c)
  BY <1>13 DEF StartSwap, siteVars, Fails
<1>14. ASSUME NEW p \in Procs, RecoverEnds(p) PROVE FALSE
  BY <1>14 DEF RecoverEnds, siteVars
<1>15. ASSUME NEW p \in Procs, RecoverTimesOut(p) PROVE FALSE
  BY <1>15 DEF RecoverTimesOut, siteVars
<1>16. ASSUME NEW h \in Helpers, HelperForgotten(h) PROVE FALSE
  BY <1>16 DEF HelperForgotten, siteVars
<1>17. ASSUME NEW c \in Ours \cup Foreign, ContainerListens(c) PROVE FALSE
  BY <1>17 DEF ContainerListens, siteVars
<1>18. ASSUME NEW c \in Ours \cup Foreign, ContainerEnds(c) PROVE FALSE
  BY <1>18 DEF ContainerEnds, siteVars, Alive
<1>19. CASE UNCHANGED recVars
  BY <1>19 DEF recVars
<1> QED BY <1>1, <1>2, <1>3, <1>4, <1>5, <1>6, <1>7, <1>8, <1>9, <1>10, <1>11, <1>12,
       <1>13, <1>14, <1>15, <1>16, <1>17, <1>18, <1>19 DEF RecNext, ProcStep, HelperStep

\* Recovery that reports success found the whole deployment stopped and could
\* not be overtaken, also when an earlier helper outlived its caller
\* (the helper's lock file in deploy/control-recover.py).
THEOREM SuccessMeansStopped == RecSpec => OkMeansStopped
<1>1. RecInv /\ [RecNext]_recVars =>
        [\A h \in Helpers : sound /\ helper[h].answer # "ok" /\ helper'[h].answer = "ok" =>
           ~swap /\ \A c \in Ours : ~Alive(c)]_recVars
  BY OkStep
<1> QED BY <1>1, RecInitInv, RecStep, PTL DEF RecSpec, OkMeansStopped

=============================================================================
