----------------------------- MODULE MCSurfaces -----------------------------
(***************************************************************************)
(* The control plane, the HTTP gateway, the lifecycle of a backend, the    *)
(* storage guard and the driver of the backend cases, one instance each.   *)
(* They share no state that their properties relate, so a behaviour runs   *)
(* one of them, its focus, while the others rest in an initial state; the  *)
(* fairness is the focused component's own.                                *)
(***************************************************************************)
EXTENDS ControlPlane, Gateway, Lifecycle, Storage, CaseDriver

VARIABLE focus

surfaces == <<ctlVars, gwVars, lcVars, stVars, drvVars, focus>>

\* Every kind of case, a reload on a proof and one on an open session.
Plan == <<"load", "infer", "cancel", "stop", "reload", "reload", "infer">>

SurfacesInit ==
    /\ focus \in {"control", "gateway", "lifecycle", "storage", "driver"}
    /\ CtlInit /\ GwInit /\ LcInit /\ StInit /\ DrvInit
    /\ focus # "control" => socket = "absent" /\ capacity = MaxSessions
    /\ focus # "gateway" => measured
    /\ focus # "lifecycle" => backend = "managed" /\ supervised
    /\ focus # "storage" => \A a \in Assets : file[a].good

SurfacesNext ==
    /\ \/ focus = "control" /\ CtlNext /\ UNCHANGED <<gwVars, lcVars, stVars, drvVars>>
       \/ focus = "gateway" /\ GwNext /\ UNCHANGED <<ctlVars, lcVars, stVars, drvVars>>
       \/ focus = "lifecycle" /\ LcNext /\ UNCHANGED <<ctlVars, gwVars, stVars, drvVars>>
       \/ focus = "storage" /\ StNext /\ UNCHANGED <<ctlVars, gwVars, lcVars, drvVars>>
       \/ focus = "driver" /\ DrvNext /\ UNCHANGED <<ctlVars, gwVars, lcVars, stVars>>
    /\ UNCHANGED focus

SurfacesFair ==
    /\ \A c \in Conns : WF_ctlVars(focus = "control" /\ RequestTimeout(c))
    /\ WF_ctlVars(focus = "control" /\ StopEnds)
    /\ \A r \in Calls : WF_gwVars(focus = "gateway" /\ CallStep(r))
    /\ WF_lcVars(focus = "lifecycle" /\ LcStep)
    /\ WF_lcVars(focus = "lifecycle" /\ DeadlinePasses)
    /\ SF_stVars(focus = "storage" /\ (AnswerCached("watch") \/ BeginPass("watch")))
    /\ WF_stVars(focus = "storage" /\ (Ask("watch") \/ WatchOnce))
    /\ WF_stVars(focus = "storage" /\ Pass)
    /\ WF_stVars(focus = "storage" /\ IntervalPasses)
    /\ WF_drvVars(focus = "driver" /\ DrvStep)

SurfacesSpec == SurfacesInit /\ [][SurfacesNext]_surfaces /\ SurfacesFair

(* Nothing the service waits for is for ever: a stop of the listener ends and  *)
(* so does every connection, HTTP request, load and stop of a model, and the   *)
(* case matrix, although peers, models, docker and lost answers do not help.   *)
EverythingEnds == StopFinishes /\ CallsEnd /\ TaskReturns /\ MatrixEnds
=============================================================================
