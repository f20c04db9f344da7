------------------------------- MODULE MCSite -------------------------------
(***************************************************************************)
(* The blob store, the recovery of the process, the evidence pipeline, the *)
(* release switch, the calibration, the operational cases, the envelope    *)
(* checks and the waiting queue, one instance each.  They share no state   *)
(* that their properties relate, so a behaviour runs one of them, its      *)
(* focus, while the others rest in an initial state.                       *)
(***************************************************************************)
EXTENDS BlobStore, Recovery, Evidence, ReleaseOps, Calibration, OpsCases,
        Envelope, RequestQueue

VARIABLE focus

site == <<blobVars, recVars, evVars, relVars, calVars, opsVars, envVars, queueVars>>

AllCases == DOMAIN Steps

RestingAsk == CHOOSE a \in Asks : a.surface = "tcp" /\ a.op = "chat" /\ a.images = <<>>

SiteInit ==
    /\ focus \in {"blobs", "recovery", "evidence", "release", "calibration", "cases",
                  "envelope", "queue"}
    /\ EnvInit
    /\ focus # "envelope" =>
           /\ ask = RestingAsk /\ ~warm
           /\ envelope = [max_input |-> 1, max_output |-> 1, ctx |-> 2, images |-> 0,
                          edge |-> 1, image_tokens |-> 1, vision |-> FALSE]
    /\ OpsInit
    /\ focus # "cases" => ocase.name = "O01" /\ ocase.wired /\ disk
    /\ CalInit
    /\ focus # "calibration" => source = "live" /\ ~scheduler
    /\ RecInit
    /\ focus # "recovery" => schema = 1 /\ sound /\ \A c \in DOMAIN cont : cont[c] = "absent"
    /\ BlobInit /\ EvInit /\ ReleaseInit /\ QueueInit

SiteNext ==
    /\ \/ /\ focus = "blobs" /\ BlobNext
          /\ UNCHANGED <<recVars, evVars, relVars, calVars, opsVars, envVars, queueVars>>
       \/ /\ focus = "recovery" /\ RecNext
          /\ UNCHANGED <<blobVars, evVars, relVars, calVars, opsVars, envVars, queueVars>>
       \/ /\ focus = "evidence" /\ EvNext
          /\ UNCHANGED <<blobVars, recVars, relVars, calVars, opsVars, envVars, queueVars>>
       \/ /\ focus = "release" /\ ReleaseNext
          /\ UNCHANGED <<blobVars, recVars, evVars, calVars, opsVars, envVars, queueVars>>
       \/ /\ focus = "calibration" /\ CalNext
          /\ UNCHANGED <<blobVars, recVars, evVars, relVars, opsVars, envVars, queueVars>>
       \/ /\ focus = "cases" /\ OpsNext
          /\ UNCHANGED <<blobVars, recVars, evVars, relVars, calVars, envVars, queueVars>>
       \/ /\ focus = "envelope" /\ EnvNext
          /\ UNCHANGED <<blobVars, recVars, evVars, relVars, calVars, opsVars, queueVars>>
       \/ /\ focus = "queue" /\ QueueNext
          /\ UNCHANGED <<blobVars, recVars, evVars, relVars, calVars, opsVars, envVars>>
    /\ UNCHANGED focus

SiteSpec == SiteInit /\ [][SiteNext]_<<site, focus>>
=============================================================================
