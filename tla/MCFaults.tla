------------------------------ MODULE MCFaults ------------------------------
(***************************************************************************)
(* One instance of Scheduler in two scopes: with a recovery port the storage *)
(* fails, the operator recovers and the service shuts down; without one a   *)
(* model is warmed beside the request, on a sound disk.                     *)
(***************************************************************************)
EXTENDS MCScheduler

\* No recovery port: the first activation runs.
WarmScope == recovery = "absent"

\* The guard never refuses: nobody who has sampled was told so.
SoundDisk ==
    /\ \A r \in Requests : request[r].pc = "decide" => request[r].admitted
    /\ \A p \in Warmers : warm[p].pc = "begin" => warm[p].admitted

ScopedInit ==
    /\ Init
    /\ WarmScope => \A m \in Models : runtime[m].state = "UNLOADED"

\* What a step of either scope leaves alone.
InScope == IF WarmScope THEN UNCHANGED fault /\ SoundDisk' ELSE UNCHANGED warming

ScopedSpec == ScopedInit /\ [][Next]_schedVars
=============================================================================
