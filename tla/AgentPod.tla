------------------------------ MODULE AgentPod ------------------------------
(* A user's agent pod, from one pod to the next (pods.go): sync runs to its *)
(* end before the adapter's container starts, which is restarted alone when *)
(* the adapter exits; a replaced pod begins with sync again.                *)
EXTENDS ProfileSync, AgentSessions

podVars == <<syncVars, sessionsVars>>

PodTypeOK == SyncTypeOK /\ SessionsTypeOK

PodInit == SyncInit /\ SessionsInit

(* The broker creates the pod, at first or in place of one that runs, is    *)
(* still in sync or has ended.                                              *)
CreatePod == /\ SyncStart
             /\ IF syncing = "off" THEN UNCHANGED sessionsVars ELSE Replaced

Initialize == (SyncCrash \/ SyncNext) /\ UNCHANGED sessionsVars

(* Mutant: the adapter does not wait for the init container.                *)
Bug_Initialized == syncing # "off"
Initialized == syncing = "synced"

Serve == Initialized /\ SessionsNext /\ UNCHANGED syncVars

PodNext == CreatePod \/ Initialize \/ Serve

PodSpec == PodInit /\ [][PodNext]_podVars

----------------------------------------------------------------------------
(* The agent that answers reads the catalog of its image with the skills of *)
(* the selection in force, not what a crash or an earlier pod left behind.  *)
ServesSelection ==
    up # "down" => /\ dirs["catalog"].final = Contents("catalog")
                   /\ dirs["catalog-enabled"].final.skills =
                          Enabled(image, IF wanted = None THEN stored ELSE wanted)
=============================================================================
