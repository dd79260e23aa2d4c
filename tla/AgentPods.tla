----------------------------- MODULE AgentPods -----------------------------
(* The agents' pods and profiles as the broker's pods backend sees them     *)
(* (agent-broker pods.go, backend.go): one pod name and one profile volume  *)
(* per agent.  Creation and deletion are the backend's API calls; the rest  *)
(* is the cluster.                                                          *)
CONSTANTS Refs,       (* agents: one runtime of one user (AgentRef)         *)
          Sels,       (* skill selections a user may save; a member stands  *)
                      (* for one *Selection, so two are never the same one  *)
          NoSel,      (* the nil selection                                  *)
          DefaultSel  (* the selection a profile starts with                *)

ASSUME SelAssumption == NoSel \notin Sels /\ DefaultSel \notin Sels \cup {NoSel}

VARIABLES pod,      (* phase of the agent's pod                             *)
          spec,     (* the selection the pod was created with, NoSel if none*)
          profile   (* the selection stored in the agent's volume           *)

podVars == <<pod, spec, profile>>

Phases == {"absent", "starting", "ready", "failed", "terminating"}

PodsTypeOK == /\ pod \in [Refs -> Phases]
              /\ spec \in [Refs -> Sels \cup {NoSel}]
              /\ profile \in [Refs -> Sels \cup {DefaultSel}]

PodsInit == /\ pod = [r \in Refs |-> "absent"]
            /\ spec = [r \in Refs |-> NoSel]
            /\ profile = [r \in Refs |-> DefaultSel]

(* What List answers: a pod holds compute, ready or not, until it is gone.  *)
(* Mutant: only ready pods are listed.                                      *)
Bug_ListPods == {r \in Refs : pod[r] = "ready"}
ListPods == {r \in Refs : pod[r] # "absent"}
----------------------------------------------------------------------------
(* A pod is created only once its predecessor is gone.                      *)
CreatePod(r, s) == /\ pod[r] = "absent"
                   /\ pod' = [pod EXCEPT ![r] = "starting"]
                   /\ spec' = [spec EXCEPT ![r] = s]
                   /\ UNCHANGED profile

(* A DELETE of a pod that is already gone is not an error.                  *)
DeletePod(r) == /\ pod' = [pod EXCEPT ![r] = IF @ = "absent" THEN @ ELSE "terminating"]
                /\ UNCHANGED <<spec, profile>>

(* The pod's init container: agent-sync stores the selection the pod was    *)
(* created with in the profile.                                             *)
(* Mutant: a start without a selection clears the stored one.               *)
Bug_PodSyncs(r) == /\ pod[r] # "absent" /\ profile[r] # spec[r]
                   /\ profile' = [profile EXCEPT ![r] = spec[r]]
                   /\ UNCHANGED <<pod, spec>>
PodSyncs(r) == /\ pod[r] # "absent" /\ spec[r] # NoSel /\ profile[r] # spec[r]
               /\ profile' = [profile EXCEPT ![r] = spec[r]]
               /\ UNCHANGED <<pod, spec>>

(* The agent answers its readiness probe, after the init container.         *)
PodReady(r) == /\ pod[r] = "starting"
               /\ spec[r] \in {NoSel, profile[r]}
               /\ pod' = [pod EXCEPT ![r] = "ready"]
               /\ UNCHANGED <<spec, profile>>

(* A container that cannot start, or stopped answering.                     *)
PodFails(r) == /\ pod[r] \in {"starting", "ready"}
               /\ pod' = [pod EXCEPT ![r] = "failed"]
               /\ UNCHANGED <<spec, profile>>

(* The grace period of a deleted pod ends.                                  *)
PodGone(r) == /\ pod[r] = "terminating"
              /\ pod' = [pod EXCEPT ![r] = "absent"]
              /\ UNCHANGED <<spec, profile>>

(* Somebody else deletes the pod: offboarding, key rotation, node drain.    *)
PodLost(r) == /\ pod[r] \in {"starting", "ready", "failed"}
              /\ pod' = [pod EXCEPT ![r] = "terminating"]
              /\ UNCHANGED <<spec, profile>>
=============================================================================
