------------------------ MODULE SlotsCapacityProofs ------------------------
(* How many slots and pods are in use, for every K and every set of agents. *)
EXTENDS SlotsProofs

LEMMA UsedFinite == IsFiniteSet(Used) /\ Cardinality(Used) \in Nat
<1>1. Used \subseteq Refs
  BY DEF Used
<1> QED BY <1>1, SlotsAssumption, FS_Subset, FS_CardinalityType

(* No action but ClaimSlot puts an agent among those that hold a slot.      *)
UsedShrinks == Used' \subseteq Used

LEMMA UsedSame ==
    ASSUME UNCHANGED <<agent, busy>>
    PROVE  UsedShrinks
BY DEF UsedShrinks, Used

LEMMA BeginsUsed ==
    ASSUME TypeOK, NEW q \in Reqs, NEW r \in Refs, NEW step, NEW s, Begins(q, r, step, s)
    PROVE  Used' = Used \cup {r}
BY DEF Begins, Used, TypeOK

LEMMA AcquireUsed ==
    ASSUME TypeOK, NEW q \in Reqs, Acquire(q), ~ClaimSlot(q)
    PROVE  UsedShrinks
<1> DEFINE r == RefOf[q]
<1>r. r \in Refs
  BY SlotsAssumption
<1>1. CASE Admit(q)
  BY <1>1, UsedSame DEF Admit
<1>2. CASE Attach(q)
  <2>1. r \in Used
    BY <1>2, <1>r DEF Attach, Used
  <2> QED BY <1>2, <1>r, <2>1, BeginsUsed DEF Attach, UsedShrinks
<1>3. CASE Reselect(q)
  <2>1. r \in Used
    BY <1>3, <1>r DEF Reselect, Used
  <2> QED BY <1>3, <1>r, <2>1, BeginsUsed DEF Reselect, UsedShrinks
<1>4. CASE Evict(q)
  <2>1. PICK v \in Refs : LRUIdle(v) /\ Begins(q, v, "stop", NoSel)
    BY <1>4 DEF Evict
  <2>2. v \in Used
    BY <2>1 DEF LRUIdle, IdleCandidates, Used
  <2> QED BY <2>1, <2>2, BeginsUsed DEF UsedShrinks
<1>5. CASE Wait(q) \/ GiveUp(q) \/ Return(q)
  BY <1>5, UsedSame DEF Wait, GiveUp, Return, entryVars
<1> QED BY <1>1, <1>2, <1>3, <1>4, <1>5 DEF Acquire

LEMMA StartStopUsed ==
    ASSUME TypeOK, OpInv, NEW q \in Reqs, StartStop(q)
    PROVE  UsedShrinks
<1>1. CASE StartCreates(q) \/ StartErrs(q) \/ AbortDeletes(q) \/ StopDeletes(q)
  BY <1>1, UsedSame DEF StartCreates, StartErrs, AbortDeletes, StopDeletes, entryVars
<1>2. CASE StartReturns(q)
  <2>1. RefOf[q] \in Used
    BY <1>2, SlotsAssumption
       DEF StartReturns, OpInv, OwnStart, OperationsOwnBusy, Operating, Used
  <2> QED BY <1>2, <2>1 DEF StartReturns, OpEnds, Used, UsedShrinks, TypeOK
<1>3. CASE AbortEnds(q)
  BY <1>3 DEF AbortEnds, OpEnds, Used, UsedShrinks, TypeOK
<1>4. CASE StopReturns(q)
  BY <1>4 DEF StopReturns, OpEnds, Used, UsedShrinks, TypeOK
<1>5. CASE StopErrs(q)
  BY <1>5 DEF StopErrs, OpEnds, Used, UsedShrinks, TypeOK
<1> QED BY <1>1, <1>2, <1>3, <1>4, <1>5 DEF StartStop

LEMMA ReconcileUsed ==
    ASSUME TypeOK, NEW c \in Reconcilers, Reconcile(c)
    PROVE  UsedShrinks
<1>1. ASSUME NEW S, Forget(S)
      PROVE  UsedShrinks
  BY <1>1 DEF Forget, Used, UsedShrinks, TypeOK
<1>2. CASE UNCHANGED entryVars
  BY <1>2, UsedSame DEF entryVars
<1> QED BY <1>1, <1>2 DEF Reconcile, entryVars

LEMMA TurnUsed ==
    ASSUME TypeOK, NEW q \in Reqs, Turn(q)
    PROVE  UsedShrinks
<1>1. CASE Dial(q) \/ Unreachable(q) \/ StreamEnds(q)
  BY <1>1, UsedSame DEF Dial, Unreachable, StreamEnds, Release, entryVars
<1>2. CASE RetryReconcile(q)
  BY <1>2, ReconcileUsed DEF RetryReconcile, Reconcilers
<1> QED BY <1>1, <1>2 DEF Turn

LEMMA ReapUsed ==
    ASSUME TypeOK, Reap
    PROVE  UsedShrinks
<1>1. CASE ReapReconcile
  BY <1>1, ReconcileUsed DEF ReapReconcile, Reconcilers
<1>2. CASE ReapPick
  BY <1>2 DEF ReapPick, Reapable, Used, UsedShrinks, TypeOK
<1>3. ASSUME NEW r \in Refs, ReapDeletes(r)
      PROVE  UsedShrinks
  BY <1>3, UsedSame DEF ReapDeletes, entryVars
<1>4. ASSUME NEW r \in Refs, ReapEnds(r)
      PROVE  UsedShrinks
  BY <1>4 DEF ReapEnds, Used, UsedShrinks, TypeOK
<1> QED BY <1>1, <1>2, <1>3, <1>4 DEF Reap

LEMMA StepUsed ==
    ASSUME TypeOK, OpInv, [Next]_vars
    PROVE  UsedShrinks \/ Restart \/ \E q \in Reqs : ClaimSlot(q)
<1>1. ASSUME NEW q \in Reqs, Arrive(q)
      PROVE  UsedShrinks
  BY <1>1, UsedSame DEF Arrive, entryVars
<1>2. ASSUME NEW r \in Refs, NEW s \in Sels, SetPending(r, s)
      PROVE  UsedShrinks
  BY <1>2, UsedSame DEF SetPending
<1>3. ASSUME NEW c \in Reconcilers, ListAnswers(c)
      PROVE  UsedShrinks
  BY <1>3, UsedSame DEF ListAnswers, entryVars
<1>4. CASE BackgroundReconcile
  BY <1>4, ReconcileUsed DEF BackgroundReconcile, Reconcilers
<1>5. ASSUME NEW r \in Refs, Cluster(r)
      PROVE  UsedShrinks
  BY <1>5, UsedSame DEF Cluster, BrokerUnchanged, entryVars
<1>6. CASE UNCHANGED vars
  BY <1>6, UsedSame DEF vars, entryVars
<1> QED BY <1>1, <1>2, <1>3, <1>4, <1>5, <1>6, AcquireUsed, StartStopUsed, TurnUsed, ReapUsed
    DEF Next

LEMMA ClaimUsed ==
    ASSUME TypeOK, NEW q \in Reqs, ClaimSlot(q)
    PROVE  Cardinality(Used') <= K
<1> DEFINE r == RefOf[q]
<1>1. r \in Refs /\ Used' = Used \cup {r} /\ Cardinality(Used) < K
  BY SlotsAssumption, BeginsUsed DEF ClaimSlot
<1>2. r \notin Used
  BY DEF ClaimSlot, Used
<1>3. Cardinality(Used \cup {r}) = Cardinality(Used) + 1
  BY <1>2, UsedFinite, FS_AddElement
<1> QED BY <1>1, <1>3, UsedFinite, SlotsAssumption

LEMMA ShrinkCounts ==
    ASSUME UsedShrinks
    PROVE  Cardinality(Used') \in Nat /\ Cardinality(Used') <= Cardinality(Used)
<1>1. IsFiniteSet(Used') /\ Cardinality(Used') <= Cardinality(Used)
  BY UsedFinite, FS_Subset DEF UsedShrinks
<1> QED BY <1>1, FS_CardinalityType

(* The slots in use grow only up to K: whatever fails, however late a List  *)
(* is answered, only Acquire's free-slot case adds an agent, and it looks   *)
(* at the count under the lock that also marks the agent busy.              *)
THEOREM SlotsGrow == Spec => SlotsGrowWithinK
<1>1. ASSUME TypeOK, OpInv, [Next]_vars
      PROVE  [\/ Cardinality(Used') <= Cardinality(Used)
              \/ Cardinality(Used') <= K
              \/ Restart]_vars
  BY <1>1, StepUsed, ClaimUsed, ShrinkCounts
<1>2. (TypeOK /\ OpInv) /\ [Next]_vars => [\/ Cardinality(Used') <= Cardinality(Used)
                                           \/ Cardinality(Used') <= K
                                           \/ Restart]_vars
  BY <1>1
<1> QED BY <1>2, OpInvInvariant, PTL DEF Spec, SlotsGrowWithinK
----------------------------------------------------------------------------
(* No pod outside the count.  It needs a Stop after a failed start that     *)
(* works and a List answer that is used while it is true; without either    *)
(* the runs failed_cleanup and stale_answer show a pod that is not counted. *)
CleanFaults == Faults \cap {"cleanup_fails", "stale_list"} = {}

(* An agent keeps its entry until its stop has seen the pod gone.           *)
StopsHold == /\ \A q \in Reqs : pc[q] \in {"stop", "stopping"} => agent[target[q]] # "none"
             /\ \A r \in reap.left : agent[r] # "none"
NoAnswerKept == \A c \in Reconcilers : listed[c] = {}
CountInv == EveryPodCounted /\ StopsHold /\ NoAnswerKept

LEMMA InitCount == Init => CountInv
BY DEF Init, PodsInit, CountInv, EveryPodCounted, ListPods, StopsHold, NoAnswerKept

(* A step that creates no pod, forgets no agent and begins no stop.         *)
LEMMA CountKept ==
    ASSUME CountInv, UNCHANGED <<agent, busy, listed>>, ListPods' \subseteq ListPods,
           reap'.left \subseteq reap.left,
           \A q \in Reqs : pc'[q] \in {"stop", "stopping"} =>
                             pc[q] \in {"stop", "stopping"} /\ target'[q] = target[q]
    PROVE  CountInv'
<1>1. EveryPodCounted'
  BY DEF CountInv, EveryPodCounted, Used
<1>2. StopsHold'
  BY DEF CountInv, StopsHold
<1>3. NoAnswerKept'
  BY DEF CountInv, NoAnswerKept
<1> QED BY <1>1, <1>2, <1>3 DEF CountInv

(* One request's step to a place outside the stops, the pods untouched.     *)
LEMMA CountMoves ==
    ASSUME TypeOK, CountInv, UNCHANGED <<pod, agent, busy, target, listed, reap>>,
           NEW q \in Reqs, NEW step \in Aside \cup {"abort"},
           pc' = [pc EXCEPT ![q] = step]
    PROVE  CountInv'
<1>1. ListPods' = ListPods
  BY DEF ListPods
<1>2. \A p \in Reqs : pc'[p] \in {"stop", "stopping"} => pc[p] \in {"stop", "stopping"}
  BY DEF TypeOK, Aside
<1> QED BY <1>1, <1>2, CountKept

(* Marking an agent busy: for a stop it is one that has an entry.           *)
LEMMA CountBegins ==
    ASSUME TypeOK, CountInv, NEW q \in Reqs, NEW r \in Refs, NEW step \in {"start", "stop"}, NEW s,
           Begins(q, r, step, s), step = "stop" => agent[r] # "none"
    PROVE  CountInv'
<1>1. Used \subseteq Used' /\ ListPods' = ListPods
  BY BeginsUsed DEF Begins, podVars, ListPods
<1>2. EveryPodCounted'
  BY <1>1 DEF CountInv, EveryPodCounted
<1>3. StopsHold'
  BY DEF CountInv, StopsHold, Begins, Goto, taskVars, TypeOK
<1>4. NoAnswerKept'
  BY DEF CountInv, NoAnswerKept, Begins, taskVars
<1> QED BY <1>2, <1>3, <1>4 DEF CountInv

(* Ending an operation: the entry keeps its agent, or the pod is gone.      *)
LEMMA CountEnds ==
    ASSUME TypeOK, OpInv, CountInv, NEW q \in Reqs, Operating(q), NEW step \in {"loop", "failed"},
           OpEnds(q, step), UNCHANGED podVars, NEW a, agent' = [agent EXCEPT ![target[q]] = a],
           a # "none" \/ pod[target[q]] = "absent"
    PROVE  CountInv'
<1> DEFINE r == target[q]
<1>1. /\ r \in Refs
      /\ pc' = [pc EXCEPT ![q] = step]
      /\ busy' = [busy EXCEPT ![r] = FALSE]
      /\ target' = [target EXCEPT ![q] = RefOf[q]]
      /\ UNCHANGED <<reap, listed>>
  BY DEF OpEnds, Goto, taskVars, TypeOK
<1>2. pc \in [Reqs -> Steps] /\ target \in [Reqs -> Refs] /\ reap.left \in SUBSET Refs
  BY DEF TypeOK
<1>3. EveryPodCounted'
  BY <1>1 DEF CountInv, EveryPodCounted, ListPods, Used, podVars, TypeOK
<1>4. StopsHold'
  <2>1. \A p \in Reqs : Operating(p) /\ target[p] = r => p = q
    BY DEF OpInv, OperationsOwnBusy
  <2>2. r \notin reap.left
    BY DEF OpInv, OperationsOwnBusy
  <2>3. \A b \in Refs : b # r => agent'[b] = agent[b]
    BY DEF TypeOK
  <2>4. ASSUME NEW p \in Reqs, pc'[p] \in {"stop", "stopping"}
        PROVE  agent'[target'[p]] # "none"
    <3>1. p # q /\ pc'[p] = pc[p] /\ target'[p] = target[p]
      BY <1>1, <1>2, <2>4
    <3>2. target[p] # r
      BY <2>1, <2>4, <3>1 DEF Operating
    <3> QED BY <1>2, <2>3, <2>4, <3>1, <3>2 DEF CountInv, StopsHold
  <2> QED BY <1>1, <1>2, <2>2, <2>3, <2>4 DEF CountInv, StopsHold
<1>5. NoAnswerKept'
  BY <1>1 DEF CountInv, NoAnswerKept
<1> QED BY <1>3, <1>4, <1>5 DEF CountInv

(* A reconcile forgets only agents without a pod, and none that somebody is *)
(* stopping.                                                                *)
LEMMA CountReconciles ==
    ASSUME CleanFaults, TypeOK, OpInv, CountInv, NEW c \in Reconcilers, Reconcile(c),
           UNCHANGED <<pod, target>>, reap'.left = reap.left,
           \A q \in Reqs : pc'[q] \in {"stop", "stopping"} => pc[q] \in {"stop", "stopping"}
    PROVE  CountInv'
<1>1. CASE Forget(ListPods) /\ UNCHANGED listed
  <2>1. \A r \in Refs : agent[r] # "none" /\ (busy[r] \/ r \in ListPods) => agent'[r] = agent[r]
    BY <1>1 DEF Forget
  <2>2. UNCHANGED busy
    BY <1>1 DEF Forget
  <2>3. ListPods' = ListPods
    BY DEF ListPods
  <2>4. EveryPodCounted'
    BY <2>1, <2>2, <2>3 DEF CountInv, EveryPodCounted, Used, ListPods
  <2>5. StopsHold'
    <3>1. target \in [Reqs -> Refs] /\ reap.left \in SUBSET Refs
      BY DEF TypeOK
    <3> QED BY <2>1, <3>1
         DEF CountInv, StopsHold, OpInv, OperationsOwnBusy, BusyIsOwned, Operating
  <2>6. NoAnswerKept'
    BY <1>1 DEF CountInv, NoAnswerKept
  <2> QED BY <2>4, <2>5, <2>6 DEF CountInv
<1>2. CASE UNCHANGED <<entryVars, listed>>
  <2>1. ListPods' = ListPods
    BY DEF ListPods
  <2> QED BY <1>2, <2>1, CountKept DEF entryVars
<1>3. listed[c] = {} /\ "stale_list" \notin Faults
  BY DEF CountInv, NoAnswerKept, CleanFaults
<1> QED BY <1>1, <1>2, <1>3 DEF Reconcile

LEMMA AcquireCount ==
    ASSUME TypeOK, CountInv, NEW q \in Reqs, Acquire(q)
    PROVE  CountInv'
<1> DEFINE r == RefOf[q]
<1>r. r \in Refs
  BY SlotsAssumption
<1>1. CASE Admit(q)
  BY <1>1, CountMoves DEF Admit, Goto, Aside, podVars, taskVars
<1>2. CASE Attach(q)
  BY <1>2, <1>r, CountBegins DEF Attach
<1>3. CASE Reselect(q)
  BY <1>3, <1>r, CountBegins DEF Reselect
<1>4. CASE ClaimSlot(q)
  BY <1>4, <1>r, CountBegins DEF ClaimSlot
<1>5. CASE Evict(q)
  <2>1. PICK v \in Refs : LRUIdle(v) /\ Begins(q, v, "stop", NoSel)
    BY <1>5 DEF Evict
  <2>2. agent[v] # "none"
    BY <2>1 DEF LRUIdle, IdleCandidates
  <2> QED BY <2>1, <2>2, CountBegins
<1>6. CASE Wait(q)
  BY <1>6, CountMoves DEF Wait, Goto, Aside, podVars, entryVars
<1>7. CASE GiveUp(q)
  BY <1>7, CountMoves DEF GiveUp, Goto, Aside, podVars, entryVars, taskVars
<1>8. CASE Return(q)
  <2>1. PICK step \in Aside : pc' = [pc EXCEPT ![q] = step]
    BY <1>8 DEF Return, Finished, Aside
  <2> QED BY <1>8, <2>1, CountMoves DEF Return, podVars, entryVars, taskVars
<1> QED BY <1>1, <1>2, <1>3, <1>4, <1>5, <1>6, <1>7, <1>8 DEF Acquire

LEMMA DeleteLists == ASSUME NEW r \in Refs, DeletePod(r), TypeOK PROVE ListPods' \subseteq ListPods
BY DEF DeletePod, ListPods, TypeOK, PodsTypeOK

LEMMA StartStopCount ==
    ASSUME CleanFaults, TypeOK, OpInv, CountInv, NEW q \in Reqs, StartStop(q)
    PROVE  CountInv'
<1> DEFINE r == RefOf[q]
<1>r. r \in Refs /\ target[q] \in Refs
  BY SlotsAssumption DEF TypeOK
<1>p. pc \in [Reqs -> Steps] /\ agent \in [Refs -> {"none", "listed", "ready"}]
  BY DEF TypeOK
<1>o. pc[q] \in {"start", "created", "abort", "aborting"} => target[q] = r /\ busy[r]
  BY DEF OpInv, OwnStart, OperationsOwnBusy, Operating
<1>1. CASE StartCreates(q)
  <2>1. /\ UNCHANGED <<agent, busy, target, listed, reap>>
        /\ pc' = [pc EXCEPT ![q] = "created"]
    BY <1>1 DEF StartCreates, Goto, entryVars, taskVars
  <2>2. ListPods' \subseteq ListPods \cup {r} /\ r \in Used
    BY <1>1, <1>r, <1>o DEF StartCreates, CreatePod, ListPods, Used, TypeOK, PodsTypeOK
  <2>3. EveryPodCounted'
    BY <2>1, <2>2 DEF CountInv, EveryPodCounted, Used
  <2>4. StopsHold'
    BY <2>1, <1>p DEF CountInv, StopsHold
  <2>5. NoAnswerKept'
    BY <2>1 DEF CountInv, NoAnswerKept
  <2> QED BY <2>3, <2>4, <2>5 DEF CountInv
<1>2. CASE StartReturns(q)
  <2>1. agent' = [agent EXCEPT ![target[q]] = "ready"]
    BY <1>2, <1>o DEF StartReturns
  <2> QED BY <1>2, <2>1, CountEnds DEF StartReturns, Operating
<1>3. CASE StartErrs(q)
  BY <1>3, CountMoves DEF StartErrs, Goto, Aside, podVars, entryVars, taskVars
<1>4. CASE AbortDeletes(q)
  <2>1. ListPods' \subseteq ListPods
    BY <1>4, <1>r, DeleteLists DEF AbortDeletes
  <2>2. UNCHANGED <<agent, busy, target, listed, reap>> /\ pc' = [pc EXCEPT ![q] = "aborting"]
    BY <1>4 DEF AbortDeletes, Goto, entryVars, taskVars
  <2>3. \A p \in Reqs : pc'[p] \in {"stop", "stopping"} =>
                          pc[p] \in {"stop", "stopping"} /\ target'[p] = target[p]
    BY <2>2, <1>p
  <2> QED BY <2>1, <2>2, <2>3, CountKept
<1>5. CASE AbortEnds(q)
  <2>1. /\ pc[q] = "aborting" /\ pod[target[q]] = "absent"
        /\ agent' = [agent EXCEPT ![target[q]] = "none"]
        /\ OpEnds(q, "failed")
        /\ UNCHANGED podVars
    BY <1>5, <1>o DEF AbortEnds, CleanFaults
  <2> QED BY <2>1, CountEnds DEF Operating
<1>6. CASE StopDeletes(q)
  <2>1. ListPods' \subseteq ListPods
    BY <1>6, <1>r, DeleteLists DEF StopDeletes
  <2>2. /\ UNCHANGED <<agent, busy, target, listed, reap>>
        /\ pc[q] = "stop" /\ pc' = [pc EXCEPT ![q] = "stopping"]
    BY <1>6 DEF StopDeletes, Goto, entryVars, taskVars
  <2>3. \A p \in Reqs : pc'[p] \in {"stop", "stopping"} =>
                          pc[p] \in {"stop", "stopping"} /\ target'[p] = target[p]
    BY <2>2, <1>p
  <2> QED BY <2>1, <2>2, <2>3, CountKept
<1>7. CASE StopReturns(q)
  BY <1>7, CountEnds DEF StopReturns, Operating
<1>8. CASE StopErrs(q)
  <2>1. pc[q] \in {"stop", "stopping"} /\ agent[target[q]] # "none"
    BY <1>8 DEF StopErrs, CountInv, StopsHold
  <2>2. agent' = [agent EXCEPT ![target[q]] = agent[target[q]]]
    BY <1>8, <1>p DEF StopErrs
  <2> QED BY <1>8, <2>1, <2>2, CountEnds DEF StopErrs, Operating
<1> QED BY <1>1, <1>2, <1>3, <1>4, <1>5, <1>6, <1>7, <1>8 DEF StartStop

LEMMA TurnCount ==
    ASSUME CleanFaults, TypeOK, OpInv, CountInv, NEW q \in Reqs, Turn(q)
    PROVE  CountInv'
<1>1. CASE Dial(q)
  BY <1>1, CountMoves DEF Dial, Goto, Aside, podVars, entryVars, taskVars
<1>2. CASE Unreachable(q)
  <2>1. PICK step \in Aside : pc' = [pc EXCEPT ![q] = step]
    BY <1>2 DEF Unreachable, Aside
  <2> QED BY <1>2, <2>1, CountMoves DEF Unreachable, Release, podVars, taskVars
<1>3. CASE StreamEnds(q)
  <2>1. PICK step \in Aside : pc' = [pc EXCEPT ![q] = step]
    BY <1>3 DEF StreamEnds, Goto, Finished, Aside
  <2> QED BY <1>3, <2>1, CountMoves DEF StreamEnds, Release, podVars, taskVars
<1>4. CASE RetryReconcile(q)
  <2>1. \A p \in Reqs : pc'[p] \in {"stop", "stopping"} => pc[p] \in {"stop", "stopping"}
    BY <1>4 DEF RetryReconcile, Goto, TypeOK
  <2>2. Reconcile(q) /\ q \in Reconcilers /\ UNCHANGED <<pod, target, reap>>
    BY <1>4 DEF RetryReconcile, podVars, Reconcilers
  <2> QED BY <2>1, <2>2, CountReconciles
<1> QED BY <1>1, <1>2, <1>3, <1>4 DEF Turn

LEMMA ReapCount ==
    ASSUME CleanFaults, TypeOK, OpInv, CountInv, Reap
    PROVE  CountInv'
<1>r. reap \in [at : {"tick", "pick", "stop"}, left : SUBSET Refs, deleted : SUBSET Refs]
  BY DEF TypeOK
<1>1. CASE ReapReconcile
  <2>1. Reconcile("reaper") /\ "reaper" \in Reconcilers /\ UNCHANGED <<pod, target, pc>>
    BY <1>1 DEF ReapReconcile, podVars, Reconcilers
  <2>2. reap'.left = reap.left
    BY <1>1, <1>r DEF ReapReconcile
  <2> QED BY <2>1, <2>2, CountReconciles
<1>2. CASE ReapPick
  <2>1. PICK V \in SUBSET {r \in Refs : Reapable(r)} :
            /\ busy' = [r \in Refs |-> busy[r] \/ r \in V]
            /\ reap' = [reap EXCEPT !.at = IF V = {} THEN "tick" ELSE "stop", !.left = V]
    BY <1>2 DEF ReapPick
  <2>2. reap'.left = V /\ \A r \in V : agent[r] # "none"
    BY <2>1, <1>r DEF Reapable
  <2>3. UNCHANGED <<pod, agent, pc, target, listed>>
    BY <1>2 DEF ReapPick, podVars
  <2>4. EveryPodCounted'
    BY <2>1, <2>3 DEF CountInv, EveryPodCounted, ListPods, Used
  <2>5. StopsHold' /\ NoAnswerKept'
    BY <2>2, <2>3 DEF CountInv, StopsHold, NoAnswerKept
  <2> QED BY <2>4, <2>5 DEF CountInv
<1>3. ASSUME NEW r \in Refs, ReapDeletes(r)
      PROVE  CountInv'
  <2>1. ListPods' \subseteq ListPods
    BY <1>3, DeleteLists DEF ReapDeletes
  <2>2. reap'.left = reap.left
    BY <1>3, <1>r DEF ReapDeletes
  <2> QED BY <1>3, <2>1, <2>2, CountKept DEF ReapDeletes, entryVars
<1>4. ASSUME NEW r \in Refs, ReapEnds(r)
      PROVE  CountInv'
  <2>1. /\ r \in reap.left
        /\ busy' = [busy EXCEPT ![r] = FALSE]
        /\ reap'.left = reap.left \ {r}
        /\ UNCHANGED <<pod, pc, target, listed>>
    BY <1>4 DEF ReapEnds, podVars
  <2>2. \/ agent' = [agent EXCEPT ![r] = "none"] /\ pod[r] = "absent"
        \/ UNCHANGED agent
    BY <1>4 DEF ReapEnds
  <2>3. agent[r] # "none" /\ \A b \in Refs : b # r => agent'[b] = agent[b]
    BY <2>1, <2>2 DEF CountInv, StopsHold, TypeOK
  <2>4. EveryPodCounted'
    BY <2>1, <2>2, <2>3 DEF CountInv, EveryPodCounted, ListPods, Used, TypeOK
  <2>5. StopsHold'
    <3>1. \A p \in Reqs : Operating(p) => target[p] \in Refs \ {r}
      BY <2>1 DEF OpInv, OperationsOwnBusy, TypeOK
    <3>2. reap.left \in SUBSET Refs
      BY <1>r
    <3> QED BY <2>1, <2>3, <3>1, <3>2 DEF CountInv, StopsHold, Operating
  <2>6. NoAnswerKept'
    BY <2>1 DEF CountInv, NoAnswerKept
  <2> QED BY <2>4, <2>5, <2>6 DEF CountInv
<1> QED BY <1>1, <1>2, <1>3, <1>4 DEF Reap

LEMMA StepCount == CleanFaults /\ TypeOK /\ OpInv /\ CountInv /\ [Next]_vars => CountInv'
<1> SUFFICES ASSUME CleanFaults, TypeOK, OpInv, CountInv, [Next]_vars
             PROVE  CountInv'
  OBVIOUS
<1>1. ASSUME NEW q \in Reqs, Arrive(q)
      PROVE  CountInv'
  BY <1>1, CountMoves DEF Arrive, Goto, Aside, podVars, entryVars, taskVars
<1>2. ASSUME NEW r \in Refs, NEW s \in Sels, SetPending(r, s)
      PROVE  CountInv'
  BY <1>2, CountKept DEF SetPending, ListPods, podVars, taskVars
<1>3. ASSUME NEW c \in Reconcilers, ListAnswers(c)
      PROVE  CountInv'
  BY <1>3 DEF ListAnswers, CleanFaults
<1>4. CASE BackgroundReconcile
  BY <1>4, CountReconciles DEF BackgroundReconcile, Reconcilers, podVars
<1>5. CASE Restart
  <2>1. EveryPodCounted'
    BY <1>5 DEF Restart, EveryPodCounted, ListPods, Used, podVars
  <2>2. StopsHold' /\ NoAnswerKept'
    BY <1>5 DEF Restart, Finished, StopsHold, NoAnswerKept
  <2> QED BY <2>1, <2>2 DEF CountInv
<1>6. ASSUME NEW r \in Refs, Cluster(r)
      PROVE  CountInv'
  <2>1. ListPods' \subseteq ListPods
    BY <1>6 DEF Cluster, PodSyncs, PodReady, PodFails, PodGone, PodLost, ListPods, TypeOK, PodsTypeOK
  <2>2. \A q \in Reqs : pc'[q] \in {"stop", "stopping"} => pc[q] \in {"stop", "stopping"}
    BY <1>6 DEF Cluster, Cut
  <2>3. UNCHANGED <<agent, busy, target, listed, reap>>
    BY <1>6 DEF Cluster, BrokerUnchanged, entryVars, taskVars
  <2> QED BY <2>1, <2>2, <2>3, CountKept
<1>7. CASE UNCHANGED vars
  BY <1>7, CountKept DEF vars, podVars, entryVars, taskVars, ListPods
<1> QED BY <1>1, <1>2, <1>3, <1>4, <1>5, <1>6, <1>7, AcquireCount, StartStopCount, TurnCount,
           ReapCount DEF Next

(* While Stops after failed starts work and List answers are used fresh,    *)
(* every pod in the cluster belongs to an entry that counts against K.      *)
THEOREM PodsCounted == ASSUME CleanFaults PROVE Spec => []EveryPodCounted
<1>1. Init => CountInv
  BY InitCount
<1>2. TypeOK /\ OpInv /\ CountInv /\ [Next]_vars => CountInv'
  BY StepCount
<1>3. CountInv => EveryPodCounted
  BY DEF CountInv
<1> QED BY <1>1, <1>2, <1>3, OpInvInvariant, PTL DEF Spec

(* Then K is a hard bound on the pods that exist, across broker restarts    *)
(* and every other fault: "Slots enforces at most K running agents".        *)
WithinK == Cardinality(Used) <= K

THEOREM PodsBounded == ASSUME CleanFaults PROVE Spec => []PodsWithinK
<1>1. Init => WithinK
  <2>1. Init => Used = {}
    BY DEF Init, Used
  <2> QED BY <2>1, FS_EmptySet, SlotsAssumption DEF WithinK
<1>2. ASSUME TypeOK, OpInv, EveryPodCounted, WithinK, [Next]_vars
      PROVE  WithinK'
  <2>1. CASE UsedShrinks
    BY <1>2, <2>1, ShrinkCounts, UsedFinite, SlotsAssumption DEF WithinK
  <2>2. CASE Restart
    <3>1. Used' = ListPods
      BY <2>2 DEF Restart, Used, ListPods
    <3>2. UsedShrinks
      BY <1>2, <3>1 DEF EveryPodCounted, UsedShrinks
    <3> QED BY <1>2, <3>2, ShrinkCounts, UsedFinite, SlotsAssumption DEF WithinK
  <2>3. ASSUME NEW q \in Reqs, ClaimSlot(q)
        PROVE  WithinK'
    BY <1>2, <2>3, ClaimUsed DEF WithinK
  <2> QED BY <1>2, <2>1, <2>2, <2>3, StepUsed
<1>3. EveryPodCounted /\ WithinK => PodsWithinK
  <2> SUFFICES ASSUME EveryPodCounted, WithinK PROVE PodsWithinK
    OBVIOUS
  <2>1. IsFiniteSet(ListPods) /\ Cardinality(ListPods) <= Cardinality(Used)
    BY UsedFinite, FS_Subset DEF EveryPodCounted
  <2>2. Cardinality(ListPods) \in Nat
    BY <2>1, FS_CardinalityType
  <2> QED BY <2>1, <2>2, UsedFinite, SlotsAssumption DEF WithinK, PodsWithinK
<1>4. Spec => []EveryPodCounted
  BY PodsCounted
<1> QED BY <1>1, <1>2, <1>3, <1>4, OpInvInvariant, PTL DEF Spec
=============================================================================
