---------------------------- MODULE SlotsProofs ----------------------------
(* Proofs about Slots for every value of its constants.                     *)
EXTENDS Slots, FiniteSetTheorems, TLAPS

USE DEF Steps

(* Taking a ticket out of the queue leaves a queue of requests.             *)
LEMMA DequeuedType ==
    ASSUME NEW q \in Reqs, queue \in Seq(Reqs)
    PROVE  Dequeued(q) \in Seq(Reqs)
<1>1. CASE ~Ticketed(q)
  BY <1>1 DEF Dequeued
<1>2. CASE Ticketed(q)
  <2> DEFINE i == CHOOSE j \in DOMAIN queue : queue[j] = q
             short == [j \in 1..(Len(queue) - 1) |-> IF j < i THEN queue[j] ELSE queue[j + 1]]
  <2>1. i \in 1..Len(queue)
    BY <1>2 DEF Ticketed
  <2>2. short \in Seq(Reqs)
    BY <2>1
  <2> QED BY <1>2, <2>2 DEF Dequeued
<1> QED BY <1>1, <1>2

(* Recording a use of an agent keeps older a relation on agents.            *)
LEMMA TouchedType ==
    ASSUME NEW r \in Refs, older \in SUBSET (Refs \X Refs)
    PROVE  Touched(r) \in SUBSET (Refs \X Refs)
BY DEF Touched

(* Every step of the system keeps the types.                                *)
LEMMA InitType == Init => TypeOK
<1> SUFFICES ASSUME Init PROVE TypeOK
  OBVIOUS
<1>1. PodsTypeOK
  BY DEF Init, PodsInit, PodsTypeOK, Phases
<1>2. queue \in Seq(Reqs)
  BY DEF Init
<1>3. listed \in [Reconcilers -> SUBSET SUBSET Refs]
  <2>1. {} \in SUBSET SUBSET Refs
    OBVIOUS
  <2>2. listed = [c \in Reconcilers |-> {}]
    BY DEF Init
  <2> QED BY <2>1, <2>2, Zenon
<1>4. reap \in [at : {"tick", "pick", "stop"}, left : SUBSET Refs, deleted : SUBSET Refs]
  BY DEF Init
<1>5. /\ agent \in [Refs -> {"none", "listed", "ready"}]
      /\ inflight \in [Refs -> Int]
      /\ busy \in [Refs -> BOOLEAN]
      /\ pending \in [Refs -> Sels \cup {NoSel}]
      /\ older \in SUBSET (Refs \X Refs)
      /\ latest \in [Refs -> Sels \cup {DefaultSel}]
  BY DEF Init
<1>6. /\ pc \in [Reqs -> Steps]
      /\ sel \in [Reqs -> Sels \cup {NoSel}]
      /\ target \in [Reqs -> Refs]
      /\ attempt \in [Reqs -> {0, 1}]
      /\ bgDue \in BOOLEAN
  BY SlotsAssumption DEF Init
<1> QED BY <1>1, <1>2, <1>3, <1>4, <1>5, <1>6 DEF TypeOK

LEMMA BeginsType ==
    ASSUME TypeOK, NEW q \in Reqs, NEW r \in Refs, NEW step \in Steps,
           NEW s \in Sels \cup {NoSel}, Begins(q, r, step, s)
    PROVE  TypeOK'
BY DEF Begins, Goto, TypeOK, PodsTypeOK, podVars, taskVars

LEMMA OpEndsType ==
    ASSUME TypeOK, NEW q \in Reqs, NEW step \in Steps, OpEnds(q, step),
           PodsTypeOK', agent' \in [Refs -> {"none", "listed", "ready"}],
           pending' \in [Refs -> Sels \cup {NoSel}], older' \in SUBSET (Refs \X Refs)
    PROVE  TypeOK'
BY SlotsAssumption DEF OpEnds, Goto, TypeOK, taskVars

LEMMA AcquireType ==
    ASSUME TypeOK, NEW q \in Reqs, Acquire(q)
    PROVE  TypeOK'
<1> DEFINE r == RefOf[q]
<1>r. r \in Refs
  BY SlotsAssumption
<1>1. CASE Admit(q)
  <2>1. older' \in SUBSET (Refs \X Refs)
    BY <1>1, <1>r, TouchedType DEF Admit, TypeOK
  <2>2. inflight' \in [Refs -> Int]
    BY <1>1, <1>r DEF Admit, TypeOK
  <2> QED BY <1>1, <2>1, <2>2 DEF Admit, Goto, TypeOK, PodsTypeOK, podVars, taskVars
<1>2. CASE Attach(q)
  BY <1>2, <1>r, BeginsType DEF Attach
<1>3. CASE Reselect(q)
  BY <1>3, <1>r, BeginsType DEF Reselect
<1>4. CASE ClaimSlot(q)
  <2>1. pending[r] \in Sels \cup {NoSel}
    BY <1>r DEF TypeOK
  <2> QED BY <1>4, <1>r, <2>1, BeginsType DEF ClaimSlot
<1>5. CASE Evict(q)
  BY <1>5, BeginsType DEF Evict
<1>6. CASE Wait(q)
  <2>1. queue' \in Seq(Reqs)
    BY <1>6 DEF Wait, TypeOK
  <2>2. bgDue' \in BOOLEAN
    BY <1>6 DEF Wait, TypeOK
  <2> QED BY <1>6, <2>1, <2>2 DEF Wait, Goto, TypeOK, PodsTypeOK, podVars, entryVars
<1>7. CASE GiveUp(q)
  BY <1>7 DEF GiveUp, Goto, TypeOK, PodsTypeOK, podVars, entryVars, taskVars
<1>8. CASE Return(q)
  <2>1. queue' \in Seq(Reqs)
    BY <1>8, DequeuedType DEF Return, TypeOK
  <2> QED BY <1>8, <2>1 DEF Return, Finished, TypeOK, PodsTypeOK, podVars, entryVars, taskVars
<1> QED BY <1>1, <1>2, <1>3, <1>4, <1>5, <1>6, <1>7, <1>8 DEF Acquire

LEMMA StartStopType ==
    ASSUME TypeOK, NEW q \in Reqs, StartStop(q)
    PROVE  TypeOK'
<1> DEFINE r == RefOf[q]
<1>r. r \in Refs
  BY SlotsAssumption
<1>t. target[q] \in Refs
  BY DEF TypeOK
<1>d. ASSUME NEW t \in Refs, DeletePod(t)
      PROVE  PodsTypeOK'
  BY <1>d DEF DeletePod, TypeOK, PodsTypeOK, Phases
<1>1. CASE StartCreates(q)
  <2>1. PodsTypeOK'
    BY <1>1, <1>r DEF StartCreates, CreatePod, TypeOK, PodsTypeOK, Phases
  <2> QED BY <1>1, <2>1 DEF StartCreates, Goto, TypeOK, entryVars, taskVars
<1>2. CASE StartReturns(q)
  <2>1. older' \in SUBSET (Refs \X Refs)
    BY <1>2, <1>r, TouchedType DEF StartReturns, TypeOK
  <2>2. agent' \in [Refs -> {"none", "listed", "ready"}]
    BY <1>2, <1>r DEF StartReturns, TypeOK
  <2>3. pending' \in [Refs -> Sels \cup {NoSel}]
    BY <1>2, <1>r DEF StartReturns, TypeOK
  <2>4. PodsTypeOK'
    BY <1>2 DEF StartReturns, podVars, TypeOK, PodsTypeOK
  <2> QED BY <1>2, <2>1, <2>2, <2>3, <2>4, OpEndsType DEF StartReturns
<1>3. CASE StartErrs(q)
  BY <1>3 DEF StartErrs, Goto, TypeOK, PodsTypeOK, podVars, entryVars, taskVars
<1>4. CASE AbortDeletes(q)
  <2>1. PodsTypeOK'
    BY <1>4, <1>r, <1>d DEF AbortDeletes
  <2> QED BY <1>4, <2>1 DEF AbortDeletes, Goto, TypeOK, entryVars, taskVars
<1>5. CASE AbortEnds(q)
  <2>1. PodsTypeOK'
    BY <1>5 DEF AbortEnds, podVars, TypeOK, PodsTypeOK
  <2> QED BY <1>5, <1>r, <2>1, OpEndsType DEF AbortEnds, TypeOK
<1>6. CASE StopDeletes(q)
  <2>1. PodsTypeOK'
    BY <1>6, <1>t, <1>d DEF StopDeletes
  <2> QED BY <1>6, <2>1 DEF StopDeletes, Goto, TypeOK, entryVars, taskVars
<1>7. CASE StopReturns(q)
  <2>1. PodsTypeOK'
    BY <1>7 DEF StopReturns, podVars, TypeOK, PodsTypeOK
  <2> QED BY <1>7, <1>t, <2>1, OpEndsType DEF StopReturns, TypeOK
<1>8. CASE StopErrs(q)
  <2>1. PodsTypeOK'
    BY <1>8 DEF StopErrs, podVars, TypeOK, PodsTypeOK
  <2> QED BY <1>8, <2>1, OpEndsType DEF StopErrs, TypeOK
<1> QED BY <1>1, <1>2, <1>3, <1>4, <1>5, <1>6, <1>7, <1>8 DEF StartStop

LEMMA ReconcileType ==
    ASSUME TypeOK, NEW c \in Reconcilers, Reconcile(c)
    PROVE  /\ agent' \in [Refs -> {"none", "listed", "ready"}]
           /\ inflight' \in [Refs -> Int]
           /\ listed' \in [Reconcilers -> SUBSET SUBSET Refs]
           /\ UNCHANGED <<busy, pending, older>>
<1>1. ASSUME NEW S, Forget(S)
      PROVE  /\ agent' \in [Refs -> {"none", "listed", "ready"}]
             /\ inflight' \in [Refs -> Int]
             /\ UNCHANGED <<busy, pending, older>>
  BY <1>1 DEF Forget, TypeOK
<1>2. CASE Forget(ListPods) /\ UNCHANGED listed
  BY <1>1, <1>2 DEF TypeOK
<1>3. CASE (\E S \in listed[c] : Forget(S)) /\ listed' = [listed EXCEPT ![c] = {}]
  <2>1. {} \in SUBSET SUBSET Refs
    OBVIOUS
  <2>2. listed' \in [Reconcilers -> SUBSET SUBSET Refs]
    BY <1>3, <2>1 DEF TypeOK
  <2> QED BY <1>1, <1>3, <2>2
<1>4. CASE UNCHANGED <<entryVars, listed>>
  BY <1>4 DEF TypeOK, entryVars
<1> QED BY <1>2, <1>3, <1>4 DEF Reconcile

LEMMA TurnType ==
    ASSUME TypeOK, NEW q \in Reqs, Turn(q)
    PROVE  TypeOK'
<1> DEFINE r == RefOf[q]
<1>r. r \in Refs
  BY SlotsAssumption
<1>l. ASSUME Release(r)
      PROVE  /\ older' \in SUBSET (Refs \X Refs)
             /\ inflight' \in [Refs -> Int]
             /\ UNCHANGED <<agent, busy, pending>>
  <2>1. older' \in SUBSET (Refs \X Refs)
    BY <1>l, <1>r, TouchedType DEF Release, TypeOK
  <2>2. inflight' \in [Refs -> Int]
    BY <1>l, <1>r DEF Release, TypeOK
  <2> QED BY <1>l, <2>1, <2>2 DEF Release
<1>1. CASE Dial(q)
  BY <1>1 DEF Dial, Goto, TypeOK, PodsTypeOK, podVars, entryVars, taskVars
<1>2. CASE Unreachable(q)
  <2>1. Release(r)
    BY <1>2 DEF Unreachable
  <2>2. /\ pc' \in [Reqs -> Steps]
        /\ attempt' \in [Reqs -> {0, 1}]
    BY <1>2 DEF Unreachable, TypeOK
  <2> QED BY <1>2, <1>l, <2>1, <2>2 DEF Unreachable, TypeOK, PodsTypeOK, podVars, taskVars
<1>3. CASE StreamEnds(q)
  <2>1. Release(r)
    BY <1>3 DEF StreamEnds
  <2>2. /\ pc' \in [Reqs -> Steps]
        /\ attempt' \in [Reqs -> {0, 1}]
    BY <1>3 DEF StreamEnds, Goto, Finished, TypeOK
  <2> QED BY <1>3, <1>l, <2>1, <2>2 DEF StreamEnds, TypeOK, PodsTypeOK, podVars, taskVars
<1>4. CASE RetryReconcile(q)
  <2>1. Reconcile(q)
    BY <1>4 DEF RetryReconcile
  <2>2. q \in Reconcilers
    BY DEF Reconcilers
  <2>3. /\ pc' \in [Reqs -> Steps]
        /\ attempt' \in [Reqs -> {0, 1}]
    BY <1>4 DEF RetryReconcile, Goto, TypeOK
  <2> QED BY <1>4, <2>1, <2>2, <2>3, ReconcileType DEF RetryReconcile, TypeOK, PodsTypeOK, podVars
<1> QED BY <1>1, <1>2, <1>3, <1>4 DEF Turn

LEMMA ReapType ==
    ASSUME TypeOK, Reap
    PROVE  TypeOK'
<1> DEFINE Reaps == [at : {"tick", "pick", "stop"}, left : SUBSET Refs, deleted : SUBSET Refs]
<1>1. CASE ReapReconcile
  <2>1. "reaper" \in Reconcilers
    BY DEF Reconcilers
  <2>2. reap' \in Reaps
    BY <1>1 DEF ReapReconcile, TypeOK
  <2> QED BY <1>1, <2>1, <2>2, ReconcileType DEF ReapReconcile, TypeOK, PodsTypeOK, podVars
<1>2. CASE ReapPick
  <2>1. PICK V \in SUBSET {r \in Refs : Reapable(r)} :
            /\ busy' = [r \in Refs |-> busy[r] \/ r \in V]
            /\ reap' = [reap EXCEPT !.at = IF V = {} THEN "tick" ELSE "stop", !.left = V]
    BY <1>2 DEF ReapPick
  <2>2. V \in SUBSET Refs
    OBVIOUS
  <2>3. busy' \in [Refs -> BOOLEAN]
    BY <2>1, Zenon
  <2>4. reap' \in Reaps
    BY <2>1, <2>2 DEF TypeOK
  <2> QED BY <1>2, <2>3, <2>4 DEF ReapPick, TypeOK, PodsTypeOK, podVars
<1>3. ASSUME NEW r \in Refs, ReapDeletes(r)
      PROVE  TypeOK'
  <2>1. PodsTypeOK'
    BY <1>3 DEF ReapDeletes, DeletePod, TypeOK, PodsTypeOK, Phases
  <2>2. reap' \in Reaps
    BY <1>3 DEF ReapDeletes, TypeOK
  <2> QED BY <1>3, <2>1, <2>2 DEF ReapDeletes, TypeOK, entryVars
<1>4. ASSUME NEW r \in Refs, ReapEnds(r)
      PROVE  TypeOK'
  <2>1. agent' \in [Refs -> {"none", "listed", "ready"}]
    BY <1>4 DEF ReapEnds, TypeOK
  <2>2. reap' \in Reaps
    BY <1>4 DEF ReapEnds, TypeOK
  <2>3. busy' \in [Refs -> BOOLEAN]
    BY <1>4 DEF ReapEnds, TypeOK
  <2> QED BY <1>4, <2>1, <2>2, <2>3 DEF ReapEnds, TypeOK, PodsTypeOK, podVars
<1> QED BY <1>1, <1>2, <1>3, <1>4 DEF Reap

LEMMA RestartType ==
    ASSUME TypeOK, Restart
    PROVE  TypeOK'
<1>1. PodsTypeOK'
  BY DEF Restart, podVars, TypeOK, PodsTypeOK
<1>2. listed' \in [Reconcilers -> SUBSET SUBSET Refs]
  <2>1. {} \in SUBSET SUBSET Refs
    OBVIOUS
  <2>2. listed' = [c \in Reconcilers |-> {}]
    BY DEF Restart
  <2> QED BY <2>1, <2>2, Zenon
<1>3. reap' \in [at : {"tick", "pick", "stop"}, left : SUBSET Refs, deleted : SUBSET Refs]
  BY DEF Restart
<1>4. queue' \in Seq(Reqs)
  BY DEF Restart
<1>5. /\ agent' \in [Refs -> {"none", "listed", "ready"}]
      /\ inflight' \in [Refs -> Int]
      /\ busy' \in [Refs -> BOOLEAN]
      /\ pending' \in [Refs -> Sels \cup {NoSel}]
      /\ older' \in SUBSET (Refs \X Refs)
  BY DEF Restart
<1>6. pc' \in [Reqs -> Steps]
  BY DEF Restart, Finished, TypeOK
<1>7. /\ sel' \in [Reqs -> Sels \cup {NoSel}]
      /\ target' \in [Reqs -> Refs]
      /\ attempt' \in [Reqs -> {0, 1}]
      /\ bgDue' \in BOOLEAN
  BY SlotsAssumption DEF Restart
<1>8. latest' \in [Refs -> Sels \cup {DefaultSel}]
  BY DEF Restart, TypeOK
<1> QED BY <1>1, <1>2, <1>3, <1>4, <1>5, <1>6, <1>7, <1>8 DEF TypeOK

LEMMA ClusterType ==
    ASSUME TypeOK, NEW r \in Refs, Cluster(r)
    PROVE  TypeOK'
<1>1. PodsTypeOK'
  <2>1. CASE PodSyncs(r)
    <3>1. profile' \in [Refs -> Sels \cup {DefaultSel}]
      BY <2>1 DEF PodSyncs, TypeOK, PodsTypeOK
    <3> QED BY <2>1, <3>1 DEF PodSyncs, TypeOK, PodsTypeOK
  <2>5. CASE PodReady(r)
    BY <2>5 DEF PodReady, TypeOK, PodsTypeOK, Phases
  <2>2. CASE PodFails(r)
    BY <2>2 DEF PodFails, TypeOK, PodsTypeOK, Phases
  <2>3. CASE PodGone(r)
    BY <2>3 DEF PodGone, TypeOK, PodsTypeOK, Phases
  <2>4. CASE PodLost(r)
    BY <2>4 DEF PodLost, TypeOK, PodsTypeOK, Phases
  <2> QED BY <2>1, <2>2, <2>3, <2>4, <2>5 DEF Cluster
<1>2. pc' \in [Reqs -> Steps]
  BY DEF Cluster, Cut, TypeOK
<1>3. BrokerUnchanged
  BY DEF Cluster
<1> QED BY <1>1, <1>2, <1>3 DEF BrokerUnchanged, TypeOK, entryVars, taskVars

LEMMA StepType == TypeOK /\ [Next]_vars => TypeOK'
<1> SUFFICES ASSUME TypeOK, [Next]_vars
             PROVE  TypeOK'
  OBVIOUS
<1>1. ASSUME NEW q \in Reqs, Arrive(q)
      PROVE  TypeOK'
  BY <1>1 DEF Arrive, Goto, TypeOK, PodsTypeOK, podVars, entryVars, taskVars
<1>2. ASSUME NEW r \in Refs, NEW s \in Sels, SetPending(r, s)
      PROVE  TypeOK'
  BY <1>2 DEF SetPending, TypeOK, PodsTypeOK, podVars, taskVars
<1>3. ASSUME NEW c \in Reconcilers, ListAnswers(c)
      PROVE  TypeOK'
  <2>1. ListPods \in SUBSET Refs
    BY DEF ListPods
  <2>2. {ListPods} \in SUBSET SUBSET Refs
    BY <2>1
  <2>3. listed' \in [Reconcilers -> SUBSET SUBSET Refs]
    BY <1>3, <2>2 DEF ListAnswers, TypeOK
  <2> QED BY <1>3, <2>3 DEF ListAnswers, TypeOK, PodsTypeOK, podVars, entryVars
<1>4. CASE BackgroundReconcile
  <2>1. "bg" \in Reconcilers
    BY DEF Reconcilers
  <2> QED BY <1>4, <2>1, ReconcileType DEF BackgroundReconcile, TypeOK, PodsTypeOK, podVars
<1>5. CASE UNCHANGED vars
  BY <1>5 DEF vars, podVars, entryVars, taskVars, TypeOK, PodsTypeOK
<1> QED BY <1>1, <1>2, <1>3, <1>4, <1>5, AcquireType, StartStopType, TurnType, ReapType,
           RestartType, ClusterType DEF Next

(* Every reachable state has the types TypeOK states: every handler of the  *)
(* slot manager leaves the entries, the queue and the goroutines' places    *)
(* well formed.                                                             *)
THEOREM TypeCorrect == Spec => []TypeOK
BY InitType, StepType, PTL DEF Spec
----------------------------------------------------------------------------
(* One backend operation per agent.  OneOperationPerAgent alone is not      *)
(* inductive: the start of a request must be of its own agent, and the      *)
(* reaper may mark new victims only when it has none left.                  *)
OwnStart == \A q \in Reqs :
               pc[q] \in {"start", "created", "abort", "aborting"} => target[q] = RefOf[q]
ReapTurn == reap.at # "stop" => reap.left = {}

(* OneOperationPerAgent, read from the operations instead of the agents.    *)
OperationsOwnBusy ==
    /\ \A q \in Reqs : Operating(q) => busy[target[q]] /\ target[q] \notin reap.left
    /\ \A p, q \in Reqs : Operating(p) /\ Operating(q) /\ target[p] = target[q] => p = q
BusyIsOwned ==
    /\ \A r \in Refs : busy[r] => r \in reap.left \/ \E q \in Reqs : Operating(q) /\ target[q] = r
    /\ \A r \in reap.left : busy[r]

OpInv == OperationsOwnBusy /\ BusyIsOwned /\ OwnStart /\ ReapTurn

LEMMA OpInvOneOperation == TypeOK /\ OpInv => OneOperationPerAgent
<1> SUFFICES ASSUME TypeOK, OpInv, NEW r \in Refs
             PROVE  LET ops == {q \in Reqs : Operating(q) /\ target[q] = r} IN
                    /\ busy[r] <=> ops # {} \/ r \in reap.left
                    /\ \A p, q \in ops : p = q
                    /\ r \in reap.left => ops = {}
  BY DEF OneOperationPerAgent
<1>1. busy[r] \in BOOLEAN
  BY DEF TypeOK
<1> QED BY <1>1 DEF OpInv, OperationsOwnBusy, BusyIsOwned

(* A step that begins and ends no operation.                                *)
KeepsOperations == \A q \in Reqs : \/ pc'[q] = pc[q]
                                   \/ Operating(q) /\ Operating(q)' /\ target[q] = RefOf[q]
                                   \/ ~Operating(q) /\ ~Operating(q)'

LEMMA OpInvKept ==
    ASSUME OpInv, KeepsOperations, UNCHANGED <<busy, target>>, reap'.left = reap.left, ReapTurn'
    PROVE  OpInv'
<1>1. \A q \in Reqs : Operating(q)' <=> Operating(q)
  BY DEF Operating, KeepsOperations
<1>2. OperationsOwnBusy'
  BY <1>1 DEF OpInv, OperationsOwnBusy
<1>3. BusyIsOwned'
  BY <1>1 DEF OpInv, BusyIsOwned
<1>4. OwnStart'
  BY DEF OpInv, OwnStart, Operating, KeepsOperations
<1> QED BY <1>2, <1>3, <1>4 DEF OpInv

(* So does one of a single request between two such places, ...             *)
Aside == {"new", "loop", "wait", "admitted", "failed", "dial", "stream", "broken", "retry", "silent", "done"}

LEMMA OpInvMoves ==
    ASSUME TypeOK, OpInv, NEW q \in Reqs, pc[q] \in Aside, NEW step \in Aside,
           pc' = [pc EXCEPT ![q] = step], UNCHANGED <<busy, target, reap>>
    PROVE  OpInv'
<1>1. KeepsOperations
  BY DEF Aside, KeepsOperations, Operating, TypeOK
<1> QED BY <1>1, OpInvKept DEF OpInv, ReapTurn

(* ... or one within the start of its agent.                                *)
LEMMA OpInvStarts ==
    ASSUME TypeOK, OpInv, NEW q \in Reqs, pc[q] \in {"start", "created", "abort"},
           NEW step \in {"created", "abort", "aborting"},
           pc' = [pc EXCEPT ![q] = step], UNCHANGED <<busy, target, reap>>
    PROVE  OpInv'
<1>1. KeepsOperations
  BY DEF KeepsOperations, Operating, TypeOK, OpInv, OwnStart
<1> QED BY <1>1, OpInvKept DEF OpInv, ReapTurn

(* A step that enters a start or a stop of an agent nobody works on.        *)
LEMMA OpInvBegins ==
    ASSUME TypeOK, OpInv, NEW q \in Reqs, InLoop(q), NEW r \in Refs, ~busy[r],
           NEW step \in {"start", "stop"}, NEW s, Begins(q, r, step, s),
           step = "start" => r = RefOf[q]
    PROVE  OpInv'
<1>1. /\ pc' = [pc EXCEPT ![q] = step]
      /\ busy' = [busy EXCEPT ![r] = TRUE]
      /\ target' = [target EXCEPT ![q] = r]
      /\ reap' = reap
  BY DEF Begins, Goto, taskVars
<1>2. pc \in [Reqs -> Steps] /\ busy \in [Refs -> BOOLEAN] /\ target \in [Reqs -> Refs]
  BY DEF TypeOK
<1>3. ~Operating(q) /\ Operating(q)' /\ target'[q] = r
  BY <1>1, <1>2 DEF InLoop, Operating
<1>4. ASSUME NEW p \in Reqs, p # q
      PROVE  target'[p] = target[p] /\ pc'[p] = pc[p] /\ (Operating(p)' <=> Operating(p))
  BY <1>1, <1>2, <1>4 DEF Operating
<1>5. OperationsOwnBusy'
  <2>1. r \notin reap.left
    BY DEF OpInv, BusyIsOwned
  <2>2. \A p \in Reqs : Operating(p) => target[p] # r
    BY DEF OpInv, OperationsOwnBusy
  <2>3. \A p \in Reqs : Operating(p)' => busy'[target'[p]] /\ target'[p] \notin reap'.left
    BY <1>1, <1>2, <1>3, <1>4, <2>1 DEF OpInv, OperationsOwnBusy
  <2>4. \A p1, p2 \in Reqs : Operating(p1)' /\ Operating(p2)' /\ target'[p1] = target'[p2] => p1 = p2
    BY <1>3, <1>4, <2>2 DEF OpInv, OperationsOwnBusy
  <2> QED BY <2>3, <2>4 DEF OperationsOwnBusy
<1>6. BusyIsOwned'
  BY <1>1, <1>2, <1>3, <1>4 DEF OpInv, BusyIsOwned
<1>7. OwnStart'
  BY <1>1, <1>2, <1>3, <1>4 DEF OpInv, OwnStart
<1>8. ReapTurn'
  BY <1>1 DEF OpInv, ReapTurn
<1> QED BY <1>5, <1>6, <1>7, <1>8 DEF OpInv

(* A step that ends the operation of q.                                     *)
LEMMA OpInvEnds ==
    ASSUME TypeOK, OpInv, NEW q \in Reqs, Operating(q), NEW step \in {"loop", "failed"},
           OpEnds(q, step)
    PROVE  OpInv'
<1> DEFINE r == target[q]
<1>1. /\ pc' = [pc EXCEPT ![q] = step]
      /\ busy' = [busy EXCEPT ![r] = FALSE]
      /\ target' = [target EXCEPT ![q] = RefOf[q]]
      /\ reap' = reap
  BY DEF OpEnds, Goto, taskVars
<1>2. pc \in [Reqs -> Steps] /\ busy \in [Refs -> BOOLEAN] /\ target \in [Reqs -> Refs]
  BY DEF TypeOK
<1>3. ~Operating(q)' /\ r \in Refs /\ ~busy'[r] /\ r \notin reap.left
  BY <1>1, <1>2 DEF Operating, OpInv, OperationsOwnBusy
<1>4. ASSUME NEW p \in Reqs, p # q
      PROVE  target'[p] = target[p] /\ pc'[p] = pc[p] /\ (Operating(p)' <=> Operating(p))
  BY <1>1, <1>2, <1>4 DEF Operating
<1>5. OperationsOwnBusy'
  <2>1. \A p \in Reqs : Operating(p)' => p # q /\ target[p] # r
    BY <1>3, <1>4 DEF OpInv, OperationsOwnBusy
  <2>2. \A p \in Reqs : Operating(p)' => busy'[target'[p]] /\ target'[p] \notin reap'.left
    BY <1>1, <1>2, <1>4, <2>1 DEF OpInv, OperationsOwnBusy
  <2>3. \A p1, p2 \in Reqs : Operating(p1)' /\ Operating(p2)' /\ target'[p1] = target'[p2] => p1 = p2
    BY <1>3, <1>4, <2>1 DEF OpInv, OperationsOwnBusy
  <2> QED BY <2>2, <2>3 DEF OperationsOwnBusy
<1>6. BusyIsOwned'
  <2>1. ASSUME NEW b \in Refs, busy'[b]
        PROVE  b \in reap'.left \/ \E p \in Reqs : Operating(p)' /\ target'[p] = b
    <3>1. b # r /\ busy[b]
      BY <1>1, <1>2, <1>3, <2>1
    <3> QED BY <1>1, <1>3, <1>4, <3>1 DEF OpInv, BusyIsOwned
  <2>2. \A b \in reap'.left : busy'[b]
    BY <1>1, <1>2, <1>3 DEF OpInv, BusyIsOwned
  <2> QED BY <2>1, <2>2 DEF BusyIsOwned
<1>7. OwnStart'
  BY <1>1, <1>2, <1>3, <1>4 DEF OpInv, OwnStart
<1>8. ReapTurn'
  BY <1>1 DEF OpInv, ReapTurn
<1> QED BY <1>5, <1>6, <1>7, <1>8 DEF OpInv

LEMMA InitOpInv == Init => OpInv
<1> SUFFICES ASSUME Init PROVE OpInv
  OBVIOUS
<1>1. \A q \in Reqs : pc[q] = "new" /\ ~Operating(q)
  BY DEF Init, Operating
<1>2. /\ \A r \in Refs : busy[r] = FALSE
      /\ reap.left = {} /\ reap.at = "tick"
  BY DEF Init
<1> QED BY <1>1, <1>2 DEF OpInv, OperationsOwnBusy, BusyIsOwned, OwnStart, ReapTurn

LEMMA AcquireOpInv ==
    ASSUME TypeOK, OpInv, NEW q \in Reqs, Acquire(q)
    PROVE  OpInv'
<1> DEFINE r == RefOf[q]
<1>r. r \in Refs
  BY SlotsAssumption
<1>1. CASE Admit(q)
  BY <1>1, OpInvMoves DEF Admit, InLoop, Goto, Aside, taskVars
<1>2. CASE Attach(q)
  BY <1>2, <1>r, OpInvBegins DEF Attach
<1>3. CASE Reselect(q)
  BY <1>3, <1>r, OpInvBegins DEF Reselect
<1>4. CASE ClaimSlot(q)
  BY <1>4, <1>r, OpInvBegins DEF ClaimSlot
<1>5. CASE Evict(q)
  <2>1. PICK v \in Refs : LRUIdle(v) /\ Begins(q, v, "stop", NoSel)
    BY <1>5 DEF Evict
  <2>2. ~busy[v]
    BY <2>1 DEF LRUIdle, IdleCandidates
  <2> QED BY <1>5, <2>1, <2>2, OpInvBegins DEF Evict
<1>6. CASE Wait(q)
  BY <1>6, OpInvMoves DEF Wait, InLoop, Goto, Aside, entryVars
<1>7. CASE GiveUp(q)
  BY <1>7, OpInvMoves DEF GiveUp, Goto, Aside, entryVars, taskVars
<1>8. CASE Return(q)
  <2>1. PICK step \in Aside : pc' = [pc EXCEPT ![q] = step]
    BY <1>8 DEF Return, Finished, Aside
  <2> QED BY <1>8, <2>1, OpInvMoves DEF Return, Aside, entryVars, taskVars
<1> QED BY <1>1, <1>2, <1>3, <1>4, <1>5, <1>6, <1>7, <1>8 DEF Acquire

LEMMA StartStopOpInv ==
    ASSUME TypeOK, OpInv, NEW q \in Reqs, StartStop(q)
    PROVE  OpInv'
<1>p. pc \in [Reqs -> Steps]
  BY DEF TypeOK
<1>t. OwnStart
  BY DEF OpInv
<1>1. CASE StartCreates(q)
  BY <1>1, OpInvStarts DEF StartCreates, Goto, entryVars, taskVars
<1>2. CASE StartReturns(q)
  BY <1>2, OpInvEnds DEF StartReturns, Operating
<1>3. CASE StartErrs(q)
  <2>1. pc[q] \in {"start", "created", "abort"}
    BY <1>3 DEF StartErrs
  <2> QED BY <1>3, <2>1, OpInvStarts DEF StartErrs, Goto, entryVars, taskVars
<1>4. CASE AbortDeletes(q)
  BY <1>4, OpInvStarts DEF AbortDeletes, Goto, entryVars, taskVars
<1>5. CASE AbortEnds(q)
  BY <1>5, OpInvEnds DEF AbortEnds, Operating
<1>6. CASE StopDeletes(q)
  <2>1. /\ pc[q] = "stop" /\ pc' = [pc EXCEPT ![q] = "stopping"]
        /\ UNCHANGED <<busy, target, reap>>
    BY <1>6 DEF StopDeletes, Goto, entryVars, taskVars
  <2>2. \A p \in Reqs : Operating(p)' <=> Operating(p)
    BY <1>p, <2>1 DEF Operating
  <2>3. OwnStart'
    BY <1>p, <1>t, <2>1 DEF OwnStart
  <2> QED BY <2>1, <2>2, <2>3 DEF OpInv, OperationsOwnBusy, BusyIsOwned, ReapTurn
<1>7. CASE StopReturns(q)
  BY <1>7, OpInvEnds DEF StopReturns, Operating
<1>8. CASE StopErrs(q)
  BY <1>8, OpInvEnds DEF StopErrs, Operating
<1> QED BY <1>1, <1>2, <1>3, <1>4, <1>5, <1>6, <1>7, <1>8 DEF StartStop

LEMMA TurnOpInv ==
    ASSUME TypeOK, OpInv, NEW q \in Reqs, Turn(q)
    PROVE  OpInv'
<1>1. CASE Dial(q)
  BY <1>1, OpInvMoves DEF Dial, Goto, Aside, entryVars, taskVars
<1>2. CASE Unreachable(q)
  <2>1. PICK step \in Aside : pc' = [pc EXCEPT ![q] = step]
    BY <1>2 DEF Unreachable, Aside
  <2> QED BY <1>2, <2>1, OpInvMoves DEF Unreachable, Release, Aside, taskVars
<1>3. CASE StreamEnds(q)
  <2>1. PICK step \in Aside : pc' = [pc EXCEPT ![q] = step]
    BY <1>3 DEF StreamEnds, Goto, Finished, Aside
  <2> QED BY <1>3, <2>1, OpInvMoves DEF StreamEnds, Release, Aside, taskVars
<1>4. CASE RetryReconcile(q)
  <2>1. UNCHANGED busy
    BY <1>4, ReconcileType DEF RetryReconcile, Reconcilers
  <2> QED BY <1>4, <2>1, OpInvMoves DEF RetryReconcile, Goto, Aside
<1> QED BY <1>1, <1>2, <1>3, <1>4 DEF Turn

LEMMA ReapOpInv ==
    ASSUME TypeOK, OpInv, Reap
    PROVE  OpInv'
<1>p. busy \in [Refs -> BOOLEAN] /\ reap.left \in SUBSET Refs
  BY DEF TypeOK
<1>t. ReapTurn
  BY DEF OpInv
<1>o. ASSUME UNCHANGED <<pc, target>>
      PROVE  /\ \A q \in Reqs : Operating(q)' <=> Operating(q)
             /\ OwnStart'
  BY <1>o DEF Operating, OpInv, OwnStart
<1>r. reap \in [at : {"tick", "pick", "stop"}, left : SUBSET Refs, deleted : SUBSET Refs]
  BY DEF TypeOK
<1>1. CASE ReapReconcile
  <2>1. UNCHANGED busy
    BY <1>1, ReconcileType DEF ReapReconcile, Reconcilers
  <2>2. reap'.left = reap.left /\ ReapTurn'
    BY <1>1, <1>r, <1>t DEF ReapReconcile, ReapTurn
  <2>3. KeepsOperations
    BY <1>1 DEF ReapReconcile, KeepsOperations
  <2> QED BY <1>1, <2>1, <2>2, <2>3, OpInvKept DEF ReapReconcile
<1>2. CASE ReapPick
  <2>1. PICK V \in SUBSET {r \in Refs : Reapable(r)} :
            /\ busy' = [r \in Refs |-> busy[r] \/ r \in V]
            /\ reap' = [reap EXCEPT !.at = IF V = {} THEN "tick" ELSE "stop", !.left = V]
    BY <1>2 DEF ReapPick
  <2>2. /\ V \subseteq Refs
        /\ \A r \in V : ~busy[r]
        /\ \A r \in Refs : busy'[r] <=> busy[r] \/ r \in V
    BY <2>1 DEF Reapable
  <2>3. reap'.left = V /\ (V # {} => reap'.at = "stop")
    BY <2>1, <1>r
  <2>4. reap.left = {}
    BY <1>2, <1>t DEF ReapPick, ReapTurn
  <2>5. UNCHANGED <<pc, target>>
    BY <1>2 DEF ReapPick
  <2>6. target \in [Reqs -> Refs]
    BY DEF TypeOK
  <2>7. OperationsOwnBusy'
    BY <2>2, <2>3, <2>5, <2>6, <1>o DEF OpInv, OperationsOwnBusy
  <2>8. BusyIsOwned'
    BY <2>2, <2>3, <2>4, <2>5, <1>o DEF OpInv, BusyIsOwned
  <2> QED BY <2>3, <2>5, <2>7, <2>8, <1>o DEF OpInv, ReapTurn
<1>3. ASSUME NEW r \in Refs, ReapDeletes(r)
      PROVE  OpInv'
  <2>1. reap'.left = reap.left /\ ReapTurn'
    BY <1>3, <1>r, <1>t DEF ReapDeletes, ReapTurn
  <2>2. KeepsOperations
    BY <1>3 DEF ReapDeletes, KeepsOperations
  <2> QED BY <1>3, <2>1, <2>2, OpInvKept DEF ReapDeletes, entryVars
<1>4. ASSUME NEW r \in Refs, ReapEnds(r)
      PROVE  OpInv'
  <2>1. /\ r \in reap.left
        /\ busy' = [busy EXCEPT ![r] = FALSE]
        /\ reap'.left = reap.left \ {r}
        /\ ReapTurn'
        /\ UNCHANGED <<pc, target>>
    BY <1>4 DEF ReapEnds, ReapTurn
  <2>2. target \in [Reqs -> Refs]
    BY DEF TypeOK
  <2>3. OperationsOwnBusy'
    BY <2>1, <2>2, <1>o, <1>p DEF OpInv, OperationsOwnBusy
  <2>4. BusyIsOwned'
    BY <2>1, <1>o, <1>p DEF OpInv, BusyIsOwned
  <2> QED BY <2>1, <2>3, <2>4, <1>o DEF OpInv
<1> QED BY <1>1, <1>2, <1>3, <1>4 DEF Reap

LEMMA StepOpInv == TypeOK /\ OpInv /\ [Next]_vars => OpInv'
<1> SUFFICES ASSUME TypeOK, OpInv, [Next]_vars
             PROVE  OpInv'
  OBVIOUS
<1>p. pc \in [Reqs -> Steps]
  BY DEF TypeOK
<1>t. ReapTurn
  BY DEF OpInv
<1>1. ASSUME NEW q \in Reqs, Arrive(q)
      PROVE  OpInv'
  BY <1>1, OpInvMoves DEF Arrive, Goto, Aside, entryVars, taskVars
<1>2. ASSUME NEW r \in Refs, NEW s \in Sels, SetPending(r, s)
      PROVE  OpInv'
  <2>1. KeepsOperations
    BY <1>2 DEF SetPending, KeepsOperations
  <2>2. UNCHANGED <<busy, target, reap>>
    BY <1>2 DEF SetPending, taskVars
  <2> QED BY <2>1, <2>2, <1>t, OpInvKept DEF ReapTurn
<1>3. ASSUME NEW c \in Reconcilers, ListAnswers(c)
      PROVE  OpInv'
  <2>1. KeepsOperations
    BY <1>3 DEF ListAnswers, KeepsOperations
  <2>2. UNCHANGED <<busy, target, reap>>
    BY <1>3 DEF ListAnswers, entryVars
  <2> QED BY <2>1, <2>2, <1>t, OpInvKept DEF ReapTurn
<1>4. CASE BackgroundReconcile
  <2>1. UNCHANGED busy
    BY <1>4, ReconcileType DEF BackgroundReconcile, Reconcilers
  <2>2. KeepsOperations
    BY <1>4 DEF BackgroundReconcile, KeepsOperations
  <2>3. UNCHANGED <<target, reap>>
    BY <1>4 DEF BackgroundReconcile
  <2> QED BY <2>1, <2>2, <2>3, <1>t, OpInvKept DEF ReapTurn
<1>5. CASE Restart
  <2>1. \A q \in Reqs : pc'[q] \in {"new", "done"} /\ ~Operating(q)'
    BY <1>5 DEF Restart, Finished, Operating
  <2>2. /\ \A r \in Refs : busy'[r] = FALSE
        /\ reap'.left = {}
    BY <1>5 DEF Restart
  <2> QED BY <2>1, <2>2 DEF OpInv, OperationsOwnBusy, BusyIsOwned, OwnStart, ReapTurn
<1>6. ASSUME NEW r \in Refs, Cluster(r)
      PROVE  OpInv'
  <2>1. BrokerUnchanged
    BY <1>6 DEF Cluster
  <2>2. \A q \in Reqs : pc'[q] = pc[q] \/ (~Operating(q) /\ ~Operating(q)')
    BY <1>6, <1>p DEF Cluster, Cut, Operating
  <2>3. KeepsOperations
    BY <2>2 DEF KeepsOperations
  <2>4. UNCHANGED <<busy, target, reap>>
    BY <2>1 DEF BrokerUnchanged, entryVars, taskVars
  <2> QED BY <2>3, <2>4, <1>t, OpInvKept DEF ReapTurn
<1>7. CASE UNCHANGED vars
  <2>1. KeepsOperations
    BY <1>7 DEF vars, KeepsOperations
  <2>2. UNCHANGED <<busy, target, reap>>
    BY <1>7 DEF vars, entryVars, taskVars
  <2> QED BY <2>1, <2>2, <1>t, OpInvKept DEF ReapTurn
<1> QED BY <1>1, <1>2, <1>3, <1>4, <1>5, <1>6, <1>7, AcquireOpInv, StartStopOpInv, TurnOpInv,
           ReapOpInv DEF Next

LEMMA OpInvInvariant == Spec => [](TypeOK /\ OpInv)
<1>1. Init => TypeOK /\ OpInv
  BY InitType, InitOpInv
<1>2. (TypeOK /\ OpInv) /\ [Next]_vars => (TypeOK /\ OpInv)'
  BY StepType, StepOpInv
<1> QED BY <1>1, <1>2, PTL DEF Spec

(* At any time an agent is started or stopped by one request or by the      *)
(* reaper, and its entry is busy exactly then: the busy flag set under the  *)
(* lock before every Start and Stop excludes every other one.               *)
THEOREM OneOperation == Spec => []OneOperationPerAgent
BY OpInvInvariant, OpInvOneOperation, PTL
=============================================================================
