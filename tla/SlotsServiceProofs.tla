------------------------- MODULE SlotsServiceProofs -------------------------
(* Who is served: the queue of requests that wait for a slot, the counts of *)
(* the requests that have one, the pool that Slots implements, and the      *)
(* selection an agent runs with when a request is admitted to it.           *)
EXTENDS SlotsCapacityProofs

(* An agent gets a slot out of turn for nobody: while requests are queued,  *)
(* an agent enters the count only for the request at the head.              *)
THEOREM HeadFirst == Spec => SlotsGoToTheHead
<1> DEFINE Step == \A r \in Refs : r \notin Used /\ r \in Used' /\ queue # <<>>
                                      => RefOf[Head(queue)] = r \/ Restart
<1>1. ASSUME TypeOK, OpInv, [Next]_vars
      PROVE  Step
  <2>1. CASE UsedShrinks \/ Restart
    BY <2>1 DEF UsedShrinks
  <2>2. ASSUME NEW q \in Reqs, ClaimSlot(q)
        PROVE  Step
    <3>1. Used' = Used \cup {RefOf[q]} /\ (queue # <<>> => Head(queue) = q)
      BY <1>1, <2>2, BeginsUsed, SlotsAssumption DEF ClaimSlot, HeadOfQueue
    <3> QED BY <3>1
  <2> QED BY <1>1, <2>1, <2>2, StepUsed
<1>2. (TypeOK /\ OpInv) /\ [Next]_vars => [Step]_vars
  BY <1>1
<1> QED BY <1>2, OpInvInvariant, PTL DEF Spec, SlotsGoToTheHead
----------------------------------------------------------------------------
(* Tickets.  Where a request that holds one can be.                         *)
InAcquire(q) == InLoop(q) \/ Operating(q) \/ pc[q] \in {"admitted", "failed"}
Acquiring == {q \in Reqs : InAcquire(q)}
OneTicketEach == \A i, j \in DOMAIN queue : queue[i] = queue[j] => i = j

(* A request leaves Acquire only by Return, or with the broker.             *)
StaysInAcquire == \A q \in Reqs : InAcquire(q) => InAcquire(q)'

LEMMA TicketsByAcquiring ==
    ASSUME TypeOK
    PROVE  TicketsHeldByWaiters <=> OneTicketEach /\ \A i \in DOMAIN queue : queue[i] \in Acquiring
<1>1. \A i \in DOMAIN queue : queue[i] \in Reqs
  BY DEF TypeOK
<1> QED BY <1>1 DEF TicketsHeldByWaiters, OneTicketEach, Acquiring, InAcquire

LEMMA TicketsKept ==
    ASSUME TypeOK, TicketsHeldByWaiters, UNCHANGED queue, StaysInAcquire
    PROVE  TicketsHeldByWaiters'
<1>1. \A i \in DOMAIN queue : queue[i] \in Reqs
  BY DEF TypeOK
<1> QED BY <1>1 DEF TicketsHeldByWaiters, StaysInAcquire, InAcquire, InLoop, Operating

(* A step of one request within Acquire, and of one outside it.             *)
AcquireSteps == {"loop", "wait", "start", "created", "abort", "aborting", "stop", "stopping",
                 "admitted", "failed"}

LEMMA StaysInside ==
    ASSUME TypeOK, NEW q \in Reqs, NEW step \in AcquireSteps, pc' = [pc EXCEPT ![q] = step]
    PROVE  StaysInAcquire
BY DEF StaysInAcquire, InAcquire, InLoop, Operating, TypeOK, AcquireSteps

LEMMA StaysOutside ==
    ASSUME TypeOK, NEW q \in Reqs, pc[q] \notin AcquireSteps, NEW step \in Steps,
           pc' = [pc EXCEPT ![q] = step]
    PROVE  StaysInAcquire
BY DEF StaysInAcquire, InAcquire, InLoop, Operating, TypeOK, AcquireSteps

(* Taking a ticket out removes exactly it and keeps the others apart.       *)
LEMMA DequeuedOthers ==
    ASSUME NEW q \in Reqs, queue \in Seq(Reqs), OneTicketEach
    PROVE  /\ \A i, j \in DOMAIN Dequeued(q) : Dequeued(q)[i] = Dequeued(q)[j] => i = j
           /\ \A i \in DOMAIN Dequeued(q) : /\ Dequeued(q)[i] # q
                                            /\ Ticketed(Dequeued(q)[i])
<1>1. CASE ~Ticketed(q)
  BY <1>1 DEF Dequeued, Ticketed, OneTicketEach
<1>2. CASE Ticketed(q)
  <2> DEFINE k == CHOOSE j \in DOMAIN queue : queue[j] = q
             short == [j \in 1..(Len(queue) - 1) |-> IF j < k THEN queue[j] ELSE queue[j + 1]]
             at(j) == IF j < k THEN j ELSE j + 1
  <2>1. k \in 1..Len(queue) /\ queue[k] = q
    BY <1>2 DEF Ticketed
  <2>2. Dequeued(q) = short
    BY <1>2 DEF Dequeued
  <2>3. /\ DOMAIN short = 1..(Len(queue) - 1)
        /\ Len(queue) \in Nat
        /\ DOMAIN queue = 1..Len(queue)
    OBVIOUS
  <2> HIDE DEF k
  <2>4. ASSUME NEW j \in 1..(Len(queue) - 1)
        PROVE  at(j) \in DOMAIN queue /\ at(j) # k /\ short[j] = queue[at(j)]
    <3>1. k \in Int /\ j \in Int /\ Len(queue) \in Int
      BY <2>1, <2>3, <2>4
    <3>2. at(j) \in DOMAIN queue /\ at(j) # k
      BY <2>1, <2>3, <2>4, <3>1
    <3>3. short[j] = queue[at(j)]
      BY <2>4
    <3> QED BY <3>2, <3>3
  <2>5. \A i, j \in 1..(Len(queue) - 1) : at(i) = at(j) => i = j
    BY <2>1, <2>3
  <2> HIDE DEF short, at
  <2>6. \A i \in 1..(Len(queue) - 1) : short[i] # q /\ Ticketed(short[i])
    BY <2>1, <2>3, <2>4 DEF OneTicketEach, Ticketed
  <2>7. \A i, j \in 1..(Len(queue) - 1) : short[i] = short[j] => i = j
    BY <2>4, <2>5 DEF OneTicketEach
  <2> QED BY <2>2, <2>3, <2>6, <2>7
<1> QED BY <1>1, <1>2

LEMMA InitTickets == Init => TicketsHeldByWaiters
BY DEF Init, TicketsHeldByWaiters

LEMMA AcquireTickets ==
    ASSUME TypeOK, TicketsHeldByWaiters, NEW q \in Reqs, Acquire(q)
    PROVE  TicketsHeldByWaiters'
<1>1. CASE Admit(q)
  BY <1>1, StaysInside, TicketsKept DEF Admit, Goto, AcquireSteps
<1>2. ASSUME NEW r \in Refs, NEW step \in {"start", "stop"}, NEW s, Begins(q, r, step, s)
      PROVE  TicketsHeldByWaiters'
  BY <1>2, StaysInside, TicketsKept DEF Begins, Goto, AcquireSteps
<1>3. CASE Attach(q) \/ Reselect(q) \/ ClaimSlot(q)
  BY <1>2, <1>3, SlotsAssumption DEF Attach, Reselect, ClaimSlot
<1>4. CASE Evict(q)
  BY <1>2, <1>4 DEF Evict
<1>5. CASE Wait(q)
  <2>1. pc' = [pc EXCEPT ![q] = "wait"] /\ InLoop(q)
    BY <1>5 DEF Wait, Goto
  <2>2. StaysInAcquire
    BY <2>1, StaysInside DEF AcquireSteps
  <2>3. CASE UNCHANGED queue
    BY <2>2, <2>3, TicketsKept
  <2>4. CASE queue' = Append(queue, q) /\ ~Ticketed(q)
    <3>1. /\ DOMAIN queue = 1..Len(queue) /\ Len(queue) \in Nat
          /\ DOMAIN queue' = 1..(Len(queue) + 1)
          /\ \A i \in 1..Len(queue) : queue'[i] = queue[i] /\ queue[i] \in Reqs
          /\ queue'[Len(queue) + 1] = q
      BY <2>4 DEF TypeOK
    <3>2. \A i \in 1..Len(queue) : queue[i] # q
      BY <2>4, <3>1 DEF Ticketed
    <3>3. OneTicketEach'
      BY <3>1, <3>2 DEF TicketsHeldByWaiters, OneTicketEach
    <3>4. Acquiring \subseteq Acquiring' /\ q \in Acquiring'
      BY <2>1, <2>2 DEF StaysInAcquire, Acquiring, InAcquire
    <3>5. \A i \in DOMAIN queue' : queue'[i] \in Acquiring'
      BY <3>1, <3>4, TicketsByAcquiring
    <3> QED BY <3>3, <3>5 DEF TicketsHeldByWaiters, OneTicketEach, Acquiring, InAcquire
  <2> QED BY <1>5, <2>3, <2>4 DEF Wait, NeedsTicket
<1>6. CASE GiveUp(q)
  BY <1>6, StaysInside, TicketsKept DEF GiveUp, Goto, AcquireSteps
<1>7. CASE Return(q)
  <2>1. queue' = Dequeued(q)
    BY <1>7 DEF Return
  <2>2. \A p \in Reqs \ {q} : pc'[p] = pc[p]
    BY <1>7 DEF Return, TypeOK
  <2>3. queue \in Seq(Reqs) /\ OneTicketEach
    BY DEF TypeOK, TicketsHeldByWaiters, OneTicketEach
  <2>4. OneTicketEach'
    BY <2>1, <2>3, DequeuedOthers DEF OneTicketEach
  <2>5. ASSUME NEW i \in DOMAIN queue'
        PROVE  queue'[i] \in Acquiring'
    <3>1. queue'[i] # q /\ Ticketed(queue'[i])
      BY <2>1, <2>3, <2>5, DequeuedOthers
    <3>2. PICK j \in DOMAIN queue : queue[j] = queue'[i]
      BY <3>1 DEF Ticketed
    <3>3. queue[j] \in Acquiring \ {q}
      BY <3>1, <3>2, TicketsByAcquiring
    <3>4. \A p \in Acquiring \ {q} : p \in Acquiring'
      BY <2>2 DEF Acquiring, InAcquire, InLoop, Operating
    <3> QED BY <3>2, <3>3, <3>4
  <2> QED BY <2>4, <2>5 DEF TicketsHeldByWaiters, OneTicketEach, Acquiring, InAcquire
<1> QED BY <1>1, <1>3, <1>4, <1>5, <1>6, <1>7 DEF Acquire

LEMMA StepTickets == TypeOK /\ TicketsHeldByWaiters /\ [Next]_vars => TicketsHeldByWaiters'
<1> SUFFICES ASSUME TypeOK, TicketsHeldByWaiters, [Next]_vars
             PROVE  TicketsHeldByWaiters'
  OBVIOUS
<1>k. ASSUME UNCHANGED <<queue, pc>>
      PROVE  TicketsHeldByWaiters'
  BY <1>k, TicketsKept DEF StaysInAcquire, InAcquire, InLoop, Operating
<1>1. ASSUME NEW q \in Reqs, Arrive(q)
      PROVE  TicketsHeldByWaiters'
  BY <1>1, StaysInside, TicketsKept DEF Arrive, Goto, AcquireSteps
<1>2. ASSUME NEW q \in Reqs, StartStop(q)
      PROVE  TicketsHeldByWaiters'
  <2>1. PICK step \in {"loop", "created", "abort", "aborting", "stopping", "failed"} :
            pc' = [pc EXCEPT ![q] = step] /\ UNCHANGED queue
    BY <1>2 DEF StartStop, StartCreates, StartReturns, StartErrs, AbortDeletes, AbortEnds,
                StopDeletes, StopReturns, StopErrs, OpEnds, Goto
  <2> QED BY <2>1, StaysInside, TicketsKept DEF AcquireSteps
<1>3. ASSUME NEW q \in Reqs, Turn(q)
      PROVE  TicketsHeldByWaiters'
  <2>1. /\ UNCHANGED queue
        /\ pc' = [pc EXCEPT ![q] = pc'[q]] /\ pc'[q] \in Steps
    <3>1. pc \in [Reqs -> Steps]
      BY DEF TypeOK
    <3> QED BY <1>3, <3>1
         DEF Turn, Dial, Unreachable, StreamEnds, RetryReconcile, Goto, Finished, Steps
  <2>2. pc[q] \notin AcquireSteps
    BY <1>3 DEF Turn, Dial, Unreachable, StreamEnds, RetryReconcile, AcquireSteps
  <2> QED BY <2>1, <2>2, StaysOutside, TicketsKept
<1>4. CASE Reap
  BY <1>4, <1>k DEF Reap, ReapReconcile, ReapPick, ReapDeletes, ReapEnds
<1>5. CASE Restart
  BY <1>5 DEF Restart, TicketsHeldByWaiters
<1>6. ASSUME NEW r \in Refs, Cluster(r)
      PROVE  TicketsHeldByWaiters'
  <2>1. UNCHANGED queue
    BY <1>6 DEF Cluster, BrokerUnchanged
  <2>2. \A q \in Reqs : pc'[q] = pc[q] \/ (pc[q] = "stream" /\ pc'[q] = "broken")
    BY <1>6 DEF Cluster, Cut
  <2>3. StaysInAcquire
    BY <2>2 DEF StaysInAcquire, InAcquire, InLoop, Operating
  <2> QED BY <2>1, <2>3, TicketsKept
<1>7. CASE BackgroundReconcile \/ UNCHANGED vars
  BY <1>7, <1>k DEF BackgroundReconcile, vars
<1>8. ASSUME NEW r \in Refs, NEW s \in Sels, SetPending(r, s)
      PROVE  TicketsHeldByWaiters'
  BY <1>8, <1>k DEF SetPending
<1>9. ASSUME NEW c \in Reconcilers, ListAnswers(c)
      PROVE  TicketsHeldByWaiters'
  BY <1>9, <1>k DEF ListAnswers
<1> QED BY <1>1, <1>2, <1>3, <1>4, <1>5, <1>6, <1>7, <1>8, <1>9, AcquireTickets DEF Next

(* Every ticket in the queue is that of one request still in Acquire: its   *)
(* deferred dequeue runs on every way out, so no abandoned ticket blocks    *)
(* the queue.                                                               *)
THEOREM TicketsHeld == Spec => []TicketsHeldByWaiters
BY InitTickets, StepTickets, TypeCorrect, PTL DEF Spec
----------------------------------------------------------------------------
(* Requests being served.  A pod that is deleted under an open stream lets  *)
(* reconcile drop the count (lost_pod); a stop cut short leaves an entry    *)
(* whose pod goes away; a stale List answer forgets an agent that came back.*)
ServeFaults == Faults \cap {"pod_lost", "stop_cut_short", "stale_list"} = {}

StartSteps == {"start", "created", "abort", "aborting"}
Up == {"ready", "failed"}

(* Only an agent without a key is started, an agent with one has a pod      *)
(* unless its stop has deleted it, and the reaper stops one at a time.      *)
StartNotReady == \A q \in Reqs : pc[q] \in StartSteps => agent[RefOf[q]] # "ready"
Deleting(r) == r \in reap.deleted \/ \E q \in Reqs : pc[q] = "stopping" /\ target[q] = r
ReadyHasPod == \A r \in Refs : agent[r] = "ready" => pod[r] \in Up \/ Deleting(r)
OneDeleted == reap.deleted \subseteq reap.left /\ \A r, s \in reap.deleted : r = s

PodSide == StartNotReady /\ ReadyHasPod /\ OneDeleted

LEMMA InitPodSide == Init => PodSide
BY DEF Init, PodSide, StartNotReady, StartSteps, ReadyHasPod, OneDeleted

(* A step that gives no agent a key, takes no pod from one that has it, and *)
(* begins no operation.                                                     *)
LEMMA PodSideKept ==
    ASSUME PodSide, UNCHANGED target, reap'.left = reap.left, reap'.deleted = reap.deleted,
           \A r \in Refs : agent'[r] = "ready" =>
                              agent[r] = "ready" /\ (pod[r] \in Up => pod'[r] \in Up),
           \A q \in Reqs : /\ pc'[q] \in StartSteps => pc[q] \in StartSteps
                           /\ pc[q] = "stopping" => pc'[q] = "stopping"
    PROVE  PodSide'
<1>1. StartNotReady'
  BY SlotsAssumption DEF PodSide, StartNotReady
<1>2. ReadyHasPod'
  BY DEF PodSide, ReadyHasPod, Deleting
<1>3. OneDeleted'
  BY DEF PodSide, OneDeleted
<1> QED BY <1>1, <1>2, <1>3 DEF PodSide

(* One request's step that enters no start and leaves no stop.              *)
LEMMA PodSideMoves ==
    ASSUME TypeOK, PodSide, UNCHANGED <<pod, agent, target, reap>>,
           NEW q \in Reqs, NEW step, pc' = [pc EXCEPT ![q] = step],
           pc[q] # "stopping", step \in StartSteps => pc[q] \in StartSteps
    PROVE  PodSide'
<1>1. \A p \in Reqs : /\ pc'[p] \in StartSteps => pc[p] \in StartSteps
                      /\ pc[p] = "stopping" => pc'[p] = "stopping"
  BY DEF TypeOK
<1> QED BY <1>1, PodSideKept

LEMMA PodSideBegins ==
    ASSUME TypeOK, PodSide, NEW q \in Reqs, InLoop(q), NEW r \in Refs,
           NEW step \in {"start", "stop"}, NEW s, Begins(q, r, step, s),
           step = "start" => agent[RefOf[q]] # "ready"
    PROVE  PodSide'
<1>1. /\ pc' = [pc EXCEPT ![q] = step] /\ target' = [target EXCEPT ![q] = r]
      /\ UNCHANGED <<pod, agent, reap>>
  BY DEF Begins, Goto, podVars, taskVars
<1>2. pc \in [Reqs -> Steps] /\ target \in [Reqs -> Refs]
  BY DEF TypeOK
<1>3. StartNotReady'
  BY <1>1, <1>2 DEF PodSide, StartNotReady, StartSteps
<1>4. ReadyHasPod'
  <2>1. \A p \in Reqs : pc[p] = "stopping" => pc'[p] = "stopping" /\ target'[p] = target[p]
    BY <1>1, <1>2 DEF InLoop
  <2> QED BY <1>1, <2>1 DEF PodSide, ReadyHasPod, Deleting
<1>5. OneDeleted'
  BY <1>1 DEF PodSide, OneDeleted
<1> QED BY <1>3, <1>4, <1>5 DEF PodSide

(* The end of an operation leaves a key only with an agent whose pod is up. *)
LEMMA PodSideEnds ==
    ASSUME TypeOK, OpInv, PodSide, NEW q \in Reqs, Operating(q), NEW step \in {"loop", "failed"},
           OpEnds(q, step), UNCHANGED podVars, NEW a, agent' = [agent EXCEPT ![target[q]] = a],
           a = "ready" => pod[target[q]] \in Up
    PROVE  PodSide'
<1> DEFINE r == target[q]
<1>1. /\ pc' = [pc EXCEPT ![q] = step] /\ target' = [target EXCEPT ![q] = RefOf[q]]
      /\ UNCHANGED <<pod, reap>>
  BY DEF OpEnds, Goto, podVars, taskVars
<1>2. /\ pc \in [Reqs -> Steps] /\ target \in [Reqs -> Refs] /\ r \in Refs
      /\ agent \in [Refs -> {"none", "listed", "ready"}]
  BY DEF TypeOK
<1>3. ASSUME NEW p \in Reqs, p # q, Operating(p)
      PROVE  target[p] # r /\ pc'[p] = pc[p] /\ target'[p] = target[p]
  BY <1>1, <1>2, <1>3 DEF OpInv, OperationsOwnBusy
<1>4. StartNotReady'
  <2>1. ASSUME NEW p \in Reqs, pc'[p] \in StartSteps
        PROVE  agent'[RefOf[p]] # "ready"
    <3>1. p # q /\ pc[p] \in StartSteps /\ Operating(p)
      BY <1>1, <1>2, <2>1 DEF StartSteps, Operating
    <3>2. target[p] = RefOf[p] /\ RefOf[p] \in Refs
      BY <3>1, SlotsAssumption DEF OpInv, OwnStart, StartSteps
    <3> QED BY <1>2, <1>3, <3>1, <3>2 DEF PodSide, StartNotReady
  <2> QED BY <2>1 DEF StartNotReady
<1>5. ReadyHasPod'
  <2>1. ASSUME NEW b \in Refs, b # r, agent'[b] = "ready"
        PROVE  pod'[b] \in Up \/ Deleting(b)'
    <3>1. pod[b] \in Up \/ Deleting(b)
      BY <1>2, <2>1 DEF PodSide, ReadyHasPod
    <3>2. ASSUME NEW p \in Reqs, pc[p] = "stopping", target[p] = b
          PROVE  pc'[p] = "stopping" /\ target'[p] = b
      BY <1>3, <2>1, <3>2 DEF Operating
    <3> QED BY <1>1, <3>1, <3>2 DEF Deleting
  <2> QED BY <1>1, <1>2, <2>1 DEF ReadyHasPod
<1>6. OneDeleted'
  BY <1>1 DEF PodSide, OneDeleted
<1> QED BY <1>4, <1>5, <1>6 DEF PodSide

LEMMA ForgetAgents ==
    ASSUME TypeOK, NEW c \in Reconcilers, Reconcile(c)
    PROVE  \A r \in Refs : agent'[r] = "ready" => agent[r] = "ready"
BY DEF Reconcile, Forget, entryVars

LEMMA AcquirePodSide ==
    ASSUME TypeOK, PodSide, NEW q \in Reqs, Acquire(q)
    PROVE  PodSide'
<1> DEFINE r == RefOf[q]
<1>r. r \in Refs
  BY SlotsAssumption
<1>1. CASE Admit(q)
  BY <1>1, PodSideMoves DEF Admit, InLoop, Goto, StartSteps, podVars, taskVars
<1>2. CASE Attach(q)
  BY <1>2, <1>r, PodSideBegins DEF Attach
<1>3. CASE Reselect(q)
  BY <1>3, <1>r, PodSideBegins DEF Reselect
<1>4. CASE ClaimSlot(q)
  BY <1>4, <1>r, PodSideBegins DEF ClaimSlot
<1>5. CASE Evict(q)
  BY <1>5, PodSideBegins DEF Evict
<1>6. CASE Wait(q)
  BY <1>6, PodSideMoves DEF Wait, InLoop, Goto, StartSteps, podVars, entryVars
<1>7. CASE GiveUp(q)
  BY <1>7, PodSideMoves DEF GiveUp, Goto, StartSteps, podVars, entryVars, taskVars
<1>8. CASE Return(q)
  <2>1. PICK step \in {"dial", "new", "done"} : pc' = [pc EXCEPT ![q] = step]
    BY <1>8 DEF Return, Finished
  <2> QED BY <1>8, <2>1, PodSideMoves DEF Return, StartSteps, podVars, entryVars, taskVars
<1> QED BY <1>1, <1>2, <1>3, <1>4, <1>5, <1>6, <1>7, <1>8 DEF Acquire

LEMMA StartStopPodSide ==
    ASSUME ServeFaults, TypeOK, OpInv, PodSide, NEW q \in Reqs, StartStop(q)
    PROVE  PodSide'
<1> DEFINE r == RefOf[q]
           t == target[q]
<1>r. r \in Refs /\ t \in Refs
  BY SlotsAssumption DEF TypeOK
<1>p. /\ pc \in [Reqs -> Steps] /\ agent \in [Refs -> {"none", "listed", "ready"}]
      /\ pod \in [Refs -> Phases]
  BY DEF TypeOK, PodsTypeOK
<1>o. pc[q] \in StartSteps => t = r /\ agent[r] # "ready"
  BY DEF OpInv, OwnStart, PodSide, StartNotReady, StartSteps
<1>1. CASE StartCreates(q) \/ AbortDeletes(q)
  <2>1. /\ UNCHANGED <<agent, target, reap>> /\ pc[q] \in StartSteps
        /\ \E step \in StartSteps : pc' = [pc EXCEPT ![q] = step]
    BY <1>1 DEF StartCreates, AbortDeletes, Goto, StartSteps, entryVars, taskVars
  <2>2. \A b \in Refs : b # r => pod'[b] = pod[b]
    BY <1>1, <1>p DEF StartCreates, AbortDeletes, CreatePod, DeletePod
  <2>3. \A p \in Reqs : /\ pc'[p] \in StartSteps => pc[p] \in StartSteps
                        /\ pc[p] = "stopping" => pc'[p] = "stopping"
    BY <2>1, <1>p DEF StartSteps
  <2> QED BY <1>o, <2>1, <2>2, <2>3, PodSideKept
<1>2. CASE StartReturns(q)
  <2>1. agent' = [agent EXCEPT ![t] = "ready"] /\ pod[t] \in Up
    BY <1>2, <1>o DEF StartReturns, StartSteps, Up
  <2> QED BY <1>2, <2>1, PodSideEnds DEF StartReturns, Operating
<1>3. CASE StartErrs(q)
  BY <1>3, PodSideMoves DEF StartErrs, Goto, StartSteps, podVars, entryVars, taskVars
<1>4. CASE AbortEnds(q)
  <2>1. agent' = [agent EXCEPT ![t] = "none"]
    BY <1>4, <1>o DEF AbortEnds, StartSteps
  <2> QED BY <1>4, <2>1, PodSideEnds DEF AbortEnds, Operating
<1>5. CASE StopDeletes(q)
  <2>1. /\ UNCHANGED <<agent, target, reap>>
        /\ pc[q] = "stop" /\ pc' = [pc EXCEPT ![q] = "stopping"]
    BY <1>5 DEF StopDeletes, Goto, entryVars, taskVars
  <2>2. \A b \in Refs : b # t => pod'[b] = pod[b]
    BY <1>5, <1>p DEF StopDeletes, DeletePod
  <2>3. StartNotReady' /\ OneDeleted'
    BY <2>1, <1>p DEF PodSide, StartNotReady, StartSteps, OneDeleted
  <2>4. ReadyHasPod'
    <3>1. Deleting(t)'
      BY <2>1, <1>p DEF Deleting
    <3>2. \A b \in Refs : Deleting(b) => Deleting(b)'
      BY <2>1, <1>p DEF Deleting
    <3> QED BY <2>1, <2>2, <3>1, <3>2 DEF PodSide, ReadyHasPod
  <2> QED BY <2>3, <2>4 DEF PodSide
<1>6. CASE StopReturns(q)
  BY <1>6, PodSideEnds DEF StopReturns, Operating
<1>7. CASE StopErrs(q)
  <2>1. pc[q] = "stop" /\ Operating(q)
    BY <1>7 DEF StopErrs, ServeFaults, Operating
  <2>2. ~Deleting(t)
    <3>1. t \notin reap.deleted
      BY <2>1 DEF OpInv, OperationsOwnBusy, PodSide, OneDeleted
    <3>2. \A p \in Reqs : pc[p] = "stopping" /\ target[p] = t => FALSE
      BY <2>1 DEF OpInv, OperationsOwnBusy, Operating
    <3> QED BY <3>1, <3>2 DEF Deleting
  <2>3. agent[t] = "ready" => pod[t] \in Up
    BY <1>r, <2>2 DEF PodSide, ReadyHasPod
  <2>4. agent' = [agent EXCEPT ![t] = agent[t]]
    BY <1>7, <1>p DEF StopErrs
  <2> QED BY <1>7, <2>1, <2>3, <2>4, PodSideEnds DEF StopErrs
<1> QED BY <1>1, <1>2, <1>3, <1>4, <1>5, <1>6, <1>7 DEF StartStop

LEMMA TurnPodSide ==
    ASSUME TypeOK, PodSide, NEW q \in Reqs, Turn(q)
    PROVE  PodSide'
<1>1. CASE Dial(q)
  BY <1>1, PodSideMoves DEF Dial, Goto, StartSteps, podVars, entryVars, taskVars
<1>2. CASE Unreachable(q)
  <2>1. PICK step \in {"retry", "silent"} : pc' = [pc EXCEPT ![q] = step]
    BY <1>2 DEF Unreachable
  <2> QED BY <1>2, <2>1, PodSideMoves DEF Unreachable, Release, StartSteps, podVars, taskVars
<1>3. CASE StreamEnds(q)
  <2>1. PICK step \in {"new", "done"} : pc' = [pc EXCEPT ![q] = step]
    BY <1>3 DEF StreamEnds, Goto, Finished
  <2> QED BY <1>3, <2>1, PodSideMoves DEF StreamEnds, Release, StartSteps, podVars, taskVars
<1>4. CASE RetryReconcile(q)
  <2>1. \A r \in Refs : agent'[r] = "ready" => agent[r] = "ready"
    BY <1>4, ForgetAgents DEF RetryReconcile, Reconcilers
  <2>2. \A p \in Reqs : /\ pc'[p] \in StartSteps => pc[p] \in StartSteps
                        /\ pc[p] = "stopping" => pc'[p] = "stopping"
    BY <1>4 DEF RetryReconcile, Goto, StartSteps, TypeOK
  <2> QED BY <1>4, <2>1, <2>2, PodSideKept DEF RetryReconcile, podVars
<1> QED BY <1>1, <1>2, <1>3, <1>4 DEF Turn

LEMMA ReapPodSide ==
    ASSUME ServeFaults, TypeOK, OpInv, PodSide, Reap
    PROVE  PodSide'
<1>r. /\ reap \in [at : {"tick", "pick", "stop"}, left : SUBSET Refs, deleted : SUBSET Refs]
      /\ agent \in [Refs -> {"none", "listed", "ready"}] /\ pod \in [Refs -> Phases]
  BY DEF TypeOK, PodsTypeOK
<1>1. CASE ReapReconcile
  <2>1. \A r \in Refs : agent'[r] = "ready" => agent[r] = "ready"
    BY <1>1, ForgetAgents DEF ReapReconcile, Reconcilers
  <2>2. reap'.left = reap.left /\ reap'.deleted = reap.deleted
    BY <1>1, <1>r DEF ReapReconcile
  <2> QED BY <1>1, <2>1, <2>2, PodSideKept DEF ReapReconcile, podVars
<1>2. CASE ReapPick
  <2>1. reap.left = {} /\ reap.deleted = {}
    BY <1>2 DEF ReapPick, OpInv, ReapTurn, PodSide, OneDeleted
  <2>2. reap'.deleted = {} /\ UNCHANGED <<pod, agent, pc, target>>
    BY <1>2, <1>r, <2>1 DEF ReapPick, podVars
  <2> QED BY <2>1, <2>2 DEF PodSide, StartNotReady, ReadyHasPod, Deleting, OneDeleted
<1>3. ASSUME NEW r \in Refs, ReapDeletes(r)
      PROVE  PodSide'
  <2>1. /\ r \in reap.left /\ reap.deleted = {}
        /\ reap'.left = reap.left /\ reap'.deleted = {r}
        /\ UNCHANGED <<agent, pc, target>>
    BY <1>3, <1>r DEF ReapDeletes, entryVars
  <2>2. \A b \in Refs : b # r => pod'[b] = pod[b]
    BY <1>3, <1>r DEF ReapDeletes, DeletePod
  <2> QED BY <2>1, <2>2 DEF PodSide, StartNotReady, ReadyHasPod, Deleting, OneDeleted
<1>4. ASSUME NEW r \in Refs, ReapEnds(r)
      PROVE  PodSide'
  <2>1. /\ r \in reap.left
        /\ reap'.left = reap.left \ {r} /\ reap'.deleted = {}
        /\ UNCHANGED <<pod, pc, target>>
    BY <1>4, <1>r DEF ReapEnds, podVars
  <2>2. \/ r \in reap.deleted /\ agent' = [agent EXCEPT ![r] = "none"]
        \/ reap.deleted = {} /\ UNCHANGED agent
    BY <1>4 DEF ReapEnds, ServeFaults
  <2>3. \A b \in Refs : agent'[b] = "ready" => agent[b] = "ready" /\ b \notin reap.deleted
    BY <2>2, <1>r DEF PodSide, OneDeleted
  <2>4. StartNotReady'
    BY <2>1, <2>3, SlotsAssumption DEF PodSide, StartNotReady
  <2>5. ReadyHasPod'
    BY <2>1, <2>3 DEF PodSide, ReadyHasPod, Deleting
  <2> QED BY <2>1, <2>4, <2>5 DEF PodSide, OneDeleted
<1> QED BY <1>1, <1>2, <1>3, <1>4 DEF Reap

LEMMA StepPodSide == ServeFaults /\ TypeOK /\ OpInv /\ PodSide /\ [Next]_vars => PodSide'
<1> SUFFICES ASSUME ServeFaults, TypeOK, OpInv, PodSide, [Next]_vars
             PROVE  PodSide'
  OBVIOUS
<1>1. ASSUME NEW q \in Reqs, Arrive(q)
      PROVE  PodSide'
  BY <1>1, PodSideMoves DEF Arrive, Goto, StartSteps, podVars, entryVars, taskVars
<1>2. ASSUME NEW r \in Refs, NEW s \in Sels, SetPending(r, s)
      PROVE  PodSide'
  BY <1>2, PodSideKept DEF SetPending, podVars, taskVars
<1>3. ASSUME NEW c \in Reconcilers, ListAnswers(c)
      PROVE  PodSide'
  BY <1>3, PodSideKept DEF ListAnswers, podVars, entryVars
<1>4. CASE BackgroundReconcile
  <2>1. \A r \in Refs : agent'[r] = "ready" => agent[r] = "ready"
    BY <1>4, ForgetAgents DEF BackgroundReconcile, Reconcilers
  <2> QED BY <1>4, <2>1, PodSideKept DEF BackgroundReconcile, podVars
<1>5. CASE Restart
  BY <1>5, SlotsAssumption
     DEF Restart, Finished, PodSide, StartNotReady, StartSteps, ReadyHasPod, OneDeleted
<1>6. ASSUME NEW r \in Refs, Cluster(r)
      PROVE  PodSide'
  <2>1. \A b \in Refs : pod[b] \in Up => pod'[b] \in Up
    BY <1>6 DEF ServeFaults, Cluster, PodSyncs, PodReady, PodFails, PodGone, Up, TypeOK, PodsTypeOK
  <2>2. \A q \in Reqs : /\ pc'[q] \in StartSteps => pc[q] \in StartSteps
                        /\ pc[q] = "stopping" => pc'[q] = "stopping"
    BY <1>6 DEF Cluster, Cut, StartSteps
  <2>3. UNCHANGED <<agent, target, reap>>
    BY <1>6 DEF Cluster, BrokerUnchanged, entryVars, taskVars
  <2> QED BY <2>1, <2>2, <2>3, PodSideKept
<1>7. CASE UNCHANGED vars
  BY <1>7, PodSideKept DEF vars, podVars, entryVars, taskVars
<1> QED BY <1>1, <1>2, <1>3, <1>4, <1>5, <1>6, <1>7, AcquirePodSide, StartStopPodSide,
           TurnPodSide, ReapPodSide DEF Next

(* An agent that serves has its key and is not busy; the in-flight count is *)
(* that of its requests.                                                    *)
ServingAt(r) == {q \in Reqs : Serving(q) /\ RefOf[q] = r}
Steady(r) == agent[r] = "ready" /\ ~busy[r]
ServingSteady == \A q \in Reqs : Serving(q) => Steady(RefOf[q])
ServeInv == ServingCounted /\ ServingSteady

LEMMA ServingAtFinite ==
    ASSUME NEW r \in Refs
    PROVE  IsFiniteSet(ServingAt(r)) /\ Cardinality(ServingAt(r)) \in Nat
<1>1. ServingAt(r) \subseteq Reqs
  BY DEF ServingAt
<1> QED BY <1>1, SlotsAssumption, FS_Subset, FS_CardinalityType

LEMMA NobodyServed ==
    ASSUME ServeInv, NEW r \in Refs, inflight[r] = 0 \/ ~Steady(r)
    PROVE  ServingAt(r) = {} /\ inflight[r] = 0
<1>1. inflight[r] = Cardinality(ServingAt(r))
  BY DEF ServeInv, ServingCounted, ServingAt
<1>2. CASE inflight[r] = 0
  BY <1>1, <1>2, ServingAtFinite, FS_EmptySet
<1>3. CASE ~Steady(r)
  <2>1. ServingAt(r) = {}
    BY <1>3 DEF ServingAt, ServeInv, ServingSteady
  <2> QED BY <1>1, <2>1, FS_EmptySet
<1> QED BY <1>2, <1>3

(* A step that starts and ends no service, and disturbs only agents that    *)
(* serve nobody.                                                            *)
ServesTheSame == \A q \in Reqs : Serving(q)' <=> Serving(q)
Spares(r) == \/ inflight'[r] = inflight[r] /\ (Steady(r) => Steady(r)')
             \/ inflight'[r] \in {0, inflight[r]} /\ (inflight[r] = 0 \/ ~Steady(r))

LEMMA ServeKept ==
    ASSUME ServeInv, ServesTheSame, \A r \in Refs : Spares(r)
    PROVE  ServeInv'
<1>1. \A r \in Refs : ServingAt(r)' = ServingAt(r)
  BY DEF ServingAt, ServesTheSame
<1>2. \A r \in Refs : inflight'[r] = inflight[r]
  BY NobodyServed DEF Spares
<1>3. ServingCounted'
  <2>1. \A r \in Refs : inflight[r] = Cardinality(ServingAt(r))
    BY DEF ServeInv, ServingCounted, ServingAt
  <2>2. \A r \in Refs : inflight'[r] = Cardinality(ServingAt(r)')
    BY <1>1, <1>2, <2>1
  <2> QED BY <2>2 DEF ServingCounted, ServingAt
<1>4. ServingSteady'
  <2>1. ASSUME NEW q \in Reqs, Serving(q)'
        PROVE  Steady(RefOf[q])'
    <3>1. Serving(q) /\ RefOf[q] \in Refs /\ q \in ServingAt(RefOf[q])
      BY <2>1, SlotsAssumption DEF ServesTheSame, ServingAt
    <3>2. Steady(RefOf[q]) /\ inflight[RefOf[q]] # 0
      BY <3>1, NobodyServed DEF ServeInv, ServingSteady
    <3> QED BY <3>1, <3>2 DEF Spares
  <2> QED BY <2>1 DEF ServingSteady
<1> QED BY <1>3, <1>4 DEF ServeInv

(* One request's step between two places outside a service, or within one.  *)
ServeSteps == {"admitted", "dial", "stream", "broken"}

LEMMA MovesServe ==
    ASSUME TypeOK, NEW q \in Reqs, NEW step, pc' = [pc EXCEPT ![q] = step],
           step \in ServeSteps <=> pc[q] \in ServeSteps
    PROVE  ServesTheSame
BY DEF TypeOK, ServesTheSame, Serving, ServeSteps

LEMMA SameEntries ==
    ASSUME UNCHANGED <<agent, inflight, busy>>
    PROVE  \A r \in Refs : Spares(r)
BY DEF Spares, Steady

LEMMA InitServe == Init => ServeInv
<1> SUFFICES ASSUME Init PROVE ServeInv
  OBVIOUS
<1>1. \A q \in Reqs : ~Serving(q)
  BY DEF Init, Serving
<1>2. \A r \in Refs : {q \in Reqs : Serving(q) /\ RefOf[q] = r} = {} /\ inflight[r] = 0
  BY <1>1 DEF Init
<1>3. ServingCounted
  BY <1>2, FS_EmptySet DEF ServingCounted
<1> QED BY <1>1, <1>3 DEF ServeInv, ServingSteady

(* Admit counts its request in, a release counts it out.                    *)
LEMMA AdmitServe ==
    ASSUME TypeOK, ServeInv, NEW q \in Reqs, Admit(q)
    PROVE  ServeInv'
<1> DEFINE r == RefOf[q]
<1>1. /\ r \in Refs /\ Steady(r) /\ ~Serving(q)
      /\ inflight' = [inflight EXCEPT ![r] = @ + 1]
      /\ pc' = [pc EXCEPT ![q] = "admitted"]
      /\ UNCHANGED <<agent, busy>>
  BY SlotsAssumption DEF Admit, Goto, Admissible, Steady, InLoop, Serving
<1>2. pc \in [Reqs -> Steps] /\ inflight \in [Refs -> Int]
  BY DEF TypeOK
<1>3. \A p \in Reqs : Serving(p)' <=> Serving(p) \/ p = q
  BY <1>1, <1>2 DEF Serving
<1>4. ServingCounted'
  <2>1. ASSUME NEW b \in Refs
        PROVE  inflight'[b] = Cardinality(ServingAt(b)')
    <3>1. inflight[b] = Cardinality(ServingAt(b))
      BY DEF ServeInv, ServingCounted, ServingAt
    <3>2. CASE b = r
      <4>1. ServingAt(b)' = ServingAt(b) \cup {q} /\ q \notin ServingAt(b)
        BY <1>1, <1>3, <3>2 DEF ServingAt
      <4>2. Cardinality(ServingAt(b) \cup {q}) = Cardinality(ServingAt(b)) + 1
        BY <4>1, ServingAtFinite, FS_AddElement
      <4> QED BY <1>1, <1>2, <3>1, <3>2, <4>1, <4>2
    <3>3. CASE b # r
      <4>1. ServingAt(b)' = ServingAt(b)
        BY <1>3, <3>3 DEF ServingAt
      <4> QED BY <1>1, <1>2, <3>1, <3>3, <4>1
    <3> QED BY <3>2, <3>3
  <2> QED BY <2>1 DEF ServingCounted, ServingAt
<1>5. ServingSteady'
  BY <1>1, <1>3 DEF ServeInv, ServingSteady, Steady
<1> QED BY <1>4, <1>5 DEF ServeInv

LEMMA ReleaseServe ==
    ASSUME TypeOK, ServeInv, NEW q \in Reqs, Serving(q), Release(RefOf[q]),
           NEW step, step \notin ServeSteps, pc' = [pc EXCEPT ![q] = step]
    PROVE  ServeInv'
<1> DEFINE r == RefOf[q]
<1>1. /\ r \in Refs
      /\ inflight' = [inflight EXCEPT ![r] = @ - 1]
      /\ UNCHANGED <<agent, busy>>
  BY SlotsAssumption DEF Release
<1>2. pc \in [Reqs -> Steps] /\ inflight \in [Refs -> Int]
  BY DEF TypeOK
<1>3. \A p \in Reqs : Serving(p)' <=> Serving(p) /\ p # q
  BY <1>2 DEF Serving, ServeSteps
<1>4. ServingCounted'
  <2>1. ASSUME NEW b \in Refs
        PROVE  inflight'[b] = Cardinality(ServingAt(b)')
    <3>1. inflight[b] = Cardinality(ServingAt(b))
      BY DEF ServeInv, ServingCounted, ServingAt
    <3>2. CASE b = r
      <4>1. ServingAt(b)' = ServingAt(b) \ {q} /\ q \in ServingAt(b)
        BY <1>3, <3>2 DEF ServingAt
      <4>2. Cardinality(ServingAt(b) \ {q}) = Cardinality(ServingAt(b)) - 1
        BY <4>1, ServingAtFinite, FS_RemoveElement
      <4> QED BY <1>1, <1>2, <3>1, <3>2, <4>1, <4>2
    <3>3. CASE b # r
      <4>1. ServingAt(b)' = ServingAt(b)
        BY <1>3, <3>3 DEF ServingAt
      <4> QED BY <1>1, <1>2, <3>1, <3>3, <4>1
    <3> QED BY <3>2, <3>3
  <2> QED BY <2>1 DEF ServingCounted, ServingAt
<1>5. ServingSteady'
  BY <1>1, <1>3 DEF ServeInv, ServingSteady, Steady
<1> QED BY <1>4, <1>5 DEF ServeInv

LEMMA BeginsServe ==
    ASSUME TypeOK, ServeInv, NEW q \in Reqs, InLoop(q), NEW r \in Refs,
           NEW step \in {"start", "stop"}, NEW s, Begins(q, r, step, s),
           inflight[r] = 0 \/ ~Steady(r)
    PROVE  ServeInv'
<1>1. ServesTheSame
  BY MovesServe DEF Begins, Goto, InLoop, ServeSteps
<1>2. \A b \in Refs : Spares(b)
  BY DEF Begins, Spares, Steady, TypeOK
<1> QED BY <1>1, <1>2, ServeKept

LEMMA EndsServe ==
    ASSUME TypeOK, OpInv, ServeInv, NEW q \in Reqs, Operating(q), NEW step \in {"loop", "failed"},
           OpEnds(q, step), \A b \in Refs : b # target[q] => agent'[b] = agent[b]
    PROVE  ServeInv'
<1>1. ServesTheSame
  BY MovesServe DEF OpEnds, Goto, Operating, ServeSteps
<1>2. busy[target[q]] /\ \A b \in Refs : b # target[q] => busy'[b] = busy[b]
  BY DEF OpInv, OperationsOwnBusy, OpEnds, TypeOK
<1>3. \A b \in Refs : Spares(b)
  BY <1>2 DEF OpEnds, Spares, Steady
<1> QED BY <1>1, <1>3, ServeKept

(* A reconcile with a fresh answer forgets no agent that serves.            *)
LEMMA ReconcileServe ==
    ASSUME ServeFaults, TypeOK, OpInv, PodSide, NoAnswerKept,
           NEW c \in Reconcilers, Reconcile(c)
    PROVE  \A r \in Refs : Spares(r)
<1>1. CASE Forget(ListPods)
  <2>1. ASSUME NEW r \in Refs, Steady(r)
        PROVE  r \in ListPods
    <3>1. ~Deleting(r)
      BY <2>1 DEF Steady, Deleting, PodSide, OneDeleted, OpInv, BusyIsOwned, OperationsOwnBusy,
                  Operating
    <3>2. pod[r] \in Up
      BY <2>1, <3>1 DEF Steady, PodSide, ReadyHasPod
    <3> QED BY <3>2 DEF Up, ListPods
  <2>2. UNCHANGED busy
    BY <1>1 DEF Forget
  <2>3. ASSUME NEW r \in Refs, Steady(r)
        PROVE  inflight'[r] = inflight[r] /\ agent'[r] = agent[r]
    BY <1>1, <2>1, <2>3 DEF Forget
  <2>4. ASSUME NEW r \in Refs
        PROVE  inflight'[r] \in {0, inflight[r]}
    BY <1>1 DEF Forget
  <2> QED BY <2>2, <2>3, <2>4 DEF Spares, Steady
<1>2. CASE UNCHANGED entryVars
  BY <1>2, SameEntries DEF entryVars
<1>3. listed[c] = {}
  BY DEF NoAnswerKept
<1> QED BY <1>1, <1>2, <1>3 DEF Reconcile, entryVars

(* A List answer is used before the pods change.                            *)
LEMMA StepNoAnswer == "stale_list" \notin Faults /\ TypeOK /\ NoAnswerKept /\ [Next]_vars => NoAnswerKept'
<1> SUFFICES ASSUME "stale_list" \notin Faults, TypeOK, NoAnswerKept, [Next]_vars
             PROVE  NoAnswerKept'
  OBVIOUS
<1>k. ASSUME UNCHANGED listed
      PROVE  NoAnswerKept'
  BY <1>k DEF NoAnswerKept
<1>r. ASSUME NEW c \in Reconcilers, Reconcile(c)
      PROVE  NoAnswerKept'
  BY <1>r DEF Reconcile, NoAnswerKept, TypeOK
<1>1. ASSUME NEW q \in Reqs, Acquire(q) \/ Arrive(q)
      PROVE  NoAnswerKept'
  BY <1>1, <1>k DEF Arrive, Acquire, Admit, Attach, Reselect, ClaimSlot, Evict, Wait, GiveUp, Return,
                    Begins, taskVars
<1>2. ASSUME NEW q \in Reqs, StartStop(q)
      PROVE  NoAnswerKept'
  BY <1>2, <1>k DEF StartStop, StartCreates, StartReturns, StartErrs, AbortDeletes, AbortEnds,
                    StopDeletes, StopReturns, StopErrs, OpEnds, taskVars
<1>3. ASSUME NEW q \in Reqs, Turn(q)
      PROVE  NoAnswerKept'
  BY <1>3, <1>k, <1>r DEF Turn, Dial, Unreachable, StreamEnds, RetryReconcile, taskVars, Reconcilers
<1>4. CASE Reap
  BY <1>4, <1>k, <1>r DEF Reap, ReapReconcile, ReapPick, ReapDeletes, ReapEnds, Reconcilers
<1>5. CASE BackgroundReconcile
  BY <1>5, <1>r DEF BackgroundReconcile, Reconcilers
<1>6. CASE Restart
  BY <1>6 DEF Restart, NoAnswerKept
<1>7. ASSUME NEW r \in Refs, Cluster(r) \/ \E s \in Sels : SetPending(r, s)
      PROVE  NoAnswerKept'
  BY <1>7, <1>k DEF Cluster, BrokerUnchanged, SetPending, taskVars
<1>8. CASE UNCHANGED vars
  BY <1>8, <1>k DEF vars, taskVars
<1>9. ASSUME NEW c \in Reconcilers, ListAnswers(c)
      PROVE  NoAnswerKept'
  BY <1>9 DEF ListAnswers
<1> QED BY <1>1, <1>2, <1>3, <1>4, <1>5, <1>6, <1>7, <1>8, <1>9 DEF Next

LEMMA AcquireServe ==
    ASSUME TypeOK, ServeInv, NEW q \in Reqs, Acquire(q)
    PROVE  ServeInv'
<1> DEFINE r == RefOf[q]
<1>r. r \in Refs
  BY SlotsAssumption
<1>1. CASE Attach(q) \/ ClaimSlot(q)
  <2>1. ~Steady(r) /\ InLoop(q)
    BY <1>1 DEF Attach, ClaimSlot, Steady
  <2> QED BY <1>1, <1>r, <2>1, BeginsServe DEF Attach, ClaimSlot
<1>2. CASE Reselect(q)
  BY <1>2, <1>r, BeginsServe DEF Reselect
<1>3. CASE Evict(q)
  <2>1. PICK v \in Refs : LRUIdle(v) /\ Begins(q, v, "stop", NoSel)
    BY <1>3 DEF Evict
  <2>2. inflight[v] = 0 /\ InLoop(q)
    BY <1>3, <2>1 DEF Evict, LRUIdle, IdleCandidates
  <2> QED BY <2>1, <2>2, BeginsServe
<1>4. CASE Wait(q) \/ GiveUp(q)
  <2>1. ServesTheSame
    BY <1>4, MovesServe DEF Wait, GiveUp, InLoop, Goto, ServeSteps
  <2> QED BY <1>4, <2>1, SameEntries, ServeKept DEF Wait, GiveUp, entryVars
<1>5. CASE Return(q)
  <2>1. PICK step : pc' = [pc EXCEPT ![q] = step] /\ (step = "dial" <=> pc[q] = "admitted")
                    /\ step \in {"dial", "new", "done"}
    BY <1>5 DEF Return, Finished
  <2>2. pc[q] \in {"admitted", "failed"}
    BY <1>5 DEF Return
  <2>3. ServesTheSame
    BY <2>1, <2>2, MovesServe DEF ServeSteps
  <2> QED BY <1>5, <2>3, SameEntries, ServeKept DEF Return, entryVars
<1> QED BY <1>1, <1>2, <1>3, <1>4, <1>5, AdmitServe DEF Acquire

LEMMA StartStopServe ==
    ASSUME TypeOK, OpInv, ServeInv, NEW q \in Reqs, StartStop(q)
    PROVE  ServeInv'
<1>a. agent \in [Refs -> {"none", "listed", "ready"}] /\ target[q] \in Refs
  BY DEF TypeOK
<1>o. pc[q] \in StartSteps => target[q] = RefOf[q]
  BY DEF OpInv, OwnStart, StartSteps
<1>1. CASE StartCreates(q) \/ StartErrs(q) \/ AbortDeletes(q) \/ StopDeletes(q)
  <2>1. ServesTheSame
    BY <1>1, MovesServe DEF StartCreates, StartErrs, AbortDeletes, StopDeletes, Goto, ServeSteps
  <2> QED BY <1>1, <2>1, SameEntries, ServeKept
       DEF StartCreates, StartErrs, AbortDeletes, StopDeletes, entryVars
<1>2. CASE StartReturns(q)
  <2>1. \A b \in Refs : b # target[q] => agent'[b] = agent[b]
    BY <1>2, <1>a, <1>o DEF StartReturns, StartSteps
  <2> QED BY <1>2, <2>1, EndsServe DEF StartReturns, Operating
<1>3. CASE AbortEnds(q)
  <2>1. \A b \in Refs : b # target[q] => agent'[b] = agent[b]
    BY <1>3, <1>a, <1>o DEF AbortEnds, StartSteps
  <2> QED BY <1>3, <2>1, EndsServe DEF AbortEnds, Operating
<1>4. CASE StopReturns(q)
  BY <1>4, <1>a, EndsServe DEF StopReturns, Operating
<1>5. CASE StopErrs(q)
  BY <1>5, EndsServe DEF StopErrs, Operating
<1> QED BY <1>1, <1>2, <1>3, <1>4, <1>5 DEF StartStop

LEMMA TurnServe ==
    ASSUME ServeFaults, TypeOK, OpInv, PodSide, NoAnswerKept, ServeInv, NEW q \in Reqs, Turn(q)
    PROVE  ServeInv'
<1>1. CASE Dial(q)
  <2>1. ServesTheSame
    BY <1>1, MovesServe DEF Dial, Goto, ServeSteps
  <2> QED BY <1>1, <2>1, SameEntries, ServeKept DEF Dial, entryVars
<1>2. CASE Unreachable(q)
  <2>1. PICK step \in {"retry", "silent"} : pc' = [pc EXCEPT ![q] = step]
    BY <1>2 DEF Unreachable
  <2> QED BY <1>2, <2>1, ReleaseServe DEF Unreachable, Serving, ServeSteps
<1>3. CASE StreamEnds(q)
  <2>1. PICK step \in {"new", "done"} : pc' = [pc EXCEPT ![q] = step]
    BY <1>3 DEF StreamEnds, Goto, Finished
  <2> QED BY <1>3, <2>1, ReleaseServe DEF StreamEnds, Serving, ServeSteps
<1>4. CASE RetryReconcile(q)
  <2>1. ServesTheSame
    BY <1>4, MovesServe DEF RetryReconcile, Goto, ServeSteps
  <2>2. Reconcile(q) /\ q \in Reconcilers
    BY <1>4 DEF RetryReconcile, Reconcilers
  <2> QED BY <2>1, <2>2, ReconcileServe, ServeKept
<1> QED BY <1>1, <1>2, <1>3, <1>4 DEF Turn

LEMMA ReapServe ==
    ASSUME ServeFaults, TypeOK, OpInv, PodSide, NoAnswerKept, ServeInv, Reap
    PROVE  ServeInv'
<1>s. ServesTheSame
  BY DEF Reap, ReapReconcile, ReapPick, ReapDeletes, ReapEnds, ServesTheSame, Serving
<1>1. CASE ReapReconcile
  BY <1>1, <1>s, ReconcileServe, ServeKept DEF ReapReconcile, Reconcilers
<1>2. CASE ReapPick
  <2>1. PICK V \in SUBSET {r \in Refs : Reapable(r)} : busy' = [r \in Refs |-> busy[r] \/ r \in V]
    BY <1>2 DEF ReapPick
  <2>2. \A r \in V : inflight[r] = 0
    <3>1. \A r \in Refs : inflight[r] = Cardinality(ServingAt(r))
      BY DEF ServeInv, ServingCounted, ServingAt
    <3> QED BY <2>1, <3>1, ServingAtFinite DEF Reapable
  <2>3. UNCHANGED <<agent, inflight>> /\ \A r \in Refs \ V : busy'[r] = busy[r]
    BY <1>2, <2>1 DEF ReapPick, TypeOK
  <2>4. \A r \in Refs : Spares(r)
    BY <2>2, <2>3 DEF Spares, Steady
  <2> QED BY <1>s, <2>4, ServeKept
<1>3. ASSUME NEW r \in Refs, ReapDeletes(r)
      PROVE  ServeInv'
  BY <1>3, <1>s, SameEntries, ServeKept DEF ReapDeletes, entryVars
<1>4. ASSUME NEW r \in Refs, ReapEnds(r)
      PROVE  ServeInv'
  <2>1. busy[r]
    BY <1>4 DEF ReapEnds, OpInv, BusyIsOwned
  <2>2. \A b \in Refs : /\ inflight'[b] = inflight[b]
                        /\ b # r => agent'[b] = agent[b] /\ busy'[b] = busy[b]
    BY <1>4 DEF ReapEnds, TypeOK
  <2>3. \A b \in Refs : Spares(b)
    BY <2>1, <2>2 DEF Spares, Steady
  <2> QED BY <1>s, <2>3, ServeKept
<1> QED BY <1>1, <1>2, <1>3, <1>4 DEF Reap

LEMMA StepServe ==
    ServeFaults /\ TypeOK /\ OpInv /\ PodSide /\ NoAnswerKept /\ ServeInv /\ [Next]_vars => ServeInv'
<1> SUFFICES ASSUME ServeFaults, TypeOK, OpInv, PodSide, NoAnswerKept, ServeInv, [Next]_vars
             PROVE  ServeInv'
  OBVIOUS
<1>1. ASSUME NEW q \in Reqs, Arrive(q)
      PROVE  ServeInv'
  <2>1. ServesTheSame
    BY <1>1, MovesServe DEF Arrive, Goto, ServeSteps
  <2> QED BY <1>1, <2>1, SameEntries, ServeKept DEF Arrive, entryVars
<1>2. ASSUME NEW r \in Refs, NEW s \in Sels, SetPending(r, s)
      PROVE  ServeInv'
  BY <1>2, SameEntries, ServeKept DEF SetPending, ServesTheSame, Serving
<1>3. ASSUME NEW c \in Reconcilers, ListAnswers(c)
      PROVE  ServeInv'
  BY <1>3, SameEntries, ServeKept DEF ListAnswers, entryVars, ServesTheSame, Serving
<1>4. CASE BackgroundReconcile
  BY <1>4, ReconcileServe, ServeKept DEF BackgroundReconcile, Reconcilers, ServesTheSame, Serving
<1>5. CASE Restart
  <2>1. \A q \in Reqs : ~Serving(q)'
    BY <1>5 DEF Restart, Finished, Serving
  <2>2. \A r \in Refs : {q \in Reqs : Serving(q)' /\ RefOf[q] = r} = {} /\ inflight'[r] = 0
    BY <1>5, <2>1 DEF Restart
  <2>3. ServingCounted'
    BY <2>2, FS_EmptySet DEF ServingCounted
  <2> QED BY <2>1, <2>3 DEF ServeInv, ServingSteady
<1>6. ASSUME NEW r \in Refs, Cluster(r)
      PROVE  ServeInv'
  <2>1. ServesTheSame
    BY <1>6 DEF Cluster, Cut, ServesTheSame, Serving, TypeOK
  <2> QED BY <1>6, <2>1, SameEntries, ServeKept DEF Cluster, BrokerUnchanged, entryVars
<1>7. CASE UNCHANGED vars
  BY <1>7, SameEntries, ServeKept DEF vars, entryVars, ServesTheSame, Serving
<1> QED BY <1>1, <1>2, <1>3, <1>4, <1>5, <1>6, <1>7, AcquireServe, StartStopServe, TurnServe,
           ReapServe DEF Next

LEMMA ServeInvariant ==
    ASSUME ServeFaults
    PROVE  Spec => [](TypeOK /\ OpInv /\ PodSide /\ NoAnswerKept /\ ServeInv)
<1>1. Init => NoAnswerKept
  BY DEF Init, NoAnswerKept
<1>2. NoAnswerKept /\ TypeOK /\ [Next]_vars => NoAnswerKept'
  BY StepNoAnswer DEF ServeFaults
<1>3. TypeOK /\ OpInv /\ PodSide /\ [Next]_vars => PodSide'
  BY StepPodSide
<1>4. TypeOK /\ OpInv /\ PodSide /\ NoAnswerKept /\ ServeInv /\ [Next]_vars => ServeInv'
  BY StepServe
<1> QED BY <1>1, <1>2, <1>3, <1>4, InitPodSide, InitServe, OpInvInvariant, PTL DEF Spec

(* The in-flight count that keeps an agent from being stopped is never off: *)
(* whatever fails, restarts or is given up, while no pod of a serving agent *)
(* is deleted behind the broker's back.                                     *)
THEOREM ServingIsCounted == ASSUME ServeFaults PROVE Spec => []ServingCounted
<1>1. ServeInv => ServingCounted
  BY DEF ServeInv
<1> QED BY <1>1, ServeInvariant, PTL

(* So no agent is stopped, evicted, reaped or restarted under a stream.     *)
THEOREM BusyNeverStopped == ASSUME ServeFaults PROVE Spec => []BusyAgentNeverStopped
<1>1. ServeInv => BusyAgentNeverStopped
  BY DEF ServeInv, ServingSteady, Steady, Serving, BusyAgentNeverStopped
<1> QED BY <1>1, ServeInvariant, PTL

----------------------------------------------------------------------------
(* Slots implements SlotPool.  A slot is taken by ClaimSlot, a service      *)
(* begins with Admit and ends with a release; every other step frees slots  *)
(* of agents that serve nobody, or none.                                    *)
Served == {q \in Reqs : Serving(q)}

(* Steps that release slots without a start or an end of a service.         *)
LEMMA FreesIdle ==
    ASSUME ServeInv', ServesTheSame, UsedShrinks
    PROVE  Pool!Free(Used \ Used')
<1>1. Served' = Served
  BY DEF Served, ServesTheSame
<1>2. Used' = Used \ (Used \ Used')
  BY DEF UsedShrinks
<1>3. \A q \in Served : RefOf[q] \notin Used \ Used'
  BY SlotsAssumption DEF Served, ServesTheSame, ServeInv, ServingSteady, Steady, Used
<1> QED BY <1>1, <1>2, <1>3 DEF Pool!Free, Served

(* Everything but the beginning and the end of a service.                   *)
LEMMA StepServesTheSame ==
    ASSUME TypeOK, [Next]_vars, ~Restart,
           ~\E q \in Reqs : Admit(q) \/ Unreachable(q) \/ StreamEnds(q)
    PROVE  ServesTheSame
<1>k. ASSUME UNCHANGED pc
      PROVE  ServesTheSame
  BY <1>k DEF ServesTheSame, Serving
<1>b. ASSUME NEW q \in Reqs, InLoop(q), NEW r, NEW step \in {"start", "stop"}, NEW s,
             Begins(q, r, step, s)
      PROVE  ServesTheSame
  BY <1>b, MovesServe DEF Begins, Goto, InLoop, ServeSteps
<1>1. ASSUME NEW q \in Reqs, Arrive(q)
      PROVE  ServesTheSame
  BY <1>1, MovesServe DEF Arrive, Goto, ServeSteps
<1>2. ASSUME NEW q \in Reqs, Attach(q) \/ Reselect(q) \/ ClaimSlot(q) \/ Evict(q)
      PROVE  ServesTheSame
  BY <1>2, <1>b DEF Attach, Reselect, ClaimSlot, Evict
<1>3. ASSUME NEW q \in Reqs, Wait(q) \/ GiveUp(q)
      PROVE  ServesTheSame
  BY <1>3, MovesServe DEF Wait, GiveUp, InLoop, Goto, ServeSteps
<1>4. ASSUME NEW q \in Reqs, Return(q)
      PROVE  ServesTheSame
  <2>1. PICK step : pc' = [pc EXCEPT ![q] = step] /\ (step = "dial" <=> pc[q] = "admitted")
                    /\ step \in {"dial", "new", "done"}
    BY <1>4 DEF Return, Finished
  <2>2. pc[q] \in {"admitted", "failed"}
    BY <1>4 DEF Return
  <2> QED BY <2>1, <2>2, MovesServe DEF ServeSteps
<1>5. ASSUME NEW q \in Reqs, StartStop(q)
      PROVE  ServesTheSame
  <2>1. PICK step \in {"loop", "created", "abort", "aborting", "stopping", "failed"} :
            pc' = [pc EXCEPT ![q] = step]
    BY <1>5 DEF StartStop, StartCreates, StartReturns, StartErrs, AbortDeletes, AbortEnds,
                StopDeletes, StopReturns, StopErrs, OpEnds, Goto
  <2>2. pc[q] \notin ServeSteps
    BY <1>5 DEF StartStop, StartCreates, StartReturns, StartErrs, AbortDeletes, AbortEnds,
                StopDeletes, StopReturns, StopErrs, ServeSteps
  <2> QED BY <2>1, <2>2, MovesServe DEF ServeSteps
<1>6. ASSUME NEW q \in Reqs, Dial(q) \/ RetryReconcile(q)
      PROVE  ServesTheSame
  BY <1>6, MovesServe DEF Dial, RetryReconcile, Goto, ServeSteps
<1>7. CASE Reap \/ BackgroundReconcile \/ UNCHANGED vars
  BY <1>7, <1>k DEF Reap, ReapReconcile, ReapPick, ReapDeletes, ReapEnds, BackgroundReconcile, vars
<1>8. ASSUME NEW r \in Refs, Cluster(r)
      PROVE  ServesTheSame
  BY <1>8 DEF Cluster, Cut, ServesTheSame, Serving, TypeOK
<1>9. ASSUME NEW r \in Refs, NEW s \in Sels, SetPending(r, s)
      PROVE  ServesTheSame
  BY <1>9, <1>k DEF SetPending
<1>10. ASSUME NEW c \in Reconcilers, ListAnswers(c)
       PROVE  ServesTheSame
  BY <1>10, <1>k DEF ListAnswers
<1> QED BY <1>1, <1>2, <1>3, <1>4, <1>5, <1>6, <1>7, <1>8, <1>9, <1>10
        DEF Next, Acquire, Turn

LEMMA PoolStep ==
    ASSUME TypeOK, OpInv, ServeInv, ServeInv', EveryPodCounted, [Next]_vars
    PROVE  [Pool!PoolNext]_(Pool!poolVars)
<1>p. pc \in [Reqs -> Steps]
  BY DEF TypeOK
<1>1. ASSUME NEW q \in Reqs, Admit(q)
      PROVE  Pool!Serve(q)
  <2>1. RefOf[q] \in Used /\ q \notin Served /\ Used' = Used
    BY <1>1, SlotsAssumption DEF Admit, Admissible, InLoop, Serving, Used, Served
  <2>2. Served' = Served \cup {q}
    BY <1>1, <1>p DEF Admit, Goto, Served, Serving
  <2> QED BY <2>1, <2>2 DEF Pool!Serve, Served
<1>2. ASSUME NEW q \in Reqs, Unreachable(q) \/ StreamEnds(q)
      PROVE  Pool!Finish(q)
  <2>1. PICK step \in {"retry", "silent", "new", "done"} : pc' = [pc EXCEPT ![q] = step]
    BY <1>2 DEF Unreachable, StreamEnds, Goto, Finished
  <2>2. q \in Served /\ Used' = Used
    BY <1>2 DEF Unreachable, StreamEnds, Release, Served, Serving, Used
  <2>3. Served' = Served \ {q}
    BY <1>p, <2>1 DEF Served, Serving
  <2> QED BY <2>2, <2>3 DEF Pool!Finish, Served
<1>3. CASE Restart
  <2>1. Used' = ListPods
    BY <1>3 DEF Restart, Used, ListPods
  <2>2. Used' \subseteq Used
    BY <2>1 DEF EveryPodCounted
  <2>3. Served' = {}
    BY <1>3 DEF Restart, Finished, Served, Serving
  <2>4. Pool!Recover(Used')
    BY <2>2, <2>3 DEF Pool!Recover, Served
  <2>5. Used' \in SUBSET Refs
    BY <2>1 DEF ListPods
  <2> QED BY <2>4, <2>5 DEF Pool!PoolNext
<1>4. ASSUME ~Restart, ~\E q \in Reqs : Admit(q) \/ Unreachable(q) \/ StreamEnds(q)
      PROVE  Pool!PoolNext
  <2>1. ServesTheSame
    BY <1>4, StepServesTheSame
  <2>2. CASE UsedShrinks
    <3>1. Pool!Free(Used \ Used')
      BY <2>1, <2>2, FreesIdle
    <3>2. Used \ Used' \in SUBSET Refs
      BY DEF Used
    <3> QED BY <3>1, <3>2 DEF Pool!PoolNext
  <2>3. ASSUME NEW q \in Reqs, ClaimSlot(q)
        PROVE  Pool!PoolNext
    <3>1. /\ RefOf[q] \in Refs /\ RefOf[q] \notin Used /\ Cardinality(Used) < K
          /\ Used' = Used \cup {RefOf[q]}
      BY <2>3, SlotsAssumption, BeginsUsed DEF ClaimSlot, Used
    <3>2. Served' = Served
      BY <2>1 DEF Served, ServesTheSame
    <3>3. Pool!Cardinality(Used) = Cardinality(Used)
      BY DEF Pool!Cardinality, Cardinality
    <3> QED BY <3>1, <3>2, <3>3 DEF Pool!PoolNext, Pool!Take, Served
  <2> QED BY <1>4, <2>2, <2>3, StepUsed
<1> QED BY <1>1, <1>2, <1>3, <1>4 DEF Pool!PoolNext

(* The slot manager keeps the pool's promise: slots are taken only below K, *)
(* a request is served only by an agent that holds one, and no slot is      *)
(* taken back under a request, through evictions, restarts of the broker    *)
(* and every other fault of the two conditions.                             *)
THEOREM ImplementsSlotPool == ASSUME CleanFaults, ServeFaults PROVE Spec => PoolPromise
<1>1. Init => Pool!PoolInit
  BY DEF Init, Pool!PoolInit, Used, Serving
<1>2. /\ TypeOK /\ OpInv /\ ServeInv /\ EveryPodCounted
      /\ ServeInv' /\ [Next]_vars
      => [Pool!PoolNext]_(Pool!poolVars)
  BY PoolStep
<1>3. Spec => []EveryPodCounted
  BY PodsCounted
<1> QED BY <1>1, <1>2, <1>3, ServeInvariant, PTL DEF Spec, PoolPromise, Pool!PoolSpec
----------------------------------------------------------------------------
(* The selection an agent runs with.  A broker restart forgets pending      *)
(* selections, a failed cleanup or a stale answer leaves a pod that the     *)
(* next start finds instead of creating its own.                            *)
SelectFaults == Faults \cap {"cleanup_fails", "stale_list", "restart"} = {}

(* A start creates its own pod, with the selection it was given, ...        *)
NoneListed == \A r \in Refs : agent[r] # "listed"
StartsFresh == \A q \in Reqs : pc[q] = "start" => pod[RefOf[q]] = "absent"
CreatedWith == \A q \in Reqs : pc[q] = "created" => spec[RefOf[q]] = sel[q]
(* ... which is recorded as pending until the start returns.                *)
StartsPending == \A q \in Reqs : pc[q] \in {"start", "created"} /\ pending[RefOf[q]] = NoSel
                                    => sel[q] = NoSel
PendingIsLatest == \A r \in Refs : pending[r] \in {NoSel, latest[r]}
(* A ready pod has stored its selection, and no pod will overwrite one that *)
(* was applied.                                                             *)
ReadyHasSynced == \A r \in Refs : pod[r] = "ready" => spec[r] \in {NoSel, profile[r]}
Applied(r) == profile[r] = latest[r] /\ (pod[r] # "absent" => spec[r] \in {NoSel, latest[r]})
NothingPending == \A r \in Refs : pending[r] = NoSel => Applied(r)

SelInv == /\ NoneListed /\ StartsFresh /\ CreatedWith /\ StartsPending
          /\ PendingIsLatest /\ ReadyHasSynced /\ NothingPending

LEMMA InitSel == Init => SelInv
BY SlotsAssumption DEF Init, PodsInit, SelInv, NoneListed, StartsFresh, CreatedWith, StartsPending,
       PendingIsLatest, ReadyHasSynced, NothingPending, Applied

(* A step that begins no start, creates no pod and records no selection.    *)
LEMMA SelKept ==
    ASSUME SelInv, UNCHANGED <<spec, profile, pending, latest>>,
           \A r \in Refs : /\ agent'[r] = "listed" => agent[r] = "listed"
                           /\ pod[r] = "absent" => pod'[r] = "absent"
                           /\ pod'[r] = "ready" => pod[r] = "ready" \/ spec[r] \in {NoSel, profile[r]},
           \A q \in Reqs : pc'[q] \in {"start", "created"} => pc'[q] = pc[q] /\ sel'[q] = sel[q]
    PROVE  SelInv'
<1>1. NoneListed' /\ StartsFresh' /\ CreatedWith' /\ StartsPending'
  BY SlotsAssumption DEF SelInv, NoneListed, StartsFresh, CreatedWith, StartsPending
<1>2. PendingIsLatest' /\ ReadyHasSynced'
  BY DEF SelInv, PendingIsLatest, ReadyHasSynced
<1>3. NothingPending'
  BY DEF SelInv, NothingPending, Applied
<1> QED BY <1>1, <1>2, <1>3 DEF SelInv

LEMMA SelMoves ==
    ASSUME TypeOK, SelInv, UNCHANGED <<podVars, agent, pending, latest>>, NEW q \in Reqs,
           NEW step, step \notin {"start", "created"}, pc' = [pc EXCEPT ![q] = step],
           \A p \in Reqs : p # q => sel'[p] = sel[p]
    PROVE  SelInv'
<1>1. \A p \in Reqs : pc'[p] \in {"start", "created"} => pc'[p] = pc[p] /\ sel'[p] = sel[p]
  BY DEF TypeOK
<1> QED BY <1>1, SelKept DEF podVars

LEMMA SelClaims ==
    ASSUME TypeOK, EveryPodCounted, SelInv, NEW q \in Reqs, ClaimSlot(q)
    PROVE  SelInv'
<1> DEFINE r == RefOf[q]
<1>1. /\ r \in Refs /\ pod[r] = "absent"
      /\ pc' = [pc EXCEPT ![q] = "start"] /\ sel' = [sel EXCEPT ![q] = pending[r]]
      /\ UNCHANGED <<podVars, agent, pending, latest>>
  BY SlotsAssumption DEF ClaimSlot, Begins, Goto, EveryPodCounted, Used, ListPods
<1>2. pc \in [Reqs -> Steps] /\ sel \in [Reqs -> Sels \cup {NoSel}]
  BY DEF TypeOK
<1>3. StartsFresh' /\ CreatedWith' /\ StartsPending'
  BY <1>1, <1>2 DEF SelInv, StartsFresh, CreatedWith, StartsPending, podVars
<1>4. NoneListed' /\ PendingIsLatest' /\ ReadyHasSynced' /\ NothingPending'
  BY <1>1 DEF SelInv, NoneListed, PendingIsLatest, ReadyHasSynced, NothingPending, Applied, podVars
<1> QED BY <1>3, <1>4 DEF SelInv

(* Two requests never start the same agent.                                 *)
LEMMA OneStart ==
    ASSUME OpInv, NEW p \in Reqs, NEW q \in Reqs, pc[p] \in StartSteps, pc[q] \in StartSteps,
           RefOf[p] = RefOf[q]
    PROVE  p = q
BY DEF OpInv, OperationsOwnBusy, OwnStart, StartSteps, Operating

LEMMA SelCreates ==
    ASSUME TypeOK, OpInv, SelInv, NEW q \in Reqs, StartCreates(q)
    PROVE  SelInv'
<1> DEFINE r == RefOf[q]
<1>1. /\ r \in Refs /\ pc[q] = "start"
      /\ pod' = [pod EXCEPT ![r] = "starting"] /\ spec' = [spec EXCEPT ![r] = sel[q]]
      /\ pc' = [pc EXCEPT ![q] = "created"]
      /\ UNCHANGED <<profile, agent, pending, latest, sel>>
  BY SlotsAssumption DEF StartCreates, CreatePod, Goto, entryVars
<1>2. /\ pc \in [Reqs -> Steps] /\ pod \in [Refs -> Phases]
      /\ spec \in [Refs -> Sels \cup {NoSel}]
  BY DEF TypeOK, PodsTypeOK
<1>3. \A p \in Reqs : p # q /\ pc[p] \in {"start", "created"} => RefOf[p] # r
  BY <1>1, OneStart DEF StartSteps
<1>4. StartsFresh' /\ CreatedWith' /\ StartsPending'
  BY <1>1, <1>2, <1>3, SlotsAssumption DEF SelInv, StartsFresh, CreatedWith, StartsPending
<1>5. NoneListed' /\ PendingIsLatest' /\ ReadyHasSynced'
  BY <1>1, <1>2 DEF SelInv, NoneListed, PendingIsLatest, ReadyHasSynced
<1>6. NothingPending'
  BY <1>1, <1>2 DEF SelInv, NothingPending, Applied, StartsPending
<1> QED BY <1>4, <1>5, <1>6 DEF SelInv

LEMMA SelReturns ==
    ASSUME TypeOK, OpInv, SelInv, NEW q \in Reqs, StartReturns(q)
    PROVE  SelInv'
<1> DEFINE r == RefOf[q]
<1>1. /\ r \in Refs /\ pc[q] \in {"start", "created"} /\ pod[r] = "ready"
      /\ agent' = [agent EXCEPT ![r] = "ready"]
      /\ pending' = [pending EXCEPT ![r] = IF @ = sel[q] THEN NoSel ELSE @]
      /\ pc' = [pc EXCEPT ![q] = "loop"] /\ sel' = [sel EXCEPT ![q] = NoSel]
      /\ UNCHANGED <<pod, spec, profile, latest>>
  BY SlotsAssumption DEF StartReturns, OpEnds, Goto, podVars
<1>2. /\ pc \in [Reqs -> Steps] /\ sel \in [Reqs -> Sels \cup {NoSel}]
      /\ agent \in [Refs -> {"none", "listed", "ready"}]
      /\ pending \in [Refs -> Sels \cup {NoSel}]
  BY DEF TypeOK
<1>3. spec[r] = sel[q]
  BY <1>1 DEF SelInv, StartsFresh, CreatedWith
<1>4. \A p \in Reqs : p # q /\ pc[p] \in {"start", "created"} => RefOf[p] # r
  BY <1>1, OneStart DEF StartSteps
<1>5. NoneListed' /\ PendingIsLatest' /\ ReadyHasSynced'
  BY <1>1, <1>2 DEF SelInv, NoneListed, PendingIsLatest, ReadyHasSynced
<1>6. StartsFresh' /\ CreatedWith' /\ StartsPending'
  BY <1>1, <1>2, <1>4, SlotsAssumption DEF SelInv, StartsFresh, CreatedWith, StartsPending
<1>7. NothingPending'
  <2>1. CASE pending[r] = sel[q] /\ sel[q] # NoSel
    <3>1. profile[r] = sel[q] /\ latest[r] = sel[q]
      BY <1>1, <1>3, <2>1 DEF SelInv, ReadyHasSynced, PendingIsLatest
    <3> QED BY <1>1, <1>2, <1>3, <3>1 DEF SelInv, NothingPending, Applied
  <2>2. CASE pending[r] # sel[q] \/ sel[q] = NoSel
    <3>1. pending' = pending
      BY <1>1, <1>2, <2>2
    <3> QED BY <1>1, <3>1 DEF SelInv, NothingPending, Applied
  <2> QED BY <2>1, <2>2
<1> QED BY <1>5, <1>6, <1>7 DEF SelInv

LEMMA StepSel == SelectFaults /\ TypeOK /\ OpInv /\ EveryPodCounted /\ SelInv /\ [Next]_vars => SelInv'
<1> SUFFICES ASSUME SelectFaults, TypeOK, OpInv, EveryPodCounted, SelInv, [Next]_vars
             PROVE  SelInv'
  OBVIOUS
<1>b. ASSUME NEW q \in Reqs, NEW r \in Refs, Begins(q, r, "stop", NoSel)
      PROVE  SelInv'
  BY <1>b, SelMoves DEF Begins, Goto, TypeOK
<1>r. ASSUME NEW c \in Reconcilers, Reconcile(c), UNCHANGED <<podVars, latest, sel>>,
             \A q \in Reqs : pc'[q] \in {"start", "created"} => pc'[q] = pc[q]
      PROVE  SelInv'
  <2>1. \A r \in Refs : agent'[r] = "listed" => agent[r] = "listed"
    BY <1>r DEF Reconcile, Forget, entryVars
  <2>2. UNCHANGED pending
    BY <1>r, ReconcileType
  <2> QED BY <1>r, <2>1, <2>2, SelKept DEF podVars
<1>1. ASSUME NEW q \in Reqs, Arrive(q) \/ Admit(q) \/ Wait(q) \/ GiveUp(q)
      PROVE  SelInv'
  BY <1>1, SelMoves DEF Arrive, Admit, Wait, GiveUp, Goto, entryVars
<1>2. ASSUME NEW q \in Reqs, Return(q)
      PROVE  SelInv'
  <2>1. PICK step \in {"dial", "new", "done"} : pc' = [pc EXCEPT ![q] = step]
    BY <1>2 DEF Return, Finished
  <2> QED BY <1>2, <2>1, SelMoves DEF Return, entryVars
<1>3. ASSUME NEW q \in Reqs, Attach(q)
      PROVE  SelInv'
  BY <1>3, SlotsAssumption DEF Attach, SelInv, NoneListed
<1>4. ASSUME NEW q \in Reqs, Reselect(q) \/ Evict(q)
      PROVE  SelInv'
  BY <1>4, <1>b, SlotsAssumption DEF Reselect, Evict
<1>5. ASSUME NEW q \in Reqs, StartErrs(q)
      PROVE  SelInv'
  BY <1>5, SelMoves DEF StartErrs, Goto, entryVars
<1>6. ASSUME NEW q \in Reqs, AbortDeletes(q) \/ StopDeletes(q)
      PROVE  SelInv'
  <2>1. \A p \in Reqs : pc'[p] \in {"start", "created"} => pc'[p] = pc[p]
    BY <1>6 DEF AbortDeletes, StopDeletes, Goto, TypeOK
  <2>2. \A r \in Refs : /\ pod[r] = "absent" => pod'[r] = "absent"
                        /\ pod'[r] = "ready" => pod[r] = "ready"
    BY <1>6 DEF AbortDeletes, StopDeletes, DeletePod, TypeOK, PodsTypeOK
  <2>3. UNCHANGED <<spec, profile, pending, latest, agent, sel>>
    BY <1>6 DEF AbortDeletes, StopDeletes, DeletePod, entryVars
  <2> QED BY <2>1, <2>2, <2>3, SelKept
<1>7. ASSUME NEW q \in Reqs, AbortEnds(q) \/ StopReturns(q) \/ StopErrs(q)
      PROVE  SelInv'
  <2>1. \A p \in Reqs : pc'[p] \in {"start", "created"} => pc'[p] = pc[p] /\ sel'[p] = sel[p]
    BY <1>7 DEF AbortEnds, StopReturns, StopErrs, OpEnds, Goto, TypeOK
  <2>2. \A r \in Refs : agent'[r] = "listed" => agent[r] = "listed"
    BY <1>7 DEF AbortEnds, StopReturns, StopErrs, TypeOK
  <2>3. UNCHANGED <<pod, spec, profile, pending, latest>>
    BY <1>7 DEF AbortEnds, StopReturns, StopErrs, OpEnds, podVars
  <2> QED BY <2>1, <2>2, <2>3, SelKept
<1>8. ASSUME NEW q \in Reqs, Dial(q)
      PROVE  SelInv'
  BY <1>8, SelMoves DEF Dial, Goto, entryVars
<1>9. ASSUME NEW q \in Reqs, Unreachable(q) \/ StreamEnds(q)
      PROVE  SelInv'
  <2>1. PICK step \in {"retry", "silent", "new", "done"} : pc' = [pc EXCEPT ![q] = step]
    BY <1>9 DEF Unreachable, StreamEnds, Goto, Finished
  <2> QED BY <1>9, <2>1, SelMoves DEF Unreachable, StreamEnds, Release
<1>10. ASSUME NEW q \in Reqs, RetryReconcile(q)
       PROVE  SelInv'
  <2>1. \A p \in Reqs : pc'[p] \in {"start", "created"} => pc'[p] = pc[p]
    BY <1>10 DEF RetryReconcile, Goto, TypeOK
  <2> QED BY <1>10, <1>r, <2>1 DEF RetryReconcile, Reconcilers
<1>11. CASE BackgroundReconcile \/ ReapReconcile
  BY <1>11, <1>r DEF BackgroundReconcile, ReapReconcile, Reconcilers
<1>12. CASE ReapPick
  BY <1>12, SelKept DEF ReapPick, podVars
<1>13. ASSUME NEW r \in Refs, ReapDeletes(r)
       PROVE  SelInv'
  <2>1. \A b \in Refs : /\ pod[b] = "absent" => pod'[b] = "absent"
                        /\ pod'[b] = "ready" => pod[b] = "ready"
    BY <1>13 DEF ReapDeletes, DeletePod, TypeOK, PodsTypeOK
  <2> QED BY <1>13, <2>1, SelKept DEF ReapDeletes, DeletePod, entryVars
<1>14. ASSUME NEW r \in Refs, ReapEnds(r)
       PROVE  SelInv'
  <2>1. \A b \in Refs : agent'[b] = "listed" => agent[b] = "listed"
    BY <1>14 DEF ReapEnds, TypeOK
  <2> QED BY <1>14, <2>1, SelKept DEF ReapEnds, podVars
<1>15. CASE Restart
  BY <1>15 DEF Restart, SelectFaults
<1>16. ASSUME NEW r \in Refs, Cluster(r)
       PROVE  SelInv'
  <2>1. /\ UNCHANGED <<agent, pending, latest, sel>>
        /\ \A q \in Reqs : pc'[q] \in {"start", "created"} => pc'[q] = pc[q]
    BY <1>16 DEF Cluster, BrokerUnchanged, entryVars, Cut
  <2>2. CASE PodSyncs(r)
    <3>1. /\ profile' = [profile EXCEPT ![r] = spec[r]] /\ UNCHANGED <<pod, spec>>
          /\ pod[r] # "absent" /\ spec[r] # NoSel
      BY <2>2 DEF PodSyncs
    <3>2. profile \in [Refs -> Sels \cup {DefaultSel}]
      BY DEF TypeOK, PodsTypeOK
    <3>3. StartsFresh' /\ CreatedWith' /\ StartsPending' /\ NoneListed' /\ PendingIsLatest'
      BY <2>1, <3>1 DEF SelInv, StartsFresh, CreatedWith, StartsPending, NoneListed, PendingIsLatest
    <3>4. ReadyHasSynced' /\ NothingPending'
      BY <2>1, <3>1, <3>2 DEF SelInv, ReadyHasSynced, NothingPending, Applied
    <3> QED BY <3>3, <3>4 DEF SelInv
  <2>3. CASE PodReady(r) \/ PodFails(r) \/ PodGone(r) \/ PodLost(r)
    <3>1. \A b \in Refs :
             /\ pod[b] = "absent" => pod'[b] = "absent"
             /\ pod'[b] = "ready" => pod[b] = "ready" \/ spec[b] \in {NoSel, profile[b]}
      BY <2>3 DEF PodReady, PodFails, PodGone, PodLost, TypeOK, PodsTypeOK
    <3>2. UNCHANGED <<spec, profile>>
      BY <2>3 DEF PodReady, PodFails, PodGone, PodLost
    <3> QED BY <2>1, <3>1, <3>2, SelKept
  <2> QED BY <1>16, <2>2, <2>3 DEF Cluster
<1>17. ASSUME NEW r \in Refs, NEW s \in Sels, SetPending(r, s)
       PROVE  SelInv'
  <2>1. /\ pending' = [pending EXCEPT ![r] = s] /\ latest' = [latest EXCEPT ![r] = s]
        /\ UNCHANGED <<pod, spec, profile, agent, pc, sel>>
    BY <1>17 DEF SetPending, podVars
  <2>2. /\ pending \in [Refs -> Sels \cup {NoSel}] /\ latest \in [Refs -> Sels \cup {DefaultSel}]
        /\ s # NoSel
    BY SelAssumption DEF TypeOK
  <2>3. StartsFresh' /\ CreatedWith' /\ NoneListed' /\ ReadyHasSynced'
    BY <2>1 DEF SelInv, StartsFresh, CreatedWith, NoneListed, ReadyHasSynced
  <2>4. StartsPending' /\ PendingIsLatest' /\ NothingPending'
    BY <2>1, <2>2, SlotsAssumption DEF SelInv, StartsPending, PendingIsLatest, NothingPending, Applied
  <2> QED BY <2>3, <2>4 DEF SelInv
<1>18. ASSUME NEW c \in Reconcilers, ListAnswers(c)
       PROVE  SelInv'
  BY <1>18, SelKept DEF ListAnswers, podVars, entryVars
<1>19. CASE UNCHANGED vars
  BY <1>19, SelKept DEF vars, podVars, entryVars
<1> QED BY <1>1, <1>2, <1>3, <1>4, <1>5, <1>6, <1>7, <1>8, <1>9, <1>10, <1>11, <1>12, <1>13, <1>14,
           <1>15, <1>16, <1>17, <1>18, <1>19, SelClaims, SelCreates, SelReturns
        DEF Next, Acquire, StartStop, Turn, Reap

(* "Your agent restarts with the new selection before your next message":   *)
(* whatever is saved while an agent starts, stops or loses its pod, no      *)
(* request is admitted to an agent that runs with an older selection, as    *)
(* long as the broker does not restart and its cleanups work.               *)
THEOREM SelectionServed == ASSUME SelectFaults PROVE Spec => []SavedSelectionServed
<1>1. CleanFaults
  BY DEF SelectFaults, CleanFaults
<1>2. Spec => []EveryPodCounted
  BY <1>1, PodsCounted
<1>3. TypeOK /\ OpInv /\ EveryPodCounted /\ SelInv /\ [Next]_vars => SelInv'
  BY StepSel
<1>4. SelInv => SavedSelectionServed
  BY DEF SelInv, NothingPending, Applied, Admissible, SavedSelectionServed
<1> QED BY <1>2, <1>3, <1>4, InitSel, OpInvInvariant, PTL DEF Spec
=============================================================================
