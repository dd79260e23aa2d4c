------------------------------- MODULE Slots -------------------------------
(* The agent broker's slot manager (agent-broker slots.go) with the chat    *)
(* requests that call it (main.go), the reaper and the background           *)
(* reconciles, over the pods backend.  At most K agents run; an agent is    *)
(* started on demand, the least recently used idle one is evicted when a    *)
(* slot is needed, and requests queue FIFO while every agent is busy.       *)
EXTENDS AgentPods, Integers, Sequences, FiniteSets

CONSTANTS Reqs,     (* chat requests, each a goroutine of the broker        *)
          RefOf,    (* the agent a request is for                           *)
          K,        (* SlotsConfig.K                                        *)
          Faults,   (* which of AllFaults the environment may show          *)
          Reuse     (* whether a finished request slot takes a new request  *)

(* What may go wrong around the broker.                                     *)
(*   pod_fails        a pod never gets ready, or stops answering            *)
(*   start_abandoned  Start gives up: StartTimeout, API error, client gone  *)
(*   wait_abandoned   SlotWaitTimeout ends, or a client leaves while it     *)
(*                    waits for a slot or for the agent to answer           *)
(*   api_refuses      a DELETE or a List fails and changes nothing          *)
(*   stop_cut_short   Stop errs after its DELETE: client gone, or the pod   *)
(*                    still present at the deadline                         *)
(*   cleanup_fails    the Stop that follows a failed start errs             *)
(*   pod_lost         a pod is deleted by someone else                      *)
(*   stale_list       the pods change between a List's answer and its use   *)
(*   restart          the broker process restarts                           *)
AllFaults == {"pod_fails", "start_abandoned", "wait_abandoned", "api_refuses",
              "stop_cut_short", "cleanup_fails", "pod_lost", "stale_list", "restart"}

ASSUME SlotsAssumption == /\ IsFiniteSet(Refs)
                          /\ IsFiniteSet(Reqs)
                          /\ RefOf \in [Reqs -> Refs]
                          /\ K \in Nat
                          /\ Faults \subseteq AllFaults
                          /\ Reuse \in BOOLEAN
                          /\ {"bg", "reaper"} \cap Reqs = {}

VARIABLES agent,     (* entry.agent: "none" is nil, "listed" one recovered   *)
                     (* without its API key, "ready" one Start returned      *)
          inflight,  (* entry.inflight                                       *)
          busy,      (* entry.busy: starting or stopping                     *)
          pending,   (* entry.pending                                        *)
          older,     (* <<r, s>>: entry.last of r is before that of s        *)
          queue,     (* Slots.queue: a ticket is the request that holds it   *)
          pc,        (* where each request's goroutine is                    *)
          sel,       (* the selection in the StartSpec of a request's Start  *)
          target,    (* the agent a request is starting or stopping           *)
          attempt,   (* the chat handler's attempt counter                   *)
          listed,    (* a reconcile's List answer, {} before it has one      *)
          bgDue,     (* a background reconcile has been spawned              *)
          reap,      (* Reap's progress                                      *)
          latest     (* history: the selection the user saved last           *)

entryVars == <<agent, inflight, busy, pending, older>>
taskVars == <<listed, bgDue, reap>>
vars == <<podVars, entryVars, queue, pc, sel, target, attempt, taskVars, latest>>

Reconcilers == Reqs \cup {"bg", "reaper"}

Steps == {"new", "loop", "wait", "start", "created", "abort", "aborting",
          "stop", "stopping", "admitted", "failed", "dial", "stream",
          "broken", "retry", "silent", "done"}

TypeOK == /\ PodsTypeOK
          /\ agent \in [Refs -> {"none", "listed", "ready"}]
          /\ inflight \in [Refs -> Int]
          /\ busy \in [Refs -> BOOLEAN]
          /\ pending \in [Refs -> Sels \cup {NoSel}]
          /\ older \in SUBSET (Refs \X Refs)
          /\ queue \in Seq(Reqs)
          /\ pc \in [Reqs -> Steps]
          /\ sel \in [Reqs -> Sels \cup {NoSel}]
          /\ target \in [Reqs -> Refs]
          /\ attempt \in [Reqs -> {0, 1}]
          /\ listed \in [Reconcilers -> SUBSET SUBSET Refs]
          /\ bgDue \in BOOLEAN
          /\ reap \in [at : {"tick", "pick", "stop"}, left : SUBSET Refs, deleted : SUBSET Refs]
          /\ latest \in [Refs -> Sels \cup {DefaultSel}]

Init == /\ PodsInit
        /\ agent = [r \in Refs |-> "none"]
        /\ inflight = [r \in Refs |-> 0]
        /\ busy = [r \in Refs |-> FALSE]
        /\ pending = [r \in Refs |-> NoSel]
        /\ older = {}
        /\ queue = <<>>
        /\ pc = [q \in Reqs |-> "new"]
        /\ sel = [q \in Reqs |-> NoSel]
        /\ target = RefOf
        /\ attempt = [q \in Reqs |-> 0]
        /\ listed = [c \in Reconcilers |-> {}]
        /\ bgDue = FALSE
        /\ reap = [at |-> "tick", left |-> {}, deleted |-> {}]
        /\ latest = [r \in Refs |-> DefaultSel]
----------------------------------------------------------------------------
(* State the lock protects, as the handlers read it.                        *)

(* usedLocked: entries that hold a slot.                                    *)
Used == {r \in Refs : agent[r] # "none" \/ busy[r]}

Ticketed(q) == \E i \in DOMAIN queue : queue[i] = q

(* Mutant: any ticket is as good as the first.                              *)
Bug_HeadOfQueue(q) == queue # <<>> => Ticketed(q)
HeadOfQueue(q) == queue # <<>> => Head(queue) = q

(* lruIdleLocked: whether an agent has been idle for IdleTimeout is the     *)
(* clock's choice; if any has, the least recently used candidate has.       *)
(* Mutant: lruIdleLocked forgets the open streams.                          *)
Bug_IdleCandidates == {r \in Refs : agent[r] # "none" /\ ~busy[r]}
IdleCandidates == {r \in Refs : agent[r] # "none" /\ ~busy[r] /\ inflight[r] = 0}
LRUIdle(v) == v \in IdleCandidates /\ \A c \in IdleCandidates : <<c, v>> \notin older

(* entry.last = now.                                                        *)
Touched(r) == {p \in older : p[1] # r /\ p[2] # r} \cup {<<s, r>> : s \in Refs \ {r}}

(* dequeueLocked: the ticket leaves the queue wherever it stands.           *)
Dequeued(q) == IF Ticketed(q)
               THEN LET i == CHOOSE j \in DOMAIN queue : queue[j] = q
                    IN  [j \in 1..(Len(queue) - 1) |-> IF j < i THEN queue[j] ELSE queue[j + 1]]
               ELSE queue
----------------------------------------------------------------------------
(* Acquire.  A request is in its loop; a waiting one is woken by a change   *)
(* or by its 5 s timer and looks again under the lock.                      *)
InLoop(q) == pc[q] \in {"loop", "wait"}

Goto(q, step) == pc' = [pc EXCEPT ![q] = step]

(* chat: a new request for the user's agent.                                *)
Arrive(q) == /\ pc[q] = "new" \/ (Reuse /\ pc[q] = "silent")
             /\ Goto(q, "loop")
             /\ UNCHANGED <<podVars, entryVars, queue, sel, target, attempt, taskVars, latest>>

(* A handler that has returned is gone; with Reuse its place takes a new    *)
(* request.                                                                 *)
Finished == IF Reuse THEN "new" ELSE "done"

(* The agent runs and nothing stands in the way: count the request in.      *)
Admissible(r) == agent[r] = "ready" /\ ~busy[r] /\ pending[r] = NoSel
Admit(q) == LET r == RefOf[q] IN
            /\ InLoop(q) /\ Admissible(r)
            /\ inflight' = [inflight EXCEPT ![r] = @ + 1]
            /\ older' = Touched(r)
            /\ Goto(q, "admitted")
            /\ UNCHANGED <<podVars, agent, busy, pending, queue, sel, target, attempt, taskVars, latest>>

(* Marks r busy and enters the start or the stop of an agent.               *)
Begins(q, r, step, s) == /\ busy' = [busy EXCEPT ![r] = TRUE]
                         /\ sel' = [sel EXCEPT ![q] = s]
                         /\ target' = [target EXCEPT ![q] = r]
                         /\ Goto(q, step)
                         /\ UNCHANGED <<podVars, agent, inflight, pending, older, queue, attempt, taskVars, latest>>

(* Recovered after a broker restart: attach to the running agent.           *)
Attach(q) == LET r == RefOf[q] IN
             /\ InLoop(q) /\ ~busy[r] /\ agent[r] = "listed" /\ pending[r] = NoSel
             /\ Begins(q, r, "start", NoSel)

(* Selection change: stop the agent once the user's streams are done.       *)
Reselect(q) == LET r == RefOf[q] IN
               /\ InLoop(q) /\ ~busy[r] /\ agent[r] # "none" /\ pending[r] # NoSel
               /\ inflight[r] = 0
               /\ Begins(q, r, "stop", NoSel)

(* A free slot, and nobody queued before this request.                      *)
(* Mutant: one slot too many.                                               *)
Bug_ClaimSlot(q) == LET r == RefOf[q] IN
                    /\ InLoop(q) /\ ~busy[r] /\ agent[r] = "none"
                    /\ HeadOfQueue(q)
                    /\ Cardinality(Used) <= K
                    /\ Begins(q, r, "start", pending[r])
ClaimSlot(q) == LET r == RefOf[q] IN
                /\ InLoop(q) /\ ~busy[r] /\ agent[r] = "none"
                /\ HeadOfQueue(q)
                /\ Cardinality(Used) < K
                /\ Begins(q, r, "start", pending[r])

(* No free slot: stop the least recently used idle agent, then look again.  *)
Evict(q) == LET r == RefOf[q] IN
            /\ InLoop(q) /\ ~busy[r] /\ agent[r] = "none"
            /\ HeadOfQueue(q)
            /\ Cardinality(Used) >= K
            /\ \E v \in Refs : LRUIdle(v) /\ Begins(q, v, "stop", NoSel)

(* Nothing to do now: wait, with a ticket if the agent is not running.      *)
MustWait(q) == LET r == RefOf[q] IN
               \/ busy[r]
               \/ agent[r] # "none" /\ pending[r] # NoSel /\ inflight[r] # 0
               \/ /\ agent[r] = "none"
                  /\ ~HeadOfQueue(q) \/ Cardinality(Used) >= K
NeedsTicket(q) == agent[RefOf[q]] = "none" /\ ~busy[RefOf[q]] /\ ~Ticketed(q)
Wait(q) == /\ InLoop(q) /\ MustWait(q)
           /\ pc[q] = "loop" \/ NeedsTicket(q)
           /\ queue' = IF NeedsTicket(q) THEN Append(queue, q) ELSE queue
           /\ bgDue' = (bgDue \/ NeedsTicket(q))
           /\ Goto(q, "wait")
           /\ UNCHANGED <<podVars, entryVars, sel, target, attempt, listed, reap, latest>>

(* SlotWaitTimeout, or the client is gone.                                  *)
GiveUp(q) == /\ "wait_abandoned" \in Faults
             /\ pc[q] = "wait"
             /\ Goto(q, "failed")
             /\ UNCHANGED <<podVars, entryVars, queue, sel, target, attempt, taskVars, latest>>

(* Acquire returns; its deferred dequeue takes the lock once more.          *)
(* Mutant: an early return before the deferred dequeue is set up.           *)
Bug_Return(q) == /\ pc[q] \in {"admitted", "failed"}
                 /\ queue' = IF pc[q] = "admitted" THEN Dequeued(q) ELSE queue
                 /\ pc' = [pc EXCEPT ![q] = IF @ = "admitted" THEN "dial" ELSE Finished]
                 /\ attempt' = [attempt EXCEPT ![q] = IF pc[q] = "admitted" THEN @ ELSE 0]
                 /\ UNCHANGED <<podVars, entryVars, sel, target, taskVars, latest>>
Return(q) == /\ pc[q] \in {"admitted", "failed"}
             /\ queue' = Dequeued(q)
             /\ pc' = [pc EXCEPT ![q] = IF @ = "admitted" THEN "dial" ELSE Finished]
             /\ attempt' = [attempt EXCEPT ![q] = IF pc[q] = "admitted" THEN @ ELSE 0]
             /\ UNCHANGED <<podVars, entryVars, sel, target, taskVars, latest>>
----------------------------------------------------------------------------
(* Start and Stop of the backend, called with the entry busy and without    *)
(* the lock, and what their callers do with the result.                     *)
(* The busy mark is cleared under the lock; the request goes on at step.    *)
OpEnds(q, step) == /\ busy' = [busy EXCEPT ![target[q]] = FALSE]
                   /\ sel' = [sel EXCEPT ![q] = NoSel]
                   /\ target' = [target EXCEPT ![q] = RefOf[q]]
                   /\ Goto(q, step)
                   /\ UNCHANGED <<inflight, queue, attempt, taskVars, latest>>

(* Start, pod not found: create it, once.                                   *)
StartCreates(q) == /\ pc[q] = "start"
                   /\ CreatePod(RefOf[q], sel[q])
                   /\ Goto(q, "created")
                   /\ UNCHANGED <<entryVars, queue, sel, target, attempt, taskVars, latest>>

(* Start finds a ready pod, its own or one that was already there.          *)
(* Mutant: a selection saved during the start counts as applied.            *)
Bug_StartReturns(q) == LET r == RefOf[q] IN
                       /\ pc[q] \in {"start", "created"}
                       /\ pod[r] = "ready"
                       /\ agent' = [agent EXCEPT ![r] = "ready"]
                       /\ older' = Touched(r)
                       /\ pending' = [pending EXCEPT ![r] = NoSel]
                       /\ OpEnds(q, "loop")
                       /\ UNCHANGED podVars
StartReturns(q) == LET r == RefOf[q] IN
                   /\ pc[q] \in {"start", "created"}
                   /\ pod[r] = "ready"
                   /\ agent' = [agent EXCEPT ![r] = "ready"]
                   /\ older' = Touched(r)
                   /\ pending' = [pending EXCEPT ![r] = IF @ = sel[q] THEN NoSel ELSE @]
                   /\ OpEnds(q, "loop")
                   /\ UNCHANGED podVars

(* Start errs: the pod failed, or Start gave up waiting.                    *)
StartErrs(q) == /\ pc[q] \in {"start", "created"}
                /\ "start_abandoned" \in Faults \/ pod[RefOf[q]] = "failed"
                /\ Goto(q, "abort")
                /\ UNCHANGED <<podVars, entryVars, queue, sel, target, attempt, taskVars, latest>>

(* The Stop after a failed start: its error is only logged, and the agent   *)
(* is forgotten either way.                                                 *)
AbortDeletes(q) == /\ pc[q] = "abort"
                   /\ DeletePod(RefOf[q])
                   /\ Goto(q, "aborting")
                   /\ UNCHANGED <<entryVars, queue, sel, target, attempt, taskVars, latest>>
AbortEnds(q) == /\ \/ pc[q] = "aborting" /\ pod[RefOf[q]] = "absent"
                   \/ pc[q] \in {"abort", "aborting"} /\ "cleanup_fails" \in Faults
                /\ agent' = [agent EXCEPT ![RefOf[q]] = "none"]
                /\ OpEnds(q, "failed")
                /\ UNCHANGED <<podVars, pending, older>>

(* Stop: delete, then wait until the pod is gone.                           *)
StopDeletes(q) == /\ pc[q] = "stop"
                  /\ DeletePod(target[q])
                  /\ Goto(q, "stopping")
                  /\ UNCHANGED <<entryVars, queue, sel, target, attempt, taskVars, latest>>
StopReturns(q) == /\ pc[q] = "stopping"
                  /\ pod[target[q]] = "absent"
                  /\ agent' = [agent EXCEPT ![target[q]] = "none"]
                  /\ OpEnds(q, "loop")
                  /\ UNCHANGED <<podVars, pending, older>>
(* On an error the entry keeps its agent and the request is refused.        *)
(* Mutant: an agent whose stop failed is forgotten.                         *)
Bug_StopErrs(q) == /\ \/ pc[q] = "stop" /\ "api_refuses" \in Faults
                      \/ pc[q] = "stopping" /\ "stop_cut_short" \in Faults
                   /\ agent' = [agent EXCEPT ![target[q]] = "none"]
                   /\ OpEnds(q, "failed")
                   /\ UNCHANGED <<podVars, pending, older>>
StopErrs(q) == /\ \/ pc[q] = "stop" /\ "api_refuses" \in Faults
                  \/ pc[q] = "stopping" /\ "stop_cut_short" \in Faults
               /\ OpEnds(q, "failed")
               /\ UNCHANGED <<podVars, agent, pending, older>>
----------------------------------------------------------------------------
(* The turn: chatOnce proxies to the agent and releases what it acquired.   *)

(* Release: decrements whatever the count is now.                           *)
Release(r) == /\ inflight' = [inflight EXCEPT ![r] = @ - 1]
              /\ older' = Touched(r)
              /\ UNCHANGED <<agent, busy, pending>>

(* A pod that is shutting down may still answer.                            *)
Dial(q) == /\ pc[q] = "dial"
           /\ pod[RefOf[q]] \in {"ready", "terminating"}
           /\ Goto(q, "stream")
           /\ UNCHANGED <<podVars, entryVars, queue, sel, target, attempt, taskVars, latest>>

(* Nobody answers: one more attempt after a reconcile, then the handler     *)
(* returns without having written anything.                                 *)
(* Mutant: the unreachable path returns without its Release.                *)
Bug_Unreachable(q) == /\ pc[q] = "dial"
                      /\ pod[RefOf[q]] # "ready"
                      /\ pc' = [pc EXCEPT ![q] = IF attempt[q] = 0 THEN "retry" ELSE "silent"]
                      /\ attempt' = [attempt EXCEPT ![q] = 0]
                      /\ UNCHANGED <<podVars, entryVars, queue, sel, target, taskVars, latest>>
Unreachable(q) == /\ pc[q] = "dial"
                  /\ pod[RefOf[q]] # "ready"
                  /\ Release(RefOf[q])
                  /\ pc' = [pc EXCEPT ![q] = IF attempt[q] = 0 THEN "retry" ELSE "silent"]
                  /\ attempt' = [attempt EXCEPT ![q] = 0]
                  /\ UNCHANGED <<podVars, queue, sel, target, taskVars, latest>>

(* The stream ends: the answer is complete, the client left, or the pod is  *)
(* gone; or the client leaves while the agent is dialled.                   *)
StreamEnds(q) == /\ \/ pc[q] \in {"stream", "broken"}
                    \/ pc[q] = "dial" /\ "wait_abandoned" \in Faults
                 /\ Release(RefOf[q])
                 /\ Goto(q, Finished)
                 /\ attempt' = [attempt EXCEPT ![q] = 0]
                 /\ UNCHANGED <<podVars, queue, sel, target, taskVars, latest>>

(* /skills on, off, reset: the selection is recorded and the user is told   *)
(* it applies before the next message.  It is a new *Selection.             *)
SetPending(r, s) == /\ s # latest[r] /\ s # pending[r]
                    /\ \A q \in Reqs : RefOf[q] = r => sel[q] # s
                    /\ pending' = [pending EXCEPT ![r] = s]
                    /\ latest' = [latest EXCEPT ![r] = s]
                    /\ UNCHANGED <<podVars, agent, inflight, busy, older, queue, pc, sel, target, attempt, taskVars>>
----------------------------------------------------------------------------
(* reconcile: forget the agents a List answer S does not name.  The answer  *)
(* was taken before the lock.                                               *)
Forget(S) == LET gone == {r \in Refs : agent[r] # "none" /\ ~busy[r] /\ r \notin S} IN
             /\ agent' = [r \in Refs |-> IF r \in gone THEN "none" ELSE agent[r]]
             /\ inflight' = [r \in Refs |-> IF r \in gone THEN 0 ELSE inflight[r]]
             /\ UNCHANGED <<busy, pending, older>>

(* The reconcile of c under the lock, or its List failed.                   *)
Reconcile(c) == \/ /\ "stale_list" \notin Faults
                   /\ Forget(ListPods)
                   /\ UNCHANGED listed
                \/ /\ \E S \in listed[c] : Forget(S)
                   /\ listed' = [listed EXCEPT ![c] = {}]
                \/ /\ "api_refuses" \in Faults
                   /\ listed[c] = {}
                   /\ UNCHANGED <<entryVars, listed>>

Reconciling(c) == \/ c = "bg" /\ bgDue
                  \/ c = "reaper" /\ reap.at = "tick"
                  \/ c \in Reqs /\ pc[c] = "retry"

ListAnswers(c) == /\ "stale_list" \in Faults
                  /\ Reconciling(c) /\ listed[c] = {}
                  /\ listed' = [listed EXCEPT ![c] = {ListPods}]
                  /\ UNCHANGED <<podVars, entryVars, queue, pc, sel, target, attempt, bgDue, reap, latest>>

(* The goroutine a queued request spawned.  Those of several requests count *)
(* as one: at most one background reconcile runs at a time.                 *)
BackgroundReconcile == /\ bgDue
                       /\ Reconcile("bg")
                       /\ bgDue' = FALSE
                       /\ UNCHANGED <<podVars, queue, pc, sel, target, attempt, reap, latest>>

(* chat's reconcile between its two attempts.                               *)
RetryReconcile(q) == /\ pc[q] = "retry"
                     /\ Reconcile(q)
                     /\ Goto(q, "loop")
                     /\ attempt' = [attempt EXCEPT ![q] = 1]
                     /\ UNCHANGED <<podVars, queue, sel, target, bgDue, reap, latest>>

(* Reap: reconcile, mark the victims busy, stop them one after another.     *)
(* Which agents are idle past IdleShutdown, stale or too old is the clock's *)
(* and the catalog's choice.                                                *)
(* Mutants: an agent that is starting or stopping; one with open streams.   *)
Bug_ReapBusy(r) == agent[r] # "none" /\ ~(inflight[r] > 0)
Bug_ReapServing(r) == agent[r] # "none" /\ ~busy[r]
Reapable(r) == agent[r] # "none" /\ ~busy[r] /\ ~(inflight[r] > 0)

ReapReconcile == /\ reap.at = "tick"
                 /\ Reconcile("reaper")
                 /\ reap' = [reap EXCEPT !.at = "pick"]
                 /\ UNCHANGED <<podVars, queue, pc, sel, target, attempt, bgDue, latest>>
ReapPick == /\ reap.at = "pick"
            /\ \E V \in SUBSET {r \in Refs : Reapable(r)} :
                 /\ busy' = [r \in Refs |-> busy[r] \/ r \in V]
                 /\ reap' = [reap EXCEPT !.at = IF V = {} THEN "tick" ELSE "stop", !.left = V]
            /\ UNCHANGED <<podVars, agent, inflight, pending, older, queue, pc, sel, target, attempt,
                           listed, bgDue, latest>>
ReapDeletes(r) == /\ r \in reap.left /\ reap.deleted = {}
                  /\ DeletePod(r)
                  /\ reap' = [reap EXCEPT !.deleted = {r}]
                  /\ UNCHANGED <<entryVars, queue, pc, sel, target, attempt, listed, bgDue, latest>>
ReapEnds(r) == LET left == reap.left \ {r} IN
               /\ r \in reap.left
               /\ \/ /\ r \in reap.deleted /\ pod[r] = "absent"
                     /\ agent' = [agent EXCEPT ![r] = "none"]
                  \/ /\ r \in reap.deleted /\ "stop_cut_short" \in Faults
                     /\ UNCHANGED agent
                  \/ /\ reap.deleted = {} /\ "api_refuses" \in Faults
                     /\ UNCHANGED agent
               /\ busy' = [busy EXCEPT ![r] = FALSE]
               /\ reap' = [at |-> IF left = {} THEN "tick" ELSE "stop", left |-> left, deleted |-> {}]
               /\ UNCHANGED <<podVars, inflight, pending, older, queue, pc, sel, target, attempt,
                              listed, bgDue, latest>>

(* The broker process ends; the next one recovers the agents List names.    *)
(* Their keys, counts, pending selections and the queue are gone, and so is *)
(* every request that was in the broker.                                    *)
Restart == /\ "restart" \in Faults
           /\ agent' = [r \in Refs |-> IF r \in ListPods THEN "listed" ELSE "none"]
           /\ inflight' = [r \in Refs |-> 0]
           /\ busy' = [r \in Refs |-> FALSE]
           /\ pending' = [r \in Refs |-> NoSel]
           /\ older' = {}
           /\ queue' = <<>>
           /\ pc' = [q \in Reqs |-> IF pc[q] = "new" THEN "new" ELSE Finished]
           /\ sel' = [q \in Reqs |-> NoSel]
           /\ target' = RefOf
           /\ attempt' = [q \in Reqs |-> 0]
           /\ listed' = [c \in Reconcilers |-> {}]
           /\ bgDue' = FALSE
           /\ reap' = [at |-> "tick", left |-> {}, deleted |-> {}]
           /\ UNCHANGED <<podVars, latest>>
----------------------------------------------------------------------------
(* The cluster.  A stream to a pod that goes away is cut.                   *)
BrokerUnchanged == UNCHANGED <<entryVars, queue, sel, target, attempt, taskVars, latest>>

Cut(r) == pc' = [q \in Reqs |-> IF pc[q] = "stream" /\ RefOf[q] = r THEN "broken" ELSE pc[q]]

Cluster(r) == \/ (PodSyncs(r) \/ PodReady(r)) /\ UNCHANGED pc /\ BrokerUnchanged
              \/ "pod_fails" \in Faults /\ PodFails(r) /\ Cut(r) /\ BrokerUnchanged
              \/ PodGone(r) /\ Cut(r) /\ BrokerUnchanged
              \/ "pod_lost" \in Faults /\ PodLost(r) /\ UNCHANGED pc /\ BrokerUnchanged

Acquire(q) == \/ Admit(q) \/ Attach(q) \/ Reselect(q) \/ ClaimSlot(q) \/ Evict(q)
              \/ Wait(q) \/ GiveUp(q) \/ Return(q)
StartStop(q) == \/ StartCreates(q) \/ StartReturns(q) \/ StartErrs(q)
                \/ AbortDeletes(q) \/ AbortEnds(q)
                \/ StopDeletes(q) \/ StopReturns(q) \/ StopErrs(q)
Turn(q) == Dial(q) \/ Unreachable(q) \/ StreamEnds(q) \/ RetryReconcile(q)
Reap == ReapReconcile \/ ReapPick \/ \E r \in Refs : ReapDeletes(r) \/ ReapEnds(r)

Next == \/ \E q \in Reqs : Arrive(q) \/ Acquire(q) \/ StartStop(q) \/ Turn(q)
        \/ \E r \in Refs : Cluster(r) \/ \E s \in Sels : SetPending(r, s)
        \/ \E c \in Reconcilers : ListAnswers(c)
        \/ BackgroundReconcile
        \/ Reap
        \/ Restart

Spec == Init /\ [][Next]_vars

(* Fairness: goroutines run, streams end, pods come up and go away, an      *)
(* agent nobody uses becomes idle.  A wait that nothing ends is not ended   *)
(* by its timeout here.                                                     *)
Progress(q) == \/ Admit(q) \/ Attach(q) \/ Reselect(q) \/ ClaimSlot(q) \/ Evict(q)
               \/ Wait(q) \/ Return(q) \/ StartStop(q) \/ Turn(q)
ClusterProgress(r) == /\ \/ (PodSyncs(r) \/ PodReady(r)) /\ UNCHANGED pc
                         \/ PodGone(r) /\ Cut(r)
                      /\ BrokerUnchanged

(* IdleTimeout and IdleShutdown are minutes, a waiting request looks again  *)
(* every 5 s: an agent is not stopped as idle while a request waits that    *)
(* it would admit.                                                          *)
Prompt == \A q \in Reqs : InLoop(q) /\ Admissible(RefOf[q]) => ~busy'[RefOf[q]]

FairSpec == /\ Init
            /\ [][Next /\ Prompt]_vars
            /\ \A q \in Reqs : WF_vars(Progress(q) /\ Prompt)
            /\ \A r \in Refs : WF_vars(ClusterProgress(r))
            /\ \A r \in Refs : WF_vars(ReapDeletes(r)) /\ WF_vars(ReapEnds(r))
----------------------------------------------------------------------------
(* Properties.                                                              *)

Operating(q) == pc[q] \in {"start", "created", "abort", "aborting", "stop", "stopping"}
Serving(q) == pc[q] \in {"admitted", "dial", "stream", "broken"}

(* One backend operation per agent at a time: an entry is busy exactly when *)
(* one request or the reaper is starting or stopping its agent.  Two Starts *)
(* or a Start and a Stop of one agent would race for its pod and volume.    *)
OneOperationPerAgent ==
    \A r \in Refs :
        LET ops == {q \in Reqs : Operating(q) /\ target[q] = r} IN
        /\ busy[r] <=> ops # {} \/ r \in reap.left
        /\ \A p, q \in ops : p = q
        /\ r \in reap.left => ops = {}

(* Nobody takes a slot beyond K: the number of slots in use grows only up   *)
(* to K, whatever fails; only the agents a restarted broker finds may be    *)
(* more.                                                                    *)
SlotsGrowWithinK == [][\/ Cardinality(Used') <= Cardinality(Used)
                       \/ Cardinality(Used') <= K
                       \/ Restart]_vars

(* Every ticket belongs to one request that is still in Acquire: a ticket   *)
(* left behind would stand at the head of the queue for ever.               *)
TicketsHeldByWaiters ==
    /\ \A i, j \in DOMAIN queue : queue[i] = queue[j] => i = j
    /\ \A i \in DOMAIN queue : InLoop(queue[i]) \/ Operating(queue[i])
                                \/ pc[queue[i]] \in {"admitted", "failed"}

(* FIFO: while requests are queued, an agent that had no slot gets one only *)
(* for the request at the head.                                             *)
SlotsGoToTheHead == [][\A r \in Refs :
                          r \notin Used /\ r \in Used' /\ queue # <<>>
                             => RefOf[Head(queue)] = r \/ Restart]_vars

(* The in-flight count of an agent is the number of requests that acquired  *)
(* it and have not released it.                                             *)
ServingCounted == \A r \in Refs :
                     inflight[r] = Cardinality({q \in Reqs : Serving(q) /\ RefOf[q] = r})

(* A busy agent is never evicted, reaped or restarted: no operation is in   *)
(* progress on an agent with an open stream.                                *)
BusyAgentNeverStopped == \A q \in Reqs : pc[q] = "stream" => ~busy[RefOf[q]]

(* K is a hard bound on what runs, not only on what is counted.             *)
PodsWithinK == Cardinality(ListPods) <= K

(* No pod runs outside the count.                                           *)
EveryPodCounted == ListPods \subseteq Used

(* reconcile forgets only agents whose pod is gone: an agent is dropped     *)
(* outside a start or a stop only if it has no pod.                         *)
ForgetsOnlyGonePods == [][\A r \in Refs :
                             agent[r] # "none" /\ agent'[r] = "none" /\ ~busy[r]
                                => pod[r] = "absent"]_vars

(* "Saved. Your agent restarts with the new selection before your next      *)
(* message": an agent that may admit a request runs with the selection its  *)
(* user saved last.                                                         *)
SavedSelectionServed == \A r \in Refs : Admissible(r) => profile[r] = latest[r]

(* Every request is answered without waiting for its timeout.               *)
EveryRequestReturns == \A q \in Reqs : pc[q] = "loop" ~> pc[q] \in {"done", "silent"}

(* The slot manager implements the pool it promises.                        *)
Pool == INSTANCE SlotPool WITH held <- Used, serving <- {q \in Reqs : Serving(q)}
PoolPromise == Pool!PoolSpec
=============================================================================
