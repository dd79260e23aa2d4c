# llm-stack in TLA+

Specifications, model-checking configurations and machine-checked proofs for
llm-stack: an on-premises LLM platform whose own programs are an agent broker
that runs one assistant per user on a bounded number of slots, the adapter and
the catalog sync inside each agent's pod, a service that issues and meters
access tokens, and a few gateways. Paths below are relative to the repository.

## 1. The system

| component | state it keeps | operations | what makes it correct |
| --- | --- | --- | --- |
| slot manager, `agent-broker/.../slots.go` | per agent: the running agent, in-flight count, busy mark, pending selection, last use; a queue of tickets | Acquire, Release, SetPending, reconcile, Reap, Recover | at most K agents; one start or stop of an agent at a time; nobody's agent is stopped under a stream; FIFO; every request returns; the saved selection is served |
| pods backend, `pods.go`, `backend.go` | pods and profile volumes in Kubernetes | Start, Stop, List, Touch, Profile, EnsureProfile | one pod per profile; a Stop returns when the pod is gone |
| chat, turn and skills handlers, `main.go`, `interact.go`, `skills.go`, `web.go` | none of their own | chat, turn, permission, /skills, web proxy | each Acquire is released once; a command changes what it says it changes |
| agent-adapter, `server.mjs`, `acp.mjs`, `opencode.mjs`, `pi.mjs`, `dsh.mjs` | a queue of turns per chat, a session per chat in memory and on disk, histories, listeners, open permission requests | start, migrate, turn, cancel, permission, completion | one turn of a chat at a time, in order; a request for permission is answered once, or denied; an answer is whole; a chat keeps its session; every turn ends |
| catalog sync, `agent_sync.py` | files of a profile: catalog, selection, seen skills, report | sync at each start of a pod | a crash leaves a profile the next sync repairs; the agent serves the catalog and selection in force; no skill is called new twice |
| pat-service API, `main.go`, `agents.go`, `private.go`, `connections.go`, `mcp.go` | tokens in Postgres, Secrets of agents, cached bearer and JWKS, window counters | create, revoke, issue an agent's token, authorise, migrate | a token works exactly while it is live; the agents hold a live key, and one |
| ledger and usage, `ledger.go`, `usage.go` | a row per request | begin, read the stream, finish | a row ends once, with the outcome the client saw |
| QoS, `internal/qos` | per-user and per-session counters in Redis | chain, observe, assign a band | a band reflects the load; a session's band moves as documented |
| cred-gateway, web-search-mcp | a token cache | proxy, check a push, guard an address | only allowed refs and addresses pass |
| Open WebUI functions, `config/openwebui` | none | relay a turn, redact | a permission nobody answers is a denial |
| web console, `pat-service/web/src` | per page: rows, filters, loads on their way, spinners | load, create, revoke, issue, choose, turn a page, load older | a list is of the filters and the page shown with it; a button tells whether what it was clicked for is under way |
| exporter, charts, scripts | none of interest | deployment | - |

Interaction: Open WebUI calls the broker (chat, or turn through the pipe); the
broker acquires the user's agent, starting or evicting pods through the
Kubernetes API, and proxies to agent-adapter in the pod; the pod's init
container has run the catalog sync and its result returns to the broker in the
pod's status. Agents call models through the gateway, which asks pat-service to
authorise each request and streams the answer past its ledger; their key is in
a Secret pat-service writes, and their pods read it when they start. The web
console is pat-service's browser side.

What is hard: the slot manager releases its lock around every backend call, so
an entry's busy mark is the only thing that orders starts, stops, reconciles
and the reaper; its in-memory counts meet a cluster that changes by itself;
clients leave at any point and take the context of whatever their request was
doing with them; the broker may restart at any time and knows afterwards only
the pods. In the pod, answers, events and aborts travel on different
connections, files are written in steps a crash may come between, and the pod
that replaces this one may carry another image or speak another protocol. An
issue of the agents' key spans a database, a Secret and pods. In the browser no
load is ever cancelled. The list of hazards with their lines is in `PROJECT.json`.

## 2. What is modelled

### AgentPods

One pod and one profile per agent: `pod` is the phase Kubernetes reports,
`spec` the selection the pod was created with, `profile` the selection stored
in the volume. `CreatePod`, `DeletePod` and `ListPods` are the backend's calls;
`PodSyncs` is agent-sync in the init container; `PodReady`, `PodFails`,
`PodGone` and `PodLost` are the cluster, which the repository does not contain.
`ListPods` names every pod that exists, ready, failed or terminating, as the
label query of `List` does.

### Slots

`slots.go` with its callers. A request is a goroutine: `pc` says where it is.

| step | in the code |
| --- | --- |
| new, loop, wait | before chat; in Acquire's loop; in its select |
| start, created | in `b.Start`, before and after it created the pod |
| abort, aborting | in the Stop after a failed start, before and after its DELETE |
| stop, stopping | in the Stop of a restart or an eviction, likewise |
| admitted, failed | Acquire is returning, its deferred dequeue still to run |
| dial, stream, broken | the proxy connects; relays; relays from a pod that is gone |
| retry | chat's reconcile between its two attempts |
| silent, done | the handler returned without, or with, an answer |

One action is one critical section under `s.mu` or one API call. `Admit`,
`Attach`, `Reselect`, `ClaimSlot`, `Evict` and `Wait` are the cases of
Acquire's switch; their guards are disjoint as the cases are, and `Wait` does
all the code does before it releases the lock: the ticket, the queue, the
background reconcile. `StartCreates` ... `StopErrs` are Start and Stop up to
each API call that matters and what start() and stop() then do under the lock.
`Reconcile` is used by the goroutine of a queued request, by chat's retry and
by the reaper. `Restart` ends every request and gives the next process the
entries Recover builds from the List.

Data that is abstracted, and how:

- Time. Whether an agent has been idle for IdleTimeout, IdleShutdown or
  MaxAgentLifetime, and whether its catalog is stale, is any choice the clock
  may make. `older` keeps the order of `entry.last`, all that
  `lruIdleLocked` needs: if any candidate is past IdleTimeout, the least
  recently used one is. A waiting request looks again at any time, which
  covers the wake-ups and the 5 s timer.
- A selection is a `*Selection`: a member of `Sels` is one pointer.
- The API key of an entry is "listed" (recovered, no key) or "ready".
- Background reconciles of several queued requests count as one; they do the
  same thing to the same entries.
- Notices, Touch, Stats, logging and the API's payloads are left out.

What may go wrong is the constant `Faults`; `AllFaults` in `Slots.tla` says what
each member stands for. A run names the faults under which its properties
hold; the violation runs show why the missing ones are missing.

### SlotPool

What users are promised: a slot is held by at most one agent, at most K are
held, a request is served only by an agent with a slot, a slot is freed only
under an agent that serves nobody. `PoolPromise` is the refinement: `held` is
the set of entries `usedLocked` counts, `serving` the requests between Acquire
and Release.

### AgentTurns

`server.mjs` over `acp.mjs` inside one pod. Node runs one callback at a time, so
an action is everything the code does between two awaits on something outside
the process. A request is a turn (`Interactive`) or a chat completion; the queue
of its chat is the chain of promises of `serialize`: `prev` is the promise it
waits on, `tail` the map's entry.

| step | in the code |
| --- | --- |
| new | not sent |
| queued | in `serialize`, waiting for its chat's earlier requests |
| reattach | in `sessionID`, waiting for session/resume or session/load |
| create | in `sessionID`, waiting for session/new |
| prompt | in `prompt`, waiting for the answer to session/prompt |
| done | its response has ended |

`StartsTurn`, `SaveFails`, `TurnedAway` and `StartsCompletion` are what the
handler does once its turn has come, up to its first await. `Reattached`,
`ReattachFails`, `Created`, `CreateFails` and `AgentEnds` are the agent's
answers with the continuation of each. `AgentCalls` and `AgentAsks` are what the
agent sends while it works; `Replies` is the pipe showing a request and posting
what the user said; `ReplyArrives`, `TimesOut` and `Close` are the three ways a
request for permission is settled, all through `done` (`Decides`). `Restart` is
the end of the container and the next process with what is on disk.

Data that is abstracted, and how:

- A message is a member of `Prompts`, which is what its hash tells apart, and a
  body is the sequence of its user messages. Other events of a turn (text,
  plans, errors) are not modelled: only the end of the response is.
- The agent asks for permission only while a prompt of that session runs, after
  it has announced the call, and answers the prompt when its requests are
  answered. Its requests are numbered in the turn.
- What a request that is over was chained to is reset; nothing reads it.
- `sent` and `ahead` are history variables, read by properties only: the
  prompts the agent received, and the line a request found.

The pod has one such adapter, so a model of one is enough; chats share its
agent process, its `calls` and its files.

### TurnQueue

What users are promised about a chat: a message waits for those that came before
it, one at a time, in their order; any may be turned away when its turn comes,
and a restart sends everybody away. `QueuePromise` is the refinement: `stage`
is the step of a request with the three running ones merged.

### AgentSessions

The backends under `server.mjs`: `opencode.mjs`, `pi.mjs` and `dsh.mjs`, and
`acp.mjs` when `AGENT_PROTOCOL` is "acp". `runtime` and `protocol` are the pod's;
`Is(r, p)` selects what differs between them, as the modules do. The line of a
chat is TurnQueue, which AgentTurns is shown to implement: a turn is in line
from `Arrives` to `Ends`.

| step | in the code |
| --- | --- |
| open | asking for a session the chat has: GET /session, session/resume or load, pi's `continueRecent` |
| create | asking for a new one |
| send | opencode: the prompt is posted, its listener set, the reply not there |
| await | waiting for the idle event, or for the agent's answer to the prompt |

`Boots`, `Migration`, `StartAnswers` and `Ready` are `main` and each `start`, with
`migratePiSessions` as its two writes; `Exit`, `TornStore` and `Replaced` are the
ends of the process, alone or with its pod. `Opened`, `NotOpened`, `Created` and
`Refused` are `sessionID` and its callers. The agent is another process:
`Takes`, `Speaks`, `Finishes` and `AbortArrives` are what it does, `events` what
it sent, in its order; `Deliver` is the adapter's side of that stream and
`PostReplies` the reply that races it. `Leaves` is a client that is gone.

A session is its number among those made for its chat. A text is the turn it
was said for and its number there: the deltas of one message of the agent are
one text, a message after a tool call another. `Streamed` are the turns whose
client asked for a stream. What `prompt()` resolves with is `Finals`: all that
was heard, but natively in pi the last text of the session
(`getLastAssistantText()`, `pi.mjs:49`), of an earlier prompt if this one had
none; `Told` is what `server.mjs` makes of it, which for a stream is what was
sent already. `Troubles` names what a run lets go wrong; `excused` keeps the
chats whose session such a trouble took, or which a change of protocol leaves
behind by design. `cut`, `made` and `prompted` are history too; `said` is the
agent's.

### ProfileSync and AgentPod

`sync()` of `agent_sync.py` with the functions it calls, one file operation at a
time: `Recover`, `Select`, then for each of the two directories `Copying` to
`Sweep` (the copy and `swap_dir`), then `Seen`, `Version`, `Report`. `SyncCrash`
comes between any two and starts it again; `SyncStart` is a new pod, of any
image and selection. A directory is None, Partial (being copied or removed,
which takes many operations) or the skills it holds of a catalog. A catalog is
its required skills and those on or off by default. `known` and `placed` are
history: skills an earlier complete sync knew, directories that were ever in
place.

AgentPod composes the two: the adapter's container starts when the init
container ended well (`Initialized`), a created pod begins with sync and ends
the adapter of the one before (`CreatePod`).

### TokenService

The tokens of one user in pat-service: `CreateToken`, `RevokeToken`, and
`issueAgentToken` as its steps, each visible or not as PostgreSQL at READ
COMMITTED makes it. `IssueStarts` is the snapshot of the UPDATE, `IssueInserts`
the end of its wait for locked rows, `StoreInferenceKey` the Secret and then the
DELETE of the pods, `Commit` and `Rollback` the ends. `PodStarts` and `PodStops`
are the broker's; `podKey` is the key a pod read when it started. Expiry, names and
hashes are left out. `spoilt`, `byUser` and `seen` are history: an issue failed
after it wrote the Secret; the user revoked the token; the keys that were live
when an issue began.

### Dashboard, Screens and WebConsole

Dashboard is `main.jsx` App and AgentKeyPanel over TokenService: a click asks, the answer
makes the list load again, loads overlap and end in any order, each may fail,
and an answer may be lost though the request was served (`NoAnswer`). `calls`
are the requests whose answer is awaited, each with the click it is of, for
Revoke is not disabled meanwhile and two DELETEs of one token may overlap; Create
and Issue are, until the load behind their answer has ended (`Enables`).

Screens is what every other view shares: a filter, loads on their way, rows of
the filters they were of, an error, a spinner; `Kept`, `Busy`, `MayChoose` and
`Rows` say how the views differ. Filters are numbered in the order they are
chosen, for one chosen again is loaded again. The two lists under a user's
summary are modelled with it, as they are mounted by it.

WebConsole is `Root`: a path, the capabilities it waits for, and links, which
are full loads and leave nothing. The tokens and the sessions on "/" share no
state, so a visit is followed in one or the other.

## 3. The runs

Bounds: two agents, two or three requests and one slot are enough for every
case of Acquire's switch to meet every other: a request that evicts while
another queues, two requests of one user (attach, wait on a start, drain), two
tickets of different users. `Reuse` lets a finished request take a new turn, so
those histories are not bounded; it is off in `faults`, whose many faults make
the larger state space, and in `liveness`, which is about single requests. No
counter needs a bound: `inflight` is bounded by the requests in the runs that pass.

| run | instance | shows |
| --- | --- | --- |
| faults | 2 agents, 2 requests, K = 1; starts given up, refused, cut and failed stops, failed cleanups, lost pods, late List answers, restarts | `OneOperationPerAgent`, `SlotsGrowWithinK` |
| promise | 2 requests of one user, 1 of another, K = 1; pods fail, starts and waits given up, DELETEs and Lists refused, restarts | `TypeOK`, `ServingCounted`, `BusyAgentNeverStopped`, `TicketsHeldByWaiters`, `SlotsGoToTheHead`, `PoolPromise`, `PodsWithinK`, `EveryPodCounted` |
| selection | 1 agent, 2 requests, 2 selections; all but cleanup_fails, stale_list, restart | `SavedSelectionServed` |
| liveness | 2 requests of one user, 1 of another, K = 1, once each; starts given up, 1 selection | `EveryRequestReturns` |
| turns | two turns and a completion of one chat; two reattach methods, one permission request per turn, one restart; bodies that start, edit and continue a conversation | `OneTurnPerChat`, `LineMoves`, `QueuePromise`, `NeverReplays`, `OnlyApproved`, `AckedDecides`, `AskedWhileOpen`, `EveryTurnEnds` |
| sessions | two messages of one chat; opencode, pi or dsh, either protocol; all `Troubles`; up to two texts an answer, the first message streamed, the second not; two exits or replaced pods | `WholeAnswer`, `OneSessionPerChat`, `OnlyLeaversStopped`, `EveryPromptEnds` |
| pod | a catalog and a later one that brings a skill and requires another, one selection or none, four starts of sync, one message | `OldOrNew`, `NoFalseNews`, `ServesSelection` |
| web | one token, two agent keys, one agent; two clicks a visit, three loads of a screen and five of the lists in it, two pages; any number of visits | `AgentKeyWorks`, `PodsCarryKey`, `IssueReplaces`, `OneAtATime`, `SamePeriod`, `RowsOfPage`, `ListsHaveArrived` |

Three requests of a chat are the fewest where the middle one can leave the
queue between its neighbours; the bodies hold a first message, its edit and a
second message after it; `MaxRestarts` and `MaxAsks` bound restarts and the
requests of a turn, and one of each already lets a reply outlive its request,
its turn and its process. The run allows the system to stop
(`CHECK_DEADLOCK FALSE`): each request is sent once, and with the last one over
and every reply delivered nothing is left to do. So do `sessions` and `pod`,
whose restarts and starts of sync are bounded.

In `sessions`, two messages are the fewest where one leaves its abort or its
late events to the other; two texts are the fewest where the last one is not all
of it; two restarts allow a change of protocol and back, or
a crash inside the migration and the migration again. In `pod`, four starts let
a crash of the repair of a crash meet a third catalog. In `web`, two keys are the fewest whose issues
overlap; the second click is the first that can overlap a load behind an
earlier one; three loads are the fewest where two are overtaken.

`WholeAnswer` says of every answer that ends well what it is: all the agent said
to that prompt. Natively in pi only a stream is; a completion that is not
streamed gets the last text, which after a tool call is not all, and of a prompt
that was answered with no text nothing is stated. The four statements about
lists and buttons hold with answers in any order; none of them says that the
rows are of the newest filter or that the tokens are those of now, for that is
not so: an answer that was overtaken replaces the newer one on Users, Overview,
Audit and the list of tokens, until the next load.

Runs that end in a violation, each a statement of the repository that the code
does not keep (`PROJECT.json`, findings):

| run | what happens |
| --- | --- |
| lost_pod | a pod is deleted under an open stream; reconcile zeroes the count; the stream's Release makes it wrong by one; the next agent of that user is evicted while it serves |
| stale_answer | a start ends between a reconcile's List and its lock: the running agent is forgotten |
| lost_stop | a client leaves while its session is created: its prompt is sent afterwards and never cancelled |
| blind_request | a turn of another chat ends between a call's announcement and its permission request: the user sees a request without title or input |

Three faults are left out of the passing runs because the properties do not
survive them. Add `cleanup_fails` to `promise` and a start that fails, and
whose Stop fails too, leaves a pod outside the count (`slots.go:225`): K + 1
pods. Add it to `selection` and a Start finds the pod that start left behind
and drops the new selection (`slots.go:240`). Add `restart` to `selection` and
the saved selection is lost, `State is in memory` being all `slots.go:38` says
of it, while the user was told that it is saved (`main.go:429`).

Fairness (`FairSpec`): goroutines run, an agent's stream ends, the cluster
brings up, syncs and removes pods, an idle agent may become evictable. Waiting out
the timeout (`GiveUp`) is not assumed, so `EveryRequestReturns` says that
something other than the timeout ends the wait. `Prompt` states that an idle agent is
not stopped between a waiting request's two looks: IdleTimeout and
IdleShutdown are minutes, the look is repeated every 5 s. Without it a
scheduler could starve a request by stopping its agent each time. Clients that leave
and selections saved over and over are outside those runs.

In AgentTurns `FairSpec` assumes that the next callback of a ready request runs,
that `permissionTimeout` fires, and that the agent answers resume, load, new and,
once its own requests are answered, prompt. No user has to reply and no client
to leave, so `EveryTurnEnds` rests on the timeout alone where a user is silent.
An agent that never answers blocks its chat; the adapter has no timeout for
that, and none is assumed.

In AgentSessions `SessionsFairness` assumes the adapter's callbacks, that the agent
takes and finishes prompts, and that its event stream lasts as long as it does (a stream
that ends without an error leaves the adapter waiting, a hazard of its own).
Clients need not leave, processes need not die. The other modules state no
fairness: nothing in them waits for anything but the user.

## 4. The proofs

For all values of the constants: any finite sets of agents and requests, any
assignment of requests to agents, any selections, any natural K, any set of
faults unless said otherwise. `SelAssumption` and `SlotsAssumption` are all
that is assumed.

| module | theorem | states |
| --- | --- | --- |
| SlotsProofs | TypeCorrect | `Spec => []TypeOK` |
| SlotsProofs | OneOperation | `Spec => []OneOperationPerAgent` |
| SlotsCapacityProofs | SlotsGrow | `Spec => SlotsGrowWithinK` |
| SlotsCapacityProofs | PodsCounted | `Spec => []EveryPodCounted`, if no cleanup fails and no List answer is late |
| SlotsCapacityProofs | PodsBounded | `Spec => []PodsWithinK`, under the same condition |
| SlotsServiceProofs | HeadFirst | `Spec => SlotsGoToTheHead` |
| SlotsServiceProofs | TicketsHeld | `Spec => []TicketsHeldByWaiters` |
| SlotsServiceProofs | ServingIsCounted | `Spec => []ServingCounted`, under `ServeFaults` |
| SlotsServiceProofs | BusyNeverStopped | `Spec => []BusyAgentNeverStopped`, under `ServeFaults` |
| SlotsServiceProofs | ImplementsSlotPool | `Spec => PoolPromise`, under `ServeFaults` and `CleanFaults` |
| SlotsServiceProofs | SelectionServed | `Spec => []SavedSelectionServed`, under `SelectFaults` |
| TurnsProofs | TypeCorrect | `Spec => []TypeOK` |
| TurnsProofs | UserApproves | `Spec => []OnlyApproved` |
| TurnsProofs | RepliesDecide | `Spec => []AckedDecides` |
| TurnsProofs | NobodyIsWaitedFor | `Spec => []AskedWhileOpen` |
| TurnsProofs | OneTurn | `Spec => []OneTurnPerChat` |
| TurnsProofs | ImplementsTurnQueue | `Spec => QueuePromise` |
| TurnsProofs | NoCircleOfTurns | `Spec => []LineMoves` |
| TurnsProofs | ContinuesMeans | `Continues(received, earlier)` iff `Within(received, earlier)`, for sequences of any length |
| TurnsProofs | NothingIsReplayed | `Spec => []NeverReplays` |
| TurnsProofs | OneChatNamesCalls | `Spec => []RequestsNameTheirCall`, if all requests are of one chat |

`OneOperationPerAgent` is not inductive. `OpInv` adds that the request whose
start is in progress works on its own agent (an eviction does not) and that the
reaper chooses victims only when it has none left; it is stated from the
operations' side, where a step that begins one needs only `~busy` and a step
that ends one frees an agent nobody else works on. Four lemmas say so for the
four kinds of step (`OpInvKept`, `OpInvMoves`/`OpInvStarts`, `OpInvBegins`,
`OpInvEnds`), and each action cites one.

`SlotsGrow` rests on `StepUsed`: every step but `ClaimSlot` and a restart keeps
the set of agents that hold a slot or shrinks it. A start that returns adds its
agent only while its busy mark already counts, which is `OpInv`.

`PodsCounted` adds `StopsHold` (an agent that is being stopped keeps its entry
until its pod was seen gone); a reconcile spares those because they are busy,
`OpInv` again. `PodsBounded` follows with the bound on slots; a restart keeps
it because every pod was counted before.

`TicketsHeld` is inductive as it stands; `DequeuedOthers` says that dequeueing takes out
that one ticket and keeps the others distinct.

The rest of SlotsServiceProofs holds without the faults its conditions exclude:
`ServeFaults` excludes lost pods, cut stops and late List answers, `CleanFaults`
failed cleanups and late List answers (the condition of `PodsCounted`),
`SelectFaults` failed cleanups, late List answers and restarts. Section 3 says
what happens with them: `lost_pod` counts a request of a dead agent for the next
one, `stale_answer` forgets a running one, a failed cleanup leaves a pod outside
the count or one with an old selection, a restart forgets what was saved; a cut
stop keeps the entry of a pod that is going.

`ServingIsCounted`: `ServeInv` adds that an agent that serves is ready and not busy
(`ServingSteady`), so whatever forgets an entry or starts a stop leaves it alone.
A reconcile forgets entries whose pod it does not see and must not meet one of
these: `PodSide` says that a ready agent has its pod unless the stop that keeps
it busy deleted it (`ReadyHasPod`), that only an agent that is not ready is being
started, and that the reaper stops one at a time. `BusyNeverStopped` reads it off.

`ImplementsSlotPool` maps `ClaimSlot` to the pool's Take, `Admit` to Serve, the
two releases (`Unreachable`, `StreamEnds`) to Finish, a restart to Recover; every
other step frees slots of agents that serve nobody, or none. That a slot is
freed only under such an agent is `ServingSteady`; that a restart finds only pods
that held a slot is `PodsCounted`.

`SelectionServed`: a selection is looked at when a pod is created, when it is
saved and when a request is admitted, and much may happen between. `SelInv`
follows it: a start works with the selection of its entry (`CreatedWith`), what
is saved meanwhile is pending (`StartsPending`) and is the latest
(`PendingIsLatest`), a ready agent has synced what its entry says
(`ReadyHasSynced`) and an entry with nothing pending has the latest
(`NothingPending`).

In AgentTurns the requests, chats, prompts, bodies and bounds are any, under
`TurnsAssumption`. `TypeCorrect` also says that the sessions in memory include those on
disk; it needs `BodyRead` and `ReattachKnown`, the facts the handler has when it
reads its last message and reattaches. The three statements about permissions
are one induction: `AskInv` adds that a pending request is an interactive turn's
and unanswered, and that a reply once posted exists for good. `AsksDecided` says
what `done` does to a set of pending requests; the reply, the timeout and the
close cite it.

The queue rests on `QueueInv`: of two requests of a chat in line one found the
other there (`Ordered`), only a queued request has a line ahead (`OnlyQueued`),
the one it is chained to is the last still there of those it found (`Chains`), and the tail is
the last of all (`Tails`). Nobody in line is ahead of a request whose promise has settled
(`StartsAtFront`), which a chain alone does not give: it holds because a
request is chained to the tail and the tail is behind everyone. `QueueSteps`
reduces the actions to four: somebody joins, the one at the front moves or
leaves, everything restarts, nothing happens. `OneTurn` and the refinement of
`TurnQueue` follow from those four.

`NoCircleOfTurns` needs the other direction: what a request is chained to was in
its line when it came (`LinkInv`), and who is ahead of one that is ahead is ahead,
none of itself (`AheadInv`). So the line of the request one is chained to is
shorter (`ChainShortens`), and the request with the shortest line, which exists
because only finitely many requests have come, is chained to none.

`NothingIsReplayed` is about sequences of any length, so it needs induction. The
library's induction theorems take an operator as a parameter, which the provers
cannot instantiate; `LeastNat` (a nonempty set of naturals has a least one, by
the library's `WFMin`) and `NatSteps` (a set with 0 that is closed under + 1 is
Nat) take a set, and `NatSteps` gives what is said of `continues()`:
its loop is a recursive function, each message it meets is found further on, and
it misses none that could be met (`ContinuesMeans`). `ReplayInv` follows the
prompts: those the agent received in a chat are, in order, within those recorded
on disk, those within those in memory, and with the prompt of a turn whose session
is being opened behind them they still are. The check compares the body with memory, so what is
sent next comes after everything sent before, also when a save failed or a
restart forgot what only memory had.

`OneChatNamesCalls` bounds the finding of `blind_request`: an announced call is
remembered while its prompt runs, unless the prompt of another chat ends, and in
one chat no other prompt runs (`QueueInv`).

| module | theorem | states |
| --- | --- | --- |
| WebProofs | KeyWorks | `ServiceSpec => [](ServiceTypeOK /\ AgentKeyWorks /\ PodsCarryKey)` |
| WebProofs | IssuesReplace | `ServiceSpec => []IssueReplaces` |
| WebProofs | ConsoleKeyWorks | `WebSpec => []AgentKeyWorks /\ []PodsCarryKey /\ []IssueReplaces` |
| WebProofs | ButtonsTell | `WebSpec => []OneAtATime` |
| ScreensProofs | OnePeriod | `WebSpec => []SamePeriod` |
| ScreensProofs | PagerTells | `WebSpec => []RowsOfPage` |
| ScreensProofs | ListsAreThere | `WebSpec => []ListsHaveArrived` |
| ScreensProofs | WebTyped | `WebSpec => []WebTypeOK` |
| SessionsProofs | AnswersWhole | `SessionsSpec => WholeAnswer` |
| SessionsProofs | LeaversStopped | `SessionsSpec => []OnlyLeaversStopped` |
| SessionsProofs | OneSession | `SessionsSpec => []OneSessionPerChat` |
| SessionsProofs | SessionsTyped | `SessionsSpec => []SessionsTypeOK` |
| PodProofs | SyncRecovers | `SyncSpec => []AlwaysRecoverable` |
| PodProofs | SwapsWhole | `SyncSpec => OldOrNew` |
| PodProofs | NewsIsNew | `SyncSpec => []NoFalseNews` |
| PodProofs | PodTyped | `PodSpec => []PodTypeOK` |
| PodProofs | PodKeepsPromises | `PodSpec => WholeAnswer /\ [](OneSessionPerChat /\ OnlyLeaversStopped)` |
| PodProofs | PodServesSelection | `PodSpec => []ServesSelection` |

These hold for any tokens, keys, agents, clicks, loads, pages, messages, chats,
texts, troubles, skills, catalogs, selections, syncs and restarts, under the modules' named assumptions
(tokens are not keys, None is no key, None and Partial are no contents).

`AgentKeyWorks` speaks of moments when no issue runs. `TokensInv` says what holds
meanwhile: a key that is being issued is in no row (`SeenWhenOver`), an issue
revokes only what was committed (`TargetsExist`), and, from the moment an issue
has written the Secret, no issue in that state is about to revoke the key in it
(`SparesSecret`). That is the heart: a commit revokes its targets, and the key
in the Secret is never among them. `PodsFollow` is the same for the pods.

`IssuesReplace`: between the snapshot of an issue's UPDATE and its commit others
issue, revoke and roll back. `IssueTargets` says that every key that was live at
the snapshot is still among the rows to revoke, or is revoked, at each step of
the transaction, so with the new key's row it is; `Explained` is the other
direction, that every revoked row has a user or a committed issue behind it,
which the rollbacks must not break.

`ButtonsTell`: `OneAtATime` is inductive once loads have numbers of their own
(`LoadsNumbered`). A click makes the one call (`ClickedKept`), its answer puts
the load in the call's place (`AnsweredKept`), and the end of that load, or of
the call, enables the button (`SettledKept`, `NoAnswerKept`); overlapping
revokes and refreshes touch neither (`OthersKept`).

The theorems about screens rest on `ScreensInv`: `Fetching` says which loads
there are and that "older" events are the audit's; `OneLoad` that the pager and a user's screen never have
two loads out, which is what makes `SamePeriod` and `RowsOfPage` true without
any order of answers. `WebTyped` adds that a click sends at most one load more:
the loads sent and the calls whose answer may still send one
never exceed the clicks and the first load (`LoadsClicked`), so
`newest` stays within what a visit's clicks allow; and that an admin screen
is mounted only by `Renders`, on its path and for an admin (`WindowInv`).

`SyncRecovers`: `RecoverInv` splits a directory's life where sync may stop: away from
its place (before recovery has looked at it, and between the two renames) it is
there or set aside whole; otherwise it is there. `DirsInv` says which
directories have the new contents, and gives `ServesSelection` once sync is over.
`NewsInv` holds the skills seen against those of earlier catalogs. `SwapsWhole`
looks at each file operation: removals touch `.old` only while the directory is
in its place, the first rename and recovery move one tree between the two, and
only the second rename brings another, which is the copy just made.

A pod's step is a step of sync, of the backend, of both (a pod that is replaced),
or of neither (lemmas `PodUsesSync` and `PodRunsSessions`). So what is proved of
each holds in pods, whatever is replaced while it syncs or serves, and
`PodTyped` and `PodKeepsPromises` cite it; the console and TokenService are
related in the same way (`ConsoleUsesService`), and the backends' line of messages
and TurnQueue (`SessionsKeepQueue`). These four are lemmas, for they follow
from how the modules are composed.

`AnswersWhole`: one message of a chat runs at a time (`LineInv`), so the listener of
a session is the turn its events are meant for. `AnswerInv` says of each turn that listens that what
the agent said is what it took and what is under way, counted and each text its
next one (`Heard`); of the events under way that each is of a listening turn whose
idle has not come, and
that nothing of a turn is behind its idle (`InFlight`). So when the answer ends,
at the idle event or at the POST's reply that the idle was ahead of, nothing is
under way (`WholeAtEnd`), so what was taken is all that was said, and what the
client is told is read off for each backend (`EndsWhole`): that, or natively in pi
the last of it. `AnswerMoves` is every step of prompt() that touches no event.

`LeaversStopped`: `AbortsInv` says that over pipes and in process nobody but the
leaver works in the chat an abort is for, for a later prompt waits behind it
(`InOrder`).

`OneSession`: a chat's `Home` is its session in the map on disk or, if it has none there,
pi's file of it. `ChatHome` says that whatever got a prompt is that session, that
map and files agree on it wherever both are read (`Migrating` empty once the
move is over, pi's store having what the map names), and that a session is made
only for a chat with no home. It holds of the chats that are not `excused`.

`SessionsTyped` needs that a session anyone has a number of was made: the map in
memory and on disk, pi's files and store, the turns and their aborts, and the
sessions prompted in a chat (`MadeInv`), through the migration too.

Left to TLC: the liveness properties `EveryRequestReturns`, `EveryTurnEnds` and
`EveryPromptEnds`, which need fairness and ENABLED and are beyond the prover.
Every invariant and action property of a passing run has a theorem. For two of the
four runs that end in a violation a theorem says when the property does hold
(`ServeFaults` for `lost_pod`, one chat for `blind_request`); `stale_answer` needs
only a late List, `lost_stop` only a client that leaves early.

## 5. Not modelled

Listed under "components" in `PROJECT.json`; the reasons:

- QoS: bands are numeric thresholds over counters that expire with time; its
  races (a hazard) change how soon a band moves, which nothing bounds.
- The ledger, usage and the read-only handlers of the admin console: a row is
  written by the one goroutine that serves the request, the rest is SQL.
- The gateway's authorisation, the private API, MCP and connections: each request reads
  the database and is answered; what they cache is a copy with a lifetime.
- The web proxy of the broker: it rewrites headers around the Acquire and
  Release that Slots has.
- The OIDC verifier, cred-gateway and web-search-mcp: cryptography, parsing and
  address arithmetic, which tests reach.
- `/skills`: its texts and its `Apply`; that two commands at once lose one
  change is a hazard without a document to hold it to.
- Of the web console: the connections and usage panels, which load once; of
  the adapter: the text of events.
- Charts, scripts, the exporter: no program logic.

Things seen while modelling that no property covers are hazards with a note in
`PROJECT.json`: a turn whose session could not be created is recorded, so the
next one silently begins without its messages, where `docs/adr/0021` asks that
a conversation is not silently replaced; completions do not record their messages;
a stop cut short by a client that leaves keeps an entry whose pod is going away,
and its next request is admitted to it (`slots.go:255`); a list whose load is
overtaken keeps rows of another page under its number (`UserDetail.jsx:95`);
two issues of an agent key at once leave both live, where
`docs/handbook/pat-service.md:94` says that issuing revokes the previous one
(`agents.go:175`), and `IssueReplaces` speaks only of the keys an issue found when
it began; a prompt of pi that is answered with no text resolves with what an earlier
message was told (`pi.mjs:49`); an overtaken load leaves the rows of an older
filter, or a revoked token as live, until the next one (`AdminApp.jsx:124`,
`main.jsx:223`); and an issue that fails behind its Secret, at the DELETE of
the pods or the commit, leaves a key there that no row has, where
`agents.go:183` says that the previous one stays in place: `AgentKeyWorks` and
`PodsCarryKey` hold until then (`spoilt`), and again once an issue succeeds.

## 6. Plan

What would come next, in this order:

1. The events of a turn, to state what the user is told when a session is new.
2. SkillsCommand over Slots: read, apply and save of /skills, with the report
   of the profile.
3. QoS, once a document bounds what its bands may do.
