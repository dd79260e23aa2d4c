----------------------------- MODULE AgentTurns -----------------------------
(* agent-adapter inside a user's pod: server.mjs, which queues the turns of *)
(* a chat, checks that a turn continues what the agent has received and     *)
(* holds the agent's permission requests until the user answers, over       *)
(* acp.mjs, which keeps one agent session per chat.  Node runs one callback *)
(* at a time, so an action is what the code does between two awaits on      *)
(* something outside the process: a request, its close, a line of the       *)
(* agent, a timer, a restart.                                               *)
EXTENDS Naturals, Sequences, SequencesExt

CONSTANTS Turns,        (* requests, each a message of a chat               *)
          Interactive,  (* those to /v1/agent/turns; the others are chat    *)
                        (* completions                                      *)
          Chats, ChatOf,(* chatKey / sessionKey of a request                *)
          Prompts,      (* user messages, told apart by promptHash          *)
          Bodies,       (* what `users` of a request may be                 *)
          Methods,      (* how many reattach methods the agent is tried with*)
          MaxAsks,      (* bound: permission requests of a turn             *)
          MaxRestarts,  (* bound: restarts of the pod's container           *)
          None

ASSUME TurnsAssumption == /\ Interactive \subseteq Turns
                          /\ ChatOf \in [Turns -> Chats]
                          /\ Bodies \subseteq Seq(Prompts) \ {<<>>}
                          /\ Methods \in {1, 2}
                          /\ MaxAsks \in Nat
                          /\ MaxRestarts \in Nat
                          /\ None \notin Turns

VARIABLES pc,         (* how far the handler of each request is             *)
          users,      (* the user messages in its body                      *)
          closed,     (* abort.signal.aborted: its client closed the        *)
                      (* response before it was finished                    *)
          prev,       (* the request whose tail serialize() chained it to   *)
          tail,       (* queues: the last request of a chat                 *)
          history,    (* history: hashes of the prompts a chat recorded     *)
          saved,      (* historyPath on disk                                *)
          map,        (* acp.mjs map: chats with a session id               *)
          savedMap,   (* mapPath on disk                                    *)
          open,       (* open: chats whose session this process attached    *)
          tries,      (* reattach methods tried                             *)
          asks,       (* asks: permission requests awaiting the user        *)
          dec,        (* the answer each permission request got             *)
          reply,      (* what the pipe posted for it                        *)
          posts,      (* replies on their way                               *)
          acked,      (* replies answered 200                               *)
          announced,  (* the agent has announced the tool call it will ask  *)
                      (* about                                              *)
          calls,      (* calls: turns whose announced call is remembered    *)
          blind,      (* requests shown without the call's title and input  *)
          cancelled,  (* turns whose running prompt was sent session/cancel *)
          sent,       (* history: the turns prompted in each chat           *)
          ahead,      (* history: the requests of its chat found in line    *)
          restarts

queueVars == <<pc, prev, tail, ahead>>
historyVars == <<history, saved, sent>>
sessionVars == <<map, savedMap, open, tries>>
askVars == <<asks, dec, reply, posts, acked>>
callVars == <<announced, calls, blind>>
vars == <<queueVars, users, closed, historyVars, sessionVars, askVars, callVars,
          cancelled, restarts>>

(* A permission request is named by its turn and its number in the turn.    *)
Asks == Turns \X (1..MaxAsks)
TurnOf(a) == a[1]

(* The handler awaits its place in the queue, an answer to session/resume   *)
(* or session/load, to session/new, or to session/prompt; or it has ended.  *)
Running == {"reattach", "create", "prompt"}
Live(t) == pc[t] \in {"queued"} \cup Running

TypeOK == /\ pc \in [Turns -> {"new", "queued", "done"} \cup Running]
          /\ users \in [Turns -> Bodies \cup {<<>>}]
          /\ closed \in SUBSET Turns
          /\ prev \in [Turns -> Turns \cup {None}]
          /\ tail \in [Chats -> Turns \cup {None}]
          /\ ahead \in [Turns -> SUBSET Turns]
          /\ history \in [Chats -> Seq(Prompts)] /\ saved \in [Chats -> Seq(Prompts)]
          /\ sent \in [Chats -> Seq(Interactive)]
          /\ map \in SUBSET Chats /\ savedMap \in SUBSET map /\ open \in SUBSET map
          /\ tries \in [Turns -> 0..Methods]
          /\ asks \in SUBSET Asks
          /\ dec \in [Asks -> {"none", "asking", "allow", "deny", "cancel", "lost"}]
          /\ reply \in [Asks -> {"none", "yes", "no"}]
          /\ posts \in SUBSET Asks /\ acked \in SUBSET Asks
          /\ announced \in SUBSET Turns /\ calls \in SUBSET Turns
          /\ blind \in SUBSET Asks
          /\ cancelled \in SUBSET Turns
          /\ restarts \in 0..MaxRestarts

Init == /\ pc = [t \in Turns |-> "new"]
        /\ users = [t \in Turns |-> <<>>]
        /\ closed = {}
        /\ prev = [t \in Turns |-> None]
        /\ tail = [c \in Chats |-> None]
        /\ ahead = [t \in Turns |-> {}]
        /\ history = [c \in Chats |-> <<>>] /\ saved = [c \in Chats |-> <<>>]
        /\ sent = [c \in Chats |-> <<>>]
        /\ map = {} /\ savedMap = {} /\ open = {}
        /\ tries = [t \in Turns |-> 0]
        /\ asks = {}
        /\ dec = [a \in Asks |-> "none"]
        /\ reply = [a \in Asks |-> "none"]
        /\ posts = {} /\ acked = {}
        /\ announced = {} /\ calls = {} /\ blind = {}
        /\ cancelled = {}
        /\ restarts = 0
----------------------------------------------------------------------------
(* The queue of a chat.                                                     *)

(* The request t is chained to has not settled.                             *)
(* Mutants: only one that is running counts; one whose client left never    *)
(* settles.                                                                 *)
Bug_Chained(t) == prev[t] # None /\ pc[prev[t]] \in Running
Bug_Settled(t) == prev[t] # None /\ (Live(prev[t]) \/ prev[t] \in closed)
Chained(t) == prev[t] # None /\ Live(prev[t])

(* serialize: behind the chat's last request, if that has not ended.        *)
Arrive(t) == LET c == ChatOf[t] IN
             /\ pc[t] = "new"
             /\ pc' = [pc EXCEPT ![t] = "queued"]
             /\ \E b \in IF t \in Interactive THEN Bodies ELSE {<<>>} :
                    users' = [users EXCEPT ![t] = b]
             /\ prev' = [prev EXCEPT ![t] = tail[c]]
             /\ tail' = [tail EXCEPT ![c] = t]
             /\ ahead' = [ahead EXCEPT ![t] = {u \in Turns : ChatOf[u] = c /\ Live(u)}]
             /\ UNCHANGED <<closed, historyVars, sessionVars, askVars, callVars,
                            cancelled, restarts>>

(* The tail's finally: the chat's queue is forgotten with its last request. *)
(* Mutant: with any request.                                                *)
Bug_Forgotten(t) == [tail EXCEPT ![ChatOf[t]] = None]
Forgotten(t) == [tail EXCEPT ![ChatOf[t]] = IF @ = t THEN None ELSE @]

(* A request leaves its place in the queue: nothing is ahead of it now.     *)
Leaves(t, step) == /\ pc' = [pc EXCEPT ![t] = step]
                   /\ prev' = [prev EXCEPT ![t] = None]
                   /\ ahead' = [ahead EXCEPT ![t] = {}]

Goes(t, step) == Leaves(t, step) /\ UNCHANGED tail

(* The handler has ended its response, with done, an error, or nothing if   *)
(* the client has closed it.                                                *)
Ends(t) == Leaves(t, "done") /\ tail' = Forgotten(t)
----------------------------------------------------------------------------
(* prompt() in acp.mjs.                                                     *)

(* session/prompt is sent; an abort listener that is added now hears of no  *)
(* earlier abort.                                                           *)
Prompted(t) == IF t \in Interactive THEN [sent EXCEPT ![ChatOf[t]] = Append(@, t)] ELSE sent

(* sessionID: at once if the session is open, else reattached or created.   *)
Opens(t) == LET c == ChatOf[t] IN
            \/ /\ c \in open
               /\ Goes(t, "prompt")
               /\ sent' = Prompted(t)
               /\ UNCHANGED sessionVars
            \/ /\ c \in map \ open
               /\ Goes(t, "reattach")
               /\ tries' = [tries EXCEPT ![t] = 1]
               /\ UNCHANGED <<sent, map, savedMap, open>>
            \/ /\ c \notin map
               /\ Goes(t, "create")
               /\ UNCHANGED <<sent, sessionVars>>

Reattached(t) == /\ pc[t] = "reattach"
                 /\ open' = open \cup {ChatOf[t]}
                 /\ sent' = Prompted(t)
                 /\ Goes(t, "prompt")
                 /\ tries' = [tries EXCEPT ![t] = 0]
                 /\ UNCHANGED <<users, closed, history, saved, map, savedMap,
                                askVars, callVars, cancelled, restarts>>

(* Mutant: one more than there are.                                         *)
Bug_MethodsLeft(t) == tries[t] <= Methods
MethodsLeft(t) == tries[t] < Methods

(* The agent does not take the session: the next method, then a new one.    *)
ReattachFails(t) == /\ pc[t] = "reattach"
                    /\ \/ /\ MethodsLeft(t)
                          /\ tries' = [tries EXCEPT ![t] = @ + 1]
                          /\ UNCHANGED queueVars
                       \/ /\ ~MethodsLeft(t)
                          /\ tries' = [tries EXCEPT ![t] = 0]
                          /\ Goes(t, "create")
                    /\ UNCHANGED <<users, closed, historyVars, map, savedMap, open,
                                   askVars, callVars, cancelled, restarts>>

(* save() writes the whole map.                                             *)
Created(t) == /\ pc[t] = "create"
              /\ map' = map \cup {ChatOf[t]}
              /\ savedMap' = map'
              /\ open' = open \cup {ChatOf[t]}
              /\ sent' = Prompted(t)
              /\ Goes(t, "prompt")
              /\ UNCHANGED <<users, closed, history, saved, tries, askVars, callVars,
                             cancelled, restarts>>

(* session/new is refused, or save() throws with the map already set.       *)
CreateFails(t) == /\ pc[t] = "create"
                  /\ map' \in {map, map \cup {ChatOf[t]}}
                  /\ Ends(t)
                  /\ UNCHANGED <<users, closed, historyVars, savedMap, open, tries,
                                 askVars, callVars, cancelled, restarts>>
----------------------------------------------------------------------------
(* turn() and the chat completions handler, once the queue has come to them.*)

Message(t) == Last(users[t])
Earlier(t) == Front(users[t])

(* continues: received, in order, among the earlier messages.  Its loop,    *)
(* after each k messages: how many received ones it has met.                *)
Matched(received, earlier) ==
    LET met[k \in 0..Len(earlier)] ==
            IF k = 0 THEN 0
            ELSE IF met[k - 1] < Len(received) /\ received[met[k - 1] + 1] = earlier[k]
                 THEN met[k - 1] + 1 ELSE met[k - 1]
    IN  met
(* Mutant: the lengths are compared in place of the messages.               *)
Bug_Continues(received, earlier) == Len(received) <= Len(earlier)
Continues(received, earlier) == Matched(received, earlier)[Len(earlier)] = Len(received)

Recorded(t) == [history EXCEPT ![ChatOf[t]] = Append(@, Message(t))]

MayStart(t) == pc[t] = "queued" /\ ~Chained(t)

StartsTurn(t) == /\ MayStart(t)
                 /\ t \in Interactive \ closed
                 /\ Continues(history[ChatOf[t]], Earlier(t))
                 /\ history' = Recorded(t)
                 /\ saved' = history'
                 /\ Opens(t)
                 /\ UNCHANGED <<users, closed, askVars, callVars, cancelled, restarts>>

(* saveHistory throws: the prompt stays recorded in memory only.            *)
SaveFails(t) == /\ MayStart(t)
                /\ t \in Interactive \ closed
                /\ Continues(history[ChatOf[t]], Earlier(t))
                /\ history' = Recorded(t)
                /\ Ends(t)
                /\ UNCHANGED <<users, closed, saved, sent, sessionVars, askVars,
                               callVars, cancelled, restarts>>

(* An edit, a regeneration or a branch, or a client that left in the queue. *)
TurnedAway(t) == /\ MayStart(t)
                 /\ t \in Interactive
                 /\ t \in closed \/ ~Continues(history[ChatOf[t]], Earlier(t))
                 /\ Ends(t)
                 /\ UNCHANGED <<users, closed, historyVars, sessionVars, askVars,
                                callVars, cancelled, restarts>>

StartsCompletion(t) == /\ MayStart(t)
                       /\ t \notin Interactive
                       /\ Opens(t)
                       /\ UNCHANGED <<users, closed, history, saved, askVars, callVars,
                                      cancelled, restarts>>

Starts(t) == StartsTurn(t) \/ SaveFails(t) \/ TurnedAway(t) \/ StartsCompletion(t)
----------------------------------------------------------------------------
(* The agent at work on a prompt.                                           *)

Unasked(t) == {a \in Asks : TurnOf(a) = t /\ dec[a] = "none"}

(* session/update with a tool_call: remembered for the request to come.     *)
AgentCalls(t) == /\ pc[t] = "prompt"
                 /\ t \notin announced
                 /\ Unasked(t) # {}
                 /\ announced' = announced \cup {t}
                 /\ calls' = calls \cup {t}
                 /\ UNCHANGED <<queueVars, users, closed, historyVars, sessionVars,
                                askVars, blind, cancelled, restarts>>

(* onPermission: what happens to request a of turn t.  A turn whose client  *)
(* has left is answered at once, others wait for the user.                  *)
(* Mutant: the client is not looked at.                                     *)
Bug_FirstAnswer(t) == IF t \in Interactive THEN "asking" ELSE "allow"
FirstAnswer(t) == IF t \notin Interactive THEN "allow"
                  ELSE IF t \in closed THEN "cancel" ELSE "asking"

(* session/request_permission with the bare id of the announced call.       *)
AgentAsks(t) ==
    /\ pc[t] = "prompt"
    /\ t \in announced
    /\ announced' = announced \ {t}
    /\ \E a \in Unasked(t) :
          /\ \A b \in Unasked(t) : a[2] <= b[2]
          /\ dec' = [dec EXCEPT ![a] = FirstAnswer(t)]
          /\ asks' = IF FirstAnswer(t) = "asking" THEN asks \cup {a} ELSE asks
          /\ blind' = IF t \in Interactive /\ t \notin calls THEN blind \cup {a} ELSE blind
    /\ UNCHANGED <<queueVars, users, closed, historyVars, sessionVars, reply, posts,
                   acked, calls, cancelled, restarts>>

(* The answer to session/prompt, which the agent gives when its requests    *)
(* are answered; its finally clears every turn's calls.                     *)
AgentEnds(t) == /\ pc[t] = "prompt"
                /\ \A a \in Asks : TurnOf(a) = t => dec[a] # "asking"
                /\ Ends(t)
                /\ calls' = {}
                /\ announced' = announced \ {t}
                /\ cancelled' = cancelled \ {t}
                /\ UNCHANGED <<users, closed, historyVars, sessionVars, askVars, blind,
                               restarts>>
----------------------------------------------------------------------------
(* The client, the user and the clock.                                      *)

(* done(decision): the requests in `who` are answered and forgotten.        *)
(* Mutant: answered, but still found by a later reply.                      *)
Bug_Decides(who, decision) ==
    /\ dec' = [a \in Asks |-> IF a \in who /\ dec[a] = "asking" THEN decision ELSE dec[a]]
    /\ UNCHANGED asks
Decides(who, decision) ==
    /\ dec' = [a \in Asks |-> IF a \in who THEN decision ELSE dec[a]]
    /\ asks' = asks \ who

(* The client closes the response: the turn's pending requests are          *)
(* cancelled and the agent is told, if its prompt has been sent.            *)
Close(t) == /\ Live(t)
            /\ t \notin closed
            /\ closed' = closed \cup {t}
            /\ Decides({a \in asks : TurnOf(a) = t}, "cancel")
            /\ cancelled' = IF pc[t] = "prompt" THEN cancelled \cup {t} ELSE cancelled
            /\ UNCHANGED <<queueVars, users, historyVars, sessionVars, reply, posts,
                           acked, callVars, restarts>>

(* The pipe shows the request and posts what the user says, or no if the    *)
(* user says nothing.  It waits for the user and reads no events meanwhile, *)
(* so the turn may have ended; it does not post once its client has left.   *)
Replies(a) == /\ TurnOf(a) \in Interactive \ closed
              /\ dec[a] # "none"
              /\ reply[a] = "none"
              /\ \E answer \in {"yes", "no"} : reply' = [reply EXCEPT ![a] = answer]
              /\ posts' = posts \cup {a}
              /\ UNCHANGED <<queueVars, users, closed, historyVars, sessionVars, asks,
                             dec, acked, callVars, cancelled, restarts>>

(* POST /v1/agent/permissions: 200 if the request is pending, else 404.     *)
(* Mutant: the request is looked up by its number alone.                    *)
Bug_Pending(a) == {b \in asks : b[2] = a[2]}
Pending(a) == asks \cap {a}

ReplyArrives(a) == /\ a \in posts
                   /\ posts' = posts \ {a}
                   /\ Decides(Pending(a), IF reply[a] = "yes" THEN "allow" ELSE "deny")
                   /\ acked' = IF Pending(a) # {} THEN acked \cup {a} ELSE acked
                   /\ UNCHANGED <<queueVars, users, closed, historyVars, sessionVars,
                                  reply, callVars, cancelled, restarts>>

(* permissionTimeout.                                                       *)
(* Mutant: the request is forgotten but its promise never resolved.         *)
Bug_TimesOut(a) == /\ a \in asks
                   /\ asks' = asks \ {a}
                   /\ UNCHANGED <<queueVars, users, closed, historyVars, sessionVars, dec,
                                  reply, posts, acked, callVars, cancelled, restarts>>
TimesOut(a) == /\ a \in asks
               /\ Decides({a}, "deny")
               /\ UNCHANGED <<queueVars, users, closed, historyVars, sessionVars, reply,
                              posts, acked, callVars, cancelled, restarts>>

(* The agent exits and takes the adapter with it, or the pod is replaced:   *)
(* the next process has what is on disk.                                    *)
Restart == /\ restarts < MaxRestarts
           /\ restarts' = restarts + 1
           /\ pc' = [t \in Turns |-> IF Live(t) THEN "done" ELSE pc[t]]
           /\ prev' = [t \in Turns |-> None]
           /\ ahead' = [t \in Turns |-> {}]
           /\ tail' = [c \in Chats |-> None]
           /\ tries' = [t \in Turns |-> 0]
           /\ cancelled' = {}
           /\ history' = saved
           /\ map' = savedMap
           /\ open' = {}
           /\ asks' = {}
           /\ dec' = [a \in Asks |-> IF dec[a] = "asking" THEN "lost" ELSE dec[a]]
           /\ announced' = {} /\ calls' = {}
           /\ UNCHANGED <<users, closed, saved, sent, savedMap, reply, posts, acked,
                          blind>>
----------------------------------------------------------------------------
AgentAnswers(t) == \/ Reattached(t) \/ ReattachFails(t)
                   \/ Created(t) \/ CreateFails(t)
                   \/ AgentEnds(t)

Next == \/ \E t \in Turns : \/ Arrive(t) \/ Starts(t) \/ AgentAnswers(t)
                            \/ AgentCalls(t) \/ AgentAsks(t) \/ Close(t)
        \/ \E a \in Asks : Replies(a) \/ ReplyArrives(a) \/ TimesOut(a)
        \/ Restart

Spec == Init /\ [][Next]_vars

(* Callbacks run, timers fire, and the agent answers what it is asked, a    *)
(* prompt once its own requests are answered.  Users may say nothing.       *)
Fairness == /\ \A t \in Turns : WF_vars(Starts(t)) /\ WF_vars(AgentAnswers(t))
            /\ \A a \in Asks : WF_vars(TimesOut(a))

FairSpec == Spec /\ Fairness
----------------------------------------------------------------------------
(* One turn of a chat at a time ("a second message waits for the first",    *)
(* server.mjs): no two requests of a chat are in the backend together.      *)
OneTurnPerChat == \A t, u \in Turns : /\ ChatOf[t] = ChatOf[u]
                                      /\ pc[t] \in Running /\ pc[u] \in Running
                                      => t = u

(* The promises a chat's requests wait for form no circle, and none of them *)
(* stays unsettled behind a request that has ended: while a chat has        *)
(* requests, one of them waits for no other.                                *)
LineMoves == \A t \in Turns : Live(t) => \E u \in Turns : /\ ChatOf[u] = ChatOf[t]
                                                         /\ Live(u) /\ ~Chained(u)

(* And in the order they came: the queue implements TurnQueue.              *)
Stage(t) == IF pc[t] = "new" THEN "away"
            ELSE IF pc[t] = "queued" THEN "waiting"
            ELSE IF pc[t] \in Running THEN "running" ELSE "over"
Queue == INSTANCE TurnQueue WITH stage <- [t \in Turns |-> Stage(t)]
QueuePromise == Queue!QueueSpec

(* short runs through long in order: continues() by its meaning.            *)
Within(short, long) == \E f \in [DOMAIN short -> DOMAIN long] :
                           /\ \A i, j \in DOMAIN short : i < j => f[i] < f[j]
                           /\ \A i \in DOMAIN short : short[i] = long[f[i]]

(* No prompt reaches the agent unless its chat's earlier messages contain   *)
(* every prompt of a turn that reached it before, whatever was edited,      *)
(* regenerated, cut off by a restart or not saved in between; so no message *)
(* is acted on twice.                                                       *)
NeverReplays == \A c \in Chats : \A j \in DOMAIN sent[c] :
                    Within([i \in 1..(j - 1) |-> Message(sent[c][i])], Earlier(sent[c][j]))

(* The agent may do what it asked for only if that turn's user said yes to  *)
(* that request, whatever replies are late or meant for another turn.       *)
OnlyApproved == \A a \in Asks : TurnOf(a) \in Interactive /\ dec[a] = "allow" => reply[a] = "yes"

(* A reply that got its 200 is the answer the agent got: none comes after   *)
(* the timeout or the close has answered.                                   *)
AckedDecides == \A a \in acked : dec[a] = IF reply[a] = "yes" THEN "allow" ELSE "deny"

(* Nothing waits for a user who has left or for a turn that has ended.      *)
AskedWhileOpen == \A a \in asks : pc[TurnOf(a)] = "prompt" /\ TurnOf(a) \notin closed

(* Every request ends, whatever the user does not answer, the agent refuses *)
(* or a restart cuts off.                                                   *)
EveryTurnEnds == \A t \in Turns : pc[t] = "queued" ~> pc[t] = "done"

(* server.mjs: "Closing the response cancels the turn".  A prompt that runs *)
(* for a turn whose client has left has been cancelled.                     *)
CloseCancelsTurn == \A t \in Interactive \cap closed : pc[t] = "prompt" => t \in cancelled

(* acp.mjs: for a bare toolCallId "the earlier tool_call update carries the *)
(* title and input".  No request is shown without them.                     *)
RequestsNameTheirCall == blind = {}
=============================================================================
