--------------------------- MODULE AgentSessions ---------------------------
(* The backends of agent-adapter: opencode.mjs, pi.mjs and dsh.mjs, and     *)
(* acp.mjs for the same agents when the broker has migrated them to ACP.    *)
(* A backend keeps one agent session per chat across restarts, replaced     *)
(* pods and changes of protocol, and turns what the agent says into the     *)
(* answer to one request.  The chats' queues are those AgentTurns is shown  *)
(* to implement; the agent is another process, and its events reach the     *)
(* adapter in the order it sent them.                                       *)
EXTENDS Naturals, Sequences, FiniteSets, TurnQueue

CONSTANTS Runtimes,   (* what AGENT_RUNTIME may be: opencode, pi, dsh       *)
          Troubles,   (* which of AllTroubles happen                        *)
          Streamed,   (* messages whose client asks for a stream            *)
          MaxTexts,   (* bound: messages of the agent in answer to one      *)
          MaxRestarts (* bound: exits of the adapter and replaced pods      *)

(*   session_refused  the agent does not take a session it has              *)
(*   save_fails       the chat map cannot be written                        *)
(*   torn_store       the adapter dies while it writes session-map.json     *)
(*   overtaken        an abort is overtaken by the chat's next prompt       *)
AllTroubles == {"session_refused", "save_fails", "torn_store", "overtaken"}

ASSUME SessionsAssumption == /\ ChatOf \in [Turns -> Chats]
                             /\ Runtimes \subseteq {"opencode", "pi", "dsh"}
                             /\ Troubles \subseteq AllTroubles
                             /\ Streamed \subseteq Turns
                             /\ MaxTexts \in Nat /\ MaxRestarts \in Nat

VARIABLES runtime,  (* the agent this pod runs                              *)
          protocol, (* "acp" or "native"                                    *)
          up,       (* how far main() is                                    *)
          answered, (* the parts start() waits for that have answered       *)
          map,      (* chat map: the session of each chat, 0 if none        *)
          savedMap, (* mapPath on disk                                      *)
          files,    (* pi: the session file in pi-sessions/<chat>, or 0     *)
          store,    (* pi-acp's session-map.json                            *)
          open,     (* chats whose session this process has open            *)
          step,     (* where prompt() is for each turn                      *)
          sid,      (* the session of each turn                             *)
          job,      (* what the agent does with its prompt                  *)
          events,   (* events of the agent on their way                     *)
          idled,    (* turns whose done() was called before their POST's    *)
                    (* reply came                                           *)
          failed,   (* turns whose listener got session.error               *)
          closed,   (* turns whose client has left                          *)
          aborts,   (* aborts on their way to the agent: who left, and the   *)
                    (* session to stop                                       *)
          outcome,  (* how each turn ended                                  *)
          answer,   (* what its client was told by then, if that was well   *)
          said,     (* texts the agent has sent for each prompt: the deltas *)
                    (* of a message are one, a message after a tool call    *)
                    (* is another                                           *)
          got,      (* texts each turn's listener took                      *)
          cut,      (* history: prompts the agent stopped when told to      *)
          made,     (* history: sessions made for each chat                 *)
          prompted, (* history: sessions that got prompts of each chat      *)
          excused,  (* history: chats whose session was lost to a trouble   *)
                    (* or left behind with its protocol                     *)
          restarts

podStateVars == <<runtime, protocol, up, answered, restarts>>
diskVars == <<savedMap, files, store>>
mapVars == <<map, diskVars, open, made, excused>>
promptVars == <<step, sid, idled, failed, outcome, answer>>
agentVars == <<job, events, said, cut, prompted>>
clientVars == <<closed, aborts>>
sessionsVars == <<queueVars, podStateVars, mapVars, promptVars, agentVars, clientVars, got>>

(* Sessions are numbered in the order they are made for a chat; 0 is none.  *)
Sids == Nat

(* The nth text of the agent for a prompt.                                  *)
Texts == Turns \X Nat

SessionsTypeOK ==
    /\ stage \in [Turns -> {"away", "waiting", "running", "over"}]
    /\ ahead \in [Turns -> SUBSET Turns]
    /\ runtime \in Runtimes /\ protocol \in {"acp", "native"}
    /\ up \in {"down", "migrating", "migrated", "starting", "ready"}
    /\ answered \in SUBSET {"agent", "web"}
    /\ map \in [Chats -> Sids] /\ savedMap \in [Chats -> Sids] /\ files \in [Chats -> Sids]
    /\ store \in SUBSET (Chats \X Sids)
    /\ open \in SUBSET Chats /\ excused \in SUBSET Chats
    /\ step \in [Turns -> {"none", "open", "create", "send", "await"}]
    /\ sid \in [Turns -> Sids] /\ made \in [Chats -> Sids]
    /\ job \in [Turns -> {"none", "working", "over"}]
    /\ events \in Seq([turn : Turns, kind : {"delta", "error", "idle"}, nth : Nat])
    /\ idled \in SUBSET Turns /\ failed \in SUBSET Turns /\ cut \in SUBSET Turns
    /\ closed \in SUBSET Turns /\ aborts \in SUBSET (Turns \X Sids)
    /\ outcome \in [Turns -> {"none", "ok", "error", "lost"}]
    /\ answer \in [Turns -> Seq(Texts)]
    /\ said \in [Turns -> 0..MaxTexts] /\ got \in [Turns -> Seq(Texts)]
    /\ prompted \in [Chats -> SUBSET Sids]
    /\ \A t \in Turns : step[t] \in {"send", "await"} => sid[t] \in 1..made[ChatOf[t]]
    /\ restarts \in 0..MaxRestarts

NoSession == [c \in Chats |-> 0]

SessionsInit ==
    /\ QueueInit
    /\ runtime \in Runtimes
    /\ protocol \in IF runtime = "dsh" THEN {"acp"} ELSE {"acp", "native"}
    /\ up = "down" /\ answered = {} /\ restarts = 0
    /\ map = NoSession /\ savedMap = NoSession /\ files = NoSession /\ store = {}
    /\ open = {} /\ made = NoSession /\ excused = {}
    /\ step = [t \in Turns |-> "none"] /\ sid = [t \in Turns |-> 0]
    /\ idled = {} /\ failed = {} /\ outcome = [t \in Turns |-> "none"]
    /\ answer = [t \in Turns |-> <<>>]
    /\ job = [t \in Turns |-> "none"] /\ events = <<>> /\ cut = {}
    /\ said = [t \in Turns |-> 0] /\ got = [t \in Turns |-> <<>>]
    /\ prompted = [c \in Chats |-> {}]
    /\ closed = {} /\ aborts = {}

Is(r, p) == runtime = r /\ protocol = p
Http == Is("opencode", "native")  (* requests on connections of their own   *)
----------------------------------------------------------------------------
(* main() and the start() of each backend.                                  *)

Boots == /\ up = "down"
         /\ up' = IF Is("pi", "acp") THEN "migrating" ELSE "starting"
         /\ answered' = {}
         /\ UNCHANGED <<queueVars, runtime, protocol, restarts, mapVars, promptVars,
                        agentVars, clientVars, got>>

(* migratePiSessions: chats of the native path that are not in the map.     *)
Migrating == {c \in Chats : savedMap[c] = 0 /\ files[c] # 0}
IntoStore == /\ store' = store \cup {<<c, files[c]>> : c \in Migrating}
             /\ UNCHANGED savedMap
IntoMap == /\ savedMap' = [c \in Chats |-> IF c \in Migrating THEN files[c] ELSE savedMap[c]]
           /\ UNCHANGED store

(* Mutant: the chat map is written first.                                   *)
Bug_Migrates == \/ up = "migrating" /\ up' = "migrated" /\ IntoMap
                \/ up = "migrated" /\ up' = "starting" /\ IntoStore
Migrates == \/ up = "migrating" /\ up' = "migrated" /\ IntoStore
            \/ up = "migrated" /\ up' = "starting" /\ IntoMap

Migration == /\ Migrates
             /\ UNCHANGED <<queueVars, runtime, protocol, answered, restarts, map, files,
                            open, made, excused, promptVars, agentVars, clientVars, got>>

(* The agent answers initialize or /config; dsh web prints its token.       *)
StartAnswers == /\ up = "starting"
                /\ \E part \in IF runtime = "dsh" THEN {"agent", "web"} ELSE {"agent"} :
                       answered' = answered \cup {part}
                /\ UNCHANGED <<queueVars, runtime, protocol, up, restarts, mapVars, promptVars,
                               agentVars, clientVars, got>>

(* start() resolves when it has what it waits for, with the map on disk.    *)
Started == "agent" \in answered /\ (runtime = "dsh" => "web" \in answered)

Ready == /\ up = "starting"
         /\ Started
         /\ up' = "ready"
         /\ map' = savedMap
         /\ UNCHANGED <<queueVars, runtime, protocol, answered, restarts, diskVars, open,
                        made, excused, promptVars, agentVars, clientVars, got>>

(* The process ends: the agent exited, start() failed, SIGTERM, or the pod  *)
(* is gone.  What is in memory and on its way is lost with it.              *)
Exits == /\ restarts < MaxRestarts
         /\ restarts' = restarts + 1
         /\ Disperse
         /\ up' = "down"
         /\ answered' = {} /\ open' = {} /\ map' = NoSession
         /\ step' = [t \in Turns |-> "none"]
         /\ outcome' = [t \in Turns |-> IF InLine(t) THEN "lost" ELSE outcome[t]]
         /\ job' = [t \in Turns |-> IF job[t] = "working" THEN "over" ELSE job[t]]
         /\ events' = <<>> /\ idled' = {} /\ failed' = {} /\ aborts' = {}
         /\ got' = [t \in Turns |-> <<>>]
         /\ UNCHANGED <<runtime, savedMap, files, made, sid, answer, said, cut, prompted,
                        closed>>

Exit == /\ up # "down"
        /\ Exits
        /\ UNCHANGED <<protocol, store, excused>>

(* While session-map.json is written: nothing can be read from it.          *)
TornStore == /\ "torn_store" \in Troubles
             /\ up = "migrating" /\ Migrating # {}
             /\ Exits
             /\ store' = {}
             /\ excused' = excused \cup {c \in Chats : savedMap[c] # 0}
             /\ UNCHANGED protocol

(* The pod is replaced, by one that may speak the other protocol: opencode  *)
(* keeps its sessions; chats pi began over ACP have no native session.      *)
Replaced == /\ Exits
            /\ protocol' \in IF runtime = "dsh" THEN {"acp"} ELSE {"acp", "native"}
            /\ excused' = IF runtime = "pi" /\ protocol' = "native"
                          THEN excused \cup {c \in Chats : savedMap[c] \notin {0, files[c]}}
                          ELSE excused
            /\ UNCHANGED store
----------------------------------------------------------------------------
(* prompt(): the session of a chat.                                         *)

(* A request in the adapter; while the backend starts it gets 503.          *)
Arrives(t) == /\ up = "ready"
              /\ Join(t)
              /\ UNCHANGED <<podStateVars, mapVars, promptVars, agentVars, clientVars, got>>

(* What prompt() resolves with: the text that was heard, or natively in pi  *)
(* the session's last, which may be of an earlier prompt if this one had    *)
(* none.                                                                    *)
LastSpoken(t) == IF said[t] > 0 THEN {t}
                 ELSE {u \in Turns : /\ ChatOf[u] = ChatOf[t] /\ sid[u] = sid[t]
                                     /\ said[u] > 0}
Finals(t) == IF ~Is("pi", "native") THEN {got[t]}
             ELSE IF LastSpoken(t) = {} THEN {<<>>}
             ELSE {<< <<u, said[u]>> >> : u \in LastSpoken(t)}

(* A stream has sent the texts already, if there were any.                  *)
Told(t, final) == IF t \in Streamed /\ got[t] # <<>> THEN got[t] ELSE final

Fails(t) == /\ Leave(t)
            /\ step' = [step EXCEPT ![t] = "none"]
            /\ outcome' = [outcome EXCEPT ![t] = "error"]
            /\ UNCHANGED answer

(* prompt() settles: by then the session has an error, or not.              *)
Ends(t) == \/ t \in failed /\ Fails(t)
           \/ /\ t \notin failed
              /\ Leave(t)
              /\ step' = [step EXCEPT ![t] = "none"]
              /\ outcome' = [outcome EXCEPT ![t] = "ok"]
              /\ \E final \in Finals(t) : answer' = [answer EXCEPT ![t] = Told(t, final)]

(* The prompt is on its way to session n; its listener is set.              *)
Sends(t, n) == /\ step' = [step EXCEPT ![t] = IF Http THEN "send" ELSE "await"]
               /\ sid' = [sid EXCEPT ![t] = n]
               /\ UNCHANGED <<outcome, answer>>

(* Mutant: pi natively, too, looks in the chat map.                         *)
Bug_Session(c) == map[c]
Session(c) == IF Is("pi", "native") THEN files[c] ELSE map[c]

Begins(t) == /\ Begin(t)
             /\ LET c == ChatOf[t]
                IN  \/ c \in open /\ Sends(t, Session(c))
                    \/ /\ c \notin open
                       /\ step' = [step EXCEPT ![t] = IF map[c] # 0 \/ Is("pi", "native")
                                                      THEN "open" ELSE "create"]
                       /\ UNCHANGED <<sid, outcome, answer>>
             /\ UNCHANGED <<podStateVars, mapVars, idled, failed, agentVars, clientVars, got>>

(* opencode's database has every session it made, pi-acp those in its map.  *)
AgentHas(c) == Is("pi", "acp") => <<c, map[c]>> \in store

(* GET /session, session/resume or load succeeds, or pi continues the       *)
(* chat's newest file, or begins one.                                       *)
Opened(t) ==
    LET c == ChatOf[t]
        n == IF Session(c) = 0 THEN made[c] + 1 ELSE Session(c)
    IN  /\ step[t] = "open"
        /\ AgentHas(c)
        /\ Sends(t, n)
        /\ open' = IF Http THEN open ELSE open \cup {c}
        /\ made' = [made EXCEPT ![c] = IF n > @ THEN n ELSE @]
        /\ files' = IF Is("pi", "native") THEN [files EXCEPT ![c] = n] ELSE files
        /\ UNCHANGED <<queueVars, podStateVars, map, savedMap, store, excused, idled, failed,
                       agentVars, clientVars, got>>

(* It fails, for whatever reason: a new session.                            *)
NotOpened(t) == /\ step[t] = "open"
                /\ ~Is("pi", "native")
                /\ AgentHas(ChatOf[t]) => "session_refused" \in Troubles
                /\ excused' = IF AgentHas(ChatOf[t]) THEN excused \cup {ChatOf[t]} ELSE excused
                /\ step' = [step EXCEPT ![t] = "create"]
                /\ UNCHANGED <<queueVars, podStateVars, map, diskVars, open, made, sid, idled,
                               failed, outcome, answer, agentVars, clientVars, got>>

(* POST /session or session/new, then save().                               *)
Created(t) ==
    LET c == ChatOf[t] IN
    /\ step[t] = "create"
    /\ made' = [made EXCEPT ![c] = @ + 1]
    /\ map' = [map EXCEPT ![c] = made'[c]]
    /\ store' = IF Is("pi", "acp") THEN store \cup {<<c, made'[c]>>} ELSE store
    /\ \/ /\ savedMap' = map'
          /\ open' = IF Http THEN open ELSE open \cup {c}
          /\ Sends(t, made'[c])
          /\ UNCHANGED <<excused, queueVars>>
       \/ /\ "save_fails" \in Troubles
          /\ excused' = excused \cup {c}
          /\ Fails(t)
          /\ UNCHANGED <<savedMap, open, sid>>
    /\ UNCHANGED <<podStateVars, files, idled, failed, agentVars, clientVars, got>>

(* The agent refuses a new session, pi cannot open one, or the prompt is    *)
(* answered with an error.                                                  *)
Refused(t) == /\ \/ step[t] = "create"
                 \/ step[t] = "open" /\ Is("pi", "native")
                 \/ step[t] \in {"send", "await"} /\ job[t] = "none"
              /\ Fails(t)
              /\ UNCHANGED <<podStateVars, mapVars, sid, idled, failed, agentVars, clientVars,
                             got>>
----------------------------------------------------------------------------
(* The agent, and what it sends.                                            *)

Emits(evs) == events' = events \o evs

(* Over pipes and in process an abort comes before a later prompt.          *)
InOrder(t) == \A a \in aborts : ChatOf[a[1]] # ChatOf[t] \/ a[1] = t
              \/ (Http /\ "overtaken" \in Troubles)

Takes(t) == /\ step[t] \in {"send", "await"}
            /\ job[t] = "none"
            /\ InOrder(t)
            /\ job' = [job EXCEPT ![t] = "working"]
            /\ prompted' = [prompted EXCEPT ![ChatOf[t]] = @ \cup {sid[t]}]
            /\ UNCHANGED <<queueVars, podStateVars, mapVars, promptVars, events, said, cut,
                           clientVars, got>>

Speaks(t) == /\ job[t] = "working"
             /\ said[t] < MaxTexts
             /\ said' = [said EXCEPT ![t] = @ + 1]
             /\ Emits(<<[turn |-> t, kind |-> "delta", nth |-> said'[t]]>>)
             /\ UNCHANGED <<queueVars, podStateVars, mapVars, promptVars, job, cut, prompted,
                            clientVars, got>>

Finishes(t) == /\ job[t] = "working"
               /\ job' = [job EXCEPT ![t] = "over"]
               /\ \E evs \in {<<>>, <<[turn |-> t, kind |-> "error", nth |-> 0]>>} :
                      Emits(Append(evs, [turn |-> t, kind |-> "idle", nth |-> 0]))
               /\ UNCHANGED <<queueVars, podStateVars, mapVars, promptVars, said, cut,
                              prompted, clientVars, got>>

(* An abort names a session: what works there stops.                        *)
Stopped(a) == {u \in Turns : ChatOf[u] = ChatOf[a[1]] /\ sid[u] = a[2] /\ job[u] = "working"}

AbortArrives(a) ==
    /\ a \in aborts
    /\ aborts' = aborts \ {a}
    /\ cut' = cut \cup Stopped(a)
    /\ job' = [u \in Turns |-> IF u \in Stopped(a) THEN "over" ELSE job[u]]
    /\ Emits(IF Stopped(a) = {} THEN <<>>
             ELSE <<[turn |-> CHOOSE u \in Stopped(a) : TRUE, kind |-> "idle", nth |-> 0]>>)
    /\ UNCHANGED <<queueVars, podStateVars, mapVars, promptVars, said, prompted, closed, got>>
----------------------------------------------------------------------------
(* prompt(): the answer.                                                    *)

Listening(t) == step[t] \in {"send", "await"}

(* listeners.get(sessionID).                                                *)
Listeners(e) == {t \in Turns : /\ Listening(t)
                               /\ ChatOf[t] = ChatOf[e.turn] /\ sid[t] = sid[e.turn]}

(* opencode: the reply to prompt_async.                                     *)
(* Mutant: the answer ends with it.                                         *)
Bug_Over(t) == TRUE
Over(t) == t \in idled

PostReplies(t) == /\ step[t] = "send" /\ job[t] # "none"
                  /\ \/ Over(t) /\ Ends(t)
                     \/ /\ ~Over(t)
                        /\ step' = [step EXCEPT ![t] = "await"]
                        /\ UNCHANGED <<queueVars, outcome, answer>>
                  /\ UNCHANGED <<podStateVars, mapVars, sid, idled, failed, agentVars,
                                 clientVars, got>>

(* done().                                                                  *)
(* Mutant: lost before the POST's reply, when nobody waits for it yet.      *)
Bug_Idled(t) == idled
Idled(t) == idled \cup {t}

(* The next event, for the turn that listens to its session, if any.        *)
Hears(t, e) ==
    /\ got' = IF e.kind = "delta" THEN [got EXCEPT ![t] = Append(@, <<e.turn, e.nth>>)]
              ELSE got
    /\ failed' = IF e.kind = "error" THEN failed \cup {t} ELSE failed
    /\ IF e.kind = "idle" /\ step[t] = "await"
       THEN Ends(t) /\ UNCHANGED idled
       ELSE /\ idled' = IF e.kind = "idle" THEN Idled(t) ELSE idled
            /\ UNCHANGED <<queueVars, step, outcome, answer>>

Deliver == /\ events # <<>>
           /\ events' = Tail(events)
           /\ LET e == Head(events)
              IN  \/ \E t \in Listeners(e) : Hears(t, e)
                  \/ /\ Listeners(e) = {}
                     /\ UNCHANGED <<got, failed, idled, queueVars, step, outcome, answer>>
           /\ UNCHANGED <<podStateVars, mapVars, sid, job, said, cut, prompted, clientVars>>

(* Mutant: the abort listener is added when the request arrives.            *)
Bug_AbortsBy(t) == {<<t, n>> : n \in {Session(ChatOf[t])} \ {0}}
AbortsBy(t) == IF Listening(t) THEN {<<t, sid[t]>>} ELSE {}

(* The client leaves: an abort, if the prompt's listener is there to hear.  *)
Leaves(t) == /\ InLine(t) /\ t \notin closed
             /\ closed' = closed \cup {t}
             /\ aborts' = aborts \cup AbortsBy(t)
             /\ UNCHANGED <<queueVars, podStateVars, mapVars, promptVars, agentVars, got>>
----------------------------------------------------------------------------
Prompting(t) == \/ Begins(t) \/ Opened(t) \/ NotOpened(t) \/ Created(t) \/ Refused(t)
                \/ PostReplies(t)

Working(t) == Takes(t) \/ Finishes(t) \/ \E a \in aborts : a[1] = t /\ AbortArrives(a)

SessionsNext == \/ Boots \/ Migration \/ StartAnswers \/ Ready \/ Exit \/ TornStore
                \/ Deliver
                \/ \E t \in Turns : \/ Arrives(t) \/ Prompting(t) \/ Working(t)
                                    \/ Speaks(t) \/ Leaves(t)

SessionsSpec == SessionsInit /\ [][SessionsNext \/ Replaced]_sessionsVars

(* Callbacks run, requests to the agent are answered, the agent finishes    *)
(* what it works on and its event stream stays open while it lives.         *)
SessionsFairness == /\ WF_sessionsVars(Deliver)
                    /\ \A t \in Turns : /\ WF_sessionsVars(Prompting(t))
                                        /\ WF_sessionsVars(Working(t))

FairSessionsSpec == SessionsSpec /\ SessionsFairness
----------------------------------------------------------------------------
(* A request is answered, when its prompt ends well, with what the agent    *)
(* said to that prompt, all of it and nothing else ("HTTP replies arrive    *)
(* ahead of the stream's deltas", opencode.mjs), whoever left before and    *)
(* whatever was cut short.  Natively in pi only a stream is: any other      *)
(* client gets the last of it, and one whose prompt was answered with no    *)
(* text may get what an earlier one was told.                               *)
WholeAnswer ==
    [][\A t \in Turns : outcome[t] # "ok" /\ outcome'[t] = "ok" =>
          LET whole == [n \in 1..said[t] |-> <<t, n>>]
          IN  /\ job[t] = "over"
              /\ answer'[t] = IF ~Is("pi", "native") THEN whole
                              ELSE IF said[t] = 0 THEN answer'[t]
                              ELSE IF t \in Streamed THEN whole
                              ELSE << <<t, said[t]>> >>]_sessionsVars

(* A chat keeps talking to the session that has its history, across         *)
(* restarts, replaced pods, a move of pi's chats to ACP, and opencode's     *)
(* moves between the protocols ("the chat map is shared with the native     *)
(* path", acp.mjs), unless a trouble took that session away.                *)
OneSessionPerChat == \A c \in Chats \ excused : Cardinality(prompted[c]) <= 1

(* A prompt is stopped before its end only if its own client left; only     *)
(* where an abort travels on its own connection may it be the client of an  *)
(* earlier message of the same chat.                                        *)
OnlyLeaversStopped == \A t \in cut : \/ t \in closed
                                     \/ /\ runtime = "opencode"
                                        /\ \E u \in closed : ChatOf[u] = ChatOf[t]

(* Every turn ends, whichever backend serves it.                            *)
EveryPromptEnds == \A t \in Turns : stage[t] = "waiting" ~> stage[t] = "over"
=============================================================================
