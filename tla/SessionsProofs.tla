--------------------------- MODULE SessionsProofs ---------------------------
(* Proofs about AgentSessions, for any messages, chats, texts, troubles,    *)
(* exits and replaced pods, over every backend.                             *)
EXTENDS AgentSessions, FiniteSetTheorems, TLAPS

USE SessionsAssumption

SessionsStep == SessionsNext \/ Replaced

(* The messages of a chat stand in the line that TurnQueue is, ...          *)
LEMMA SessionsQueue == ASSUME [SessionsStep]_sessionsVars PROVE [QueueNext]_queueVars
<1>1. CASE \/ Boots \/ Migration \/ StartAnswers \/ Ready
           \/ \E t \in Turns : Working(t) \/ Speaks(t) \/ Leaves(t)
  BY <1>1 DEF Boots, Migration, StartAnswers, Ready, Working, Takes, Finishes, AbortArrives, Speaks,
              Leaves
<1>2. CASE Exit \/ TornStore \/ Replaced
  BY <1>2 DEF Exit, TornStore, Replaced, Exits, QueueNext
<1>3. ASSUME NEW t \in Turns, Arrives(t) \/ Prompting(t)
      PROVE  [QueueNext]_queueVars
  BY <1>3 DEF Arrives, Prompting, Begins, Opened, NotOpened, Created, Refused, PostReplies, Ends,
              Fails, QueueNext
<1>4. CASE Deliver
  BY <1>4 DEF Deliver, Hears, Ends, Fails, QueueNext, Listeners
<1>5. CASE UNCHANGED sessionsVars
  BY <1>5 DEF sessionsVars
<1> QED BY <1>1, <1>2, <1>3, <1>4, <1>5 DEF SessionsStep, SessionsNext

(* Each backend keeps the promise AgentTurns's chain of promises implements.*)
LEMMA SessionsKeepQueue == SessionsSpec => QueueSpec
<1>1. SessionsInit => QueueInit
  BY DEF SessionsInit
<1>2. [SessionsStep]_sessionsVars => [QueueNext]_queueVars
  BY SessionsQueue
<1> QED BY <1>1, <1>2, PTL DEF SessionsSpec, QueueSpec, SessionsStep

(* ... where one message of a chat runs at a time.                          *)
LineInv == /\ stage \in [Turns -> {"away", "waiting", "running", "over"}]
           /\ ahead \in [Turns -> SUBSET Turns]
           /\ \A t \in Turns : stage[t] = "running" => ahead[t] = {}
           /\ \A t, u \in Turns : ChatOf[t] = ChatOf[u] /\ t # u /\ InLine(t) /\ InLine(u)
                                     => t \in ahead[u] \/ u \in ahead[t]

LEMMA InitLine == QueueInit => LineInv
BY DEF QueueInit, LineInv, InLine

LEMMA StepLine == LineInv /\ [QueueNext]_queueVars => LineInv'
<1> SUFFICES ASSUME LineInv, [QueueNext]_queueVars PROVE LineInv'
  OBVIOUS
<1>1. ASSUME NEW t \in Turns, Join(t) PROVE LineInv'
  BY <1>1 DEF LineInv, Join, Line, InLine
<1>2. ASSUME NEW t \in Turns, Begin(t) PROVE LineInv'
  BY <1>2 DEF LineInv, Begin, InLine
<1>3. ASSUME NEW t \in Turns, Leave(t) PROVE LineInv'
  BY <1>3 DEF LineInv, Leave, InLine
<1>4. CASE Disperse
  BY <1>4 DEF LineInv, Disperse, InLine
<1>5. CASE UNCHANGED queueVars
  BY <1>5 DEF LineInv, queueVars, InLine
<1> QED BY <1>1, <1>2, <1>3, <1>4, <1>5 DEF QueueNext

LEMMA OneRunning ==
    ASSUME LineInv, NEW t \in Turns, NEW u \in Turns, ChatOf[t] = ChatOf[u],
           stage[t] = "running", stage[u] = "running"
    PROVE  t = u
BY DEF LineInv, InLine
----------------------------------------------------------------------------
(* What is on its way from the agent to a turn.                             *)
Events == [turn : Turns, kind : {"delta", "error", "idle"}, nth : Nat]
Delta(t, n) == [turn |-> t, kind |-> "delta", nth |-> n]
Underway(t) == {i \in DOMAIN events : events[i].turn = t /\ events[i].kind = "delta"}

(* How an answer comes about.                                               *)
AnswerType == /\ step \in [Turns -> {"none", "open", "create", "send", "await"}]
              /\ job \in [Turns -> {"none", "working", "over"}]
              /\ events \in Seq(Events)
              /\ idled \subseteq Turns
              /\ outcome \in [Turns -> {"none", "ok", "error", "lost"}]
              /\ said \in [Turns -> Nat]
              /\ got \in [Turns -> Seq(Texts)]

(* A turn is in prompt() while it runs, and the agent gets its prompt only  *)
(* when its listener is set.                                                *)
StepsRun == \A t \in Turns : step[t] # "none" => stage[t] = "running"
AskedLast == \A t \in Turns : stage[t] \in {"away", "waiting"} \/ step[t] \in {"open", "create"}
                                 => job[t] = "none"
NothingYet == \A t \in Turns : job[t] = "none" => said[t] = 0 /\ got[t] = <<>>
WorkHeard == \A t \in Turns : job[t] = "working" => Listening(t)
IdledOver == \A t \in idled : job[t] = "over"

(* The events on their way are those of listening turns, the idle the last. *)
Awaited(i) == LET t == events[i].turn IN
              /\ Listening(t) /\ job[t] # "none" /\ t \notin idled
              /\ events[i].kind = "idle" => /\ job[t] = "over"
                                            /\ \A j \in DOMAIN events : j > i => events[j].turn # t
InFlight == \A i \in DOMAIN events : Awaited(i)

(* A listener has taken the texts said so far but those under way, which    *)
(* come in the order they were said; it ends with none under way.           *)
OwnTexts(t) == got[t] = [n \in 1..Len(got[t]) |-> <<t, n>>]
HeardOf(t) ==
    /\ OwnTexts(t) /\ Len(got[t]) <= said[t]
    /\ \A i \in Underway(t) : /\ Len(got[t]) < events[i].nth /\ events[i].nth <= said[t]
                             /\ \A j \in Underway(t) : i < j => events[i].nth < events[j].nth
    /\ \A n \in Nat : Len(got[t]) < n /\ n <= said[t] => \E i \in Underway(t) : events[i].nth = n
Heard == \A t \in Turns : Listening(t) => HeardOf(t)
AllSaid(t) == [n \in 1..said[t] |-> <<t, n>>]
Ended == \A t \in Turns : outcome[t] # "none" => stage[t] = "over"

AnswerInv == /\ AnswerType /\ StepsRun /\ AskedLast /\ NothingYet /\ WorkHeard
             /\ IdledOver /\ InFlight /\ Heard /\ Ended

answerVars == <<stage, step, job, events, idled, outcome, said, got>>

LEMMA InitAnswer == SessionsInit => AnswerInv
<1> SUFFICES ASSUME SessionsInit PROVE AnswerInv
  OBVIOUS
<1>1. AnswerType
  BY DEF SessionsInit, AnswerType, Events
<1>2. StepsRun /\ AskedLast /\ NothingYet /\ WorkHeard /\ IdledOver /\ InFlight /\ Heard /\ Ended
  BY DEF SessionsInit, StepsRun, AskedLast, NothingYet, WorkHeard, IdledOver, InFlight, Heard, Ended,
         Listening
<1> QED BY <1>1, <1>2 DEF AnswerInv

LEMMA AnswerKept == ASSUME AnswerInv, UNCHANGED answerVars PROVE AnswerInv'
<1>1. \A t \in Turns : Listening(t)' <=> Listening(t)
  BY DEF answerVars, Listening
<1>2. AnswerType' /\ StepsRun' /\ AskedLast' /\ NothingYet' /\ WorkHeard' /\ IdledOver'
  BY <1>1 DEF AnswerInv, answerVars, AnswerType, StepsRun, AskedLast, NothingYet, WorkHeard, IdledOver
<1>3. InFlight'
  BY DEF AnswerInv, answerVars, InFlight, Awaited, Listening
<1>4. Heard' /\ Ended'
  BY <1>1 DEF AnswerInv, answerVars, Heard, HeardOf, OwnTexts, Underway, Ended
<1> QED BY <1>2, <1>3, <1>4 DEF AnswerInv

LEMMA JoinedEvents ==
    ASSUME NEW S, NEW s \in Seq(S), NEW r \in Seq(S), NEW x \in S
    PROVE  /\ s \o r \in Seq(S) /\ Append(s, x) \in Seq(S) /\ <<x>> \in Seq(S)
           /\ <<>> \in Seq(S)
OBVIOUS

LEMMA AppendedEvents ==
    ASSUME NEW s \in Seq(Events), NEW x \in Events
    PROVE  /\ Len(Append(s, x)) = Len(s) + 1
           /\ \A n \in 1..(Len(s) + 1) : Append(s, x)[n] = IF n = Len(s) + 1 THEN x ELSE s[n]
OBVIOUS

LEMMA EventTurns ==
    ASSUME events \in Seq(Events), NEW i \in DOMAIN events
    PROVE  /\ events[i].turn \in Turns /\ events[i].kind \in {"delta", "error", "idle"}
           /\ events[i].nth \in Nat
<1>1. events[i] \in Events
  OBVIOUS
<1> QED BY <1>1 DEF Events

LEMMA HeardSame ==
    ASSUME NEW u, HeardOf(u), got'[u] = got[u], said'[u] = said[u], Underway(u)' = Underway(u),
           \A i \in Underway(u) : events'[i] = events[i]
    PROVE  HeardOf(u)'
<1>1. OwnTexts(u)' /\ Len(got'[u]) <= said'[u]
  BY DEF HeardOf, OwnTexts
<1>2. ASSUME NEW i \in Underway(u)'
      PROVE  /\ Len(got'[u]) < events'[i].nth /\ events'[i].nth <= said'[u]
             /\ \A j \in Underway(u)' : i < j => events'[i].nth < events'[j].nth
  BY <1>2 DEF HeardOf
<1>3. ASSUME NEW n \in Nat, Len(got'[u]) < n, n <= said'[u]
      PROVE  \E i \in Underway(u)' : events'[i].nth = n
  BY <1>3 DEF HeardOf
<1> QED BY <1>1, <1>2, <1>3 DEF HeardOf

(* A turn that moves on by itself, to s in prompt() and g in its line.      *)
LEMMA AnswerMoves ==
    ASSUME AnswerInv, NEW t \in Turns, UNCHANGED <<job, events, idled, said, got>>,
           NEW g \in {"waiting", "running", "over"}, stage' = [stage EXCEPT ![t] = g],
           stage \in [Turns -> {"away", "waiting", "running", "over"}],
           NEW s \in {"none", "open", "create", "send", "await"}, step' = [step EXCEPT ![t] = s],
           NEW o \in {"none", "ok", "error"}, outcome' = [outcome EXCEPT ![t] = o],
           s # "none" => g = "running",
           g = "waiting" \/ s \in {"open", "create"} => job[t] = "none",
           s \notin {"send", "await"} =>
              job[t] # "working" /\ \A i \in DOMAIN events : events[i].turn # t,
           s \in {"send", "await"} => Listening(t) \/ job[t] = "none",
           o # "none" => g = "over"
    PROVE  AnswerInv'
<1>1. \A u \in Turns : u # t => step'[u] = step[u] /\ stage'[u] = stage[u] /\ outcome'[u] = outcome[u]
  BY DEF AnswerInv, AnswerType
<1>2. step'[t] = s /\ stage'[t] = g /\ outcome'[t] = o
  BY DEF AnswerInv, AnswerType
<1>3. AnswerType'
  BY DEF AnswerInv, AnswerType
<1>4. StepsRun' /\ AskedLast' /\ NothingYet' /\ WorkHeard' /\ IdledOver'
  BY <1>1, <1>2 DEF AnswerInv, StepsRun, AskedLast, NothingYet, WorkHeard, IdledOver, Listening
<1>5. InFlight'
  <2>1. \A i \in DOMAIN events : events[i].turn \in Turns
    BY EventTurns DEF AnswerInv, AnswerType
  <2>2. \A u \in Turns : /\ (\E i \in DOMAIN events : events[i].turn = u) /\ Listening(u)
                              => Listening(u)'
    BY <1>1, <1>2 DEF Listening
  <2>3. ASSUME NEW i \in DOMAIN events PROVE Awaited(i)'
    <3>1. Awaited(i) /\ Listening(events[i].turn)'
      BY <2>1, <2>2 DEF AnswerInv, InFlight, Awaited
    <3> QED BY <3>1 DEF Awaited
  <2> QED BY <2>3 DEF InFlight
<1>6. Heard'
  <2>1. ASSUME NEW u \in Turns, Listening(u)'
        PROVE  HeardOf(u)
    <3>1. CASE Listening(u)
      BY <3>1 DEF AnswerInv, Heard
    <3>2. CASE ~Listening(u)
      <4>1. u = t /\ job[u] = "none"
        BY <1>1, <1>2, <2>1, <3>2 DEF Listening
      <4>2. got[u] = <<>> /\ said[u] = 0
        BY <4>1 DEF AnswerInv, NothingYet
      <4>3. Underway(u) = {}
        BY <4>1 DEF AnswerInv, InFlight, Awaited, Underway
      <4> QED BY <4>2, <4>3 DEF HeardOf, OwnTexts
    <3> QED BY <3>1, <3>2
  <2>2. \A u \in Turns : HeardOf(u)' <=> HeardOf(u)
    BY DEF HeardOf, OwnTexts, Underway
  <2> QED BY <2>1, <2>2 DEF Heard
<1>7. Ended'
  BY <1>1, <1>2 DEF AnswerInv, Ended
<1> QED BY <1>3, <1>4, <1>5, <1>6, <1>7 DEF AnswerInv

(* prompt() up to the prompt, its end with an error, and the POST's reply.  *)
LEMMA AnswerSends ==
    ASSUME AnswerInv, LineInv, NEW t \in Turns, NEW n, Sends(t, n), job[t] = "none",
           UNCHANGED <<job, events, idled, said, got>>, stage[t] \in {"waiting", "running"},
           stage' = [stage EXCEPT ![t] = "running"]
    PROVE  AnswerInv'
<1>1. PICK s \in {"send", "await"} : step' = [step EXCEPT ![t] = s]
  BY DEF Sends
<1>2. outcome' = [outcome EXCEPT ![t] = "none"]
  BY DEF Sends, AnswerInv, AnswerType, Ended
<1> QED BY <1>1, <1>2, AnswerMoves DEF LineInv

LEMMA EndsSomehow ==
    ASSUME NEW t, Ends(t) \/ Fails(t)
    PROVE  /\ stage' = [stage EXCEPT ![t] = "over"] /\ step' = [step EXCEPT ![t] = "none"]
           /\ \E how \in {"ok", "error"} : outcome' = [outcome EXCEPT ![t] = how]
BY DEF Ends, Fails, Leave

LEMMA AnswerEnds ==
    ASSUME AnswerInv, LineInv, NEW t \in Turns, Ends(t) \/ Fails(t),
           UNCHANGED <<job, events, idled, said, got>>, job[t] # "working",
           \A i \in DOMAIN events : events[i].turn # t
    PROVE  AnswerInv'
<1>1. PICK how \in {"ok", "error"} :
         /\ stage' = [stage EXCEPT ![t] = "over"] /\ step' = [step EXCEPT ![t] = "none"]
         /\ outcome' = [outcome EXCEPT ![t] = how]
  BY EndsSomehow
<1> QED BY <1>1, AnswerMoves DEF LineInv

(* Nothing is on its way for a prompt the agent did not take.               *)
LEMMA NoneInFlight ==
    ASSUME AnswerInv, NEW t \in Turns, job[t] = "none" \/ t \in idled
    PROVE  \A i \in DOMAIN events : events[i].turn # t
BY DEF AnswerInv, InFlight, Awaited

LEMMA PromptingAnswer ==
    ASSUME AnswerInv, LineInv, NEW t \in Turns, Prompting(t)
    PROVE  AnswerInv'
<1>t. /\ step \in [Turns -> {"none", "open", "create", "send", "await"}]
      /\ stage \in [Turns -> {"away", "waiting", "running", "over"}]
      /\ outcome \in [Turns -> {"none", "ok", "error", "lost"}]
  BY DEF AnswerInv, AnswerType, LineInv
<1>r. step[t] # "none" => stage[t] = "running" /\ stage = [stage EXCEPT ![t] = "running"]
                          /\ outcome[t] = "none" /\ outcome = [outcome EXCEPT ![t] = "none"]
  BY <1>t DEF AnswerInv, StepsRun, Ended
<1>n. stage[t] = "waiting" \/ step[t] \in {"open", "create"} => job[t] = "none"
  BY DEF AnswerInv, AskedLast
<1>1. CASE Begins(t)
  <2>1. /\ stage[t] = "waiting" /\ stage' = [stage EXCEPT ![t] = "running"]
        /\ UNCHANGED <<job, events, idled, said, got>>
    BY <1>1 DEF Begins, Begin, agentVars
  <2>2. CASE \E n : Sends(t, n)
    BY <1>n, <2>1, <2>2, AnswerSends
  <2>3. CASE (\E s \in {"open", "create"} : step' = [step EXCEPT ![t] = s]) /\ UNCHANGED outcome
    <3>1. outcome' = [outcome EXCEPT ![t] = "none"]
      BY <1>t, <2>1, <2>3 DEF AnswerInv, Ended
    <3>2. \A i \in DOMAIN events : events[i].turn # t
      BY <1>n, <2>1, NoneInFlight
    <3> QED BY <1>n, <1>t, <2>1, <2>3, <3>1, <3>2, AnswerMoves
  <2> QED BY <1>1, <2>2, <2>3 DEF Begins
<1>2. CASE Opened(t)
  <2>1. /\ step[t] = "open" /\ \E n : Sends(t, n)
        /\ UNCHANGED <<stage, job, events, idled, said, got>>
    BY <1>2 DEF Opened, agentVars, queueVars
  <2> QED BY <1>n, <1>r, <2>1, AnswerSends
<1>3. CASE NotOpened(t)
  <2>1. /\ step[t] = "open" /\ step' = [step EXCEPT ![t] = "create"]
        /\ UNCHANGED <<stage, outcome, job, events, idled, said, got>>
    BY <1>3 DEF NotOpened, agentVars, queueVars
  <2>2. \A i \in DOMAIN events : events[i].turn # t
    BY <1>n, <2>1, NoneInFlight
  <2> QED BY <1>n, <1>r, <1>t, <2>1, <2>2, AnswerMoves
<1>4. CASE Created(t)
  <2>1. step[t] = "create" /\ UNCHANGED <<job, events, idled, said, got>>
    BY <1>4 DEF Created, agentVars
  <2>2. CASE (\E n : Sends(t, n)) /\ UNCHANGED queueVars
    BY <1>n, <1>r, <2>1, <2>2, AnswerSends DEF queueVars
  <2>3. CASE Fails(t)
    BY <1>n, <2>1, <2>3, NoneInFlight, AnswerEnds
  <2> QED BY <1>4, <2>2, <2>3 DEF Created
<1>5. CASE Refused(t)
  <2>1. job[t] = "none" /\ Fails(t) /\ UNCHANGED <<job, events, idled, said, got>>
    BY <1>5, <1>n DEF Refused, agentVars
  <2> QED BY <2>1, NoneInFlight, AnswerEnds
<1>6. CASE PostReplies(t)
  <2>1. Listening(t) /\ step[t] = "send" /\ job[t] # "none"
        /\ UNCHANGED <<job, events, idled, said, got>>
    BY <1>6 DEF PostReplies, Listening, agentVars
  <2>2. CASE t \in idled /\ Ends(t)
    <3>1. job[t] = "over" /\ \A i \in DOMAIN events : events[i].turn # t
      BY <2>2, NoneInFlight DEF AnswerInv, IdledOver
    <3> QED BY <2>1, <2>2, <3>1, AnswerEnds
  <2>3. CASE step' = [step EXCEPT ![t] = "await"] /\ UNCHANGED <<queueVars, outcome>>
    BY <1>r, <1>t, <2>1, <2>3, AnswerMoves DEF queueVars
  <2> QED BY <1>6, <2>2, <2>3 DEF PostReplies, Over
<1> QED BY <1>1, <1>2, <1>3, <1>4, <1>5, <1>6 DEF Prompting

(* A request that arrives has no part in it yet.                            *)
LEMMA ArrivesAnswer ==
    ASSUME AnswerInv, LineInv, NEW t \in Turns, Arrives(t)
    PROVE  AnswerInv'
<1>1. /\ stage[t] = "away" /\ stage' = [stage EXCEPT ![t] = "waiting"]
      /\ UNCHANGED <<step, outcome, job, events, idled, said, got>>
  BY DEF Arrives, Join, promptVars, agentVars
<1>2. step[t] = "none" /\ outcome[t] = "none" /\ job[t] = "none"
  BY <1>1 DEF AnswerInv, AnswerType, StepsRun, AskedLast, Ended
<1>3. step' = [step EXCEPT ![t] = "none"] /\ outcome' = [outcome EXCEPT ![t] = "none"]
  BY <1>1, <1>2 DEF AnswerInv, AnswerType
<1>4. \A i \in DOMAIN events : events[i].turn # t
  BY <1>2, NoneInFlight
<1> QED BY <1>1, <1>2, <1>3, <1>4, AnswerMoves DEF LineInv

LEMMA TakesAnswer ==
    ASSUME AnswerInv, NEW t \in Turns, Takes(t)
    PROVE  AnswerInv'
<1>1. /\ Listening(t) /\ job[t] = "none" /\ job' = [job EXCEPT ![t] = "working"]
      /\ UNCHANGED <<stage, step, events, idled, outcome, said, got>>
  BY DEF Takes, Listening, promptVars, queueVars
<1>2. /\ \A u \in Turns : (Listening(u)' <=> Listening(u)) /\ Underway(u)' = Underway(u)
      /\ job'[t] = "working" /\ \A u \in Turns : u # t => job'[u] = job[u]
  BY <1>1 DEF Listening, Underway, AnswerInv, AnswerType
<1>3. stage[t] = "running" /\ step[t] \in {"send", "await"}
  BY <1>1 DEF AnswerInv, StepsRun, Listening
<1>4. AnswerType' /\ StepsRun' /\ AskedLast' /\ NothingYet' /\ WorkHeard' /\ IdledOver'
  <2>1. AnswerType'
    BY <1>1 DEF AnswerInv, AnswerType
  <2> QED BY <1>1, <1>2, <1>3, <2>1
          DEF AnswerInv, StepsRun, AskedLast, NothingYet, WorkHeard, IdledOver
<1>5. InFlight'
  <2>1. \A i \in DOMAIN events : events[i].turn \in Turns /\ events[i].turn # t
    BY <1>1, NoneInFlight, EventTurns DEF AnswerInv, AnswerType
  <2> QED BY <1>1, <1>2, <2>1 DEF AnswerInv, InFlight, Awaited
<1>6. Heard' /\ Ended'
  BY <1>1, <1>2 DEF AnswerInv, Heard, HeardOf, OwnTexts, Ended
<1> QED BY <1>4, <1>5, <1>6 DEF AnswerInv

(* What the agent sends joins the end of what is under way, and nothing of  *)
(* a turn it works for has an idle before it.                               *)
LEMMA SentLast ==
    ASSUME AnswerInv, NEW t \in Turns, job[t] = "working", NEW evs \in Seq(Events),
           events' = events \o evs, UNCHANGED <<step, idled>>,
           job' = job \/ job' = [job EXCEPT ![t] = "over"],
           \A i \in DOMAIN evs :
              /\ evs[i].turn = t
              /\ evs[i].kind = "idle" => i = Len(evs) /\ job' = [job EXCEPT ![t] = "over"]
    PROVE  InFlight'
<1>1. Listening(t) /\ t \notin idled
  BY DEF AnswerInv, WorkHeard, IdledOver
<1>2. \A u \in Turns : /\ Listening(u)' <=> Listening(u)
                       /\ job[u] # "none" => job'[u] # "none"
                       /\ job[u] = "over" => job'[u] = "over"
  BY DEF Listening, AnswerInv, AnswerType
<1>3. \A i \in DOMAIN events' :
         \/ i \in DOMAIN events /\ events'[i] = events[i]
         \/ i \notin DOMAIN events /\ i - Len(events) \in DOMAIN evs
            /\ events'[i] = evs[i - Len(events)]
  BY DEF AnswerInv, AnswerType
<1>4. Len(events) \in Nat /\ DOMAIN events = 1..Len(events) /\ DOMAIN evs = 1..Len(evs)
      /\ Len(evs) \in Nat /\ DOMAIN events' = 1..(Len(events) + Len(evs))
  BY DEF AnswerInv, AnswerType
<1> SUFFICES ASSUME NEW i \in DOMAIN events' PROVE Awaited(i)'
  BY DEF InFlight
<1>5. CASE i \in DOMAIN events
  <2>1. Awaited(i) /\ events[i].turn \in Turns /\ events'[i] = events[i]
    BY <1>3, <1>5, EventTurns DEF AnswerInv, AnswerType, InFlight
  <2>2. events[i].kind = "idle" => events[i].turn # t
    BY <2>1 DEF Awaited
  <2>3. ASSUME events[i].kind = "idle", NEW j \in DOMAIN events', j > i
        PROVE  events'[j].turn # events[i].turn
    BY <1>3, <2>1, <2>2, <2>3 DEF Awaited
  <2> QED BY <1>2, <2>1, <2>3 DEF Awaited
<1>6. CASE i \notin DOMAIN events
  <2>1. i - Len(events) \in DOMAIN evs /\ events'[i] = evs[i - Len(events)]
    BY <1>3, <1>6
  <2>2. events'[i].turn = t
    BY <2>1
  <2>3. ASSUME events'[i].kind = "idle"
        PROVE  job'[t] = "over" /\ i = Len(events) + Len(evs)
    <3>1. i - Len(events) = Len(evs) /\ job' = [job EXCEPT ![t] = "over"]
      BY <2>1, <2>3
    <3> QED BY <1>4, <3>1 DEF AnswerInv, AnswerType
  <2>4. job'[t] # "none" /\ Listening(t)' /\ t \notin idled'
    BY <1>1, <1>2
  <2>5. events'[i].kind = "idle" => \A j \in DOMAIN events' : ~(j > i)
    BY <1>4, <2>3
  <2> QED BY <2>2, <2>3, <2>4, <2>5 DEF Awaited
<1> QED BY <1>5, <1>6

LEMMA SpeaksAnswer ==
    ASSUME AnswerInv, NEW t \in Turns, Speaks(t)
    PROVE  AnswerInv'
<1>1. /\ job[t] = "working" /\ said' = [said EXCEPT ![t] = @ + 1]
      /\ events' = events \o <<Delta(t, said[t] + 1)>>
      /\ UNCHANGED <<stage, step, job, idled, outcome, got>>
  BY DEF Speaks, Emits, Delta, promptVars, queueVars, AnswerInv, AnswerType
<1>2. Listening(t) /\ stage[t] = "running" /\ said[t] + 1 \in Nat
  BY <1>1 DEF AnswerInv, AnswerType, WorkHeard, StepsRun, Listening
<1>3. \A u \in Turns : Listening(u)' <=> Listening(u)
  BY <1>1 DEF Listening
<1>4. AnswerType'
  <2>1. <<Delta(t, said[t] + 1)>> \in Seq(Events)
    BY <1>2 DEF Delta, Events
  <2> QED BY <1>1, <2>1 DEF AnswerInv, AnswerType
<1>5. StepsRun' /\ AskedLast' /\ NothingYet' /\ WorkHeard' /\ IdledOver'
  BY <1>1, <1>3 DEF AnswerInv, AnswerType, StepsRun, AskedLast, NothingYet, WorkHeard, IdledOver
<1>6. InFlight'
  <2> DEFINE d == Delta(t, said[t] + 1)
             new == <<d>>
  <2>1. d \in Events /\ d.turn = t /\ d.kind = "delta"
    BY <1>2 DEF Delta, Events
  <2>2. new \in Seq(Events) /\ \A i \in DOMAIN new : new[i] = d
    BY <2>1
  <2>3. events' = events \o new /\ UNCHANGED <<step, idled, job>>
    BY <1>1
  <2> HIDE DEF new, d
  <2>4. \A i \in DOMAIN new : new[i].turn = t /\ new[i].kind # "idle"
    BY <2>1, <2>2
  <2> QED BY <1>1, <2>2, <2>3, <2>4, SentLast
<1>7. Heard'
  <2> DEFINE m == Len(events) + 1
             d == Delta(t, said[t] + 1)
  <2>1. d.turn = t /\ d.kind = "delta" /\ d.nth = said[t] + 1 /\ d \in Events
    BY <1>2 DEF Delta, Events
  <2> HIDE DEF d
  <2>2. /\ m \in Nat /\ DOMAIN events' = (DOMAIN events) \cup {m} /\ events'[m] = d
        /\ \A i \in DOMAIN events : events'[i] = events[i] /\ i \in Nat /\ i < m
    BY <1>1, <2>1 DEF AnswerInv, AnswerType, d
  <2> HIDE DEF m
  <2>3. \A u \in Turns : said'[u] = IF u = t THEN said[u] + 1 ELSE said[u]
    BY <1>1 DEF AnswerInv, AnswerType
  <2>4. \A u \in Turns : Listening(u) => HeardOf(u)
    BY DEF AnswerInv, Heard
  <2>5. ASSUME NEW u \in Turns, Listening(u), u # t
        PROVE  HeardOf(u)'
    <3>1. Underway(u)' = Underway(u) /\ \A i \in Underway(u) : events'[i] = events[i]
      BY <2>1, <2>2, <2>5 DEF Underway
    <3> QED BY <1>1, <2>3, <2>4, <2>5, <3>1, HeardSame
  <2>6. HeardOf(t)'
    <3>1. /\ Underway(t)' = Underway(t) \cup {m}
          /\ \A i \in Underway(t) : events'[i] = events[i] /\ i \in Nat /\ i < m
      BY <2>1, <2>2 DEF Underway
    <3>2. HeardOf(t) /\ said'[t] = said[t] + 1 /\ got' = got /\ said[t] \in Nat
          /\ Len(got[t]) \in Nat /\ events'[m].nth = said[t] + 1 /\ m \in Nat
      BY <1>1, <1>2, <2>1, <2>2, <2>3, <2>4 DEF AnswerInv, AnswerType
    <3>3. \A i \in Underway(t) : events[i].nth \in Nat
      BY EventTurns DEF Underway, AnswerInv, AnswerType
    <3>4. OwnTexts(t)' /\ Len(got'[t]) <= said'[t]
      BY <3>2 DEF HeardOf, OwnTexts
    <3>5. ASSUME NEW i \in Underway(t)'
          PROVE  /\ Len(got'[t]) < events'[i].nth /\ events'[i].nth <= said'[t]
                 /\ \A j \in Underway(t)' : i < j => events'[i].nth < events'[j].nth
      <4>1. CASE i = m
        BY <3>1, <3>2, <4>1 DEF HeardOf
      <4>2. CASE i \in Underway(t)
        BY <3>1, <3>2, <3>3, <4>2 DEF HeardOf
      <4> QED BY <3>1, <4>1, <4>2
    <3>6. ASSUME NEW n \in Nat, Len(got'[t]) < n, n <= said'[t]
          PROVE  \E i \in Underway(t)' : events'[i].nth = n
      <4>1. CASE n = said[t] + 1
        BY <3>1, <3>2, <4>1
      <4>2. CASE n # said[t] + 1
        <5>1. PICK i \in Underway(t) : events[i].nth = n
          BY <3>2, <3>6, <4>2 DEF HeardOf
        <5> QED BY <3>1, <5>1
      <4> QED BY <4>1, <4>2
    <3> QED BY <3>4, <3>5, <3>6 DEF HeardOf
  <2> QED BY <1>3, <2>5, <2>6 DEF Heard
<1>8. Ended'
  BY <1>1 DEF AnswerInv, Ended
<1> QED BY <1>4, <1>5, <1>6, <1>7, <1>8 DEF AnswerInv

(* The agent ends its work for a turn, of itself or by an abort.            *)
LEMMA UnderwaySame ==
    ASSUME events \in Seq(Events), NEW evs \in Seq(Events),
           \A i \in DOMAIN evs : evs[i].kind # "delta", events' = events \o evs, NEW t \in Turns
    PROVE  Underway(t)' = Underway(t) /\ \A i \in Underway(t) : events'[i] = events[i]
<1>1. \A i \in DOMAIN events' : \/ i \in DOMAIN events /\ events'[i] = events[i]
                                \/ i \notin DOMAIN events /\ i - Len(events) \in DOMAIN evs
                                   /\ events'[i] = evs[i - Len(events)]
  OBVIOUS
<1>2. DOMAIN events \subseteq DOMAIN events'
  OBVIOUS
<1> QED BY <1>1, <1>2 DEF Underway

LEMMA StopsAnswer ==
    ASSUME AnswerInv, NEW t \in Turns, job[t] = "working", job' = [job EXCEPT ![t] = "over"],
           NEW evs \in {<<>>, <<[turn |-> t, kind |-> "error", nth |-> 0]>>},
           events' = events \o Append(evs, [turn |-> t, kind |-> "idle", nth |-> 0]),
           UNCHANGED <<stage, step, idled, outcome, said, got>>
    PROVE  AnswerInv'
<1> DEFINE new == Append(evs, [turn |-> t, kind |-> "idle", nth |-> 0])
<1>1. \A u \in Turns : Listening(u)' <=> Listening(u)
  BY DEF Listening
<1>2. /\ new \in Seq(Events)
      /\ \A i \in DOMAIN new : /\ new[i].turn = t /\ new[i].kind # "delta"
                               /\ new[i].kind = "idle" => i = Len(new)
  <2> DEFINE err == [turn |-> t, kind |-> "error", nth |-> 0]
             idle == [turn |-> t, kind |-> "idle", nth |-> 0]
  <2>1. /\ err \in Events /\ err.turn = t /\ err.kind = "error"
        /\ idle \in Events /\ idle.turn = t /\ idle.kind = "idle"
    BY DEF Events
  <2>2. evs \in {<<>>, <<err>>} /\ new = Append(evs, idle)
    OBVIOUS
  <2> HIDE DEF new, err, idle
  <2>3. \/ Len(new) = 1 /\ new[1] = idle
        \/ Len(new) = 2 /\ new[1] = err /\ new[2] = idle
    <3>1. CASE evs = <<>>
      BY <2>2, <3>1
    <3>2. CASE evs = <<err>>
      <4>1. PICK q \in Seq(Events) : q = <<err>>
        <5>1. <<err>> \in Seq(Events)
          BY <2>1, JoinedEvents
        <5> QED BY <5>1
      <4>2. Len(q) = 1 /\ q[1] = err
        BY <4>1
      <4>3. new = Append(q, idle)
        BY <2>2, <3>2, <4>1
      <4>4. Len(Append(q, idle)) = 2 /\ Append(q, idle)[1] = err /\ Append(q, idle)[2] = idle
        <5>1. \A n \in 1..2 : Append(q, idle)[n] = IF n = 2 THEN idle ELSE q[n]
          BY <2>1, <4>2, AppendedEvents
        <5>2. Len(Append(q, idle)) = Len(q) + 1
          BY <2>1, AppendedEvents
        <5> QED BY <4>2, <5>1, <5>2
      <4> QED BY <4>3, <4>4
    <3> QED BY <2>2, <3>1, <3>2
  <2>4. new \in Seq(Events)
    <3>1. <<err>> \in Seq(Events) /\ <<>> \in Seq(Events)
      BY <2>1, JoinedEvents
    <3> QED BY <2>1, <2>2, <3>1, JoinedEvents
  <2>5. CASE Len(new) = 1 /\ new[1] = idle
    BY <2>1, <2>4, <2>5
  <2>6. CASE Len(new) = 2 /\ new[1] = err /\ new[2] = idle
    <3>1. \A i \in DOMAIN new : i = 1 \/ i = 2
      BY <2>4, <2>6
    <3> QED BY <2>1, <2>4, <2>6, <3>1
  <2> QED BY <2>3, <2>5, <2>6
<1> HIDE DEF new
<1>e. events' = events \o new
  BY DEF new
<1>3. AnswerType'
  <2>1. events \in Seq(Events) /\ [turn |-> t, kind |-> "idle", nth |-> 0] \in Events
    BY DEF AnswerInv, AnswerType, Events
  <2>2. events' \in Seq(Events)
    BY <1>2, <1>e, <2>1, JoinedEvents
  <2> QED BY <2>2 DEF AnswerInv, AnswerType
<1>4. StepsRun' /\ AskedLast' /\ NothingYet' /\ WorkHeard' /\ IdledOver'
  BY <1>1 DEF AnswerInv, AnswerType, StepsRun, AskedLast, NothingYet, WorkHeard, IdledOver, Listening
<1>5. InFlight'
  BY <1>2, <1>e, SentLast
<1>6. Heard'
  <2>1. \A u \in Turns : /\ Underway(u)' = Underway(u)
                         /\ \A i \in Underway(u) : events'[i] = events[i]
    BY <1>2, <1>e, UnderwaySame DEF AnswerInv, AnswerType
  <2> QED BY <1>1, <2>1, HeardSame DEF AnswerInv, Heard
<1>7. Ended'
  BY DEF AnswerInv, Ended
<1> QED BY <1>3, <1>4, <1>5, <1>6, <1>7 DEF AnswerInv

LEMMA FinishesAnswer ==
    ASSUME AnswerInv, NEW t \in Turns, Finishes(t)
    PROVE  AnswerInv'
<1>1. /\ job[t] = "working" /\ job' = [job EXCEPT ![t] = "over"]
      /\ UNCHANGED <<stage, step, idled, outcome, said, got>>
  BY DEF Finishes, promptVars, queueVars
<1>2. PICK evs \in {<<>>, <<[turn |-> t, kind |-> "error", nth |-> 0]>>} :
         events' = events \o Append(evs, [turn |-> t, kind |-> "idle", nth |-> 0])
  BY DEF Finishes, Emits
<1> QED BY <1>1, <1>2, StopsAnswer

(* An abort finds one prompt at work in its session, or none.               *)
LEMMA AbortStopsOne ==
    ASSUME AnswerInv, LineInv, NEW a, NEW t \in Stopped(a)
    PROVE  Stopped(a) = {t} /\ t \in Turns /\ job[t] = "working"
<1>1. \A u \in Stopped(a) : u \in Turns /\ job[u] = "working" /\ ChatOf[u] = ChatOf[a[1]]
  BY DEF Stopped
<1>2. \A u \in Stopped(a) : stage[u] = "running"
  BY <1>1 DEF AnswerInv, WorkHeard, StepsRun, Listening
<1>3. \A u \in Stopped(a) : u = t
  BY <1>1, <1>2, OneRunning
<1> QED BY <1>1, <1>3

LEMMA AbortAnswer ==
    ASSUME AnswerInv, LineInv, NEW a, AbortArrives(a)
    PROVE  AnswerInv'
<1>u. UNCHANGED <<stage, step, idled, outcome, said, got>> /\ job \in [Turns -> {"none", "working", "over"}]
  BY DEF AbortArrives, promptVars, queueVars, AnswerInv, AnswerType
<1>1. CASE Stopped(a) = {}
  <2>1. job' = job
    BY <1>1, <1>u DEF AbortArrives
  <2>2. events' = events \o <<>> /\ events \in Seq(Events)
    BY <1>1 DEF AbortArrives, Emits, AnswerInv, AnswerType
  <2>3. events' = events
    BY <2>2
  <2> QED BY <1>u, <2>1, <2>3, AnswerKept DEF answerVars
<1>2. ASSUME NEW t \in Stopped(a)
      PROVE  AnswerInv'
  <2>1. Stopped(a) = {t} /\ t \in Turns /\ job[t] = "working"
    BY AbortStopsOne
  <2>2. job' = [job EXCEPT ![t] = "over"]
    BY <1>u, <2>1 DEF AbortArrives
  <2>3. events' = events \o <<[turn |-> t, kind |-> "idle", nth |-> 0]>>
    BY <2>1 DEF AbortArrives, Emits
  <2>4. Append(<<>>, [turn |-> t, kind |-> "idle", nth |-> 0]) = <<[turn |-> t, kind |-> "idle", nth |-> 0]>>
    OBVIOUS
  <2> QED BY <1>u, <2>1, <2>2, <2>3, <2>4, StopsAnswer
<1> QED BY <1>1, <1>2

(* An exit leaves the answers that were complete.                           *)
LEMMA ExitsAnswer ==
    ASSUME AnswerInv, LineInv, Exits
    PROVE  AnswerInv'
<1>1. /\ stage' = [t \in Turns |-> IF InLine(t) THEN "over" ELSE stage[t]]
      /\ step' = [t \in Turns |-> "none"] /\ events' = <<>> /\ idled' = {}
      /\ outcome' = [t \in Turns |-> IF InLine(t) THEN "lost" ELSE outcome[t]]
      /\ job' = [t \in Turns |-> IF job[t] = "working" THEN "over" ELSE job[t]]
      /\ got' = [t \in Turns |-> <<>>] /\ UNCHANGED said
  BY DEF Exits, Disperse
<1>2. AnswerType'
  <2>1. events' \in Seq(Events) /\ got' \in [Turns -> Seq(Texts)]
    BY <1>1
  <2> QED BY <1>1, <2>1 DEF AnswerInv, AnswerType
<1>3. StepsRun' /\ AskedLast' /\ NothingYet' /\ WorkHeard' /\ IdledOver' /\ InFlight' /\ Heard'
  <2>1. \A t \in Turns : ~Listening(t)' /\ job'[t] # "working" /\ (job'[t] = "none" <=> job[t] = "none")
    BY <1>1 DEF Listening, AnswerInv, AnswerType
  <2>2. \A t \in Turns : stage'[t] \in {"away", "waiting"} => stage[t] \in {"away", "waiting"}
    BY <1>1 DEF LineInv
  <2>3. DOMAIN events' = {}
    BY <1>1
  <2> QED BY <1>1, <2>1, <2>2, <2>3
          DEF AnswerInv, StepsRun, AskedLast, NothingYet, WorkHeard, IdledOver, InFlight, Heard
<1>4. Ended'
  BY <1>1 DEF AnswerInv, Ended, InLine
<1> QED BY <1>2, <1>3, <1>4 DEF AnswerInv

(* The first event under way goes to the turn it is meant for.              *)
LEMMA HeardByItsOwn ==
    ASSUME AnswerInv, LineInv, Deliver
    PROVE  LET e == Head(events) IN
           /\ e = events[1] /\ 1 \in DOMAIN events /\ e \in Events /\ e.turn \in Turns
           /\ Hears(e.turn, e)
<1> DEFINE e == Head(events)
<1>1. e = events[1] /\ 1 \in DOMAIN events /\ e \in Events
  BY DEF Deliver, AnswerInv, AnswerType
<1>2. e.turn \in Turns /\ Listening(e.turn)
  BY <1>1, EventTurns DEF AnswerInv, AnswerType, InFlight, Awaited
<1>3. \A t \in Listeners(e) : t = e.turn
  <2>1. \A t \in Turns : Listening(t) => stage[t] = "running"
    BY DEF AnswerInv, StepsRun, Listening
  <2> QED BY <1>2, <2>1, OneRunning DEF Listeners
<1>4. e.turn \in Listeners(e)
  BY <1>2 DEF Listeners
<1> QED BY <1>1, <1>2, <1>3, <1>4 DEF Deliver

(* A turn whose next text is not the one delivered waits for the same ones. *)
LEMMA HeardOn ==
    ASSUME NEW u \in Turns, HeardOf(u), got'[u] = got[u], said'[u] = said[u], 1 \notin Underway(u),
           \A i \in Underway(u)' : i \in Nat /\ i + 1 \in Underway(u) /\ events'[i] = events[i + 1],
           \A i \in Underway(u) : i # 1 => i - 1 \in Underway(u)' /\ events'[i - 1] = events[i]
    PROVE  HeardOf(u)'
<1>1. OwnTexts(u)' /\ Len(got'[u]) <= said'[u]
  BY DEF HeardOf, OwnTexts
<1>2. ASSUME NEW i \in Underway(u)'
      PROVE  /\ Len(got'[u]) < events'[i].nth /\ events'[i].nth <= said'[u]
             /\ \A j \in Underway(u)' : i < j => events'[i].nth < events'[j].nth
  BY <1>2 DEF HeardOf
<1>3. ASSUME NEW n \in Nat, Len(got'[u]) < n, n <= said'[u]
      PROVE  \E i \in Underway(u)' : events'[i].nth = n
  <2>1. PICK i \in Underway(u) : events[i].nth = n
    BY <1>3 DEF HeardOf
  <2> QED BY <2>1
<1> QED BY <1>1, <1>2, <1>3 DEF HeardOf

LEMMA DeliverAnswer ==
    ASSUME AnswerInv, LineInv, Deliver
    PROVE  AnswerInv'
<1>1. PICK t \in Turns, e \in Events : /\ e = Head(events) /\ e = events[1] /\ 1 \in DOMAIN events
                                        /\ e.turn = t /\ Hears(t, e)
  BY HeardByItsOwn
<1>2. UNCHANGED <<job, said>> /\ events' = Tail(events) /\ events \in Seq(Events) /\ events # <<>>
  BY DEF Deliver, AnswerInv, AnswerType
<1>3. /\ Awaited(1) /\ Listening(t) /\ t \notin idled /\ job[t] # "none"
      /\ e.kind \in {"delta", "error", "idle"}
  BY <1>1, <1>2, EventTurns DEF AnswerInv, InFlight, Awaited
<1>4. stage[t] = "running" /\ outcome[t] = "none"
  BY <1>1, <1>3 DEF AnswerInv, AnswerType, StepsRun, Listening, Ended
<1>5. \A i \in DOMAIN events' : i \in Nat /\ i + 1 \in DOMAIN events /\ events'[i] = events[i + 1]
                               /\ i + 1 > 1 /\ events[i + 1].turn \in Turns
  <2>1. \A i \in DOMAIN events' : i \in Nat /\ i + 1 \in DOMAIN events /\ events'[i] = events[i + 1]
                                 /\ i + 1 > 1
    BY <1>2
  <2> QED BY <1>2, <2>1, EventTurns
<1>6. e.kind = "idle" => job[t] = "over" /\ \A i \in DOMAIN events' : events'[i].turn # t
  BY <1>1, <1>3, <1>5 DEF Awaited
<1>7. ASSUME \A u \in Turns : u # t \/ e.kind # "idle"
                                 => /\ (Listening(u) => Listening(u)')
                                    /\ (u \notin idled => u \notin idled')
      PROVE  InFlight'
  <2> SUFFICES ASSUME NEW i \in DOMAIN events' PROVE Awaited(i)'
    BY DEF InFlight
  <2>1. Awaited(i + 1) /\ events'[i].turn \in Turns /\ events'[i] = events[i + 1]
    BY <1>5 DEF AnswerInv, InFlight
  <2>2. events'[i].turn # t \/ e.kind # "idle"
    BY <1>6
  <2>3. ASSUME events'[i].kind = "idle", NEW j \in DOMAIN events', j > i
        PROVE  events'[j].turn # events'[i].turn
    <3>1. j + 1 > i + 1 /\ j + 1 \in DOMAIN events /\ events'[j] = events[j + 1]
      BY <1>5, <2>3
    <3> QED BY <2>1, <2>3, <3>1 DEF Awaited
  <2>4. PICK u \in Turns : u = events[i + 1].turn /\ u = events'[i].turn
    BY <2>1
  <2>5. Listening(u)' /\ u \notin idled' /\ job'[u] # "none"
    <3>1. Listening(u) /\ u \notin idled /\ job[u] # "none"
      BY <2>1, <2>4 DEF Awaited
    <3>2. u # t \/ e.kind # "idle"
      BY <2>2, <2>4
    <3> QED BY <1>2, <1>7, <3>1, <3>2
  <2>6. events'[i].kind = "idle" => job'[u] = "over"
    BY <1>2, <2>1, <2>4 DEF Awaited
  <2> QED BY <2>3, <2>4, <2>5, <2>6 DEF Awaited
<1>8. ASSUME NEW u \in Turns
      PROVE  /\ \A i \in Underway(u)' : i \in Nat /\ i + 1 \in Underway(u) /\ events'[i] = events[i + 1]
             /\ \A i \in Underway(u) : i # 1 => i - 1 \in Underway(u)' /\ events'[i - 1] = events[i]
             /\ 1 \in Underway(u) <=> u = t /\ e.kind = "delta"
             /\ \A i \in Underway(u) : i \in Nat /\ i >= 1 /\ events[i].nth \in Nat
  <2>1. \A i \in DOMAIN events : i # 1 => i - 1 \in DOMAIN events' /\ events'[i - 1] = events[i]
    BY <1>2
  <2>2. \A i \in DOMAIN events : i \in Nat /\ i >= 1 /\ events[i].nth \in Nat
    BY <1>2, EventTurns
  <2> QED BY <1>1, <1>5, <2>1, <2>2 DEF Underway
<1>9. events' \in Seq(Events)
  BY <1>2
<1>10. CASE e.kind = "delta"
  <2>1. got' = [got EXCEPT ![t] = Append(@, <<t, e.nth>>)] /\ UNCHANGED <<stage, step, idled, outcome>>
    BY <1>1, <1>10 DEF Hears, queueVars
  <2>2. \A u \in Turns : Listening(u)' <=> Listening(u)
    BY <2>1 DEF Listening
  <2>3. AnswerType'
    <3>1. got' \in [Turns -> Seq(Texts)]
      BY <1>1, <2>1 DEF AnswerInv, AnswerType, Texts, Events
    <3> QED BY <1>1, <1>2, <1>9, <2>1, <3>1 DEF AnswerInv, AnswerType
  <2>4. /\ \A u \in Turns : u # t => got'[u] = got[u]
        /\ got'[t] = Append(got[t], <<t, e.nth>>) /\ got[t] \in Seq(Texts)
    BY <1>1, <2>1 DEF AnswerInv, AnswerType
  <2>5. StepsRun' /\ AskedLast' /\ NothingYet' /\ WorkHeard' /\ IdledOver'
    BY <1>2, <1>3, <2>1, <2>2, <2>4
       DEF AnswerInv, StepsRun, AskedLast, NothingYet, WorkHeard, IdledOver
  <2>6. InFlight'
    BY <1>7, <2>1, <2>2
  <2>7. Heard'
    <3>1. ASSUME NEW u \in Turns, Listening(u), u # t
          PROVE  HeardOf(u)'
      <4>1. got'[u] = got[u] /\ said'[u] = said[u] /\ HeardOf(u)
        BY <1>2, <2>4, <3>1 DEF AnswerInv, Heard
      <4> QED BY <1>8, <3>1, <4>1, HeardOn
    <3>2. HeardOf(t) /\ Len(got[t]) \in Nat /\ said[t] \in Nat /\ e.nth \in Nat
      BY <1>1, <1>3 DEF AnswerInv, AnswerType, Heard, Events
    <3>3. e.nth = Len(got[t]) + 1
      <4>1. 1 \in Underway(t) /\ events[1].nth = e.nth
        BY <1>1, <1>8, <1>10
      <4>2. Len(got[t]) < e.nth /\ e.nth <= said[t]
        BY <3>2, <4>1 DEF HeardOf
      <4>3. PICK i \in Underway(t) : events[i].nth = Len(got[t]) + 1
        BY <3>2, <4>2 DEF HeardOf
      <4>4. 1 < i => e.nth < events[i].nth
        BY <3>2, <4>1 DEF HeardOf
      <4> QED BY <1>8, <3>2, <4>1, <4>2, <4>3, <4>4
    <3>4. Len(got'[t]) = Len(got[t]) + 1 /\ OwnTexts(t)'
      <4>1. PICK g \in Seq(Texts) : g = got[t]
        BY <2>4
      <4>2. PICK x \in Texts : x = <<t, Len(g) + 1>>
        <5>1. \A u \in Turns, n \in Nat : <<u, n>> \in Texts
          BY DEF Texts
        <5>2. Len(g) + 1 \in Nat
          OBVIOUS
        <5> QED BY <5>1, <5>2
      <4>3. g = [n \in 1..Len(g) |-> <<t, n>>] /\ Len(g) \in Nat
        BY <3>2, <4>1 DEF HeardOf, OwnTexts
      <4>4. got'[t] = Append(g, x)
        BY <2>4, <3>3, <4>1, <4>2
      <4>5. /\ Len(Append(g, x)) = Len(g) + 1 /\ Append(g, x) \in Seq(Texts)
            /\ \A n \in 1..(Len(g) + 1) : Append(g, x)[n] = IF n = Len(g) + 1 THEN x ELSE g[n]
        OBVIOUS
      <4>6. \A n \in 1..(Len(g) + 1) : Append(g, x)[n] = <<t, n>>
        BY <4>2, <4>3, <4>5
      <4>7. Append(g, x) = [n \in 1..Len(Append(g, x)) |-> <<t, n>>]
        <5> DEFINE a == Append(g, x)
        <5>1. a \in Seq(Texts) /\ Len(a) = Len(g) + 1
          BY <4>5
        <5>2. \A n \in 1..Len(a) : a[n] = <<t, n>>
          BY <4>6, <5>1
        <5> HIDE DEF a
        <5>3. a = [n \in 1..Len(a) |-> a[n]]
          BY <5>1
        <5>4. a = [n \in 1..Len(a) |-> <<t, n>>]
          BY <5>2, <5>3
        <5> QED BY <5>4 DEF a
      <4> QED BY <4>1, <4>4, <4>5, <4>7 DEF OwnTexts
    <3>5. HeardOf(t)'
      <4>1. said'[t] = said[t] /\ 1 \in Underway(t) /\ events[1].nth = Len(got[t]) + 1
        BY <1>1, <1>2, <1>8, <1>10, <3>3
      <4>2. Len(got'[t]) <= said'[t]
        BY <3>2, <3>4, <4>1 DEF HeardOf
      <4>3. ASSUME NEW i \in Underway(t)'
            PROVE  /\ Len(got'[t]) < events'[i].nth /\ events'[i].nth <= said'[t]
                   /\ \A j \in Underway(t)' : i < j => events'[i].nth < events'[j].nth
        <5>1. i \in Nat /\ i + 1 \in Underway(t) /\ events'[i] = events[i + 1] /\ 1 < i + 1
          BY <1>5, <1>8, <4>3 DEF Underway
        <5>2. events[1].nth < events[i + 1].nth /\ events[i + 1].nth <= said[t]
          BY <3>2, <4>1, <5>1 DEF HeardOf
        <5>3. ASSUME NEW j \in Underway(t)', i < j PROVE events'[i].nth < events'[j].nth
          <6>1. j \in Nat /\ j + 1 \in Underway(t) /\ events'[j] = events[j + 1] /\ i + 1 < j + 1
            <7>1. i \in Nat /\ j \in Nat /\ j + 1 \in Underway(t) /\ events'[j] = events[j + 1]
              BY <1>8, <4>3, <5>3
            <7>2. i + 1 < j + 1
              BY <5>3, <7>1
            <7> QED BY <7>1, <7>2
          <6> QED BY <3>2, <5>1, <6>1 DEF HeardOf
        <5> QED BY <1>8, <3>2, <3>4, <4>1, <5>1, <5>2, <5>3
      <4>4. ASSUME NEW n \in Nat, Len(got'[t]) < n, n <= said'[t]
            PROVE  \E i \in Underway(t)' : events'[i].nth = n
        <5>1. PICK i \in Underway(t) : events[i].nth = n
          BY <3>2, <3>4, <4>1, <4>4 DEF HeardOf
        <5>2. i # 1
          BY <3>2, <3>4, <4>1, <4>4, <5>1
        <5> QED BY <1>8, <5>1, <5>2
      <4> QED BY <3>4, <4>2, <4>3, <4>4 DEF HeardOf
    <3> QED BY <2>2, <3>1, <3>5 DEF Heard
  <2>8. Ended'
    BY <2>1 DEF AnswerInv, Ended
  <2> QED BY <2>3, <2>5, <2>6, <2>7, <2>8 DEF AnswerInv
<1>11. ASSUME e.kind # "delta", got' = got, \A u \in Turns : Listening(u)' => Listening(u)
       PROVE  Heard'
  <2> SUFFICES ASSUME NEW u \in Turns, Listening(u) PROVE HeardOf(u)'
    BY <1>11 DEF Heard
  <2>1. got'[u] = got[u] /\ said'[u] = said[u] /\ HeardOf(u)
    BY <1>2, <1>11 DEF AnswerInv, Heard
  <2> QED BY <1>8, <1>11, <2>1, HeardOn
<1>12. CASE e.kind = "error" \/ (e.kind = "idle" /\ step[t] # "await")
  <2>1. /\ UNCHANGED <<stage, step, outcome, got>>
        /\ idled' = IF e.kind = "idle" THEN idled \cup {t} ELSE idled
    BY <1>1, <1>12 DEF Hears, Idled, queueVars
  <2>2. \A u \in Turns : Listening(u)' <=> Listening(u)
    BY <2>1 DEF Listening
  <2>3. AnswerType'
    BY <1>1, <1>2, <1>9, <2>1 DEF AnswerInv, AnswerType
  <2>4. StepsRun' /\ AskedLast' /\ NothingYet' /\ WorkHeard' /\ IdledOver'
    BY <1>2, <1>6, <2>1, <2>2
       DEF AnswerInv, StepsRun, AskedLast, NothingYet, WorkHeard, IdledOver
  <2>5. InFlight'
    BY <1>7, <2>1, <2>2
  <2>6. Heard'
    BY <1>11, <1>12, <2>1, <2>2
  <2>7. Ended'
    BY <2>1 DEF AnswerInv, Ended
  <2> QED BY <2>3, <2>4, <2>5, <2>6, <2>7 DEF AnswerInv
<1>13. CASE e.kind = "idle" /\ step[t] = "await"
  <2>1. Ends(t) /\ UNCHANGED <<got, idled>>
    BY <1>1, <1>13 DEF Hears
  <2>2. PICK how \in {"ok", "error"} :
           /\ stage' = [stage EXCEPT ![t] = "over"] /\ step' = [step EXCEPT ![t] = "none"]
           /\ outcome' = [outcome EXCEPT ![t] = how]
    BY <2>1, EndsSomehow
  <2>3. \A u \in Turns : Listening(u)' <=> Listening(u) /\ u # t
    BY <2>2 DEF Listening, AnswerInv, AnswerType
  <2>4. AnswerType'
    BY <1>1, <1>2, <1>9, <2>1, <2>2 DEF AnswerInv, AnswerType
  <2>5. StepsRun' /\ AskedLast' /\ NothingYet' /\ WorkHeard' /\ IdledOver'
    <3>1. /\ stage'[t] = "over" /\ step'[t] = "none"
          /\ \A u \in Turns : u # t => stage'[u] = stage[u] /\ step'[u] = step[u]
      BY <1>1, <2>2 DEF AnswerInv, AnswerType, LineInv
    <3> QED BY <1>2, <1>6, <1>13, <2>1, <2>3, <3>1
            DEF AnswerInv, StepsRun, AskedLast, NothingYet, WorkHeard, IdledOver
  <2>6. InFlight'
    BY <1>7, <1>13, <2>1, <2>3
  <2>7. Heard'
    BY <1>11, <1>13, <2>1, <2>3
  <2>8. Ended'
    BY <1>1, <2>2 DEF AnswerInv, AnswerType, LineInv, Ended
  <2> QED BY <2>4, <2>5, <2>6, <2>7, <2>8 DEF AnswerInv
<1> QED BY <1>3, <1>10, <1>12, <1>13

LEMMA StepAnswer == LineInv /\ AnswerInv /\ [SessionsStep]_sessionsVars => AnswerInv'
<1> SUFFICES ASSUME LineInv, AnswerInv, [SessionsStep]_sessionsVars PROVE AnswerInv'
  OBVIOUS
<1>1. CASE \/ Boots \/ Migration \/ StartAnswers \/ Ready \/ \E t \in Turns : Leaves(t)
           \/ UNCHANGED sessionsVars
  BY <1>1, AnswerKept DEF Boots, Migration, StartAnswers, Ready, Leaves, sessionsVars, answerVars,
                          queueVars, promptVars, agentVars
<1>2. CASE Exit \/ TornStore \/ Replaced
  BY <1>2, ExitsAnswer DEF Exit, TornStore, Replaced
<1>3. CASE Deliver
  BY <1>3, DeliverAnswer
<1>4. ASSUME NEW t \in Turns, Arrives(t) \/ Prompting(t) \/ Speaks(t)
      PROVE  AnswerInv'
  BY <1>4, ArrivesAnswer, PromptingAnswer, SpeaksAnswer
<1>5. ASSUME NEW t \in Turns, Working(t)
      PROVE  AnswerInv'
  BY <1>5, TakesAnswer, FinishesAnswer, AbortAnswer DEF Working
<1> QED BY <1>1, <1>2, <1>3, <1>4, <1>5 DEF SessionsStep, SessionsNext

(* A turn that ends well, with no text under way, has them all.             *)
LEMMA EndsWhole ==
    ASSUME AnswerInv, NEW t \in Turns, Listening(t), job[t] = "over", Underway(t) = {},
           t \notin failed, Ends(t), answer \in [Turns -> Seq(Texts)]
    PROVE  answer'[t] = IF ~Is("pi", "native") THEN AllSaid(t)
                       ELSE IF said[t] = 0 THEN answer'[t]
                       ELSE IF t \in Streamed THEN AllSaid(t)
                       ELSE << <<t, said[t]>> >>
<1>1. PICK final \in Finals(t) : answer'[t] = Told(t, final)
  BY DEF Ends
<1>2. HeardOf(t) /\ said[t] \in Nat /\ Len(got[t]) \in Nat
  BY DEF AnswerInv, AnswerType, Heard
<1>3. said[t] = Len(got[t])
  <2>1. ~(Len(got[t]) < said[t])
    BY <1>2 DEF HeardOf
  <2> QED BY <1>2, <2>1 DEF HeardOf
<1>4. got[t] = AllSaid(t) /\ (got[t] = <<>> => said[t] = 0)
  BY <1>2, <1>3 DEF HeardOf, OwnTexts, AllSaid
<1>5. CASE ~Is("pi", "native")
  BY <1>1, <1>4, <1>5 DEF Finals, Told
<1>6. CASE Is("pi", "native") /\ said[t] # 0
  <2>1. LastSpoken(t) = {t}
    BY <1>2, <1>6 DEF LastSpoken
  <2>2. final = << <<t, said[t]>> >>
    BY <1>1, <1>6, <2>1 DEF Finals
  <2> QED BY <1>1, <1>4, <1>6, <2>2 DEF Told
<1> QED BY <1>5, <1>6

LEMMA WholeAtEnd ==
    ASSUME LineInv, AnswerInv, answer \in [Turns -> Seq(Texts)], [SessionsStep]_sessionsVars,
           NEW t \in Turns, outcome[t] # "ok", outcome'[t] = "ok"
    PROVE  Listening(t) /\ job[t] = "over" /\ Underway(t) = {} /\ t \notin failed /\ Ends(t)
<1>t. outcome \in [Turns -> {"none", "ok", "error", "lost"}]
  BY DEF AnswerInv, AnswerType
<1>1. CASE \/ Boots \/ Migration \/ StartAnswers \/ Ready \/ UNCHANGED sessionsVars
           \/ \E u \in Turns : Arrives(u) \/ Working(u) \/ Speaks(u) \/ Leaves(u)
  <2>1. UNCHANGED outcome
    BY <1>1 DEF Boots, Migration, StartAnswers, Ready, Arrives, Working, Takes, Finishes, AbortArrives,
                Speaks, Leaves, sessionsVars, promptVars
  <2> QED BY <2>1
<1>2. CASE Exit \/ TornStore \/ Replaced
  <2>1. outcome' = [u \in Turns |-> IF InLine(u) THEN "lost" ELSE outcome[u]]
    BY <1>2 DEF Exit, TornStore, Replaced, Exits
  <2> QED BY <2>1
<1>3. ASSUME NEW u \in Turns, Prompting(u)
      PROVE  /\ u = t /\ PostReplies(t) /\ Over(t) /\ Ends(t) /\ t \notin failed
  <2>1. CASE Begins(u) \/ Opened(u) \/ NotOpened(u)
    BY <2>1 DEF Begins, Opened, NotOpened, Sends
  <2>2. CASE Created(u) \/ Refused(u)
    BY <1>t, <2>2 DEF Created, Refused, Sends, Fails
  <2>3. CASE PostReplies(u)
    BY <1>t, <2>3 DEF PostReplies, Ends, Fails
  <2> QED BY <1>3, <2>1, <2>2, <2>3 DEF Prompting
<1>4. CASE \E u \in Turns : Prompting(u)
  <2>1. PostReplies(t) /\ t \in idled /\ Ends(t) /\ t \notin failed
    BY <1>3, <1>4 DEF Over
  <2>2. Listening(t) /\ job[t] = "over"
    BY <2>1 DEF PostReplies, Listening, AnswerInv, IdledOver
  <2>3. Underway(t) = {}
    BY <2>1, NoneInFlight DEF Underway
  <2> QED BY <2>1, <2>2, <2>3
<1>5. CASE Deliver
  <2>1. PICK u \in Turns, e \in Events : /\ e = events[1] /\ 1 \in DOMAIN events
                                         /\ e.turn = u /\ Hears(u, e)
    BY <1>5, HeardByItsOwn
  <2>2. e.kind = "idle" /\ Ends(u)
    BY <2>1 DEF Hears
  <2>3. u = t /\ t \notin failed
    BY <1>t, <2>2 DEF Ends, Fails
  <2>4. Awaited(1)
    BY <2>1 DEF AnswerInv, InFlight
  <2>5. Listening(t) /\ job[t] = "over"
    BY <2>1, <2>2, <2>3, <2>4 DEF Awaited
  <2>6. Underway(t) = {}
    <3>1. \A i \in DOMAIN events : i > 1 => events[i].turn # t
      BY <2>1, <2>2, <2>3, <2>4 DEF Awaited
    <3>2. \A i \in DOMAIN events : i = 1 \/ i > 1
      BY DEF AnswerInv, AnswerType
    <3> QED BY <2>1, <2>2, <3>1, <3>2 DEF Underway
  <2> QED BY <2>2, <2>3, <2>5, <2>6
<1> QED BY <1>1, <1>2, <1>4, <1>5 DEF SessionsStep, SessionsNext

LEMMA AnswersTyped ==
    ASSUME AnswerInv, answer \in [Turns -> Seq(Texts)], [SessionsStep]_sessionsVars
    PROVE  answer' \in [Turns -> Seq(Texts)]
<1>1. ASSUME NEW t \in Turns, Ends(t)
      PROVE  answer' \in [Turns -> Seq(Texts)]
  <2>1. CASE Fails(t)
    BY <2>1 DEF Fails
  <2>2. ASSUME NEW final \in Finals(t), answer' = [answer EXCEPT ![t] = Told(t, final)]
        PROVE  answer' \in [Turns -> Seq(Texts)]
    <3>1. got[t] \in Seq(Texts) /\ \A u \in Turns : <<u, said[u]>> \in Texts
      BY DEF AnswerInv, AnswerType, Texts
    <3>2. \A u \in LastSpoken(t) : u \in Turns
      BY DEF LastSpoken
    <3>3. final \in Seq(Texts)
      <4>1. CASE final = got[t]
        BY <3>1, <4>1
      <4>2. ASSUME NEW u \in LastSpoken(t), final = << <<u, said[u]>> >> PROVE final \in Seq(Texts)
        <5>1. PICK x \in Texts : x = <<u, said[u]>>
          BY <3>1, <3>2
        <5> QED BY <4>2, <5>1
      <4>3. CASE final = <<>>
        BY <4>3
      <4> QED BY <4>1, <4>2, <4>3 DEF Finals
    <3>4. Told(t, final) \in Seq(Texts)
      BY <3>1, <3>3 DEF Told
    <3> QED BY <2>2, <3>4
  <2> QED BY <1>1, <2>1, <2>2 DEF Ends
<1>2. CASE \/ Boots \/ Migration \/ StartAnswers \/ Ready \/ Exit \/ TornStore \/ Replaced
           \/ \E u \in Turns : Arrives(u) \/ Working(u) \/ Speaks(u) \/ Leaves(u)
           \/ UNCHANGED sessionsVars
  <2>1. UNCHANGED answer
    BY <1>2 DEF Boots, Migration, StartAnswers, Ready, Exit, TornStore, Replaced, Exits, Arrives,
                Working, Takes, Finishes, AbortArrives, Speaks, Leaves, sessionsVars, promptVars
  <2> QED BY <2>1
<1>3. ASSUME NEW t \in Turns, Prompting(t)
      PROVE  answer' \in [Turns -> Seq(Texts)]
  <2>1. UNCHANGED answer \/ Ends(t)
    BY <1>3 DEF Prompting, Begins, Opened, NotOpened, Created, Refused, PostReplies, Sends, Fails
  <2> QED BY <1>1, <2>1
<1>4. CASE Deliver
  <2>1. UNCHANGED answer \/ \E t \in Turns : Ends(t)
    BY <1>4 DEF Deliver, Listeners, Hears
  <2> QED BY <1>1, <2>1
<1> QED BY <1>2, <1>3, <1>4 DEF SessionsStep, SessionsNext

(* A request that ends well is answered with all the agent said, or as pi   *)
(* does, ...                                                                *)
THEOREM AnswersWhole == SessionsSpec => WholeAnswer
<1> DEFINE I == LineInv /\ AnswerInv /\ answer \in [Turns -> Seq(Texts)]
           A == \A t \in Turns : outcome[t] # "ok" /\ outcome'[t] = "ok" =>
                   LET whole == [n \in 1..said[t] |-> <<t, n>>]
                   IN  /\ job[t] = "over"
                       /\ answer'[t] = IF ~Is("pi", "native") THEN whole
                                       ELSE IF said[t] = 0 THEN answer'[t]
                                       ELSE IF t \in Streamed THEN whole
                                       ELSE << <<t, said[t]>> >>
<1>1. SessionsInit => I
  BY InitLine, InitAnswer DEF SessionsInit
<1>2. I /\ [SessionsStep]_sessionsVars => I'
  BY StepLine, SessionsQueue, StepAnswer, AnswersTyped
<1>3. I /\ [SessionsStep]_sessionsVars => [A]_sessionsVars
  BY WholeAtEnd, EndsWhole DEF AllSaid
<1> QED BY <1>1, <1>2, <1>3, PTL DEF SessionsSpec, SessionsStep, WholeAnswer
----------------------------------------------------------------------------
(* Who is stopped.  An abort comes from a client that left; over pipes and  *)
(* in process no other message of its chat is at work when it arrives.      *)
AbortsInv == /\ job \in [Turns -> {"none", "working", "over"}]
             /\ \A a \in aborts : a[1] \in closed
             /\ runtime # "opencode" =>
                   \A a \in aborts, u \in Turns :
                      job[u] = "working" /\ ChatOf[u] = ChatOf[a[1]] => u = a[1]

StopInv == AbortsInv /\ OnlyLeaversStopped

stopVars == <<runtime, job, aborts, closed, cut>>

LEMMA StepStop == /\ LineInv /\ AnswerInv /\ StopInv /\ [SessionsStep]_sessionsVars
                  => StopInv'
<1> SUFFICES ASSUME LineInv, AnswerInv, StopInv, [SessionsStep]_sessionsVars PROVE StopInv'
  OBVIOUS
<1>1. CASE \/ Boots \/ Migration \/ StartAnswers \/ Ready \/ Deliver
           \/ \E t \in Turns : Arrives(t) \/ Prompting(t) \/ Speaks(t)
           \/ UNCHANGED sessionsVars
  <2>1. UNCHANGED stopVars
    BY <1>1 DEF Boots, Migration, StartAnswers, Ready, Deliver, Arrives, Prompting, Begins, Opened,
                NotOpened, Created, Refused, PostReplies, Speaks, sessionsVars, podStateVars,
                agentVars, clientVars, stopVars
  <2> QED BY <2>1 DEF StopInv, AbortsInv, OnlyLeaversStopped, stopVars
<1>2. CASE Exit \/ TornStore \/ Replaced
  <2>1. /\ aborts' = {} /\ UNCHANGED <<runtime, closed, cut>>
        /\ job' = [t \in Turns |-> IF job[t] = "working" THEN "over" ELSE job[t]]
    BY <1>2 DEF Exit, TornStore, Replaced, Exits
  <2> QED BY <2>1 DEF StopInv, AbortsInv, OnlyLeaversStopped
<1>3. ASSUME NEW t \in Turns, Takes(t)
      PROVE  StopInv'
  <2>1. /\ job' = [job EXCEPT ![t] = "working"] /\ UNCHANGED <<runtime, aborts, closed, cut>>
        /\ InOrder(t)
    BY <1>3 DEF Takes, podStateVars, clientVars
  <2>2. runtime # "opencode" => \A a \in aborts : ChatOf[a[1]] # ChatOf[t] \/ a[1] = t
    BY <2>1 DEF InOrder, Http, Is
  <2> QED BY <2>1, <2>2 DEF StopInv, AbortsInv, OnlyLeaversStopped
<1>4. ASSUME NEW t \in Turns, Finishes(t)
      PROVE  StopInv'
  <2>1. job' = [job EXCEPT ![t] = "over"] /\ UNCHANGED <<runtime, aborts, closed, cut>>
    BY <1>4 DEF Finishes, podStateVars, clientVars
  <2> QED BY <2>1 DEF StopInv, AbortsInv, OnlyLeaversStopped
<1>5. ASSUME NEW a, AbortArrives(a)
      PROVE  StopInv'
  <2>1. /\ a \in aborts /\ aborts' = aborts \ {a} /\ cut' = cut \cup Stopped(a)
        /\ job' = [u \in Turns |-> IF u \in Stopped(a) THEN "over" ELSE job[u]]
        /\ UNCHANGED <<runtime, closed>>
    BY <1>5 DEF AbortArrives, podStateVars
  <2>2. AbortsInv'
    BY <2>1 DEF StopInv, AbortsInv
  <2>3. ASSUME NEW u \in Stopped(a)
        PROVE  u \in closed \/ (runtime = "opencode" /\ \E v \in closed : ChatOf[v] = ChatOf[u])
    <3>1. u \in Turns /\ job[u] = "working" /\ ChatOf[u] = ChatOf[a[1]] /\ a[1] \in closed
      BY <2>1 DEF Stopped, StopInv, AbortsInv
    <3> QED BY <2>1, <3>1 DEF StopInv, AbortsInv
  <2>4. OnlyLeaversStopped'
    BY <2>1, <2>3 DEF StopInv, OnlyLeaversStopped
  <2> QED BY <2>2, <2>4 DEF StopInv
<1>6. ASSUME NEW t \in Turns, Leaves(t)
      PROVE  StopInv'
  <2>1. /\ closed' = closed \cup {t} /\ aborts' = aborts \cup AbortsBy(t)
        /\ UNCHANGED <<runtime, job, cut>>
    BY <1>6 DEF Leaves, podStateVars, agentVars
  <2>2. ASSUME NEW a \in AbortsBy(t), NEW u \in Turns, job[u] = "working", ChatOf[u] = ChatOf[a[1]]
        PROVE  u = a[1]
    <3>1. a[1] = t /\ Listening(t) /\ Listening(u)
      BY <2>2 DEF AbortsBy, AnswerInv, WorkHeard
    <3>2. stage[t] = "running" /\ stage[u] = "running"
      BY <3>1 DEF AnswerInv, StepsRun, Listening
    <3> QED BY <2>2, <3>1, <3>2, OneRunning
  <2>3. \A a \in AbortsBy(t) : a[1] = t
    BY DEF AbortsBy
  <2> QED BY <2>1, <2>2, <2>3 DEF StopInv, AbortsInv, OnlyLeaversStopped
<1> QED BY <1>1, <1>2, <1>3, <1>4, <1>5, <1>6 DEF SessionsStep, SessionsNext, Working

(* ... and no prompt is stopped for a client that did not leave.            *)
THEOREM LeaversStopped == SessionsSpec => []OnlyLeaversStopped
<1> DEFINE I == LineInv /\ AnswerInv /\ StopInv
<1>1. SessionsInit => I
  BY InitLine, InitAnswer DEF SessionsInit, StopInv, AbortsInv, OnlyLeaversStopped
<1>2. I /\ [SessionsStep]_sessionsVars => I'
  BY StepLine, SessionsQueue, StepAnswer, StepStop
<1>3. I => OnlyLeaversStopped
  BY DEF StopInv
<1> QED BY <1>1, <1>2, <1>3, PTL DEF SessionsSpec, SessionsStep

----------------------------------------------------------------------------
(* Where a chat's history is: in the session the chat map on disk gives, or *)
(* in the only file pi has for the chat.                                    *)
Home(c) == IF savedMap[c] # 0 THEN savedMap[c] ELSE files[c]

ChatHome(c) ==
    /\ prompted[c] \subseteq {Home(c)} \ {0}
    /\ \A t \in Turns : ChatOf[t] = c /\ Listening(t) => sid[t] = Home(c) /\ Home(c) # 0
    /\ c \in open => Home(c) # 0
    /\ up = "ready" => map[c] = savedMap[c]
    /\ Is("pi", "native") => savedMap[c] \in {0, files[c]}
    /\ Is("pi", "acp") /\ up \in {"starting", "ready"} => c \notin Migrating
    /\ runtime = "pi" /\ savedMap[c] # 0 => <<c, savedMap[c]>> \in store
    /\ up = "migrated" /\ c \in Migrating => <<c, files[c]>> \in store
    /\ \A t \in Turns : ChatOf[t] = c /\ step[t] = "open" /\ ~Is("pi", "native") => map[c] # 0
    /\ \A t \in Turns : ChatOf[t] = c /\ step[t] = "create" => map[c] = 0 /\ ~Is("pi", "native")

HomeType == /\ step \in [Turns -> {"none", "open", "create", "send", "await"}]
            /\ sid \in [Turns -> Nat]
            /\ map \in [Chats -> Nat] /\ savedMap \in [Chats -> Nat]
            /\ files \in [Chats -> Nat] /\ made \in [Chats -> Nat]
            /\ prompted \in [Chats -> SUBSET Nat]
            /\ \A t \in Turns : InLine(t) => up = "ready"
            /\ runtime # "pi" => \A c \in Chats : files[c] = 0

ProtocolType == protocol \in {"acp", "native"}

HomeInv == ProtocolType /\ HomeType /\ \A c \in Chats \ excused : ChatHome(c)

LEMMA StepProtocol == ProtocolType /\ [SessionsStep]_sessionsVars => ProtocolType'
BY DEF SessionsStep, SessionsNext, Boots, Migration, StartAnswers, Ready, Exit, TornStore, Replaced,
       Exits, Deliver, Arrives, Prompting, Begins, Opened, NotOpened, Created, Refused, PostReplies,
       Working, Takes, Finishes, AbortArrives, Speaks, Leaves, podStateVars, sessionsVars,
       ProtocolType

LEMMA StepHomeType ==
    LineInv /\ AnswerInv /\ HomeType /\ [SessionsStep]_sessionsVars => HomeType'
<1> SUFFICES ASSUME LineInv, AnswerInv, HomeType, [SessionsStep]_sessionsVars PROVE HomeType'
  OBVIOUS
<1>1. CASE Boots \/ Ready \/ StartAnswers
  BY <1>1 DEF Boots, Ready, StartAnswers, HomeType, mapVars, diskVars, promptVars, agentVars, queueVars,
              InLine
<1>2. CASE Migration
  <2>1. /\ up \in {"migrating", "migrated"}
        /\ \/ UNCHANGED savedMap
           \/ savedMap' = [c \in Chats |-> IF c \in Migrating THEN files[c] ELSE savedMap[c]]
        /\ UNCHANGED <<queueVars, step, sid, map, files, made, prompted, runtime>>
    BY <1>2 DEF Migration, Migrates, IntoStore, IntoMap, promptVars, agentVars
  <2> QED BY <2>1 DEF HomeType, queueVars, InLine
<1>3. CASE Exit \/ TornStore \/ Replaced
  <2>1. Exits
    BY <1>3 DEF Exit, TornStore, Replaced
  <2> QED BY <2>1 DEF Exits, Disperse, HomeType, NoSession, InLine
<1>4. CASE Deliver \/ \E t \in Turns : Leaves(t) \/ Finishes(t) \/ Speaks(t) \/ PostReplies(t) \/ Refused(t)
  <2>1. /\ UNCHANGED <<sid, map, savedMap, files, made, prompted, up, runtime>>
        /\ UNCHANGED queueVars \/ \E t \in Turns : Leave(t)
    BY <1>4 DEF Deliver, Hears, Listeners, Ends, Fails, Leaves, Finishes, Speaks, PostReplies, Refused, mapVars,
                diskVars, promptVars, agentVars, podStateVars
  <2>2. step' \in [Turns -> {"none", "open", "create", "send", "await"}]
    BY StepAnswer DEF AnswerInv, AnswerType
  <2>3. \A t \in Turns : InLine(t)' => InLine(t)
    BY <2>1 DEF Leave, queueVars, InLine, LineInv
  <2> QED BY <2>1, <2>2, <2>3 DEF HomeType
<1>5. ASSUME NEW t \in Turns, Arrives(t)
      PROVE  HomeType'
  BY <1>5 DEF Arrives, Join, HomeType, mapVars, diskVars, promptVars, agentVars, podStateVars, InLine
<1>6. ASSUME NEW a, AbortArrives(a)
      PROVE  HomeType'
  BY <1>6 DEF AbortArrives, HomeType, mapVars, diskVars, promptVars, podStateVars, queueVars, InLine
<1>7. ASSUME NEW t \in Turns, Takes(t)
      PROVE  HomeType'
  <2>1. ChatOf[t] \in Chats
    OBVIOUS
  <2> QED BY <1>7, <2>1 DEF Takes, HomeType, mapVars, diskVars, promptVars, podStateVars, queueVars, InLine
<1>8. ASSUME NEW t \in Turns, Begins(t)
      PROVE  HomeType'
  <2>1. Session(ChatOf[t]) \in Nat /\ stage[t] = "waiting" /\ stage' = [stage EXCEPT ![t] = "running"]
    BY <1>8 DEF Session, HomeType, Begins, Begin
  <2>2. /\ UNCHANGED <<map, savedMap, files, made, prompted, up, runtime>>
        /\ UNCHANGED sid \/ sid' = [sid EXCEPT ![t] = Session(ChatOf[t])]
    BY <1>8 DEF Begins, Sends, mapVars, diskVars, podStateVars, agentVars
  <2>3. step' \in [Turns -> {"none", "open", "create", "send", "await"}]
    BY <1>8, StepAnswer DEF AnswerInv, AnswerType
  <2>4. \A u \in Turns : InLine(u)' => InLine(u)
    BY <2>1 DEF InLine, LineInv
  <2> QED BY <2>1, <2>2, <2>3, <2>4 DEF HomeType
<1>9. ASSUME NEW t \in Turns, Opened(t) \/ NotOpened(t) \/ Created(t)
      PROVE  HomeType'
  <2>1. step' \in [Turns -> {"none", "open", "create", "send", "await"}]
    BY StepAnswer DEF AnswerInv, AnswerType
  <2>2. \A u \in Turns : InLine(u)' => InLine(u)
    BY <1>9 DEF Opened, NotOpened, Created, Ends, Fails, Leave, queueVars, InLine, LineInv
  <2>3. UNCHANGED <<prompted, up, runtime>> /\ ChatOf[t] \in Chats
    BY <1>9 DEF Opened, NotOpened, Created, agentVars, podStateVars
  <2>4. CASE NotOpened(t)
    BY <2>1, <2>2, <2>3, <2>4 DEF NotOpened, HomeType, diskVars
  <2>5. CASE Opened(t)
    <3> DEFINE c == ChatOf[t]
    <3>1. PICK n \in Nat : /\ sid' = [sid EXCEPT ![t] = n] /\ UNCHANGED <<map, savedMap>>
                           /\ made' = [made EXCEPT ![c] = IF n > @ THEN n ELSE @]
                           /\ files' = IF Is("pi", "native") THEN [files EXCEPT ![c] = n] ELSE files
      <4>1. (IF Session(c) = 0 THEN made[c] + 1 ELSE Session(c)) \in Nat
        BY <2>3 DEF Session, HomeType
      <4> QED BY <2>5, <4>1 DEF Opened, Sends
    <3> QED BY <2>1, <2>2, <2>3, <3>1 DEF HomeType, Is
  <2>6. CASE Created(t)
    <3>1. made' = [made EXCEPT ![ChatOf[t]] = @ + 1] /\ map' = [map EXCEPT ![ChatOf[t]] = made'[ChatOf[t]]]
          /\ UNCHANGED files
      BY <2>6 DEF Created
    <3>2. made' \in [Chats -> Nat] /\ map' \in [Chats -> Nat]
      BY <2>3, <3>1 DEF HomeType
    <3>3. savedMap' \in {savedMap, map'} /\ (UNCHANGED sid \/ sid' = [sid EXCEPT ![t] = made'[ChatOf[t]]])
      BY <2>6 DEF Created, Sends
    <3>4. sid' \in [Turns -> Nat] /\ savedMap' \in [Chats -> Nat]
      BY <2>3, <3>2, <3>3 DEF HomeType
    <3> QED BY <2>1, <2>2, <2>3, <3>1, <3>2, <3>4 DEF HomeType
  <2> QED BY <1>9, <2>4, <2>5, <2>6
<1>10. CASE UNCHANGED sessionsVars
  BY <1>10 DEF sessionsVars, HomeType, mapVars, diskVars, promptVars, podStateVars, agentVars, queueVars,
               InLine
<1> QED BY <1>1, <1>2, <1>3, <1>4, <1>5, <1>6, <1>7, <1>8, <1>9, <1>10
        DEF SessionsStep, SessionsNext, Prompting, Working

homeVars == <<runtime, protocol, up, map, savedMap, files, store, open, step, sid, prompted>>

LEMMA HomeKept ==
    ASSUME NEW c, ChatHome(c), UNCHANGED homeVars
    PROVE  ChatHome(c)'
BY DEF ChatHome, Home, Listening, Is, Migrating, homeVars

(* Of a chat, one turn is in prompt() at a time.                            *)
LEMMA OnePrompting ==
    ASSUME LineInv, AnswerInv, NEW t \in Turns, NEW u \in Turns, ChatOf[t] = ChatOf[u],
           step[t] # "none", step[u] # "none"
    PROVE  t = u
BY OneRunning DEF AnswerInv, StepsRun

(* Only while the adapter is ready is a turn in prompt().                   *)
LEMMA PromptsWhenReady ==
    ASSUME AnswerInv, HomeType, NEW t \in Turns, step[t] # "none"
    PROVE  up = "ready"
BY DEF AnswerInv, StepsRun, HomeType, InLine

(* start(), the moves of pi's chats and an exit leave every chat at home.   *)
LEMMA StartHome ==
    ASSUME AnswerInv, HomeType, Boots \/ Migration \/ StartAnswers \/ Ready,
           NEW c \in Chats, ChatHome(c)
    PROVE  ChatHome(c)'
<1>1. up # "ready" /\ \A t \in Turns : step[t] = "none"
  <2>1. up # "ready"
    BY DEF Boots, Migration, Migrates, StartAnswers, Ready
  <2> QED BY <2>1, PromptsWhenReady
<1>2. UNCHANGED <<runtime, protocol, files, open, step, sid, prompted>>
  BY DEF Boots, Migration, StartAnswers, Ready, mapVars, diskVars, promptVars, agentVars
<1>3. CASE Boots
  BY <1>1, <1>2, <1>3 DEF Boots, ChatHome, Home, Listening, Is, Migrating, mapVars, diskVars
<1>4. CASE Migration
  <2>1. CASE up' = "migrated" /\ IntoStore /\ UNCHANGED map
    <3>1. store \subseteq store' /\ (c \in Migrating' => <<c, files'[c]>> \in store')
      BY <1>2, <2>1 DEF IntoStore, Migrating
    <3> QED BY <1>1, <1>2, <2>1, <3>1 DEF IntoStore, ChatHome, Home, Listening, Is
  <2>2. CASE up = "migrated" /\ up' = "starting" /\ IntoMap /\ UNCHANGED map
    <3>1. savedMap'[c] = IF c \in Migrating THEN files[c] ELSE savedMap[c]
      BY <2>2 DEF IntoMap
    <3>2. UNCHANGED store /\ Home(c)' = Home(c)
      BY <1>2, <2>2, <3>1 DEF IntoMap, Home, Migrating
    <3>3. c \notin Migrating'
      BY <1>2, <3>1 DEF Migrating
    <3> QED BY <1>1, <1>2, <2>2, <3>1, <3>2, <3>3 DEF ChatHome, Listening, Is
  <2> QED BY <1>4, <2>1, <2>2 DEF Migration, Migrates
<1>5. CASE StartAnswers
  BY <1>2, <1>5, HomeKept DEF StartAnswers, mapVars, diskVars, homeVars
<1>6. CASE Ready
  BY <1>1, <1>2, <1>6 DEF Ready, ChatHome, Home, Listening, Is, Migrating, diskVars
<1> QED BY <1>3, <1>4, <1>5, <1>6

LEMMA ExitHome ==
    ASSUME Exit \/ TornStore \/ Replaced, NEW c \in Chats \ excused', ChatHome(c)
    PROVE  ChatHome(c)'
<1>1. /\ UNCHANGED <<runtime, savedMap, files, prompted>> /\ up' = "down" /\ open' = {}
      /\ \A t \in Turns : step'[t] = "none"
  BY DEF Exit, TornStore, Replaced, Exits
<1>2. runtime = "pi" /\ savedMap[c] # 0 => <<c, savedMap[c]>> \in store'
  BY DEF Exit, TornStore, Replaced, ChatHome
<1>3. Is("pi", "native")' => savedMap[c] \in {0, files[c]}
  BY <1>1 DEF Exit, TornStore, Replaced, ChatHome, Is
<1> QED BY <1>1, <1>2, <1>3 DEF ChatHome, Home, Listening, Is

(* prompt(): the prompt goes to the session with the chat's history.        *)
LEMMA BeginsHome ==
    ASSUME ProtocolType, HomeType, NEW t \in Turns, Begins(t), NEW c \in Chats, ChatHome(c)
    PROVE  ChatHome(c)'
<1>1. /\ UNCHANGED <<runtime, protocol, up, map, savedMap, files, store, open, prompted>>
      /\ up = "ready"
  BY DEF Begins, Begin, mapVars, diskVars, podStateVars, agentVars, HomeType, InLine
<1>2. /\ Home(c)' = Home(c) /\ Migrating' = Migrating /\ \A r, p : Is(r, p)' <=> Is(r, p)
  BY <1>1 DEF Home, Migrating, Is
<1>3. \A u \in Turns : u # t => step'[u] = step[u] /\ sid'[u] = sid[u]
  BY DEF Begins, Sends, HomeType
<1>4. CASE ChatOf[t] # c
  BY <1>1, <1>2, <1>3, <1>4 DEF ChatHome, Listening
<1>5. CASE ChatOf[t] = c /\ c \in open /\ Sends(t, Session(c))
  <2>1. sid'[t] = Session(c) /\ step'[t] \in {"send", "await"}
    BY <1>5 DEF Sends, HomeType
  <2>2. Session(c) = Home(c) /\ Home(c) # 0
    BY <1>1, <1>5 DEF ChatHome, Session, Home, Is, Migrating, ProtocolType, HomeType
  <2> QED BY <1>1, <1>2, <1>3, <1>5, <2>1, <2>2 DEF ChatHome, Listening
<1>6. CASE /\ ChatOf[t] = c /\ UNCHANGED sid
           /\ step' = [step EXCEPT ![t] = IF map[c] # 0 \/ Is("pi", "native") THEN "open" ELSE "create"]
  <2>1. step'[t] = IF map[c] # 0 \/ Is("pi", "native") THEN "open" ELSE "create"
    BY <1>6 DEF HomeType
  <2> QED BY <1>1, <1>2, <1>3, <1>6, <2>1 DEF ChatHome, Listening
<1> QED BY <1>4, <1>5, <1>6 DEF Begins

LEMMA OpenedHome ==
    ASSUME AnswerInv, HomeType, NEW t \in Turns, Opened(t), NEW c \in Chats, ChatHome(c)
    PROVE  ChatHome(c)'
<1>1. UNCHANGED <<runtime, protocol, up, map, savedMap, store, prompted>> /\ up = "ready"
  BY PromptsWhenReady DEF Opened, podStateVars, agentVars
<1>2. \A r, p : Is(r, p)' <=> Is(r, p)
  BY <1>1 DEF Is
<1>3. \A u \in Turns : u # t => step'[u] = step[u] /\ sid'[u] = sid[u]
  BY DEF Opened, Sends, HomeType
<1>4. CASE ChatOf[t] # c
  <2>1. files'[c] = files[c] /\ (c \in open' <=> c \in open)
    BY <1>4 DEF Opened, HomeType
  <2> QED BY <1>1, <1>2, <1>3, <1>4, <2>1 DEF ChatHome, Listening, Home, Migrating
<1>5. CASE ChatOf[t] = c
  <2> DEFINE n == IF Session(c) = 0 THEN made[c] + 1 ELSE Session(c)
  <2>1. /\ sid'[t] = n /\ step'[t] \in {"send", "await"} /\ n # 0 /\ n \in Nat
    BY <1>5 DEF Opened, Sends, HomeType, Session
  <2>2. CASE Is("pi", "native")
    <3>1. files'[c] = n /\ (files[c] # 0 => n = files[c])
      BY <1>5, <2>2 DEF Opened, HomeType, Session
    <3>2. savedMap[c] \in {0, files[c]}
      BY <2>2 DEF ChatHome
    <3>3. Home(c)' = n /\ (Home(c) # 0 => Home(c) = n) /\ savedMap'[c] \in {0, files'[c]}
      BY <1>1, <2>1, <3>1, <3>2 DEF Home
    <3> QED BY <1>1, <1>2, <1>3, <1>5, <2>1, <2>2, <3>3 DEF ChatHome, Listening, Is
  <2>3. CASE ~Is("pi", "native")
    <3>1. UNCHANGED files /\ Home(c)' = Home(c) /\ Migrating' = Migrating
      BY <1>1, <2>3 DEF Opened, Home, Migrating
    <3>2. n = map[c] /\ map[c] = savedMap[c] /\ map[c] # 0 /\ Home(c) = n
      BY <1>1, <1>5, <2>3 DEF Opened, ChatHome, Session, Home
    <3> QED BY <1>1, <1>2, <1>3, <1>5, <2>1, <3>1, <3>2 DEF ChatHome, Listening
  <2> QED BY <2>2, <2>3
<1> QED BY <1>4, <1>5

(* A session that is in the agent's store is opened unless it is refused.   *)
LEMMA NotOpenedHome ==
    ASSUME AnswerInv, HomeType, NEW t \in Turns, NotOpened(t),
           NEW c \in Chats \ excused', ChatHome(c)
    PROVE  ChatHome(c)'
<1>1. /\ UNCHANGED <<runtime, protocol, up, map, savedMap, files, store, open, sid, prompted>>
      /\ up = "ready" /\ step[t] = "open" /\ ~Is("pi", "native")
  BY PromptsWhenReady DEF NotOpened, podStateVars, diskVars, agentVars
<1>2. ChatOf[t] # c
  <2>1. SUFFICES ASSUME ChatOf[t] = c PROVE FALSE
    OBVIOUS
  <2>2. ~AgentHas(c)
    BY <2>1 DEF NotOpened
  <2> QED BY <1>1, <2>1, <2>2 DEF AgentHas, ChatHome, Is
<1>3. \A u \in Turns : u # t => step'[u] = step[u]
  BY DEF NotOpened, HomeType
<1> QED BY <1>1, <1>2, <1>3 DEF ChatHome, Listening, Home, Migrating, Is

(* A session is made for a chat that has none.                              *)
LEMMA CreatedHome ==
    ASSUME LineInv, AnswerInv, ProtocolType, HomeType, NEW t \in Turns, Created(t),
           NEW c \in Chats \ excused', ChatHome(c)
    PROVE  ChatHome(c)'
<1> DEFINE d == ChatOf[t]
<1>1. /\ UNCHANGED <<runtime, protocol, up, files, prompted>>
      /\ up = "ready" /\ step[t] = "create" /\ d \in Chats
  BY PromptsWhenReady DEF Created, podStateVars, agentVars
<1>2. /\ made'[d] \in Nat /\ made'[d] # 0 /\ map' = [map EXCEPT ![d] = made'[d]]
      /\ store \subseteq store' /\ (Is("pi", "acp") => <<d, made'[d]>> \in store')
  BY <1>1 DEF Created, HomeType
<1>3. /\ \A u \in Turns : u # t => step'[u] = step[u] /\ sid'[u] = sid[u]
      /\ step'[t] \in {"none", "send", "await"}
  BY DEF Created, Sends, Fails, HomeType
<1>4. \A r, p : Is(r, p)' <=> Is(r, p)
  BY <1>1 DEF Is
<1>5. CASE d # c
  <2>1. savedMap'[c] = savedMap[c] /\ map'[c] = map[c] /\ (c \in open' <=> c \in open)
    BY <1>1, <1>2, <1>5 DEF Created, ChatHome, HomeType
  <2> QED BY <1>1, <1>2, <1>3, <1>4, <1>5, <2>1 DEF ChatHome, Listening, Home, Migrating
<1>6. CASE d = c
  <2>1. savedMap' = map' /\ Sends(t, made'[c])
    BY <1>6 DEF Created
  <2>2. sid'[t] = made'[c] /\ step'[t] \in {"send", "await"}
    BY <2>1 DEF Sends, HomeType
  <2>3. map[c] = 0 /\ savedMap[c] = 0 /\ ~Is("pi", "native")
    BY <1>1, <1>6 DEF ChatHome
  <2>4. Home(c) = 0
    BY <1>1, <2>3 DEF ChatHome, Home, Is, Migrating, ProtocolType, HomeType
  <2>5. map'[c] = made'[c] /\ savedMap'[c] = made'[c] /\ Home(c)' = made'[c]
    BY <1>2, <1>6, <2>1 DEF Home, HomeType
  <2>6. prompted'[c] = {} /\ \A u \in Turns : ChatOf[u] = c /\ u # t => step[u] = "none"
    <3>1. prompted'[c] = {}
      BY <1>1, <2>4 DEF ChatHome
    <3> QED BY <1>1, <1>6, <3>1, OnePrompting
  <2>7. runtime = "pi" => <<c, made'[c]>> \in store'
    BY <1>2, <1>6, <2>3 DEF Is, ProtocolType
  <2> QED BY <1>1, <1>2, <1>3, <1>4, <1>6, <2>2, <2>3, <2>5, <2>6, <2>7
          DEF ChatHome, Listening, Migrating
<1> QED BY <1>5, <1>6

LEMMA StepHome ==
    LineInv /\ AnswerInv /\ HomeInv /\ [SessionsStep]_sessionsVars => HomeInv'
<1> SUFFICES ASSUME LineInv, AnswerInv, HomeInv, [SessionsStep]_sessionsVars,
                    NEW c \in Chats \ excused'
             PROVE  ChatHome(c)'
  BY StepHomeType, StepProtocol DEF HomeInv
<1>1. excused \subseteq excused'
  BY DEF SessionsStep, SessionsNext, Boots, Migration, StartAnswers, Ready, Exit, TornStore, Replaced,
         Exits, Deliver, Arrives, Prompting, Begins, Opened, NotOpened, Created, Refused, PostReplies,
         Working, Takes, Finishes, AbortArrives, Speaks, Leaves, mapVars, sessionsVars
<1>2. ChatHome(c) /\ HomeType /\ ProtocolType
  BY <1>1 DEF HomeInv
<1>3. CASE Boots \/ Migration \/ StartAnswers \/ Ready
  BY <1>2, <1>3, StartHome
<1>4. CASE Exit \/ TornStore \/ Replaced
  BY <1>2, <1>4, ExitHome
<1>5. ASSUME NEW t \in Turns, Begins(t) \/ Opened(t) \/ NotOpened(t) \/ Created(t)
      PROVE  ChatHome(c)'
  BY <1>2, <1>5, BeginsHome, OpenedHome, NotOpenedHome, CreatedHome
<1>6. CASE Deliver \/ \E t \in Turns : PostReplies(t) \/ Refused(t)
  <2>1. UNCHANGED <<runtime, protocol, up, map, savedMap, files, store, open, sid, prompted>>
    BY <1>6 DEF Deliver, PostReplies, Refused, podStateVars, mapVars, diskVars, agentVars
  <2>2. \A t \in Turns :
           /\ Listening(t)' => Listening(t)
           /\ step'[t] \in {"open", "create"} => step'[t] = step[t]
    BY <1>2, <1>6 DEF Deliver, Hears, Listeners, PostReplies, Refused, Ends, Fails, Listening, HomeType
  <2>3. /\ Home(c)' = Home(c) /\ Migrating' = Migrating /\ \A r, p : Is(r, p)' <=> Is(r, p)
    BY <2>1 DEF Home, Migrating, Is
  <2>4. ASSUME NEW t \in Turns, ChatOf[t] = c
        PROVE  /\ Listening(t)' => sid'[t] = Home(c)' /\ Home(c)' # 0
               /\ step'[t] = "open" /\ ~Is("pi", "native") => map'[c] # 0
               /\ step'[t] = "create" => map'[c] = 0 /\ ~Is("pi", "native")
    BY <1>2, <2>1, <2>2, <2>3, <2>4 DEF ChatHome, Listening
  <2> QED BY <1>2, <2>1, <2>3, <2>4 DEF ChatHome, Listening
<1>7. ASSUME NEW t \in Turns, Takes(t)
      PROVE  ChatHome(c)'
  <2>1. /\ UNCHANGED <<runtime, protocol, up, map, savedMap, files, store, open, step, sid>>
        /\ Listening(t) /\ prompted' = [prompted EXCEPT ![ChatOf[t]] = @ \cup {sid[t]}]
    BY <1>7 DEF Takes, podStateVars, mapVars, diskVars, promptVars, Listening
  <2>2. prompted'[c] = IF ChatOf[t] = c THEN prompted[c] \cup {sid[t]} ELSE prompted[c]
    BY <1>2, <2>1 DEF HomeType
  <2> QED BY <1>2, <2>1, <2>2 DEF ChatHome, Home, Migrating, Is, Listening
<1>8. CASE \/ UNCHANGED sessionsVars
           \/ \E t \in Turns : Arrives(t) \/ Finishes(t) \/ Speaks(t) \/ Leaves(t)
           \/ \E a : AbortArrives(a)
  <2>1. UNCHANGED homeVars
    BY <1>8 DEF Arrives, Finishes, Speaks, Leaves, AbortArrives, sessionsVars, podStateVars, mapVars,
                diskVars, promptVars, agentVars, homeVars
  <2> QED BY <1>2, <2>1, HomeKept
<1> QED BY <1>3, <1>4, <1>5, <1>6, <1>7, <1>8 DEF SessionsStep, SessionsNext, Prompting, Working

(* A chat keeps the session that has its history.                           *)
THEOREM OneSession == SessionsSpec => []OneSessionPerChat
<1> DEFINE I == LineInv /\ AnswerInv /\ HomeInv
<1>1. SessionsInit => I
  <2>1. SessionsInit => HomeInv
    BY DEF SessionsInit, QueueInit, HomeInv, ProtocolType, HomeType, ChatHome, Home, Listening, Is, Migrating,
           NoSession, InLine
  <2> QED BY <2>1, InitLine, InitAnswer DEF SessionsInit
<1>2. I /\ [SessionsStep]_sessionsVars => I'
  BY StepLine, SessionsQueue, StepAnswer, StepHome
<1>3. I => OneSessionPerChat
  <2> SUFFICES ASSUME I, NEW c \in Chats \ excused PROVE Cardinality(prompted[c]) <= 1
    BY DEF OneSessionPerChat
  <2>1. prompted[c] \subseteq {Home(c)}
    BY DEF HomeInv, ChatHome
  <2>2. IsFiniteSet({Home(c)}) /\ Cardinality({Home(c)}) = 1
    BY FS_Singleton
  <2> QED BY <2>1, <2>2, FS_Subset
<1> QED BY <1>1, <1>2, <1>3, PTL DEF SessionsSpec, SessionsStep
----------------------------------------------------------------------------
(* The types, and with them that a prompt is only sent to a session that    *)
(* was made for its chat: what is written down of a chat's sessions was     *)
(* made, and prompt() never gets to its listener without one.               *)
ProcessType == /\ runtime \in Runtimes
           /\ up \in {"down", "migrating", "migrated", "starting", "ready"}
           /\ answered \in SUBSET {"agent", "web"}
           /\ restarts \in 0..MaxRestarts

RestType == /\ store \in SUBSET (Chats \X Nat)
            /\ open \in SUBSET Chats /\ excused \in SUBSET Chats
            /\ failed \in SUBSET Turns /\ cut \in SUBSET Turns /\ closed \in SUBSET Turns
            /\ aborts \in SUBSET (Turns \X Nat)
            /\ said \in [Turns -> 0..MaxTexts]

MadeOf(c) == /\ map[c] <= made[c] /\ savedMap[c] <= made[c] /\ files[c] <= made[c]
             /\ c \in open => Session(c) # 0

PromptedAt(t) == /\ step[t] = "open" /\ ~Is("pi", "native") => map[ChatOf[t]] # 0
                 /\ step[t] = "create" => ~Is("pi", "native")
                 /\ Listening(t) => sid[t] \in 1..made[ChatOf[t]]

MadeInv == /\ up # "ready" => open = {}
           /\ \A c \in Chats : MadeOf(c)
           /\ \A t \in Turns : PromptedAt(t)

LEMMA StepProcessType == ProcessType /\ [SessionsStep]_sessionsVars => ProcessType'
<1> SUFFICES ASSUME ProcessType, [SessionsStep]_sessionsVars PROVE ProcessType'
  OBVIOUS
<1>1. CASE Boots \/ Migration \/ StartAnswers \/ Ready
  BY <1>1 DEF Boots, Migration, Migrates, StartAnswers, Ready, ProcessType
<1>2. CASE Exit \/ TornStore \/ Replaced
  <2>1. restarts + 1 \in 0..MaxRestarts
    BY <1>2 DEF Exit, TornStore, Replaced, Exits, ProcessType
  <2> QED BY <1>2, <2>1 DEF Exit, TornStore, Replaced, Exits, ProcessType
<1>3. CASE \/ Deliver \/ UNCHANGED sessionsVars
           \/ \E t \in Turns : Arrives(t) \/ Prompting(t) \/ Working(t) \/ Speaks(t) \/ Leaves(t)
  <2>1. UNCHANGED podStateVars
    BY <1>3 DEF Deliver, Arrives, Prompting, Begins, Opened, NotOpened, Created, Refused,
                PostReplies, Working, Takes, Finishes, AbortArrives, Speaks, Leaves, sessionsVars
  <2> QED BY <2>1 DEF podStateVars, ProcessType
<1> QED BY <1>1, <1>2, <1>3 DEF SessionsStep, SessionsNext

restVars == <<store, open, excused, failed, cut, closed, aborts, said>>

LEMMA StepRestType ==
    AnswerInv /\ HomeType /\ RestType /\ [SessionsStep]_sessionsVars => RestType'
<1> SUFFICES ASSUME AnswerInv, HomeType, RestType, [SessionsStep]_sessionsVars PROVE RestType'
  OBVIOUS
<1>1. CASE \/ Boots \/ StartAnswers \/ Ready \/ UNCHANGED sessionsVars
           \/ \E t \in Turns : Arrives(t) \/ Begins(t) \/ Refused(t) \/ PostReplies(t) \/ Takes(t)
                              \/ Finishes(t)
  <2>1. UNCHANGED restVars
    BY <1>1 DEF Boots, StartAnswers, Ready, Arrives, Begins, Refused, PostReplies, Takes, Finishes,
                sessionsVars, mapVars, diskVars, promptVars, agentVars, clientVars, restVars
  <2> QED BY <2>1 DEF restVars, RestType
<1>2. CASE Migration
  <2>1. store' \in SUBSET (Chats \X Nat)
    BY <1>2 DEF Migration, Migrates, IntoStore, IntoMap, Migrating, RestType, HomeType
  <2> QED BY <1>2, <2>1 DEF Migration, RestType, promptVars, agentVars, clientVars
<1>3. CASE Exit \/ TornStore \/ Replaced
  <2>1. store' \in {store, {}} /\ excused' \in SUBSET Chats
    BY <1>3 DEF Exit, TornStore, Replaced, RestType
  <2>2. open' = {} /\ aborts' = {} /\ failed' = {} /\ UNCHANGED <<cut, closed, said>>
    BY <1>3 DEF Exit, TornStore, Replaced, Exits
  <2> QED BY <2>1, <2>2 DEF RestType
<1>4. CASE Deliver
  <2>1. failed' \in SUBSET Turns
    BY <1>4 DEF Deliver, Hears, Listeners, RestType
  <2> QED BY <1>4, <2>1 DEF Deliver, RestType, mapVars, diskVars, clientVars
<1>5. ASSUME NEW t \in Turns, Opened(t) \/ NotOpened(t) \/ Created(t)
      PROVE  RestType'
  <2>1. ChatOf[t] \in Chats /\ made[ChatOf[t]] + 1 \in Nat
    BY DEF HomeType
  <2>2. made[ChatOf[t]] + 1 = made'[ChatOf[t]] \/ ~Created(t)
    BY <2>1 DEF Created, HomeType
  <2>3. store' \in SUBSET (Chats \X Nat) /\ open' \in SUBSET Chats /\ excused' \in SUBSET Chats
    BY <1>5, <2>1, <2>2 DEF Opened, NotOpened, Created, RestType, diskVars
  <2>4. UNCHANGED <<failed, cut, closed, aborts, said>>
    BY <1>5 DEF Opened, NotOpened, Created, agentVars, clientVars
  <2> QED BY <2>3, <2>4 DEF RestType
<1>6. ASSUME NEW t \in Turns, Speaks(t)
      PROVE  RestType'
  <2>1. said' \in [Turns -> 0..MaxTexts]
    BY <1>6 DEF Speaks, RestType
  <2> QED BY <1>6, <2>1 DEF Speaks, RestType, mapVars, diskVars, promptVars, clientVars
<1>7. ASSUME NEW a, AbortArrives(a)
      PROVE  RestType'
  BY <1>7 DEF AbortArrives, Stopped, RestType, mapVars, diskVars, promptVars
<1>8. ASSUME NEW t \in Turns, Leaves(t)
      PROVE  RestType'
  <2>1. AbortsBy(t) \subseteq Turns \X Nat
    BY DEF AbortsBy, HomeType
  <2> QED BY <1>8, <2>1 DEF Leaves, RestType, mapVars, diskVars, promptVars, agentVars
<1> QED BY <1>1, <1>2, <1>3, <1>4, <1>5, <1>6, <1>7, <1>8
        DEF SessionsStep, SessionsNext, Prompting, Working

madeVars == <<runtime, protocol, up, map, savedMap, files, open, made, step, sid>>

LEMMA StepMade ==
    LineInv /\ AnswerInv /\ HomeType /\ MadeInv /\ [SessionsStep]_sessionsVars => MadeInv'
<1> SUFFICES ASSUME LineInv, AnswerInv, HomeType, MadeInv, [SessionsStep]_sessionsVars
             PROVE  MadeInv'
  OBVIOUS
<1>1. CASE \/ StartAnswers \/ UNCHANGED sessionsVars
           \/ \E t \in Turns : Arrives(t) \/ Working(t) \/ Speaks(t) \/ Leaves(t)
  <2>1. UNCHANGED madeVars
    BY <1>1 DEF StartAnswers, Arrives, Working, Takes, Finishes, AbortArrives, Speaks, Leaves,
                sessionsVars, podStateVars, mapVars, diskVars, promptVars, madeVars
  <2> QED BY <2>1 DEF MadeInv, MadeOf, PromptedAt, Session, Is, Listening, madeVars
<1>2. CASE Boots \/ Migration \/ Ready
  <2>1. open = {} /\ \A t \in Turns : step[t] = "none"
    <3>1. up # "ready"
      BY <1>2 DEF Boots, Migration, Migrates, Ready
    <3> QED BY <3>1, PromptsWhenReady DEF MadeInv
  <2>2. UNCHANGED <<files, open, made, step>>
    BY <1>2 DEF Boots, Migration, Ready, mapVars, promptVars, diskVars
  <2>3. ASSUME NEW c \in Chats
        PROVE  map'[c] <= made[c] /\ savedMap'[c] <= made[c]
    BY <1>2 DEF Boots, Migration, Migrates, IntoStore, IntoMap, Migrating, Ready, mapVars, diskVars,
                MadeInv, MadeOf
  <2> QED BY <2>1, <2>2, <2>3 DEF MadeInv, MadeOf, PromptedAt, Listening
<1>3. CASE Exit \/ TornStore \/ Replaced
  <2>1. /\ UNCHANGED <<savedMap, files, made>> /\ map' = NoSession /\ open' = {}
        /\ \A t \in Turns : step'[t] = "none"
    BY <1>3 DEF Exit, TornStore, Replaced, Exits
  <2> QED BY <2>1 DEF MadeInv, MadeOf, PromptedAt, Listening, NoSession, HomeType
<1>4. CASE Deliver \/ \E t \in Turns : PostReplies(t) \/ Refused(t)
  <2>1. UNCHANGED <<runtime, protocol, up, map, savedMap, files, open, made, sid>>
    BY <1>4 DEF Deliver, PostReplies, Refused, podStateVars, mapVars, diskVars
  <2>2. \A t \in Turns :
           /\ Listening(t)' => Listening(t)
           /\ step'[t] \in {"open", "create"} => step'[t] = step[t]
    BY <1>4 DEF Deliver, Hears, Listeners, PostReplies, Refused, Ends, Fails, Listening, HomeType
  <2>3. \A c : Session(c)' = Session(c) /\ (Is("pi", "native")' <=> Is("pi", "native"))
    BY <2>1 DEF Session, Is
  <2>4. \A c \in Chats : MadeOf(c)'
    BY <2>1, <2>3 DEF MadeInv, MadeOf
  <2>5. \A t \in Turns : PromptedAt(t)'
    BY <2>1, <2>2, <2>3 DEF MadeInv, PromptedAt, Listening
  <2> QED BY <2>1, <2>4, <2>5 DEF MadeInv
<1>5. ASSUME NEW t \in Turns, Begins(t)
      PROVE  MadeInv'
  <2>1. UNCHANGED <<runtime, protocol, up, map, savedMap, files, open, made>> /\ ChatOf[t] \in Chats
    BY <1>5 DEF Begins, podStateVars, mapVars, diskVars
  <2>2. \A c : Session(c)' = Session(c) /\ (Is("pi", "native")' <=> Is("pi", "native"))
    BY <2>1 DEF Session, Is
  <2>3. \A u \in Turns : u # t => step'[u] = step[u] /\ sid'[u] = sid[u]
    BY <1>5 DEF Begins, Sends, HomeType
  <2>4. \A u \in Turns : u # t => PromptedAt(u)'
    BY <2>1, <2>2, <2>3 DEF MadeInv, PromptedAt, Listening
  <2>5. ASSUME ChatOf[t] \in open, Sends(t, Session(ChatOf[t])) PROVE PromptedAt(t)'
    <3>1. sid'[t] = Session(ChatOf[t]) /\ step'[t] \in {"send", "await"}
      BY <2>5 DEF Sends, HomeType
    <3>2. Session(ChatOf[t]) \in 1..made[ChatOf[t]]
      BY <2>1, <2>5 DEF MadeInv, MadeOf, Session, HomeType
    <3> QED BY <2>1, <3>1, <3>2 DEF PromptedAt
  <2>6. ASSUME step' = [step EXCEPT ![t] = IF map[ChatOf[t]] # 0 \/ Is("pi", "native") THEN "open"
                                                                                       ELSE "create"]
        PROVE  PromptedAt(t)'
    <3>1. step'[t] = IF map[ChatOf[t]] # 0 \/ Is("pi", "native") THEN "open" ELSE "create"
      BY <2>6 DEF HomeType
    <3> QED BY <2>1, <2>2, <3>1 DEF PromptedAt, Listening
  <2>7. PromptedAt(t)'
    BY <1>5, <2>5, <2>6 DEF Begins
  <2> QED BY <2>1, <2>2, <2>4, <2>7 DEF MadeInv, MadeOf
<1>6. ASSUME NEW t \in Turns, Opened(t)
      PROVE  MadeInv'
  <2> DEFINE d == ChatOf[t]
             n == IF Session(d) = 0 THEN made[d] + 1 ELSE Session(d)
  <2>1. UNCHANGED <<runtime, protocol, up, map, savedMap>> /\ up = "ready" /\ d \in Chats
    BY <1>6, PromptsWhenReady DEF Opened, podStateVars
  <2>2. \A r, p : Is(r, p)' <=> Is(r, p)
    BY <2>1 DEF Is
  <2>3. n \in Nat /\ n # 0 /\ Session(d) \in Nat /\ Session(d) <= made[d] /\ made[d] \in Nat
    BY <2>1 DEF MadeInv, MadeOf, Session, HomeType
  <2>4. /\ made'[d] \in Nat /\ n <= made'[d] /\ made[d] <= made'[d]
        /\ \A c \in Chats \ {d} : made'[c] = made[c]
    BY <1>6, <2>1, <2>3 DEF Opened, HomeType
  <2>5. files' = (IF Is("pi", "native") THEN [files EXCEPT ![d] = n] ELSE files) /\ open' \subseteq open \cup {d}
    BY <1>6 DEF Opened
  <2>6. ~Is("pi", "native") => map[d] # 0
    BY <1>6 DEF MadeInv, PromptedAt, Opened
  <2>7. ASSUME NEW c \in Chats PROVE MadeOf(c)'
    <3>1. CASE c # d
      BY <2>1, <2>2, <2>4, <2>5, <3>1 DEF MadeInv, MadeOf, Session, HomeType
    <3>2. CASE c = d
      BY <2>1, <2>2, <2>3, <2>4, <2>5, <2>6, <3>2 DEF MadeInv, MadeOf, Session, HomeType
    <3> QED BY <3>1, <3>2
  <2>8. /\ sid'[t] = n /\ step'[t] \in {"send", "await"}
        /\ \A u \in Turns : u # t => step'[u] = step[u] /\ sid'[u] = sid[u]
    BY <1>6 DEF Opened, Sends, HomeType
  <2>9. ASSUME NEW u \in Turns PROVE PromptedAt(u)'
    <3>1. CASE u = t
      BY <2>3, <2>4, <2>8, <3>1 DEF PromptedAt
    <3>2. CASE u # t
      <4>1. sid[u] \in Nat /\ ChatOf[u] \in Chats /\ made[ChatOf[u]] \in Nat
        BY DEF HomeType
      <4>2. made'[ChatOf[u]] \in Nat /\ made[ChatOf[u]] <= made'[ChatOf[u]]
        BY <2>4, <4>1
      <4> QED BY <2>1, <2>2, <2>8, <3>2, <4>1, <4>2 DEF MadeInv, PromptedAt, Listening
    <3> QED BY <3>1, <3>2
  <2> QED BY <2>1, <2>7, <2>9 DEF MadeInv
<1>7. ASSUME NEW t \in Turns, NotOpened(t)
      PROVE  MadeInv'
  <2>1. UNCHANGED <<runtime, protocol, up, map, savedMap, files, open, made, sid>>
    BY <1>7 DEF NotOpened, podStateVars, diskVars
  <2>2. ~Is("pi", "native") /\ step' = [step EXCEPT ![t] = "create"]
    BY <1>7 DEF NotOpened
  <2>3. \A c : Session(c)' = Session(c) /\ (Is("pi", "native")' <=> Is("pi", "native"))
    BY <2>1 DEF Session, Is
  <2> QED BY <2>1, <2>2, <2>3 DEF MadeInv, MadeOf, PromptedAt, Listening, HomeType
<1>8. ASSUME NEW t \in Turns, Created(t)
      PROVE  MadeInv'
  <2> DEFINE d == ChatOf[t]
             n == made'[d]
  <2>1. UNCHANGED <<runtime, protocol, up, files>> /\ up = "ready" /\ d \in Chats
    BY <1>8, PromptsWhenReady DEF Created, podStateVars
  <2>2. \A r, p : Is(r, p)' <=> Is(r, p)
    BY <2>1 DEF Is
  <2>3. /\ n = made[d] + 1 /\ made[d] \in Nat /\ \A c \in Chats \ {d} : made'[c] = made[c]
        /\ map' = [map EXCEPT ![d] = n] /\ savedMap' \in {savedMap, map'}
        /\ open' \subseteq open \cup {d}
    BY <1>8, <2>1 DEF Created, HomeType
  <2>4. ~Is("pi", "native")
    BY <1>8 DEF Created, MadeInv, PromptedAt
  <2>5. ASSUME NEW c \in Chats PROVE MadeOf(c)'
    <3>1. map'[c] = IF c = d THEN n ELSE map[c]
      BY <2>3 DEF HomeType
    <3>2. map'[c] <= made'[c] /\ savedMap'[c] <= made'[c] /\ files'[c] <= made'[c]
      BY <2>1, <2>3, <3>1 DEF MadeInv, MadeOf, HomeType
    <3>3. Session(c)' = map'[c] /\ Session(c) = map[c]
      BY <2>1, <2>2, <2>4 DEF Session
    <3>4. c \in open' => map'[c] # 0
      BY <2>3, <3>1, <3>3 DEF MadeInv, MadeOf, HomeType
    <3> QED BY <3>2, <3>3, <3>4 DEF MadeOf
  <2>6. /\ \A u \in Turns : u # t => step'[u] = step[u] /\ sid'[u] = sid[u]
        /\ step'[t] \in {"none", "send", "await"} /\ (step'[t] # "none" => sid'[t] = n)
    BY <1>8 DEF Created, Sends, Fails, HomeType
  <2>7. ASSUME NEW u \in Turns PROVE PromptedAt(u)'
    <3>1. CASE u = t
      <4>1. n \in 1..n
        BY <2>3
      <4> QED BY <2>6, <3>1, <4>1 DEF PromptedAt, Listening
    <3>2. CASE u # t
      <4>1. sid[u] \in Nat /\ ChatOf[u] \in Chats /\ made[ChatOf[u]] \in Nat
        BY DEF HomeType
      <4>2. made'[ChatOf[u]] \in Nat /\ made[ChatOf[u]] <= made'[ChatOf[u]]
        BY <2>3, <4>1
      <4>3. map[ChatOf[u]] # 0 => map'[ChatOf[u]] # 0
        BY <2>3, <4>1 DEF HomeType
      <4> QED BY <2>1, <2>2, <2>6, <3>2, <4>1, <4>2, <4>3 DEF MadeInv, PromptedAt, Listening
    <3> QED BY <3>1, <3>2
  <2> QED BY <2>1, <2>5, <2>7 DEF MadeInv
<1> QED BY <1>1, <1>2, <1>3, <1>4, <1>5, <1>6, <1>7, <1>8
        DEF SessionsStep, SessionsNext, Prompting

(* Every state has its types, whatever is refused, lost or torn: a prompt   *)
(* is under way only to a session made for its chat.                        *)
THEOREM SessionsTyped == SessionsSpec => []SessionsTypeOK
<1> DEFINE I == /\ LineInv /\ AnswerInv /\ answer \in [Turns -> Seq(Texts)] /\ ProtocolType /\ HomeType
                /\ ProcessType /\ RestType /\ MadeInv
<1>1. SessionsInit => I
  <2>1. SessionsInit => ProtocolType /\ HomeType /\ ProcessType
    BY DEF SessionsInit, QueueInit, ProtocolType, HomeType, ProcessType, NoSession, InLine
  <2>2. SessionsInit => RestType /\ MadeInv
    BY DEF SessionsInit, RestType, MadeInv, MadeOf, PromptedAt, Listening, NoSession
  <2> QED BY <2>1, <2>2, InitLine, InitAnswer DEF SessionsInit
<1>2. I /\ [SessionsStep]_sessionsVars => I'
  BY StepLine, SessionsQueue, StepAnswer, AnswersTyped, StepProtocol, StepHomeType, StepProcessType, StepRestType, StepMade
<1>3. I => SessionsTypeOK
  BY DEF SessionsTypeOK, LineInv, AnswerInv, AnswerType, Events, ProtocolType, HomeType, ProcessType, RestType,
         MadeInv, PromptedAt, Listening, Sids
<1> QED BY <1>1, <1>2, <1>3, PTL DEF SessionsSpec, SessionsStep
=============================================================================
