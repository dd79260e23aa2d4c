---------------------------- MODULE TurnsProofs ----------------------------
(* Proofs about AgentTurns, for any requests, chats, bodies, numbers of     *)
(* permission requests and restarts.                                        *)
EXTENDS AgentTurns, WellFoundedInduction, FiniteSetTheorems, TLAPS

USE TurnsAssumption

(* An interactive request in the queue has a body with a user message.      *)
BodyRead == \A t \in Interactive : pc[t] = "queued" => users[t] \in Bodies

(* A session is reattached only for a chat that has one.                    *)
ReattachKnown == \A t \in Turns : pc[t] = "reattach" => ChatOf[t] \in map

TypeInv == TypeOK /\ BodyRead /\ ReattachKnown

LEMMA TypeInit == Init => TypeInv
  BY DEF Init, TypeInv, TypeOK, BodyRead, ReattachKnown, Running, Asks

(* The steps that move a request on keep its message and the recorded ones  *)
(* in Prompts.                                                              *)
LEMMA MessageType == ASSUME TypeInv, NEW t \in Interactive, pc[t] = "queued"
                     PROVE  /\ Message(t) \in Prompts
                            /\ Recorded(t) \in [Chats -> Seq(Prompts)]
<1>1. users[t] \in Seq(Prompts) \ {<<>>}
  BY DEF TypeInv, BodyRead
<1>2. Message(t) \in Prompts
  BY <1>1 DEF Message, Last
<1> QED
  BY <1>2 DEF TypeInv, TypeOK, Recorded

LEMMA PromptedType == ASSUME TypeInv, NEW t \in Turns
                      PROVE  Prompted(t) \in [Chats -> Seq(Interactive)]
  BY DEF TypeInv, TypeOK, Prompted

(* How many methods were tried is at most how many there are.               *)
LEMMA TriesType ==
    ASSUME TypeInv, NEW t \in Turns
    PROVE  /\ [tries EXCEPT ![t] = 0] \in [Turns -> 0..Methods]
           /\ [tries EXCEPT ![t] = 1] \in [Turns -> 0..Methods]
           /\ MethodsLeft(t) => tries[t] + 1 \in 0..Methods
<1>1. tries \in [Turns -> 0..Methods] /\ Methods \in Nat \ {0}
  BY DEF TypeInv, TypeOK
<1>2. MethodsLeft(t) => tries[t] + 1 \in 0..Methods
  BY <1>1 DEF MethodsLeft
<1>3. 0 \in 0..Methods /\ 1 \in 0..Methods
  BY <1>1
<1> HIDE TurnsAssumption
<1> QED
  BY <1>1, <1>2, <1>3

LEMMA LeavesType ==
    ASSUME TypeInv, NEW t \in Turns, NEW step \in Running \cup {"done"}, Leaves(t, step)
    PROVE  /\ pc' \in [Turns -> {"new", "queued", "done"} \cup Running]
           /\ pc'[t] # "queued" /\ \A u \in Turns \ {t} : pc'[u] = pc[u]
           /\ prev' \in [Turns -> Turns \cup {None}]
           /\ ahead' \in [Turns -> SUBSET Turns]
  BY DEF TypeInv, TypeOK, Leaves, Running

LEMMA OpensType ==
    ASSUME TypeInv, NEW t \in Turns, Opens(t)
    PROVE  /\ \E step \in Running : Leaves(t, step) /\ (step = "reattach" => ChatOf[t] \in map)
           /\ tail' = tail
           /\ sent' \in [Chats -> Seq(Interactive)]
           /\ map' = map /\ savedMap' = savedMap /\ open' = open
           /\ tries' \in [Turns -> 0..Methods]
<1>0. tries \in [Turns -> 0..Methods] /\ sent \in [Chats -> Seq(Interactive)]
  BY DEF TypeInv, TypeOK
<1> USE DEF Goes, sessionVars, Running
<1>1. CASE Goes(t, "prompt") /\ sent' = Prompted(t) /\ UNCHANGED sessionVars
  BY <1>0, <1>1, PromptedType
<1>2. CASE /\ ChatOf[t] \in map
           /\ Goes(t, "reattach") /\ tries' = [tries EXCEPT ![t] = 1]
           /\ UNCHANGED <<sent, map, savedMap, open>>
  BY <1>0, <1>2, TriesType
<1>3. CASE Goes(t, "create") /\ UNCHANGED <<sent, sessionVars>>
  BY <1>0, <1>3
<1> QED
  BY <1>1, <1>2, <1>3 DEF Opens

LEMMA TypeNext == TypeInv /\ [Next]_vars => TypeInv'
<1> SUFFICES ASSUME TypeInv, [Next]_vars PROVE TypeInv'
  OBVIOUS
<1>tries. \A t \in Turns :
             /\ [tries EXCEPT ![t] = 0] \in [Turns -> 0..Methods]
             /\ MethodsLeft(t) => tries[t] + 1 \in 0..Methods
  BY TriesType
<1>opens. ASSUME NEW t \in Turns, Opens(t)
          PROVE  /\ pc' \in [Turns -> {"new", "queued", "done"} \cup Running]
                 /\ pc'[t] # "queued" /\ (pc'[t] = "reattach" => ChatOf[t] \in map)
                 /\ \A u \in Turns \ {t} : pc'[u] = pc[u]
                 /\ prev' \in [Turns -> Turns \cup {None}]
                 /\ ahead' \in [Turns -> SUBSET Turns]
                 /\ tail' = tail
                 /\ sent' \in [Chats -> Seq(Interactive)]
                 /\ map' = map /\ savedMap' = savedMap /\ open' = open
                 /\ tries' \in [Turns -> 0..Methods]
  <2>1. PICK step \in Running : Leaves(t, step) /\ (step = "reattach" => ChatOf[t] \in map)
    BY <1>opens, OpensType
  <2>2. pc'[t] = step
    BY <2>1 DEF Leaves, TypeInv, TypeOK
  <2> QED
    BY <1>opens, <2>1, <2>2, OpensType, LeavesType
<1> USE DEF TypeInv, TypeOK, BodyRead, ReattachKnown, queueVars, historyVars, sessionVars, askVars, callVars
<1>1. ASSUME NEW t \in Turns, Arrive(t) PROVE TypeInv'
  BY <1>1 DEF Arrive, Running
<1>2. ASSUME NEW t \in Turns, StartsTurn(t) PROVE TypeInv'
  <2>1. history' \in [Chats -> Seq(Prompts)]
    BY <1>2, MessageType DEF StartsTurn, MayStart
  <2>2. TypeOK'
    BY <1>2, <2>1, <1>opens DEF StartsTurn
  <2>3. BodyRead' /\ ReattachKnown'
    BY <1>2, <1>opens DEF StartsTurn
  <2> QED
    BY <2>2, <2>3
<1>3. ASSUME NEW t \in Turns, SaveFails(t) PROVE TypeInv'
  <2>1. history' \in [Chats -> Seq(Prompts)]
    BY <1>3, MessageType DEF SaveFails, MayStart
  <2> QED
    BY <1>3, <2>1 DEF SaveFails, Ends, Leaves, Forgotten
<1>4. ASSUME NEW t \in Turns, TurnedAway(t) PROVE TypeInv'
  BY <1>4 DEF TurnedAway, Ends, Leaves, Forgotten
<1>5. ASSUME NEW t \in Turns, StartsCompletion(t) PROVE TypeInv'
  <2>1. TypeOK'
    BY <1>5, <1>opens DEF StartsCompletion
  <2>2. BodyRead' /\ ReattachKnown'
    BY <1>5, <1>opens DEF StartsCompletion
  <2> QED
    BY <2>1, <2>2
<1>6. ASSUME NEW t \in Turns, Reattached(t) PROVE TypeInv'
  <2>1. TypeOK'
    BY <1>6, <1>tries, PromptedType DEF Reattached, Goes, Leaves, Running
  <2>2. BodyRead' /\ ReattachKnown'
    BY <1>6 DEF Reattached, Goes, Leaves
  <2> QED
    BY <2>1, <2>2
<1>7. ASSUME NEW t \in Turns, ReattachFails(t) PROVE TypeInv'
  <2>1. CASE MethodsLeft(t)
    <3>1. tries' = [tries EXCEPT ![t] = tries[t] + 1] /\ tries[t] + 1 \in 0..Methods
      BY <1>7, <2>1, <1>tries DEF ReattachFails
    <3>2. tries' \in [Turns -> 0..Methods]
      BY <3>1
    <3> QED
      BY <1>7, <2>1, <3>2 DEF ReattachFails
  <2>2. CASE ~MethodsLeft(t)
    <3>a. tries' = [tries EXCEPT ![t] = 0] /\ Leaves(t, "create") /\ tail' = tail
      BY <1>7, <2>2 DEF ReattachFails, Goes
    <3>b. tries' \in [Turns -> 0..Methods]
      BY <3>a, <1>tries
    <3>c. /\ pc' \in [Turns -> {"new", "queued", "done"} \cup Running]
          /\ prev' \in [Turns -> Turns \cup {None}] /\ ahead' \in [Turns -> SUBSET Turns]
      BY <3>a DEF Leaves, Running
    <3>1. TypeOK'
      BY <1>7, <3>a, <3>b, <3>c DEF ReattachFails
    <3>2. BodyRead' /\ ReattachKnown'
      BY <1>7, <2>2 DEF ReattachFails, Goes, Leaves
    <3> QED
      BY <3>1, <3>2
  <2> QED
    BY <2>1, <2>2
<1>8. ASSUME NEW t \in Turns, Created(t) PROVE TypeInv'
  <2>1. sent' \in [Chats -> Seq(Interactive)]
    BY <1>8, PromptedType DEF Created
  <2>2. pc' = [pc EXCEPT ![t] = "prompt"] /\ Leaves(t, "prompt") /\ tail' = tail
    BY <1>8 DEF Created, Goes, Leaves
  <2>3. /\ pc' \in [Turns -> {"new", "queued", "done"} \cup Running]
        /\ prev' \in [Turns -> Turns \cup {None}] /\ ahead' \in [Turns -> SUBSET Turns]
    BY <2>2 DEF Leaves, Running
  <2>4. map' \in SUBSET Chats /\ savedMap' \in SUBSET map' /\ open' \in SUBSET map'
    BY <1>8 DEF Created
  <2>5. TypeOK'
    BY <1>8, <2>1, <2>2, <2>3, <2>4 DEF Created
  <2>6. BodyRead' /\ ReattachKnown'
    BY <1>8, <2>2 DEF Created
  <2> QED
    BY <2>5, <2>6
<1>9. ASSUME NEW t \in Turns, CreateFails(t) PROVE TypeInv'
  BY <1>9 DEF CreateFails, Ends, Leaves, Forgotten
<1>10. ASSUME NEW t \in Turns, AgentEnds(t) PROVE TypeInv'
  BY <1>10 DEF AgentEnds, Ends, Leaves, Forgotten
<1>11. ASSUME NEW t \in Turns, AgentCalls(t) PROVE TypeInv'
  BY <1>11 DEF AgentCalls
<1>12. ASSUME NEW t \in Turns, AgentAsks(t) PROVE TypeInv'
  BY <1>12 DEF AgentAsks, FirstAnswer, Unasked
<1>13. ASSUME NEW t \in Turns, Close(t) PROVE TypeInv'
  BY <1>13 DEF Close, Decides
<1>14. ASSUME NEW a \in Asks, Replies(a) PROVE TypeInv'
  BY <1>14 DEF Replies
<1>15. ASSUME NEW a \in Asks, ReplyArrives(a) PROVE TypeInv'
  BY <1>15 DEF ReplyArrives, Decides, Pending
<1>16. ASSUME NEW a \in Asks, TimesOut(a) PROVE TypeInv'
  BY <1>16 DEF TimesOut, Decides
<1>17. CASE Restart
  <2>1. TypeOK'
    BY <1>17 DEF Restart
  <2>2. BodyRead' /\ ReattachKnown'
    BY <1>17 DEF Restart, Live, Running
  <2> QED
    BY <2>1, <2>2
<1>18. CASE UNCHANGED vars
  BY <1>18 DEF vars
<1> QED
  BY <1>1, <1>2, <1>3, <1>4, <1>5, <1>6, <1>7, <1>8, <1>9, <1>10, <1>11, <1>12, <1>13,
     <1>14, <1>15, <1>16, <1>17, <1>18 DEF Next, Starts, AgentAnswers

(* Every callback of the adapter leaves its state well formed.              *)
THEOREM TypeCorrect == Spec => []TypeOK
<1>1. TypeInv => TypeOK
  BY DEF TypeInv
<1> QED
  BY <1>1, TypeInit, TypeNext, PTL DEF Spec
----------------------------------------------------------------------------
(* Permission requests.  What makes the three statements inductive: a       *)
(* pending request is an interactive turn's and has no answer yet, and a    *)
(* reply once posted is never another.                                      *)
PendingUnanswered == \A a \in asks : dec[a] = "asking" /\ TurnOf(a) \in Interactive
RepliesStand == \A a \in posts \cup acked : reply[a] # "none"

AskInv == /\ PendingUnanswered /\ RepliesStand
          /\ AskedWhileOpen /\ OnlyApproved /\ AckedDecides

LEMMA AskInit == Init => AskInv
  BY DEF Init, AskInv, PendingUnanswered, RepliesStand, AskedWhileOpen, OnlyApproved,
         AckedDecides

(* A step that answers nothing and ends no prompt.                          *)
LEMMA AsksKept ==
    ASSUME AskInv, UNCHANGED <<askVars, closed>>,
           \A u \in Turns : pc[u] = "prompt" => pc'[u] = "prompt", TypeInv
    PROVE  AskInv'
<1>1. \A a \in asks : TurnOf(a) \in Turns
  BY DEF AskInv, PendingUnanswered
<1> QED
  BY <1>1 DEF AskInv, PendingUnanswered, RepliesStand, AskedWhileOpen, OnlyApproved,
              AckedDecides, askVars, TypeInv, TypeOK

(* done() with the decision that `who` may get.                             *)
LEMMA AsksDecided ==
    ASSUME AskInv, TypeInv, NEW who \in SUBSET asks,
           NEW decision \in {"allow", "deny", "cancel"},
           decision = "allow" => \A a \in who : reply[a] = "yes",
           Decides(who, decision), UNCHANGED <<reply, pc>>
    PROVE  PendingUnanswered' /\ OnlyApproved' /\ \A a \in acked : dec'[a] = dec[a]
<1>1. who \subseteq Asks /\ acked \subseteq Asks
  BY DEF TypeInv, TypeOK
<1>2. \A a \in acked : a \notin who
  BY DEF AskInv, PendingUnanswered, AckedDecides
<1>3. PendingUnanswered'
  BY <1>1 DEF AskInv, PendingUnanswered, Decides, TypeInv, TypeOK
<1>4. OnlyApproved'
  BY <1>1 DEF AskInv, OnlyApproved, Decides
<1> QED
  BY <1>1, <1>2, <1>3, <1>4 DEF Decides

LEMMA AskNext == TypeInv /\ AskInv /\ [Next]_vars => AskInv'
<1> SUFFICES ASSUME TypeInv, AskInv, [Next]_vars PROVE AskInv'
  OBVIOUS
<1>pc. pc \in [Turns -> {"new", "queued", "done"} \cup Running]
  BY DEF TypeInv, TypeOK
<1>1. ASSUME NEW t \in Turns, Arrive(t) PROVE AskInv'
  BY <1>1, <1>pc, AsksKept DEF Arrive
<1>2. ASSUME NEW t \in Turns, Starts(t) PROVE AskInv'
  <2>1. \A u \in Turns : pc[u] = "prompt" => pc'[u] = "prompt"
    BY <1>2, <1>pc DEF Starts, StartsTurn, SaveFails, TurnedAway, StartsCompletion, MayStart,
                       Opens, Ends, Goes, Leaves
  <2> QED
    BY <1>2, <2>1, AsksKept DEF Starts, StartsTurn, SaveFails, TurnedAway, StartsCompletion
<1>3. ASSUME NEW t \in Turns,
             Reattached(t) \/ ReattachFails(t) \/ Created(t) \/ CreateFails(t)
      PROVE  AskInv'
  <2>1. \A u \in Turns : pc[u] = "prompt" => pc'[u] = "prompt"
    BY <1>3, <1>pc DEF Reattached, ReattachFails, Created, CreateFails, queueVars, Ends, Goes,
                       Leaves
  <2> QED
    BY <1>3, <2>1, AsksKept DEF Reattached, ReattachFails, Created, CreateFails
<1>4. ASSUME NEW t \in Turns, AgentEnds(t) PROVE AskInv'
  <2>1. \A a \in asks : TurnOf(a) # t
    BY <1>4 DEF AgentEnds, AskInv, PendingUnanswered, TypeInv, TypeOK
  <2>2. \A u \in Turns \ {t} : pc'[u] = pc[u]
    BY <1>4, <1>pc DEF AgentEnds, Ends, Leaves
  <2>3. \A a \in asks : TurnOf(a) \in Turns
    BY DEF AskInv, PendingUnanswered
  <2> QED
    BY <1>4, <2>1, <2>2, <2>3
       DEF AgentEnds, AskInv, PendingUnanswered, RepliesStand, AskedWhileOpen, OnlyApproved,
           AckedDecides, askVars
<1>5. ASSUME NEW t \in Turns, AgentCalls(t) PROVE AskInv'
  BY <1>5, <1>pc, AsksKept DEF AgentCalls, queueVars
<1>6. ASSUME NEW t \in Turns, AgentAsks(t) PROVE AskInv'
  <2>1. PICK a \in Unasked(t) :
            /\ dec' = [dec EXCEPT ![a] = FirstAnswer(t)]
            /\ asks' = IF FirstAnswer(t) = "asking" THEN asks \cup {a} ELSE asks
    BY <1>6 DEF AgentAsks
  <2>2. a \in Asks /\ TurnOf(a) = t /\ dec[a] = "none"
    BY DEF Unasked
  <2>3. UNCHANGED <<pc, closed, reply, posts, acked>> /\ pc[t] = "prompt"
    BY <1>6 DEF AgentAsks, queueVars
  <2>4. a \notin acked /\ a \notin asks
    BY <2>2 DEF AskInv, PendingUnanswered, AckedDecides
  <2>5. dec'[a] = FirstAnswer(t) /\ \A b \in Asks \ {a} : dec'[b] = dec[b]
    BY <2>1, <2>2 DEF TypeInv, TypeOK
  <2>6. /\ FirstAnswer(t) = "asking" => t \in Interactive \ closed
        /\ FirstAnswer(t) = "allow" => t \notin Interactive
    BY DEF FirstAnswer
  <2>7. asks \subseteq Asks /\ acked \subseteq Asks
    BY DEF TypeInv, TypeOK
  <2>8. PendingUnanswered' /\ AskedWhileOpen'
    BY <2>1, <2>2, <2>3, <2>4, <2>5, <2>6, <2>7 DEF AskInv, PendingUnanswered, AskedWhileOpen
  <2>9. OnlyApproved'
    BY <2>2, <2>3, <2>5, <2>6 DEF AskInv, OnlyApproved
  <2>10. RepliesStand' /\ AckedDecides'
    BY <2>3, <2>4, <2>5, <2>7 DEF AskInv, RepliesStand, AckedDecides
  <2> QED
    BY <2>8, <2>9, <2>10 DEF AskInv
<1>7. ASSUME NEW t \in Turns, Close(t) PROVE AskInv'
  <2> DEFINE who == {a \in asks : TurnOf(a) = t}
  <2>1. /\ Decides(who, "cancel") /\ UNCHANGED <<pc, reply, posts, acked>>
        /\ closed' = closed \cup {t}
    BY <1>7 DEF Close, queueVars
  <2>2. PendingUnanswered' /\ OnlyApproved' /\ \A a \in acked : dec'[a] = dec[a]
    BY <2>1, AsksDecided
  <2>3. AskedWhileOpen'
    BY <2>1 DEF AskInv, AskedWhileOpen, Decides
  <2>4. RepliesStand' /\ AckedDecides'
    BY <2>1, <2>2 DEF AskInv, RepliesStand, AckedDecides
  <2> QED
    BY <2>2, <2>3, <2>4 DEF AskInv
<1>8. ASSUME NEW a \in Asks, Replies(a) PROVE AskInv'
  <2>1. reply[a] = "none" /\ UNCHANGED <<pc, closed, asks, dec, acked>>
        /\ posts' = posts \cup {a}
        /\ reply'[a] # "none" /\ \A b \in Asks \ {a} : reply'[b] = reply[b]
    BY <1>8 DEF Replies, queueVars, TypeInv, TypeOK
  <2>2. posts \subseteq Asks /\ acked \subseteq Asks /\ a \notin acked
    BY <2>1 DEF TypeInv, TypeOK, AskInv, RepliesStand
  <2>3. PendingUnanswered' /\ AskedWhileOpen' /\ RepliesStand'
    BY <2>1, <2>2 DEF AskInv, PendingUnanswered, AskedWhileOpen, RepliesStand
  <2>4. OnlyApproved' /\ AckedDecides'
    BY <2>1, <2>2 DEF AskInv, OnlyApproved, AckedDecides
  <2> QED
    BY <2>3, <2>4 DEF AskInv
<1>9. ASSUME NEW a \in Asks, ReplyArrives(a) PROVE AskInv'
  <2> DEFINE decision == IF reply[a] = "yes" THEN "allow" ELSE "deny"
  <2>1. /\ a \in posts /\ posts' = posts \ {a}
        /\ Decides(asks \cap {a}, decision)
        /\ acked' = IF a \in asks THEN acked \cup {a} ELSE acked
        /\ UNCHANGED <<pc, closed, reply>>
    BY <1>9 DEF ReplyArrives, Pending, queueVars
  <2>2. PendingUnanswered' /\ OnlyApproved' /\ \A b \in acked : dec'[b] = dec[b]
    BY <2>1, AsksDecided
  <2>3. AskedWhileOpen' /\ RepliesStand'
    BY <2>1 DEF AskInv, AskedWhileOpen, RepliesStand, Decides
  <2>4. a \in asks => dec'[a] = decision
    BY <2>1 DEF Decides
  <2>5. AckedDecides'
    BY <2>1, <2>2, <2>4 DEF AskInv, AckedDecides
  <2> QED
    BY <2>2, <2>3, <2>5 DEF AskInv
<1>10. ASSUME NEW a \in Asks, TimesOut(a) PROVE AskInv'
  <2>1. /\ a \in asks /\ Decides({a}, "deny")
        /\ UNCHANGED <<pc, closed, reply, posts, acked>>
    BY <1>10 DEF TimesOut, queueVars
  <2>2. PendingUnanswered' /\ OnlyApproved' /\ \A b \in acked : dec'[b] = dec[b]
    BY <2>1, AsksDecided
  <2>3. AskedWhileOpen' /\ RepliesStand' /\ AckedDecides'
    BY <2>1, <2>2 DEF AskInv, AskedWhileOpen, RepliesStand, AckedDecides, Decides
  <2> QED
    BY <2>2, <2>3 DEF AskInv
<1>11. CASE Restart
  <2>1. asks' = {} /\ UNCHANGED <<reply, posts, acked>>
    BY <1>11 DEF Restart
  <2>2. \A b \in Asks : dec'[b] = dec[b] \/ (dec[b] = "asking" /\ dec'[b] = "lost")
    BY <1>11 DEF Restart
  <2>3. acked \subseteq Asks
    BY DEF TypeInv, TypeOK
  <2>4. OnlyApproved' /\ AckedDecides'
    BY <2>1, <2>2, <2>3 DEF AskInv, OnlyApproved, AckedDecides
  <2> QED
    BY <2>1, <2>4 DEF AskInv, PendingUnanswered, RepliesStand, AskedWhileOpen
<1>12. CASE UNCHANGED vars
  BY <1>12, AsksKept DEF vars, queueVars
<1> QED
  BY <1>1, <1>2, <1>3, <1>4, <1>5, <1>6, <1>7, <1>8, <1>9, <1>10, <1>11, <1>12
     DEF Next, AgentAnswers

LEMMA AskCorrect == Spec => []AskInv
<1>1. TypeInv /\ AskInv /\ [Next]_vars => (TypeInv /\ AskInv)'
  BY TypeNext, AskNext
<1> QED
  BY <1>1, TypeInit, AskInit, PTL DEF Spec

(* The agent goes ahead with what it asked for only on that turn's user's   *)
(* yes to that request: no late, duplicated or misdirected reply, timeout,  *)
(* close or restart lets it.                                                *)
THEOREM UserApproves == Spec => []OnlyApproved
<1>1. AskInv => OnlyApproved
  BY DEF AskInv
<1> QED
  BY <1>1, AskCorrect, PTL

(* A reply that the pipe was told has arrived is what the agent was told.   *)
THEOREM RepliesDecide == Spec => []AckedDecides
<1>1. AskInv => AckedDecides
  BY DEF AskInv
<1> QED
  BY <1>1, AskCorrect, PTL

(* No request waits for a user who has left, or outlives its prompt.        *)
THEOREM NobodyIsWaitedFor == Spec => []AskedWhileOpen
<1>1. AskInv => AskedWhileOpen
  BY DEF AskInv
<1> QED
  BY <1>1, AskCorrect, PTL
----------------------------------------------------------------------------
(* The queue of a chat: one turn at a time, in the order they came, for any *)
(* number of requests and chats; and that it implements TurnQueue.          *)

(* Of two requests of a chat one found the other in line.                   *)
Ordered == \A t, u \in Turns : /\ ChatOf[t] = ChatOf[u] /\ t # u
                               /\ Live(t) /\ Live(u)
                               => t \in ahead[u] \/ u \in ahead[t]

(* Only a queued request has a line ahead of it, and of those that came.    *)
OnlyQueued == \A t \in Turns : /\ pc[t] # "queued" => ahead[t] = {}
                               /\ \A u \in ahead[t] : pc[u] # "new"

(* Behind(v, w): v is w or was in line when w came.                         *)
Behind(v, w) == v = w \/ v \in ahead[w]

(* A queued request is chained to the last of those still ahead of it.      *)
Chains == \A u \in Turns : pc[u] = "queued" =>
              \A v \in ahead[u] : Live(v) =>
                  /\ prev[u] \in Turns /\ Live(prev[u]) /\ prev[u] \in ahead[u]
                  /\ Behind(v, prev[u])

(* A chat's tail is the last of its requests.                               *)
Tails == \A v \in Turns : Live(v) =>
             LET w == tail[ChatOf[v]] IN
             /\ w \in Turns /\ Live(w) /\ ChatOf[w] = ChatOf[v]
             /\ Behind(v, w)

QueueInv == Ordered /\ OnlyQueued /\ Chains /\ Tails

LEMMA QueueInvInit == Init => QueueInv
  BY DEF Init, QueueInv, Ordered, OnlyQueued, Chains, Tails, Live, Running

(* A request that may move has nobody ahead.                                *)
AtFront(t) == Live(t) /\ \A v \in ahead[t] : ~Live(v)

LEMMA StartsAtFront == ASSUME TypeInv, QueueInv, NEW t \in Turns, MayStart(t)
                       PROVE  AtFront(t)
<1>1. pc[t] = "queued" /\ Live(t)
  BY DEF MayStart, Live
<1>2. ASSUME NEW v \in ahead[t], Live(v) PROVE FALSE
  <2>1. prev[t] \in Turns /\ Live(prev[t])
    BY <1>1, <1>2 DEF QueueInv, Chains
  <2> QED
    BY <2>1 DEF MayStart, Chained
<1> QED
  BY <1>1, <1>2 DEF AtFront

LEMMA RunsAtFront == ASSUME QueueInv, NEW t \in Turns, pc[t] \in Running
                     PROVE  AtFront(t)
  BY DEF QueueInv, OnlyQueued, AtFront, Live, Running

(* The request at the front moves on, or ends and leaves the queue to the   *)
(* others.                                                                  *)
LEMMA FrontMoves ==
    ASSUME TypeInv, QueueInv, NEW t \in Turns, AtFront(t),
           NEW step \in Running \cup {"done"}, Leaves(t, step),
           tail' = IF step = "done" THEN Forgotten(t) ELSE tail
    PROVE  QueueInv'
<1>1. /\ pc'[t] = step /\ ahead'[t] = {}
      /\ \A u \in Turns \ {t} : pc'[u] = pc[u] /\ ahead'[u] = ahead[u] /\ prev'[u] = prev[u]
  BY DEF Leaves, TypeInv, TypeOK
<1>2. /\ step # "queued" /\ step # "new"
      /\ (step = "done" => ~Live(t)') /\ (step \in Running => Live(t)')
      /\ \A u \in Turns \ {t} : Live(u)' <=> Live(u)
  BY <1>1 DEF Live, Running
<1>3. \A u \in Turns : ahead[u] \subseteq Turns /\ ahead'[u] \subseteq Turns
  BY <1>1 DEF TypeInv, TypeOK
<1>4. Ordered'
  BY <1>1, <1>2 DEF QueueInv, Ordered, AtFront
<1>5. OnlyQueued'
  BY <1>1, <1>2, <1>3 DEF QueueInv, OnlyQueued
<1>6. Chains'
  <2> SUFFICES ASSUME NEW u \in Turns, pc'[u] = "queued", NEW v \in ahead'[u], Live(v)'
               PROVE  /\ prev'[u] \in Turns /\ Live(prev[u])' /\ prev'[u] \in ahead'[u]
                      /\ Behind(v, prev[u])'
    BY DEF Chains
  <2>1. u # t /\ v \in ahead[u] /\ v \in Turns /\ Live(v)
    BY <1>1, <1>2, <1>3 DEF AtFront
  <2>2. /\ prev[u] \in Turns /\ Live(prev[u]) /\ prev[u] \in ahead[u]
        /\ Behind(v, prev[u]) /\ pc[u] = "queued"
    BY <1>1, <2>1 DEF QueueInv, Chains
  <2>3. CASE prev[u] = t
    <3>1. v = t
      BY <2>1, <2>2, <2>3 DEF Behind, AtFront
    <3> QED
      BY <1>1, <1>2, <2>1, <2>2, <2>3, <3>1 DEF Behind
  <2>4. CASE prev[u] # t
    BY <1>1, <1>2, <2>1, <2>2, <2>4 DEF Behind
  <2> QED
    BY <2>3, <2>4
<1>7. Tails'
  <2> SUFFICES ASSUME NEW v \in Turns, Live(v)'
               PROVE  /\ tail'[ChatOf[v]] \in Turns /\ Live(tail[ChatOf[v]])'
                      /\ ChatOf[tail'[ChatOf[v]]] = ChatOf[v]
                      /\ Behind(v, tail[ChatOf[v]])'
    BY DEF Tails
  <2> DEFINE w == tail[ChatOf[v]]
  <2>1. Live(v)
    BY <1>2 DEF AtFront
  <2>2. w \in Turns /\ Live(w) /\ ChatOf[w] = ChatOf[v] /\ Behind(v, w)
    BY <2>1 DEF QueueInv, Tails
  <2>3. w = t => v = t
    BY <2>1, <2>2 DEF Behind, AtFront
  <2>4. tail'[ChatOf[v]] = w
    BY <1>2, <2>2, <2>3 DEF Forgotten, TypeInv, TypeOK
  <2>5. CASE w = t
    BY <2>2, <2>3, <2>4, <2>5 DEF Behind, Live
  <2>6. CASE w # t
    <3>1. pc'[w] = pc[w] /\ ahead'[w] = ahead[w]
      BY <1>1, <2>2, <2>6
    <3> QED
      BY <2>2, <2>4, <3>1 DEF Behind, Live
  <2> QED
    BY <2>5, <2>6
<1> QED
  BY <1>4, <1>5, <1>6, <1>7 DEF QueueInv

(* A request joins behind everyone in its chat's line.                      *)
LEMMA ArriveJoins == ASSUME TypeInv, QueueInv, NEW t \in Turns, Arrive(t)
                     PROVE  QueueInv'
<1> DEFINE line == {u \in Turns : ChatOf[u] = ChatOf[t] /\ Live(u)}
<1>1. /\ pc[t] = "new" /\ pc'[t] = "queued" /\ prev'[t] = tail[ChatOf[t]] /\ ahead'[t] = line
      /\ tail'[ChatOf[t]] = t /\ \A c \in Chats \ {ChatOf[t]} : tail'[c] = tail[c]
      /\ \A u \in Turns \ {t} : pc'[u] = pc[u] /\ ahead'[u] = ahead[u] /\ prev'[u] = prev[u]
  <2>1. /\ pc \in [Turns -> {"new", "queued", "done"} \cup Running]
        /\ prev \in [Turns -> Turns \cup {None}]
        /\ tail \in [Chats -> Turns \cup {None}] /\ ChatOf[t] \in Chats
        /\ ahead \in [Turns -> SUBSET Turns]
    BY DEF TypeInv, TypeOK
  <2> QED
    BY <2>1 DEF Arrive
<1>2. ~Live(t) /\ Live(t)' /\ \A u \in Turns \ {t} : Live(u)' <=> Live(u)
  BY <1>1 DEF Live, Running
<1>3. \A u \in Turns : ahead[u] \subseteq Turns \ {t}
  BY <1>1 DEF TypeInv, TypeOK, QueueInv, OnlyQueued
<1>4. Ordered'
  BY <1>1, <1>2 DEF QueueInv, Ordered
<1>5. OnlyQueued'
  BY <1>1, <1>2, <1>3 DEF QueueInv, OnlyQueued, Live, Running
<1>6. Chains'
  <2> SUFFICES ASSUME NEW u \in Turns, pc'[u] = "queued", NEW v \in ahead'[u], Live(v)'
               PROVE  /\ prev'[u] \in Turns /\ Live(prev[u])' /\ prev'[u] \in ahead'[u]
                      /\ Behind(v, prev[u])'
    BY DEF Chains
  <2>1. CASE u = t
    <3>1. v \in Turns \ {t} /\ Live(v) /\ ChatOf[v] = ChatOf[t]
      BY <1>1, <1>2, <2>1
    <3>2. /\ prev'[u] \in Turns /\ Live(prev'[u]) /\ ChatOf[prev'[u]] = ChatOf[t]
          /\ Behind(v, prev'[u])
      BY <1>1, <2>1, <3>1 DEF QueueInv, Tails
    <3>3. prev'[u] # t
      BY <1>2, <3>2
    <3> QED
      BY <1>1, <1>2, <2>1, <3>2, <3>3 DEF Behind, Live
  <2>2. CASE u # t
    <3>1. v \in ahead[u] /\ v \in Turns \ {t} /\ Live(v) /\ pc[u] = "queued"
      BY <1>1, <1>2, <1>3, <2>2
    <3>2. /\ prev[u] \in Turns \ {t} /\ Live(prev[u]) /\ prev[u] \in ahead[u]
          /\ Behind(v, prev[u])
      BY <1>2, <3>1 DEF QueueInv, Chains
    <3> QED
      BY <1>1, <1>2, <2>2, <3>1, <3>2 DEF Behind, Live
  <2> QED
    BY <2>1, <2>2
<1>7. Tails'
  <2> SUFFICES ASSUME NEW v \in Turns, Live(v)'
               PROVE  /\ tail'[ChatOf[v]] \in Turns /\ Live(tail[ChatOf[v]])'
                      /\ ChatOf[tail'[ChatOf[v]]] = ChatOf[v]
                      /\ Behind(v, tail[ChatOf[v]])'
    BY DEF Tails
  <2>1. CASE ChatOf[v] = ChatOf[t]
    BY <1>1, <1>2, <2>1 DEF Behind, Live
  <2>2. CASE ChatOf[v] # ChatOf[t]
    <3>1. Live(v) /\ v # t /\ ChatOf[v] \in Chats
      BY <1>2, <2>2
    <3>2. LET w == tail[ChatOf[v]]
          IN  w \in Turns /\ Live(w) /\ ChatOf[w] = ChatOf[v] /\ Behind(v, w)
      BY <3>1 DEF QueueInv, Tails
    <3> QED
      BY <1>1, <1>2, <2>2, <3>1, <3>2 DEF Behind, Live
  <2> QED
    BY <2>1, <2>2
<1> QED
  BY <1>4, <1>5, <1>6, <1>7 DEF QueueInv
----------------------------------------------------------------------------
(* What a step does to the queue: a request arrives, the one at the front   *)
(* moves on, everything restarts, or nothing happens.                       *)
Moves(t) == \E step \in Running \cup {"done"} :
                /\ Leaves(t, step)
                /\ tail' = IF step = "done" THEN Forgotten(t) ELSE tail

LEMMA OpensMoves == ASSUME NEW t, Opens(t)
                    PROVE  Moves(t) /\ pc[t] = pc[t]
  BY DEF Opens, Goes, Moves, Running

LEMMA QueueSteps ==
    ASSUME TypeInv, QueueInv, [Next]_vars
    PROVE  \/ \E t \in Turns : Arrive(t)
           \/ \E t \in Turns : AtFront(t) /\ Moves(t)
           \/ Restart
           \/ UNCHANGED queueVars
<1>1. ASSUME NEW t \in Turns, Starts(t) PROVE AtFront(t) /\ Moves(t)
  <2>1. MayStart(t)
    BY <1>1 DEF Starts, StartsTurn, SaveFails, TurnedAway, StartsCompletion
  <2>2. Opens(t) \/ Ends(t)
    BY <1>1 DEF Starts, StartsTurn, SaveFails, TurnedAway, StartsCompletion
  <2>3. Ends(t) => Moves(t)
    BY DEF Ends, Moves
  <2> QED
    BY <2>1, <2>2, <2>3, StartsAtFront, OpensMoves
<1>2. ASSUME NEW t \in Turns, AgentAnswers(t)
      PROVE  (AtFront(t) /\ Moves(t)) \/ UNCHANGED queueVars
  <2>1. pc[t] \in Running
    BY <1>2 DEF AgentAnswers, Reattached, ReattachFails, Created, CreateFails, AgentEnds, Running
  <2>2. Goes(t, "prompt") \/ Goes(t, "create") \/ Ends(t) \/ UNCHANGED queueVars
    BY <1>2 DEF AgentAnswers, Reattached, ReattachFails, Created, CreateFails, AgentEnds
  <2>3. Goes(t, "prompt") \/ Goes(t, "create") \/ Ends(t) => Moves(t)
    BY DEF Goes, Ends, Moves, Running
  <2> QED
    BY <2>1, <2>2, <2>3, RunsAtFront
<1>3. ASSUME NEW t \in Turns, AgentCalls(t) \/ AgentAsks(t) \/ Close(t)
      PROVE  UNCHANGED queueVars
  BY <1>3 DEF AgentCalls, AgentAsks, Close
<1>4. ASSUME NEW a \in Asks, Replies(a) \/ ReplyArrives(a) \/ TimesOut(a)
      PROVE  UNCHANGED queueVars
  BY <1>4 DEF Replies, ReplyArrives, TimesOut
<1>5. UNCHANGED vars => UNCHANGED queueVars
  BY DEF vars
<1> QED
  BY <1>1, <1>2, <1>3, <1>4, <1>5 DEF Next

LEMMA QueueInvNext == TypeInv /\ QueueInv /\ [Next]_vars => QueueInv'
<1> SUFFICES ASSUME TypeInv, QueueInv, [Next]_vars PROVE QueueInv'
  OBVIOUS
<1>1. ASSUME NEW t \in Turns, AtFront(t), Moves(t) PROVE QueueInv'
  BY <1>1, FrontMoves DEF Moves
<1>2. CASE Restart
  BY <1>2 DEF Restart, QueueInv, Ordered, OnlyQueued, Chains, Tails, Live, Running, TypeInv, TypeOK
<1>3. CASE UNCHANGED queueVars
  BY <1>3 DEF queueVars, QueueInv, Ordered, OnlyQueued, Chains, Tails, Live, Behind
<1> QED
  BY <1>1, <1>2, <1>3, ArriveJoins, QueueSteps

LEMMA QueueCorrect == Spec => [](TypeInv /\ QueueInv)
  BY TypeInit, QueueInvInit, TypeNext, QueueInvNext, PTL DEF Spec

(* No two requests of a chat are in the backend together, however many      *)
(* wait, leave, fail or are cut off.                                        *)
THEOREM OneTurn == Spec => []OneTurnPerChat
<1>1. TypeInv /\ QueueInv => OneTurnPerChat
  BY DEF QueueInv, Ordered, OnlyQueued, OneTurnPerChat, Live, Running
<1> QED
  BY <1>1, QueueCorrect, PTL
----------------------------------------------------------------------------
(* The refinement of TurnQueue.                                             *)
LEMMA QueueRefinesInit == Init => Queue!QueueInit
  BY DEF Init, Queue!QueueInit, Stage

LEMMA StageOf ==
    ASSUME TypeInv, NEW t \in Turns
    PROVE  /\ Stage(t) = "away" <=> pc[t] = "new"
           /\ Stage(t) = "waiting" <=> pc[t] = "queued"
           /\ Stage(t) = "running" <=> pc[t] \in Running
           /\ Stage(t) = "over" <=> pc[t] = "done"
           /\ Stage(t) \in {"waiting", "running"} <=> Live(t)
  BY DEF TypeInv, TypeOK, Stage, Live, Running

LEMMA QueueRefinesNext ==
    TypeInv /\ QueueInv /\ TypeInv' /\ [Next]_vars => [Queue!QueueNext]_(Queue!queueVars)
<1> SUFFICES ASSUME TypeInv, QueueInv, TypeInv', [Next]_vars
             PROVE  Queue!QueueNext \/ UNCHANGED Queue!queueVars
  OBVIOUS
<1>d. ahead \in [Turns -> SUBSET Turns]
  BY DEF TypeInv, TypeOK
<1>1. ASSUME NEW t \in Turns, Arrive(t) PROVE Queue!Join(t)
  <2>1. Stage(t) = "away" /\ Stage(t)' = "waiting"
    BY <1>1 DEF Arrive, Stage, TypeInv, TypeOK
  <2>2. \A u \in Turns \ {t} : Stage(u)' = Stage(u)
    BY <1>1 DEF Arrive, Stage, TypeInv, TypeOK
  <2>3. {u \in Turns : ChatOf[u] = ChatOf[t] /\ Live(u)} = Queue!Line(ChatOf[t])
    BY StageOf DEF Queue!Line, Queue!InLine
  <2> QED
    BY <1>1, <2>1, <2>2, <2>3 DEF Queue!Join, Arrive
<1>2. ASSUME NEW t \in Turns, AtFront(t), Moves(t)
      PROVE  Queue!Begin(t) \/ Queue!Leave(t) \/ UNCHANGED Queue!queueVars
  <2>1. PICK step \in Running \cup {"done"} : Leaves(t, step)
    BY <1>2 DEF Moves
  <2>2. /\ pc'[t] = step /\ ahead' = [ahead EXCEPT ![t] = {}]
        /\ \A u \in Turns \ {t} : Stage(u)' = Stage(u)
    BY <2>1 DEF Leaves, Stage, TypeInv, TypeOK
  <2>3. \A u \in ahead[t] : u \in Turns /\ Stage(u) = "over"
    <3>1. ASSUME NEW u \in ahead[t] PROVE u \in Turns /\ pc[u] # "new" /\ ~Live(u)
      BY <1>d, <1>2 DEF AtFront, QueueInv, OnlyQueued
    <3>2. ASSUME NEW u \in ahead[t] PROVE Stage(u) = "over"
      BY <3>1 DEF Stage, Live
    <3> QED
      BY <3>1, <3>2
  <2>4. Stage(t) \in {"waiting", "running"}
    BY <1>2, StageOf DEF AtFront
  <2>5. CASE step = "done"
    <3>1. Stage(t)' = "over"
      BY <2>2, <2>5 DEF Stage, Running
    <3> QED
      BY <2>2, <2>3, <2>4, <3>1 DEF Queue!Leave, Queue!InLine
  <2>6. CASE step \in Running
    <3>1. Stage(t)' = "running"
      BY <2>2, <2>6 DEF Stage, Running
    <3>2. CASE Stage(t) = "waiting"
      BY <2>2, <2>3, <3>1, <3>2 DEF Queue!Begin
    <3>3. CASE Stage(t) = "running"
      <4>1. ahead[t] = {}
        BY <3>3, StageOf DEF QueueInv, OnlyQueued, Running
      <4>2. ahead' = ahead
        BY <2>2, <4>1, <1>d
      <4> QED
        BY <2>2, <3>1, <3>3, <4>2 DEF Queue!queueVars
    <3> QED
      BY <2>4, <3>2, <3>3
  <2> QED
    BY <2>5, <2>6
<1>3. CASE Restart
  <2>1. \A t \in Turns : Stage(t)' = IF Live(t) THEN "over" ELSE Stage(t)
    BY <1>3 DEF Restart, Stage, Running
  <2>2. \A t \in Turns : Live(t) <=> Queue!InLine(t)
    BY StageOf DEF Queue!InLine
  <2> QED
    BY <1>3, <2>1, <2>2 DEF Restart, Queue!QueueNext, Queue!Disperse
<1>4. CASE UNCHANGED queueVars
  BY <1>4 DEF queueVars, Queue!queueVars, Stage
<1> QED
  BY <1>1, <1>2, <1>3, <1>4, QueueSteps DEF Queue!QueueNext

(* The promise chain is a line per chat, served in order of arrival.        *)
THEOREM ImplementsTurnQueue == Spec => QueuePromise
  BY QueueCorrect, QueueRefinesInit, QueueRefinesNext, PTL
     DEF Spec, QueuePromise, Queue!QueueSpec

----------------------------------------------------------------------------
(* The check before a turn, continues().  Induction comes first.            *)
HIDE TurnsAssumption

(* Every nonempty set of natural numbers has a least one: induction, in a   *)
(* form without operator parameters.                                        *)
LEMMA LeastNat == ASSUME NEW S \in SUBSET Nat, S # {}
                  PROVE  \E n \in S : \A m \in S : n <= m
<1> DEFINE R == OpToRel(<, Nat)
<1>1. IsWellFoundedOn(R, Nat)
  BY NatLessThanWellFounded
<1>2. \A m, n \in Nat : m < n => <<m, n>> \in R
  BY DEF OpToRel
<1> HIDE DEF R
<1>3. PICK n \in S : \A m \in S : ~(<<m, n>> \in R)
  BY <1>1, WFMin
<1>4. ASSUME NEW m \in S PROVE n <= m
  <2>1. m \in Nat /\ n \in Nat
    OBVIOUS
  <2>2. ~(m < n)
    BY <1>2, <1>3, <2>1
  <2> QED
    BY <2>1, <2>2
<1> QED
  BY <1>4

(* So what holds of 0, and of n + 1 when it holds of n, holds of every      *)
(* natural number.                                                          *)
LEMMA NatSteps == ASSUME NEW S \in SUBSET Nat, 0 \in S, \A n \in S : n + 1 \in S
                  PROVE  S = Nat
<1>1. ASSUME Nat \ S # {} PROVE FALSE
  <2>1. PICK n \in Nat \ S : \A m \in Nat \ S : n <= m
    BY <1>1, LeastNat
  <2>2. n # 0 /\ n - 1 \in Nat /\ n - 1 < n
    BY <2>1
  <2>3. n - 1 \in S
    BY <2>1, <2>2
  <2> QED
    BY <2>1, <2>2, <2>3
<1> QED
  BY <1>1

(* The loop of continues(): i after the k-th message, from i before it; and *)
(* f[k] is i after the first k messages, for k up to n.                     *)
Met(received, earlier, i, k) ==
    IF i < Len(received) /\ received[i + 1] = earlier[k] THEN i + 1 ELSE i
Loop(received, earlier, f, n) ==
    f = [k \in 0..n |-> IF k = 0 THEN 0 ELSE Met(received, earlier, f[k - 1], k)]

LEMMA LoopExists == ASSUME NEW received, NEW earlier, NEW n \in Nat
                    PROVE  \E f : Loop(received, earlier, f, n)
<1> DEFINE S == {m \in Nat : \E f : Loop(received, earlier, f, m)}
<1>1. 0 \in S
  <2>1. Loop(received, earlier, [k \in 0..0 |-> 0], 0)
    BY DEF Loop
  <2> QED
    BY <2>1
<1>2. ASSUME NEW m \in S PROVE m + 1 \in S
  <2>1. PICK f : Loop(received, earlier, f, m)
    OBVIOUS
  <2> DEFINE g == [k \in 0..(m + 1) |->
                       IF k = 0 THEN 0 ELSE Met(received, earlier, f[k - 1], k)]
  <2>2. \A k \in 0..m : g[k] = f[k]
    BY <2>1 DEF Loop
  <2>3. \A k \in 0..(m + 1) : k # 0 => k - 1 \in 0..m
    OBVIOUS
  <2>4. Loop(received, earlier, g, m + 1)
    BY <2>2, <2>3 DEF Loop
  <2> QED
    BY <2>4
<1> HIDE DEF S
<1>3. S = Nat
  <2>1. S \in SUBSET Nat
    BY DEF S
  <2> QED
  BY <1>1, <1>2, <2>1, NatSteps
<1> QED
  BY <1>3 DEF S

LEMMA MatchedLoop == ASSUME NEW received, NEW earlier, Len(earlier) \in Nat
                     PROVE  Loop(received, earlier, Matched(received, earlier), Len(earlier))
<1>1. \E f : Loop(received, earlier, f, Len(earlier))
  BY LoopExists
<1>2. Matched(received, earlier) = CHOOSE f : Loop(received, earlier, f, Len(earlier))
  BY DEF Matched, Loop, Met
<1> QED
  BY <1>1, <1>2

(* Running through a sequence in order: transitive, reflexive, and kept     *)
(* when the longer one, or each of the two, ends in one more message.       *)
LEMMA WithinTrans == ASSUME NEW a, NEW b, NEW c, Within(a, b), Within(b, c)
                     PROVE  Within(a, c)
<1>1. PICK f \in [DOMAIN a -> DOMAIN b] :
               /\ \A i, j \in DOMAIN a : i < j => f[i] < f[j]
               /\ \A i \in DOMAIN a : a[i] = b[f[i]]
  BY DEF Within
<1>2. PICK g \in [DOMAIN b -> DOMAIN c] :
               /\ \A i, j \in DOMAIN b : i < j => g[i] < g[j]
               /\ \A i \in DOMAIN b : b[i] = c[g[i]]
  BY DEF Within
<1> DEFINE h == [i \in DOMAIN a |-> g[f[i]]]
<1>3. h \in [DOMAIN a -> DOMAIN c] /\ \A i \in DOMAIN a : h[i] = g[f[i]]
  BY <1>1, <1>2
<1> HIDE DEF h
<1> QED
  BY <1>1, <1>2, <1>3 DEF Within

LEMMA WithinReflexive == ASSUME NEW a PROVE Within(a, a)
<1> DEFINE f == [i \in DOMAIN a |-> i]
<1>1. f \in [DOMAIN a -> DOMAIN a] /\ \A i \in DOMAIN a : f[i] = i
  OBVIOUS
<1> HIDE DEF f
<1> QED
  BY <1>1 DEF Within

LEMMA WithinAppend ==
    ASSUME NEW T, NEW a \in Seq(T), NEW b \in Seq(T), NEW x \in T, Within(a, b)
    PROVE  Within(a, Append(b, x)) /\ Within(Append(a, x), Append(b, x))
<1> DEFINE a2 == Append(a, x)  b2 == Append(b, x)
<1>1. /\ DOMAIN a = 1..Len(a) /\ DOMAIN b = 1..Len(b) /\ Len(a) \in Nat /\ Len(b) \in Nat
      /\ DOMAIN a2 = 1..(Len(a) + 1) /\ DOMAIN b2 = 1..(Len(b) + 1)
      /\ \A i \in 1..Len(a) : a2[i] = a[i]
      /\ \A i \in 1..Len(b) : b2[i] = b[i]
      /\ a2[Len(a) + 1] = x /\ b2[Len(b) + 1] = x
  OBVIOUS
<1> HIDE DEF a2, b2
<1>2. PICK f \in [DOMAIN a -> DOMAIN b] :
               /\ \A i, j \in DOMAIN a : i < j => f[i] < f[j]
               /\ \A i \in DOMAIN a : a[i] = b[f[i]]
  BY DEF Within
<1>3. Within(a, b2)
  <2>1. f \in [DOMAIN a -> DOMAIN b2] /\ \A i \in DOMAIN a : a[i] = b2[f[i]]
    BY <1>1, <1>2
  <2> QED
    BY <1>2, <2>1 DEF Within
<1>4. Within(a2, b2)
  <2> DEFINE g == [i \in 1..(Len(a) + 1) |-> IF i = Len(a) + 1 THEN Len(b) + 1 ELSE f[i]]
  <2>0. \A i \in 1..(Len(a) + 1) : i # Len(a) + 1 => i \in 1..Len(a)
    BY <1>1
  <2>1. g \in [DOMAIN a2 -> DOMAIN b2]
    BY <1>1, <1>2, <2>0
  <2>2. \A i \in DOMAIN a2 : a2[i] = b2[g[i]]
    BY <1>1, <1>2, <2>0
  <2>3. \A i, j \in DOMAIN a2 : i < j => g[i] < g[j]
    <3> SUFFICES ASSUME NEW i \in DOMAIN a2, NEW j \in DOMAIN a2, i < j PROVE g[i] < g[j]
      OBVIOUS
    <3>1. i \in 1..Len(a) /\ g[i] = f[i] /\ f[i] \in 1..Len(b)
      BY <1>1, <1>2
    <3>2. CASE j = Len(a) + 1
      BY <1>1, <3>1, <3>2
    <3>3. CASE j # Len(a) + 1
      BY <1>1, <1>2, <2>0, <3>1, <3>3
    <3> QED
      BY <3>2, <3>3
  <2> HIDE DEF g
  <2> QED
    BY <2>1, <2>2, <2>3 DEF Within
<1> QED
  BY <1>3, <1>4 DEF a2, b2

(* What continues() accepts does run through the earlier messages: the      *)
(* u[k] received ones it has met lie, in order, among the first k.          *)
LEMMA ContinuesSound == ASSUME NEW T, NEW r \in Seq(T), NEW e \in Seq(T), Continues(r, e)
                        PROVE  Within(r, e)
<1> DEFINE u == Matched(r, e)
<1> DEFINE Good(k, f) == /\ u[k] \in 0..Len(r)
                         /\ f \in [1..u[k] -> 1..k]
                         /\ \A i, j \in 1..u[k] : i < j => f[i] < f[j]
                         /\ \A i \in 1..u[k] : r[i] = e[f[i]]
<1> DEFINE S == {k \in Nat : k <= Len(e) => \E f : Good(k, f)}
<1>1. /\ DOMAIN r = 1..Len(r) /\ DOMAIN e = 1..Len(e) /\ Len(r) \in Nat /\ Len(e) \in Nat
  OBVIOUS
<1>2. u = [k \in 0..Len(e) |-> IF k = 0 THEN 0 ELSE Met(r, e, u[k - 1], k)]
  BY <1>1, MatchedLoop DEF Loop
<1> HIDE DEF u
<1>3. 0 \in S
  <2>1. u[0] = 0
    BY <1>1, <1>2
  <2> DEFINE f == [i \in 1..0 |-> i]
  <2>2. Good(0, f)
    BY <1>1, <2>1
  <2> HIDE DEF Good, f
  <2> QED
    BY <2>2
<1>4. ASSUME NEW k \in S PROVE k + 1 \in S
  <2> SUFFICES ASSUME k + 1 <= Len(e) PROVE \E f : Good(k + 1, f)
    BY <1>1
  <2>0. k \in Nat /\ k + 1 \in 1..Len(e) /\ k <= Len(e)
    BY <1>1
  <2>1. PICK f : Good(k, f)
    BY <2>0
  <2>2. u[k + 1] = Met(r, e, u[k], k + 1)
    BY <1>1, <1>2, <2>0
  <2>3. u[k] \in Nat
    BY <1>1, <2>1
  <2>4. CASE u[k] < Len(r) /\ r[u[k] + 1] = e[k + 1]
    <3>1. u[k + 1] = u[k] + 1
      BY <2>2, <2>4 DEF Met
    <3> DEFINE g == [i \in 1..(u[k] + 1) |-> IF i = u[k] + 1 THEN k + 1 ELSE f[i]]
    <3>a. \A i \in 1..(u[k] + 1) : i # u[k] + 1 => i \in 1..u[k]
      BY <2>3
    <3>b. \A i \in 1..u[k] : f[i] \in 1..k /\ f[i] < k + 1
      BY <2>0, <2>1
    <3>0. \A i \in 1..(u[k] + 1) : i # u[k] + 1 => i \in 1..u[k] /\ f[i] \in 1..k /\ f[i] < k + 1
      BY <3>a, <3>b
    <3>2. g \in [1..u[k + 1] -> 1..(k + 1)]
      BY <2>0, <3>0, <3>1
    <3>3. \A i \in 1..u[k + 1] : r[i] = e[g[i]]
      BY <2>1, <2>4, <3>0, <3>1
    <3>4. \A i, j \in 1..u[k + 1] : i < j => g[i] < g[j]
      <4> SUFFICES ASSUME NEW i \in 1..u[k + 1], NEW j \in 1..u[k + 1], i < j PROVE g[i] < g[j]
        OBVIOUS
      <4>1. i # u[k] + 1
        BY <2>3, <3>1
      <4> QED
        BY <2>1, <3>0, <3>1, <4>1
    <3>5. u[k + 1] \in 0..Len(r)
      BY <1>1, <2>3, <2>4, <3>1
    <3> HIDE DEF g
    <3> QED
      BY <3>2, <3>3, <3>4, <3>5
  <2>5. CASE ~(u[k] < Len(r) /\ r[u[k] + 1] = e[k + 1])
    <3>1. u[k + 1] = u[k]
      BY <2>2, <2>5 DEF Met
    <3>2. f \in [1..u[k + 1] -> 1..(k + 1)]
      BY <2>0, <2>1, <3>1
    <3>3. Good(k + 1, f)
      BY <2>1, <3>1, <3>2
    <3> HIDE DEF Good
    <3> QED
      BY <3>3
  <2> QED
    BY <2>4, <2>5
<1>5. Len(e) \in S
  <2> HIDE DEF Good
  <2>1. S \in SUBSET Nat
    OBVIOUS
  <2> HIDE DEF S
  <2> QED
    BY <1>1, <1>3, <1>4, <2>1, NatSteps
<1>6. PICK f : Good(Len(e), f)
  <2> HIDE DEF Good
  <2>1. \E f : Good(Len(e), f)
    BY <1>1, <1>5
  <2> QED
    BY <2>1
<1>7. u[Len(e)] = Len(r)
  BY DEF Continues, u
<1> QED
  BY <1>1, <1>6, <1>7 DEF Within

(* And it refuses nothing that does: wherever g finds the received ones,    *)
(* after k messages the loop has met all that g finds among them.           *)
LEMMA ContinuesComplete == ASSUME NEW T, NEW r \in Seq(T), NEW e \in Seq(T), Within(r, e)
                           PROVE  Continues(r, e)
<1> DEFINE u == Matched(r, e)
<1>1. /\ DOMAIN r = 1..Len(r) /\ DOMAIN e = 1..Len(e) /\ Len(r) \in Nat /\ Len(e) \in Nat
  OBVIOUS
<1>2. u = [k \in 0..Len(e) |-> IF k = 0 THEN 0 ELSE Met(r, e, u[k - 1], k)]
  BY <1>1, MatchedLoop DEF Loop
<1> HIDE DEF u
<1>g. PICK g \in [1..Len(r) -> 1..Len(e)] :
               /\ \A i, j \in 1..Len(r) : i < j => g[i] < g[j]
               /\ \A i \in 1..Len(r) : r[i] = e[g[i]]
  BY <1>1 DEF Within
<1> DEFINE S == {k \in Nat : k <= Len(e) => /\ u[k] \in 0..Len(r)
                                            /\ \A i \in 1..Len(r) : i > u[k] => g[i] > k}
<1>3. 0 \in S
  <2>1. u[0] = 0
    BY <1>1, <1>2
  <2>2. \A i \in 1..Len(r) : g[i] > 0
    BY <1>1, <1>g
  <2>3. u[0] \in 0..Len(r)
    BY <1>1, <2>1
  <2> QED
    BY <2>1, <2>2, <2>3
<1>4. ASSUME NEW k \in S PROVE k + 1 \in S
  <2> SUFFICES ASSUME k + 1 <= Len(e)
               PROVE  /\ u[k + 1] \in 0..Len(r)
                      /\ \A i \in 1..Len(r) : i > u[k + 1] => g[i] > k + 1
    BY <1>1
  <2>0. k \in Nat /\ k + 1 \in 1..Len(e) /\ k <= Len(e)
    BY <1>1
  <2>1. u[k] \in 0..Len(r) /\ \A i \in 1..Len(r) : i > u[k] => g[i] > k
    BY <2>0
  <2>a. k + 1 \in 0..Len(e) /\ k + 1 # 0 /\ (k + 1) - 1 = k
    BY <1>1, <2>0
  <2>2. u[k + 1] = Met(r, e, u[k], k + 1)
    BY <1>2, <2>a
  <2>3. \A i \in 1..Len(r) : g[i] \in Nat
    BY <1>1, <1>g
  <2>4. CASE u[k] < Len(r) /\ r[u[k] + 1] = e[k + 1]
    <3>1. u[k + 1] = u[k] + 1
      BY <2>2, <2>4 DEF Met
    <3>2. ASSUME NEW i \in 1..Len(r), i > u[k] + 1 PROVE g[i] > k + 1
      <4>1. u[k] + 1 \in 1..Len(r) /\ u[k] + 1 > u[k] /\ u[k] + 1 < i
        BY <1>1, <2>1, <2>4, <3>2
      <4>2. g[u[k] + 1] > k /\ g[u[k] + 1] < g[i] /\ g[i] \in Nat /\ g[u[k] + 1] \in Nat
        BY <1>g, <2>1, <2>3, <4>1
      <4> QED
        BY <2>0, <4>2
    <3> QED
      BY <1>1, <2>1, <2>4, <3>1, <3>2
  <2>5. CASE ~(u[k] < Len(r) /\ r[u[k] + 1] = e[k + 1])
    <3>1. u[k + 1] = u[k]
      BY <2>2, <2>5 DEF Met
    <3>2. ASSUME NEW i \in 1..Len(r), i > u[k] PROVE g[i] > k + 1
      <4> DEFINE f == u[k] + 1
      <4>1. f \in 1..Len(r) /\ f > u[k] /\ (f = i \/ f < i)
        BY <1>1, <2>1, <3>2
      <4>2. g[f] > k /\ g[f] \in Nat /\ r[f] = e[g[f]]
        BY <1>g, <2>1, <2>3, <4>1
      <4>3. r[f] # e[k + 1]
        BY <1>1, <2>1, <2>5, <3>2
      <4>4. g[f] > k + 1
        BY <2>0, <4>2, <4>3
      <4> HIDE DEF f
      <4>5. f < i => g[f] < g[i]
        BY <1>g, <4>1
      <4> QED
        BY <2>0, <2>3, <4>1, <4>2, <4>4, <4>5
    <3> QED
      BY <2>1, <3>1, <3>2
  <2> QED
    BY <2>4, <2>5
<1>5. Len(e) \in S
  <2>1. S \in SUBSET Nat
    OBVIOUS
  <2> HIDE DEF S
  <2> QED
    BY <1>1, <1>3, <1>4, <2>1, NatSteps
<1>6. u[Len(e)] \in 0..Len(r) /\ ~(u[Len(e)] < Len(r))
  <2>1. u[Len(e)] \in 0..Len(r) /\ \A i \in 1..Len(r) : i > u[Len(e)] => g[i] > Len(e)
    BY <1>1, <1>5
  <2>2. \A i \in 1..Len(r) : ~(g[i] > Len(e))
    BY <1>1, <1>g
  <2> QED
    BY <1>1, <2>1, <2>2
<1> QED
  BY <1>1, <1>6 DEF Continues, u

(* The check before a turn decides what its comment promises: the earlier   *)
(* messages contain, in order, every prompt received.                       *)
THEOREM ContinuesMeans ==
    \A received, earlier \in Seq(Prompts) :
        Continues(received, earlier) <=> Within(received, earlier)
  BY ContinuesSound, ContinuesComplete
----------------------------------------------------------------------------
(* No message reaches the agent of a chat that does not continue all those  *)
(* that did.                                                                *)

(* The messages that reached the agent of a chat.                           *)
Told(c) == [i \in DOMAIN sent[c] |-> Message(sent[c][i])]

(* They are on disk, and what is on disk is in memory, whatever else is.    *)
ToldSaved == \A c \in Chats : Within(Told(c), saved[c])
SavedRecorded == \A c \in Chats : Within(saved[c], history[c])

(* Their requests are not yet to come.                                      *)
ToldCame == \A c \in Chats : \A i \in DOMAIN sent[c] : pc[sent[c][i]] # "new"

(* A turn whose session is being opened continues them, and is on disk      *)
(* behind them.                                                             *)
TurnContinues ==
    \A t \in Interactive : pc[t] \in {"reattach", "create"} =>
        /\ Within(Told(ChatOf[t]), Earlier(t))
        /\ Within(Append(Told(ChatOf[t]), Message(t)), saved[ChatOf[t]])

ReplayInv == ToldSaved /\ SavedRecorded /\ ToldCame /\ TurnContinues /\ NeverReplays
USE TurnsAssumption

(* What most steps do to it: nothing is told, and what is on disk stays,    *)
(* whatever is in memory; and no turn begins to open its session.           *)
NoneNew == \A u \in Turns : pc[u] # "new" => pc'[u] # "new"
SameText == /\ \A u \in Turns : pc[u] # "new" => users'[u] = users[u]
            /\ saved' = saved /\ sent' = sent
            /\ \A c \in Chats : Within(saved[c], history'[c])
NoneOpens == \A u \in Interactive : pc'[u] \in {"reattach", "create"}
                                         => pc[u] \in {"reattach", "create"}

LEMMA ReplayInit == Init => ReplayInv
<1> SUFFICES ASSUME Init PROVE ReplayInv
  OBVIOUS
<1>1. \A c \in Chats : sent[c] = <<>> /\ history[c] = <<>> /\ saved[c] = <<>>
  BY DEF Init
<1>2. ASSUME NEW c \in Chats PROVE Told(c) = <<>> /\ DOMAIN sent[c] = {}
  BY <1>1 DEF Told
<1>3. ToldSaved /\ SavedRecorded
  BY <1>1, <1>2, WithinReflexive DEF ToldSaved, SavedRecorded
<1>4. TurnContinues /\ ToldCame /\ NeverReplays
  BY <1>2 DEF Init, TurnContinues, ToldCame, NeverReplays
<1> QED
  BY <1>3, <1>4 DEF ReplayInv

LEMMA AppendIsFunction ==
    ASSUME NEW T, NEW a \in Seq(T), NEW x \in T
    PROVE  Append(a, x) = [i \in 1..(Len(a) + 1) |-> IF i = Len(a) + 1 THEN x ELSE a[i]]
<1> DEFINE b == Append(a, x)
<1>1. b \in Seq(T) /\ Len(a) \in Nat /\ Len(b) = Len(a) + 1
  OBVIOUS
<1>2. ASSUME NEW i \in 1..Len(b) PROVE b[i] = IF i = Len(a) + 1 THEN x ELSE a[i]
  BY <1>1, <1>2
<1> HIDE DEF b
<1>3. b \in [1..Len(b) -> T]
  BY <1>1
<1>4. b = [i \in 1..Len(b) |-> IF i = Len(a) + 1 THEN x ELSE a[i]]
  BY <1>2, <1>3
<1> QED
  BY <1>1, <1>4 DEF b

(* What was told is a sequence of texts; the messages of the requests are   *)
(* texts, whether or not they have come.                                    *)
Texts == Prompts \cup {Message(t) : t \in Turns}

LEMMA TextTypes ==
    ASSUME TypeInv, NEW c \in Chats
    PROVE  /\ sent[c] \in Seq(Interactive) /\ Told(c) \in Seq(Texts)
           /\ Len(Told(c)) = Len(sent[c])
           /\ history[c] \in Seq(Texts) /\ saved[c] \in Seq(Texts)
           /\ \A t \in Turns : Message(t) \in Texts
           /\ \A i \in DOMAIN sent[c] : sent[c][i] \in Turns
<1>1. sent[c] \in Seq(Interactive) /\ history[c] \in Seq(Prompts) /\ saved[c] \in Seq(Prompts)
  BY DEF TypeInv, TypeOK
<1>2. \A t \in Turns : Message(t) \in Texts
  BY DEF Texts
<1>3. Prompts \subseteq Texts
  BY DEF Texts
<1>4. DOMAIN sent[c] = 1..Len(sent[c]) /\ Len(sent[c]) \in Nat
  BY <1>1
<1>5. \A i \in 1..Len(sent[c]) : sent[c][i] \in Turns
  BY <1>1
<1>6. Told(c) \in [1..Len(sent[c]) -> Texts]
  BY <1>2, <1>4, <1>5 DEF Told
<1>7. Told(c) \in Seq(Texts) /\ Len(Told(c)) = Len(sent[c])
  BY <1>4, <1>6
<1> QED
  BY <1>1, <1>2, <1>3, <1>4, <1>5, <1>7

(* A step that neither tells the agent anything nor writes it down.         *)
LEMMA TextKept ==
    ASSUME TypeInv, ReplayInv, SameText, NoneNew, NoneOpens
    PROVE  ReplayInv'
<1>1. \A u \in Turns : pc[u] # "new" => Message(u)' = Message(u) /\ Earlier(u)' = Earlier(u)
  BY DEF SameText, Message, Earlier
<1>2. ASSUME NEW c \in Chats
      PROVE  /\ \A i \in DOMAIN sent[c] : sent[c][i] \in Turns /\ pc[sent[c][i]] # "new"
             /\ \A i \in DOMAIN sent[c] : Message(sent[c][i])' = Message(sent[c][i])
             /\ \A i \in DOMAIN sent[c] : Earlier(sent[c][i])' = Earlier(sent[c][i])
             /\ Told(c)' = Told(c)
  <2>1. \A i \in DOMAIN sent[c] : sent[c][i] \in Turns /\ pc[sent[c][i]] # "new"
    BY TextTypes DEF ReplayInv, ToldCame
  <2>2. \A i \in DOMAIN sent[c] : /\ Last(users'[sent[c][i]]) = Last(users[sent[c][i]])
                                   /\ Front(users'[sent[c][i]]) = Front(users[sent[c][i]])
    BY <2>1 DEF SameText
  <2>3. sent' = sent
    BY DEF SameText
  <2> QED
    BY <2>1, <2>2, <2>3 DEF Told, Message, Earlier
<1>3. ToldSaved' /\ SavedRecorded'
  BY <1>2 DEF ReplayInv, SameText, ToldSaved, SavedRecorded
<1>4. ToldCame'
  BY <1>2 DEF ToldCame, NoneNew, SameText
<1>5. TurnContinues'
  <2> SUFFICES ASSUME NEW t \in Interactive, pc'[t] \in {"reattach", "create"}
               PROVE  /\ Within(Told(ChatOf[t]), Earlier(t))'
                      /\ Within(Append(Told(ChatOf[t]), Message(t)), saved[ChatOf[t]])'
    BY DEF TurnContinues
  <2>1. pc[t] \in {"reattach", "create"} /\ t \in Turns /\ ChatOf[t] \in Chats
    BY DEF NoneOpens
  <2>2. /\ Within(Told(ChatOf[t]), Earlier(t))
        /\ Within(Append(Told(ChatOf[t]), Message(t)), saved[ChatOf[t]])
    BY <2>1 DEF ReplayInv, TurnContinues
  <2>3. Message(t)' = Message(t) /\ Earlier(t)' = Earlier(t) /\ Told(ChatOf[t])' = Told(ChatOf[t])
    BY <1>1, <1>2, <2>1
  <2> QED
    BY <2>2, <2>3 DEF SameText
<1>6. NeverReplays'
  <2> SUFFICES ASSUME NEW c \in Chats, NEW j \in DOMAIN sent[c]
               PROVE  Within([i \in 1..(j - 1) |-> Last(users'[sent[c][i]])],
                             Front(users'[sent[c][j]]))
    BY DEF NeverReplays, Message, Earlier, SameText
  <2>1. DOMAIN sent[c] = 1..Len(sent[c]) /\ Len(sent[c]) \in Nat
    BY TextTypes
  <2>2. \A i \in 1..(j - 1) : i \in DOMAIN sent[c]
    BY <2>1
  <2>3. /\ \A i \in 1..(j - 1) : Last(users'[sent[c][i]]) = Last(users[sent[c][i]])
        /\ Front(users'[sent[c][j]]) = Front(users[sent[c][j]])
    BY <1>2, <2>2 DEF SameText
  <2>4. Within([i \in 1..(j - 1) |-> Last(users[sent[c][i]])], Front(users[sent[c][j]]))
    BY DEF ReplayInv, NeverReplays, Message, Earlier
  <2> QED
    BY <2>3, <2>4
<1> QED
  BY <1>3, <1>4, <1>5, <1>6 DEF ReplayInv

(* The agent is told of t, which continues what it was told.                *)
LEMMA Tells ==
    ASSUME TypeInv, ReplayInv, NEW t \in Interactive, pc'[t] # "new",
           NoneNew, users' = users, sent' = [sent EXCEPT ![ChatOf[t]] = Append(@, t)],
           Within(Told(ChatOf[t]), Earlier(t))
    PROVE  /\ ToldCame' /\ NeverReplays'
           /\ Told(ChatOf[t])' = Append(Told(ChatOf[t]), Message(t))
           /\ \A d \in Chats \ {ChatOf[t]} : Told(d)' = Told(d)
<1> DEFINE c == ChatOf[t]
<1>0. c \in Chats
  OBVIOUS
<1>1. \A u : Message(u)' = Message(u) /\ Earlier(u)' = Earlier(u)
  BY DEF Message, Earlier
<1>2. sent'[c] = Append(sent[c], t) /\ \A d \in Chats \ {c} : sent'[d] = sent[d]
  BY <1>0 DEF TypeInv, TypeOK
<1>3. sent[c] \in Seq(Interactive) /\ Len(sent[c]) \in Nat
  BY <1>0, TextTypes
<1>4. /\ DOMAIN sent'[c] = 1..(Len(sent[c]) + 1) /\ DOMAIN sent[c] = 1..Len(sent[c])
      /\ \A i \in DOMAIN sent[c] : sent'[c][i] = sent[c][i]
      /\ sent'[c][Len(sent[c]) + 1] = t
  BY <1>2, <1>3
<1> HIDE DEF c
<1>5. \A d \in Chats \ {c} : Told(d)' = Told(d)
  BY <1>1, <1>2 DEF Told
<1>6. Told(c)' = Append(Told(c), Message(t))
  <2>1. Told(c) \in Seq(Texts) /\ Len(Told(c)) = Len(sent[c]) /\ Message(t) \in Texts
    BY <1>0, TextTypes
  <2>2. Append(Told(c), Message(t))
           = [i \in 1..(Len(sent[c]) + 1) |->
                 IF i = Len(sent[c]) + 1 THEN Message(t) ELSE Told(c)[i]]
    BY <2>1, AppendIsFunction
  <2>3. Told(c)' = [i \in 1..(Len(sent[c]) + 1) |-> Message(sent'[c][i])]
    BY <1>1, <1>4 DEF Told
  <2>4. ASSUME NEW i \in 1..(Len(sent[c]) + 1)
        PROVE  Message(sent'[c][i])
                 = IF i = Len(sent[c]) + 1 THEN Message(t) ELSE Told(c)[i]
    <3>1. CASE i = Len(sent[c]) + 1
      BY <1>4, <3>1
    <3>2. CASE i # Len(sent[c]) + 1
      <4>1. i \in DOMAIN sent[c]
        BY <1>3, <1>4, <3>2
      <4> QED
        BY <1>4, <3>2, <4>1 DEF Told
    <3> QED
      BY <3>1, <3>2
  <2> QED
    BY <2>2, <2>3, <2>4
<1>7. ToldCame'
  <2> SUFFICES ASSUME NEW d \in Chats, NEW i \in DOMAIN sent'[d]
               PROVE  pc'[sent'[d][i]] # "new"
    BY DEF ToldCame
  <2>1. ASSUME i \in DOMAIN sent[d], sent'[d][i] = sent[d][i] PROVE pc'[sent'[d][i]] # "new"
    <3>1. sent[d][i] \in Turns
      BY <2>1, TextTypes
    <3> QED
      BY <2>1, <3>1 DEF ReplayInv, ToldCame, NoneNew
  <2>2. CASE d = c
    <3>1. CASE i = Len(sent[c]) + 1
      BY <1>4, <2>2, <3>1
    <3>2. CASE i # Len(sent[c]) + 1
      BY <1>3, <1>4, <2>1, <2>2, <3>2
    <3> QED
      BY <3>1, <3>2
  <2>3. CASE d # c
    BY <1>2, <2>1, <2>3
  <2> QED
    BY <2>2, <2>3
<1>8. NeverReplays'
  <2> SUFFICES ASSUME NEW d \in Chats, NEW j \in DOMAIN sent'[d]
               PROVE  Within([i \in 1..(j - 1) |-> Message(sent'[d][i])], Earlier(sent'[d][j]))
    <3>1. ASSUME NEW d \in Chats, NEW j \in DOMAIN sent'[d],
                 Within([i \in 1..(j - 1) |-> Message(sent'[d][i])], Earlier(sent'[d][j]))
          PROVE  Within([i \in 1..(j - 1) |-> Last(users'[sent'[d][i]])],
                        Front(users'[sent'[d][j]]))
      <4>1. [i \in 1..(j - 1) |-> Last(users'[sent'[d][i]])]
               = [i \in 1..(j - 1) |-> Message(sent'[d][i])]
        BY DEF Message
      <4>2. Front(users'[sent'[d][j]]) = Earlier(sent'[d][j])
        BY DEF Earlier
      <4> QED
        BY <3>1, <4>1, <4>2
    <3> QED
      BY <3>1 DEF NeverReplays, Message, Earlier
  <2>1. CASE d # c
    BY <1>2, <2>1 DEF ReplayInv, NeverReplays
  <2>2. CASE d = c /\ j \in DOMAIN sent[c]
    <3>1. \A i \in 1..(j - 1) : i \in DOMAIN sent[c]
      BY <1>3, <1>4, <2>2
    <3>2. [i \in 1..(j - 1) |-> Message(sent'[d][i])] = [i \in 1..(j - 1) |-> Message(sent[c][i])]
      BY <1>4, <2>2, <3>1
    <3> QED
      BY <1>0, <1>4, <2>2, <3>2 DEF ReplayInv, NeverReplays
  <2>3. CASE d = c /\ j \notin DOMAIN sent[c]
    <3>1. j = Len(sent[c]) + 1 /\ j - 1 = Len(sent[c])
      BY <1>3, <1>4, <2>3
    <3>2. [i \in 1..(j - 1) |-> Message(sent'[d][i])] = Told(c)
      BY <1>4, <2>3, <3>1 DEF Told
    <3>3. sent'[d][j] = t
      BY <1>4, <2>3, <3>1
    <3> QED
      BY <3>2, <3>3 DEF c
  <2> QED
    BY <2>1, <2>2, <2>3
<1> QED
  BY <1>5, <1>6, <1>7, <1>8 DEF c

(* A turn starts: what its chat has recorded is continued by it, and all is *)
(* on disk now, with its message behind what was recorded.                  *)
LEMMA Records ==
    ASSUME TypeInv, ReplayInv, NEW t \in Interactive,
           Continues(history[ChatOf[t]], Earlier(t)), users[t] \in Bodies,
           history' = Recorded(t)
    PROVE  /\ Within(Told(ChatOf[t]), Earlier(t))
           /\ Within(Append(Told(ChatOf[t]), Message(t)), history'[ChatOf[t]])
           /\ \A d \in Chats : Within(saved[d], history'[d])
<1> DEFINE c == ChatOf[t]
<1>0. c \in Chats /\ t \in Turns
  OBVIOUS
<1>1. history'[c] = Append(history[c], Message(t)) /\ \A d \in Chats \ {c} : history'[d] = history[d]
  BY <1>0 DEF Recorded, TypeInv, TypeOK
<1>2. /\ Told(c) \in Seq(Texts) /\ history[c] \in Seq(Texts) /\ saved[c] \in Seq(Texts)
      /\ Message(t) \in Texts
  BY <1>0, TextTypes
<1>3. Within(Told(c), history[c]) /\ \A d \in Chats : Within(saved[d], history[d])
  BY <1>0, WithinTrans DEF ReplayInv, ToldSaved, SavedRecorded
<1>4. Earlier(t) \in Seq(Prompts) /\ history[c] \in Seq(Prompts)
  <2>1. users[t] \in Seq(Prompts) \ {<<>>}
    OBVIOUS
  <2> DEFINE b == users[t]
  <2> HIDE DEF b
  <2>2. Len(b) \in Nat /\ Len(b) > 0 /\ b \in Seq(Prompts)
    BY <2>1 DEF b
  <2>3. /\ Len(b) - 1 \in Nat /\ SubSeq(b, 1, Len(b) - 1) = [i \in 1..(Len(b) - 1) |-> b[i]]
        /\ \A i \in 1..(Len(b) - 1) : b[i] \in Prompts
    BY <2>2
  <2>4. SubSeq(b, 1, Len(b) - 1) \in Seq(Prompts)
    BY <2>3
  <2>5. Earlier(t) \in Seq(Prompts)
    BY <2>4 DEF Earlier, Front, b
  <2> QED
    BY <1>0, <2>5 DEF TypeInv, TypeOK
<1> HIDE DEF c
<1>5. Within(history[c], Earlier(t))
  BY <1>4, ContinuesMeans DEF c
<1>6. Within(Told(c), Earlier(t))
  BY <1>3, <1>5, WithinTrans
<1>7. Within(Append(Told(c), Message(t)), history'[c])
  BY <1>1, <1>2, <1>3, WithinAppend
<1>8. ASSUME NEW d \in Chats PROVE Within(saved[d], history'[d])
  <2>1. CASE d = c
    <3>1. Within(saved[c], history[c])
      BY <1>0, <1>3
    <3>2. Within(saved[c], Append(history[c], Message(t)))
      BY <1>2, <3>1, WithinAppend
    <3> QED
      BY <1>1, <2>1, <3>2
  <2>2. CASE d # c
    BY <1>1, <1>3, <2>2
  <2> QED
    BY <2>1, <2>2
<1> QED
  BY <1>6, <1>7, <1>8 DEF c

(* No other turn of a chat is opening its session when one starts.          *)
LEMMA OpensAlone ==
    ASSUME QueueInv, NEW t \in Turns, AtFront(t), NEW u \in Turns \ {t}, ChatOf[u] = ChatOf[t]
    PROVE  pc[u] \notin Running
  BY DEF QueueInv, Ordered, OnlyQueued, AtFront, Live, Running

(* The others that are opening a session still continue what theirs was     *)
(* told, while t is at the front of its chat.                               *)
LEMMA OthersContinue ==
    ASSUME TypeInv, QueueInv, ReplayInv, NEW t \in Turns, AtFront(t),
           \A u \in Turns \ {t} : pc'[u] = pc[u], users' = users,
           \A d \in Chats \ {ChatOf[t]} : Told(d)' = Told(d),
           \A d \in Chats : Within(saved[d], saved'[d]),
           NEW u \in Interactive \ {t}, pc'[u] \in {"reattach", "create"}
    PROVE  /\ Within(Told(ChatOf[u]), Earlier(u))'
           /\ Within(Append(Told(ChatOf[u]), Message(u)), saved[ChatOf[u]])'
<1> DEFINE d == ChatOf[u]
<1>1. pc[u] \in {"reattach", "create"} /\ u \in Turns /\ d \in Chats
  OBVIOUS
<1>2. d # ChatOf[t]
  BY <1>1, OpensAlone DEF Running
<1>3. Within(Told(d), Earlier(u)) /\ Within(Append(Told(d), Message(u)), saved[d])
  BY <1>1 DEF ReplayInv, TurnContinues
<1>4. Message(u)' = Message(u) /\ Earlier(u)' = Earlier(u) /\ Told(d)' = Told(d)
  BY <1>1, <1>2 DEF Message, Earlier
<1>5. Within(saved[d], saved'[d])
  BY <1>1
<1> HIDE DEF d
<1>6. Within(Append(Told(d), Message(u)), saved'[d])
  BY <1>3, <1>5, WithinTrans
<1> QED
  BY <1>3, <1>4, <1>6 DEF d

(* A turn whose prompt is sent, having been written down before.            *)
LEMMA IsPrompted ==
    ASSUME TypeInv, QueueInv, ReplayInv, NEW t \in Interactive, AtFront(t),
           Leaves(t, "prompt"), users' = users,
           sent' = [sent EXCEPT ![ChatOf[t]] = Append(@, t)],
           Within(Told(ChatOf[t]), Earlier(t)),
           Within(Append(Told(ChatOf[t]), Message(t)), saved'[ChatOf[t]]),
           \A d \in Chats : Within(saved[d], saved'[d]) /\ Within(saved'[d], history'[d])
    PROVE  ReplayInv'
<1>1. pc'[t] = "prompt" /\ \A u \in Turns \ {t} : pc'[u] = pc[u]
  BY DEF Leaves, TypeInv, TypeOK
<1>2. NoneNew
  BY <1>1 DEF NoneNew
<1>3. /\ ToldCame' /\ NeverReplays'
      /\ Told(ChatOf[t])' = Append(Told(ChatOf[t]), Message(t))
      /\ \A d \in Chats \ {ChatOf[t]} : Told(d)' = Told(d)
  BY <1>1, <1>2, Tells
<1>4. ToldSaved'
  <2> SUFFICES ASSUME NEW d \in Chats PROVE Within(Told(d)', saved'[d])
    BY DEF ToldSaved
  <2>1. Within(Told(d), saved[d]) /\ Within(saved[d], saved'[d])
    BY DEF ReplayInv, ToldSaved
  <2> QED
    BY <1>3, <2>1, WithinTrans
<1>5. SavedRecorded'
  BY DEF SavedRecorded
<1>6. TurnContinues'
  <2> SUFFICES ASSUME NEW u \in Interactive, pc'[u] \in {"reattach", "create"}
               PROVE  /\ Within(Told(ChatOf[u]), Earlier(u))'
                      /\ Within(Append(Told(ChatOf[u]), Message(u)), saved[ChatOf[u]])'
    BY DEF TurnContinues
  <2>1. u # t
    BY <1>1
  <2> QED
    BY <1>1, <1>3, <2>1, OthersContinue
<1> QED
  BY <1>3, <1>4, <1>5, <1>6 DEF ReplayInv

(* A turn that is written down and whose session is opened first.           *)
LEMMA OpensFirst ==
    ASSUME TypeInv, QueueInv, ReplayInv, NEW t \in Interactive, AtFront(t), pc[t] # "new",
           NEW step \in {"reattach", "create"}, Leaves(t, step), users' = users, sent' = sent,
           Within(Told(ChatOf[t]), Earlier(t)),
           Within(Append(Told(ChatOf[t]), Message(t)), saved'[ChatOf[t]]),
           \A d \in Chats : Within(saved[d], saved'[d]) /\ Within(saved'[d], history'[d])
    PROVE  ReplayInv'
<1>1. pc'[t] = step /\ \A u \in Turns \ {t} : pc'[u] = pc[u]
  BY DEF Leaves, TypeInv, TypeOK
<1>2. \A u : Message(u)' = Message(u) /\ Earlier(u)' = Earlier(u)
  BY DEF Message, Earlier
<1>3. \A d : Told(d)' = Told(d)
  BY <1>2 DEF Told
<1>4. ToldSaved'
  <2> SUFFICES ASSUME NEW d \in Chats PROVE Within(Told(d), saved'[d])
    BY <1>3 DEF ToldSaved
  <2>1. Within(Told(d), saved[d]) /\ Within(saved[d], saved'[d])
    BY DEF ReplayInv, ToldSaved
  <2> QED
    BY <2>1, WithinTrans
<1>5. SavedRecorded'
  BY DEF SavedRecorded
<1>6. ToldCame'
  <2> SUFFICES ASSUME NEW d \in Chats, NEW i \in DOMAIN sent[d] PROVE pc'[sent[d][i]] # "new"
    BY DEF ToldCame
  <2>1. sent[d][i] \in Turns /\ pc[sent[d][i]] # "new"
    BY TextTypes DEF ReplayInv, ToldCame
  <2> QED
    BY <1>1, <2>1
<1>7. TurnContinues'
  <2> SUFFICES ASSUME NEW u \in Interactive, pc'[u] \in {"reattach", "create"}
               PROVE  /\ Within(Told(ChatOf[u]), Earlier(u))'
                      /\ Within(Append(Told(ChatOf[u]), Message(u)), saved[ChatOf[u]])'
    BY DEF TurnContinues
  <2>1. CASE u = t
    BY <1>2, <1>3, <2>1
  <2>2. CASE u # t
    BY <1>1, <1>3, <2>2, OthersContinue
  <2> QED
    BY <2>1, <2>2
<1>8. NeverReplays'
  BY DEF ReplayInv, NeverReplays, Message, Earlier
<1> QED
  BY <1>4, <1>5, <1>6, <1>7, <1>8 DEF ReplayInv

LEMMA ReplayNext == TypeInv /\ QueueInv /\ ReplayInv /\ [Next]_vars => ReplayInv'
<1> SUFFICES ASSUME TypeInv, QueueInv, ReplayInv, [Next]_vars PROVE ReplayInv'
  OBVIOUS
<1>pc. pc \in [Turns -> {"new", "queued", "done"} \cup Running]
  BY DEF TypeInv, TypeOK
<1>kept. SameText /\ NoneNew /\ NoneOpens => ReplayInv'
  BY TextKept
<1>same. ASSUME UNCHANGED <<users, historyVars>> PROVE SameText
  BY <1>same DEF SameText, historyVars, ReplayInv, SavedRecorded
<1>moves. ASSUME NEW t \in Turns, pc[t] # "new", NEW step \in {"prompt", "create", "done"},
                 step = "create" => pc[t] = "reattach", Leaves(t, step)
          PROVE  NoneNew /\ NoneOpens
  BY <1>moves, <1>pc DEF Leaves, NoneNew, NoneOpens
<1>stays. ASSUME UNCHANGED pc PROVE NoneNew /\ NoneOpens
  BY <1>stays DEF NoneNew, NoneOpens
<1>1. ASSUME NEW t \in Turns, Arrive(t) PROVE ReplayInv'
  <2>1. SameText
    BY <1>1 DEF Arrive, SameText, historyVars, ReplayInv, SavedRecorded, TypeInv, TypeOK
  <2>2. NoneNew /\ NoneOpens
    BY <1>1, <1>pc DEF Arrive, NoneNew, NoneOpens
  <2> QED
    BY <1>kept, <2>1, <2>2
<1>2. ASSUME NEW t \in Turns, StartsTurn(t) PROVE ReplayInv'
  <2>1. /\ t \in Interactive /\ MayStart(t) /\ pc[t] = "queued" /\ users' = users
        /\ Continues(history[ChatOf[t]], Earlier(t))
        /\ history' = Recorded(t) /\ saved' = history' /\ Opens(t)
    BY <1>2 DEF StartsTurn, MayStart
  <2>2. AtFront(t) /\ users[t] \in Bodies
    BY <2>1, StartsAtFront DEF TypeInv, BodyRead
  <2>3. /\ Within(Told(ChatOf[t]), Earlier(t))
        /\ Within(Append(Told(ChatOf[t]), Message(t)), saved'[ChatOf[t]])
        /\ \A d \in Chats : Within(saved[d], saved'[d])
    BY <2>1, <2>2, Records
  <2>4. \A d \in Chats : Within(saved'[d], history'[d])
    BY <2>1, WithinReflexive
  <2>5. CASE Goes(t, "prompt") /\ sent' = Prompted(t)
    BY <2>1, <2>2, <2>3, <2>4, <2>5, IsPrompted DEF Goes, Prompted
  <2>6. ASSUME NEW step \in {"reattach", "create"}, Goes(t, step), sent' = sent
        PROVE  ReplayInv'
    BY <2>1, <2>2, <2>3, <2>4, <2>6, OpensFirst DEF Goes
  <2> QED
    BY <2>1, <2>5, <2>6 DEF Opens
<1>3. ASSUME NEW t \in Turns, SaveFails(t) PROVE ReplayInv'
  <2>1. /\ t \in Interactive /\ MayStart(t) /\ pc[t] = "queued" /\ UNCHANGED <<users, saved, sent>>
        /\ Continues(history[ChatOf[t]], Earlier(t)) /\ history' = Recorded(t) /\ Leaves(t, "done")
    BY <1>3 DEF SaveFails, MayStart, Ends
  <2>2. users[t] \in Bodies
    BY <2>1 DEF TypeInv, BodyRead
  <2>3. \A d \in Chats : Within(saved[d], history'[d])
    BY <2>1, <2>2, Records
  <2>4. SameText
    BY <2>1, <2>3 DEF SameText
  <2> QED
    BY <1>kept, <1>moves, <2>1, <2>4
<1>4. ASSUME NEW t \in Turns, TurnedAway(t) PROVE ReplayInv'
  BY <1>4, <1>kept, <1>same, <1>moves DEF TurnedAway, MayStart, Ends
<1>5. ASSUME NEW t \in Turns, StartsCompletion(t) PROVE ReplayInv'
  <2>1. /\ t \notin Interactive /\ pc[t] = "queued" /\ UNCHANGED <<users, history, saved>> /\ Opens(t)
    BY <1>5 DEF StartsCompletion, MayStart
  <2>2. UNCHANGED <<users, historyVars>>
    BY <2>1 DEF Opens, Prompted, historyVars
  <2>3. PICK step \in Running : Leaves(t, step)
    BY <2>1 DEF Opens, Goes, Running
  <2>4. NoneNew /\ NoneOpens
    BY <1>pc, <2>1, <2>3 DEF Leaves, NoneNew, NoneOpens, Running
  <2> QED
    BY <1>kept, <1>same, <2>2, <2>4
<1>6. ASSUME NEW t \in Turns, Reattached(t) \/ Created(t) PROVE ReplayInv'
  <2>1. /\ pc[t] \in {"reattach", "create"} /\ Leaves(t, "prompt") /\ sent' = Prompted(t)
        /\ UNCHANGED <<users, history, saved>>
    BY <1>6 DEF Reattached, Created, Goes
  <2>2. AtFront(t)
    BY <2>1, RunsAtFront DEF Running
  <2>3. CASE t \in Interactive
    <3>1. /\ Within(Told(ChatOf[t]), Earlier(t))
          /\ Within(Append(Told(ChatOf[t]), Message(t)), saved'[ChatOf[t]])
      BY <2>1, <2>3 DEF ReplayInv, TurnContinues
    <3>2. \A d \in Chats : Within(saved[d], saved'[d]) /\ Within(saved'[d], history'[d])
      BY <2>1, WithinReflexive DEF ReplayInv, SavedRecorded
    <3>3. sent' = [sent EXCEPT ![ChatOf[t]] = Append(@, t)]
      BY <2>1, <2>3 DEF Prompted
    <3> QED
      BY <2>1, <2>2, <2>3, <3>1, <3>2, <3>3, IsPrompted
  <2>4. CASE t \notin Interactive
    BY <1>kept, <1>same, <1>moves, <2>1, <2>4 DEF Prompted, historyVars
  <2> QED
    BY <2>3, <2>4
<1>7. ASSUME NEW t \in Turns, ReattachFails(t) PROVE ReplayInv'
  BY <1>7, <1>kept, <1>same, <1>moves, <1>stays DEF ReattachFails, queueVars, Goes
<1>8. ASSUME NEW t \in Turns, CreateFails(t) PROVE ReplayInv'
  BY <1>8, <1>kept, <1>same, <1>moves DEF CreateFails, Ends
<1>9. ASSUME NEW t \in Turns, AgentEnds(t) PROVE ReplayInv'
  BY <1>9, <1>kept, <1>same, <1>moves DEF AgentEnds, Ends
<1>10. ASSUME NEW t \in Turns, AgentCalls(t) \/ AgentAsks(t) \/ Close(t) PROVE ReplayInv'
  BY <1>10, <1>kept, <1>same, <1>stays DEF AgentCalls, AgentAsks, Close, queueVars
<1>11. ASSUME NEW a \in Asks, Replies(a) \/ ReplyArrives(a) \/ TimesOut(a) PROVE ReplayInv'
  BY <1>11, <1>kept, <1>same, <1>stays DEF Replies, ReplyArrives, TimesOut, queueVars
<1>12. CASE Restart
  <2>1. SameText
    BY <1>12, WithinReflexive DEF Restart, SameText
  <2>2. NoneNew /\ NoneOpens
    BY <1>12, <1>pc DEF Restart, NoneNew, NoneOpens, Live, Running
  <2> QED
    BY <1>kept, <2>1, <2>2
<1>13. CASE UNCHANGED vars
  BY <1>13, <1>kept, <1>same, <1>stays DEF vars, queueVars
<1> QED
  BY <1>1, <1>2, <1>3, <1>4, <1>5, <1>6, <1>7, <1>8, <1>9, <1>10, <1>11, <1>12, <1>13
     DEF Next, Starts, AgentAnswers

(* No message reaches the agent but one whose chat's earlier messages       *)
(* contain, in order, every message that reached it before: nothing that    *)
(* was edited, regenerated, cut off by a restart or not saved is replayed.  *)
THEOREM NothingIsReplayed == Spec => []NeverReplays
<1>1. ReplayInv => NeverReplays
  BY DEF ReplayInv
<1> QED
  BY <1>1, ReplayInit, ReplayNext, QueueCorrect, PTL DEF Spec
----------------------------------------------------------------------------
(* The line moves: of a chat's requests one waits for no other.             *)

Lively == {t \in Turns : Live(t)}

(* A chat's tail is in its line, and what a request is chained to was in    *)
(* its line when it came.                                                   *)
LinkInv == /\ \A c \in Chats : tail[c] # None => tail[c] \in Turns /\ ChatOf[tail[c]] = c
                                              /\ Live(tail[c])
           /\ \A u \in Turns : prev[u] # None => prev[u] \in ahead[u]

(* Who was ahead of one that is ahead is ahead, none of itself, and all are *)
(* of one chat.                                                             *)
AheadInv == \A u \in Turns : /\ u \notin ahead[u]
                             /\ \A w \in ahead[u] : /\ ChatOf[w] = ChatOf[u]
                                                    /\ Live(w) =>
                                                         \A v \in ahead[w] : Live(v) => v \in ahead[u]

FrontInv == IsFiniteSet(Lively) /\ LinkInv /\ AheadInv

LEMMA FrontInit == Init => FrontInv
<1> SUFFICES ASSUME Init PROVE FrontInv
  OBVIOUS
<1>1. Lively = {}
  BY DEF Init, Lively, Live, Running
<1>2. LinkInv /\ AheadInv
  BY TurnsAssumption DEF Init, LinkInv, AheadInv
<1> QED
  BY <1>1, <1>2, FS_EmptySet DEF FrontInv

LEMMA ArriveFront == ASSUME TypeInv, QueueInv, FrontInv, NEW t \in Turns, Arrive(t)
                     PROVE  FrontInv'
<1> DEFINE line == {u \in Turns : ChatOf[u] = ChatOf[t] /\ Live(u)}
<1>1. /\ pc \in [Turns -> {"new", "queued", "done"} \cup Running]
      /\ prev \in [Turns -> Turns \cup {None}] /\ tail \in [Chats -> Turns \cup {None}]
      /\ ahead \in [Turns -> SUBSET Turns] /\ ChatOf \in [Turns -> Chats] /\ None \notin Turns
  BY TurnsAssumption DEF TypeInv, TypeOK
<1>2. /\ pc[t] = "new" /\ pc'[t] = "queued" /\ prev'[t] = tail[ChatOf[t]] /\ ahead'[t] = line
      /\ tail'[ChatOf[t]] = t /\ \A c \in Chats \ {ChatOf[t]} : tail'[c] = tail[c]
      /\ \A u \in Turns \ {t} : pc'[u] = pc[u] /\ ahead'[u] = ahead[u] /\ prev'[u] = prev[u]
  BY <1>1 DEF Arrive
<1>3. ~Live(t) /\ Live(t)' /\ \A u \in Turns \ {t} : Live(u)' <=> Live(u)
  BY <1>2 DEF Live, Running
<1>4. \A u \in Turns : ahead[u] \subseteq Turns \ {t}
  BY <1>1, <1>2 DEF QueueInv, OnlyQueued
<1>5. IsFiniteSet(Lively)'
  <2>1. Lively' = Lively \cup {t}
    BY <1>3 DEF Lively
  <2> QED
    BY <2>1, FS_AddElement DEF FrontInv
<1>6. LinkInv'
  <2>1. tail[ChatOf[t]] # None => tail[ChatOf[t]] \in line
    BY <1>1 DEF FrontInv, LinkInv
  <2>2. \A c \in Chats : tail[c] # t
    BY <1>1, <1>3 DEF FrontInv, LinkInv
  <2> QED
    BY <1>1, <1>2, <1>3, <2>1, <2>2 DEF FrontInv, LinkInv
<1>7. AheadInv'
  <2>1. t \notin line /\ line \subseteq Turns
    BY <1>3
  <2>2. ASSUME NEW w \in line, NEW v \in ahead[w], Live(v) PROVE v \in line
    BY <1>1, <2>2 DEF FrontInv, AheadInv
  <2> HIDE DEF line
  <2>3. \A w \in line : ChatOf[w] = ChatOf[t]
    BY DEF line
  <2> QED
    BY <1>2, <1>3, <1>4, <2>1, <2>2, <2>3 DEF FrontInv, AheadInv
<1> QED
  BY <1>5, <1>6, <1>7 DEF FrontInv

LEMMA MovesFront == ASSUME TypeInv, FrontInv, NEW t \in Turns, AtFront(t), Moves(t)
                    PROVE  FrontInv'
<1>1. /\ pc \in [Turns -> {"new", "queued", "done"} \cup Running]
      /\ prev \in [Turns -> Turns \cup {None}] /\ tail \in [Chats -> Turns \cup {None}]
      /\ ahead \in [Turns -> SUBSET Turns] /\ ChatOf \in [Turns -> Chats] /\ None \notin Turns
  BY TurnsAssumption DEF TypeInv, TypeOK
<1>2. PICK step \in Running \cup {"done"} :
        Leaves(t, step) /\ tail' = IF step = "done" THEN Forgotten(t) ELSE tail
  BY DEF Moves
<1>3. /\ pc'[t] = step /\ ahead'[t] = {} /\ prev'[t] = None
      /\ \A u \in Turns \ {t} : pc'[u] = pc[u] /\ ahead'[u] = ahead[u] /\ prev'[u] = prev[u]
  BY <1>1, <1>2 DEF Leaves
<1>4. /\ (step # "done" => Live(t)') /\ Live(t)
      /\ \A u \in Turns \ {t} : Live(u)' <=> Live(u)
  BY <1>2, <1>3 DEF Live, Running, AtFront
<1>5. IsFiniteSet(Lively)'
  <2>1. Lively' \subseteq Lively
    BY <1>4 DEF Lively
  <2> QED
    BY <2>1, FS_Subset DEF FrontInv
<1>6. LinkInv'
  <2>1. \A c \in Chats : tail'[c] = tail[c] \/ (tail'[c] = None /\ tail[c] = t)
    BY <1>1, <1>2 DEF Forgotten
  <2>2. step = "done" => \A c \in Chats : tail'[c] # t
    BY <1>1, <1>2 DEF Forgotten, FrontInv, LinkInv
  <2> QED
    BY <1>1, <1>3, <1>4, <2>1, <2>2 DEF FrontInv, LinkInv
<1>7. AheadInv'
  BY <1>1, <1>3, <1>4 DEF FrontInv, AheadInv
<1> QED
  BY <1>5, <1>6, <1>7 DEF FrontInv

LEMMA FrontNext == TypeInv /\ QueueInv /\ FrontInv /\ [Next]_vars => FrontInv'
<1> SUFFICES ASSUME TypeInv, QueueInv, FrontInv, [Next]_vars PROVE FrontInv'
  OBVIOUS
<1>1. CASE Restart
  <2>1. Lively' = {}
    BY <1>1 DEF Restart, Lively, Live, Running
  <2>2. LinkInv' /\ AheadInv'
    BY <1>1, TurnsAssumption DEF Restart, LinkInv, AheadInv
  <2> QED
    BY <2>1, <2>2, FS_EmptySet DEF FrontInv
<1>2. CASE UNCHANGED queueVars
  BY <1>2 DEF queueVars, FrontInv, LinkInv, AheadInv, Lively, Live
<1> QED
  BY <1>1, <1>2, ArriveFront, MovesFront, QueueSteps

(* The line of a request that is chained is longer than that of the one it  *)
(* is chained to.                                                           *)
LineOf(u) == {v \in ahead[u] : Live(v)}

LEMMA ChainShortens ==
    ASSUME TypeInv, FrontInv, NEW u \in Turns, Chained(u)
    PROVE  /\ prev[u] \in Turns /\ Live(prev[u]) /\ ChatOf[prev[u]] = ChatOf[u]
           /\ Cardinality(LineOf(prev[u])) < Cardinality(LineOf(u))
<1>1. /\ prev[u] \in LineOf(u) /\ prev[u] \in Turns /\ Live(prev[u])
      /\ ChatOf[prev[u]] = ChatOf[u]
  BY DEF Chained, FrontInv, LinkInv, AheadInv, LineOf, TypeInv, TypeOK
<1>2. LineOf(prev[u]) \subseteq LineOf(u) /\ prev[u] \notin LineOf(prev[u])
  BY <1>1 DEF FrontInv, AheadInv, LineOf
<1>3. IsFiniteSet(LineOf(u))
  <2>1. LineOf(u) \subseteq Lively
    BY DEF LineOf, Lively, TypeInv, TypeOK
  <2> QED
    BY <2>1, FS_Subset DEF FrontInv
<1>4. LineOf(prev[u]) # LineOf(u)
  BY <1>1, <1>2
<1>5. Cardinality(LineOf(u)) \in Nat /\ Cardinality(LineOf(prev[u])) \in Nat
  BY <1>2, <1>3, FS_Subset, FS_CardinalityType
<1>6. /\ Cardinality(LineOf(prev[u])) <= Cardinality(LineOf(u))
      /\ Cardinality(LineOf(prev[u])) # Cardinality(LineOf(u))
  BY <1>2, <1>3, <1>4, FS_Subset
<1> QED
  BY <1>1, <1>5, <1>6

(* So the request with the shortest line is chained to none.                *)
LEMMA ShortestMoves == TypeInv /\ FrontInv => LineMoves
<1> SUFFICES ASSUME TypeInv, FrontInv, NEW t \in Turns, Live(t)
             PROVE  \E u \in Turns : ChatOf[u] = ChatOf[t] /\ Live(u) /\ ~Chained(u)
  BY DEF LineMoves
<1> DEFINE Chat == {u \in Turns : ChatOf[u] = ChatOf[t] /\ Live(u)}
           Lengths == {Cardinality(LineOf(u)) : u \in Chat}
<1>1. \A u \in Chat : Cardinality(LineOf(u)) \in Nat
  <2> SUFFICES ASSUME NEW u \in Chat PROVE Cardinality(LineOf(u)) \in Nat
    OBVIOUS
  <2>1. LineOf(u) \subseteq Lively
    BY DEF LineOf, Lively, TypeInv, TypeOK
  <2>2. IsFiniteSet(LineOf(u))
    BY <2>1, FS_Subset DEF FrontInv
  <2> QED
    BY <2>2, FS_CardinalityType
<1>2. Lengths \in SUBSET Nat /\ Lengths # {}
  BY <1>1
<1>3. PICK n \in Lengths : \A m \in Lengths : n <= m
  BY <1>2, LeastNat
<1>4. PICK u \in Chat : n = Cardinality(LineOf(u))
  BY <1>3
<1>5. ASSUME Chained(u) PROVE FALSE
  <2>1. prev[u] \in Chat /\ Cardinality(LineOf(prev[u])) < n
    BY <1>4, <1>5, ChainShortens
  <2>2. n <= Cardinality(LineOf(prev[u]))
    BY <1>3, <2>1
  <2>3. n \in Nat /\ Cardinality(LineOf(prev[u])) \in Nat
    BY <1>1, <1>2, <1>3, <2>1
  <2> QED
    BY <2>1, <2>2, <2>3
<1> QED
  BY <1>4, <1>5

(* However many requests a chat has, and whichever of them leave, fail or   *)
(* are cut off, one of them waits for no other: its line is never stuck.    *)
THEOREM NoCircleOfTurns == Spec => []LineMoves
  BY QueueCorrect, FrontInit, FrontNext, ShortestMoves, PTL DEF Spec
----------------------------------------------------------------------------
(* Where the agent's permission requests are shown without their call.      *)

(* All requests are of one chat: the pod serves one at a time.              *)
OneChat == \A t, u \in Turns : ChatOf[t] = ChatOf[u]

(* Only a prompt that runs has announced a call, which is remembered.       *)
CallsInv == /\ \A t \in announced : pc[t] = "prompt" /\ t \in calls
            /\ blind = {}

LEMMA CallsNext == OneChat /\ TypeInv /\ QueueInv /\ CallsInv /\ [Next]_vars => CallsInv'
<1> SUFFICES ASSUME OneChat, TypeInv, QueueInv, CallsInv, [Next]_vars PROVE CallsInv'
  OBVIOUS
<1>1. /\ pc \in [Turns -> {"new", "queued", "done"} \cup Running]
      /\ announced \subseteq Turns
  BY DEF TypeInv, TypeOK
<1>2. ASSUME UNCHANGED <<announced, calls, blind>>,
             \A t \in Turns : pc[t] = "prompt" => pc'[t] = "prompt"
      PROVE  CallsInv'
  BY <1>1, <1>2 DEF CallsInv
<1>3. ASSUME NEW t \in Turns, pc[t] # "prompt", NEW step, Leaves(t, step),
             UNCHANGED <<announced, calls, blind>>
      PROVE  CallsInv'
  BY <1>1, <1>2, <1>3 DEF Leaves
<1>4. ASSUME NEW t \in Turns, Arrive(t) PROVE CallsInv'
  BY <1>1, <1>2, <1>4 DEF Arrive, callVars
<1>5. ASSUME NEW t \in Turns, Starts(t) PROVE CallsInv'
  <2>1. pc[t] = "queued" /\ UNCHANGED callVars /\ \E step : Leaves(t, step)
    BY <1>5 DEF Starts, StartsTurn, SaveFails, TurnedAway, StartsCompletion, MayStart, Opens,
                Goes, Ends
  <2> QED
    BY <1>3, <2>1 DEF callVars
<1>6. ASSUME NEW t \in Turns, Reattached(t) \/ ReattachFails(t) \/ Created(t) \/ CreateFails(t)
      PROVE  CallsInv'
  <2>1. /\ pc[t] \in {"reattach", "create"} /\ UNCHANGED callVars
        /\ (\E step : Leaves(t, step)) \/ UNCHANGED queueVars
    BY <1>6 DEF Reattached, ReattachFails, Created, CreateFails, Goes, Ends
  <2> QED
    BY <1>2, <1>3, <2>1 DEF callVars, queueVars
<1>7. ASSUME NEW t \in Turns, AgentEnds(t) PROVE CallsInv'
  <2>1. \A u \in announced : u = t
    BY <1>1, <1>7 DEF CallsInv, AgentEnds, OneChat, QueueInv, Ordered, OnlyQueued, Live, Running
  <2> QED
    BY <1>7, <2>1 DEF CallsInv, AgentEnds
<1>8. ASSUME NEW t \in Turns, AgentCalls(t) \/ AgentAsks(t) PROVE CallsInv'
  BY <1>8 DEF CallsInv, AgentCalls, AgentAsks, queueVars
<1>9. ASSUME NEW t \in Turns, Close(t) PROVE CallsInv'
  BY <1>2, <1>9 DEF Close, callVars, queueVars
<1>10. ASSUME NEW a \in Asks, Replies(a) \/ ReplyArrives(a) \/ TimesOut(a) PROVE CallsInv'
  BY <1>2, <1>10 DEF Replies, ReplyArrives, TimesOut, callVars, queueVars
<1>11. CASE Restart
  BY <1>11 DEF Restart, CallsInv
<1>12. CASE UNCHANGED vars
  BY <1>2, <1>12 DEF vars, callVars, queueVars
<1> QED
  BY <1>4, <1>5, <1>6, <1>7, <1>8, <1>9, <1>10, <1>11, <1>12 DEF Next, AgentAnswers

(* An agent that is used in one chat never has a request shown without its  *)
(* title and input: it takes the end of another chat's prompt.              *)
THEOREM OneChatNamesCalls == ASSUME OneChat PROVE Spec => []RequestsNameTheirCall
<1>1. Init => CallsInv
  BY DEF Init, CallsInv
<1>2. TypeInv /\ QueueInv /\ CallsInv /\ [Next]_vars => CallsInv'
  BY CallsNext
<1>3. CallsInv => RequestsNameTheirCall
  BY DEF CallsInv, RequestsNameTheirCall
<1> QED
  BY <1>1, <1>2, <1>3, QueueCorrect, PTL DEF Spec
=============================================================================
