----------------------------- MODULE TurnQueue -----------------------------
(* What agent-adapter promises about the messages of a chat: they wait for  *)
(* the messages that came before them and nothing else, one at a time, in   *)
(* the order they came.  ahead[t] is the line t found when it joined, until *)
(* its turn comes.                                                          *)
CONSTANTS Turns, Chats, ChatOf
VARIABLES stage, ahead

queueVars == <<stage, ahead>>

InLine(t) == stage[t] \in {"waiting", "running"}
Line(c) == {t \in Turns : ChatOf[t] = c /\ InLine(t)}

QueueInit == /\ stage = [t \in Turns |-> "away"]
             /\ ahead = [t \in Turns |-> {}]

Join(t) == /\ stage[t] = "away"
           /\ stage' = [stage EXCEPT ![t] = "waiting"]
           /\ ahead' = [ahead EXCEPT ![t] = Line(ChatOf[t])]

Begin(t) == /\ stage[t] = "waiting"
            /\ \A u \in ahead[t] : stage[u] = "over"
            /\ stage' = [stage EXCEPT ![t] = "running"]
            /\ ahead' = [ahead EXCEPT ![t] = {}]

(* A message whose turn has come may also be turned away at once.           *)
Leave(t) == /\ InLine(t)
            /\ \A u \in ahead[t] : stage[u] = "over"
            /\ stage' = [stage EXCEPT ![t] = "over"]
            /\ ahead' = [ahead EXCEPT ![t] = {}]

(* The adapter restarts: everyone in a line is sent away.                   *)
Disperse == /\ stage' = [t \in Turns |-> IF InLine(t) THEN "over" ELSE stage[t]]
            /\ ahead' = [t \in Turns |-> {}]

QueueNext == \/ \E t \in Turns : Join(t) \/ Begin(t) \/ Leave(t)
             \/ Disperse

QueueSpec == QueueInit /\ [][QueueNext]_queueVars
=============================================================================
