----------------------------- MODULE MCSessions -----------------------------
(* A small instance of AgentSessions for TLC.                               *)
EXTENDS AgentSessions
CONSTANTS t1, t2, c1

(* Two messages of one chat.                                                *)
MCChatOf == [t \in Turns |-> c1]
=============================================================================
