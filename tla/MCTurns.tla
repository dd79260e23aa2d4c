------------------------------ MODULE MCTurns ------------------------------
(* Small instances of AgentTurns for TLC.                                   *)
EXTENDS AgentTurns
CONSTANTS t1, t2, t3, t4, c1, c2, p, q

(* Three requests of one chat and one of another.                           *)
MCChatOf == [t \in Turns |-> IF t = t4 THEN c2 ELSE c1]

(* A first message, its edit, and a second message after it.                *)
MCBodies == {<<p>>, <<q>>, <<p, q>>}
=============================================================================
