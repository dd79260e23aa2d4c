------------------------------- MODULE MCPod -------------------------------
(* A small instance of AgentPod for TLC.                                    *)
EXTENDS AgentPod
CONSTANTS t1, c1, ka, kb

(* One message, so that the adapter has something to lose.                  *)
MCChatOf == [t \in Turns |-> c1]

(* A catalog, and a later one that brings a skill and requires another.     *)
MCCatalogs == {[required |-> {}, on |-> {ka}, off |-> {}],
               [required |-> {ka}, on |-> {}, off |-> {kb}]}
MCSelections == {[disabled |-> {ka}, enabled |-> {kb}]}
=============================================================================
