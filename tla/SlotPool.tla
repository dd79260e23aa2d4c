------------------------------ MODULE SlotPool ------------------------------
(* What the slot manager promises the users: a slot is held by at most one  *)
(* agent, at most K are held, a request is served by an agent that holds a  *)
(* slot, and no slot is taken back while its agent serves a request.        *)
EXTENDS Integers, FiniteSets

CONSTANTS Refs, Reqs, RefOf, K

VARIABLES held,     (* the agents that hold a slot                          *)
          serving   (* the requests being served                            *)

poolVars == <<held, serving>>

PoolInit == held = {} /\ serving = {}

Take(r) == /\ r \notin held
           /\ Cardinality(held) < K
           /\ held' = held \cup {r}
           /\ UNCHANGED serving

Serve(q) == /\ RefOf[q] \in held
            /\ q \notin serving
            /\ serving' = serving \cup {q}
            /\ UNCHANGED held

Finish(q) == /\ q \in serving
             /\ serving' = serving \ {q}
             /\ UNCHANGED held

(* Slots are freed only under agents that serve nobody.                     *)
Free(R) == /\ R \subseteq held
           /\ \A q \in serving : RefOf[q] \notin R
           /\ held' = held \ R
           /\ UNCHANGED serving

(* A restart cuts every request; agents that still run keep their slots.    *)
Recover(R) == /\ R \subseteq held
              /\ held' = R
              /\ serving' = {}

PoolNext == \/ \E r \in Refs : Take(r)
            \/ \E q \in Reqs : Serve(q) \/ Finish(q)
            \/ \E R \in SUBSET Refs : Free(R) \/ Recover(R)

PoolSpec == PoolInit /\ [][PoolNext]_poolVars
=============================================================================
